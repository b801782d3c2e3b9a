------------------------------ MODULE SlaClock ------------------------------
(***************************************************************************)
(* The working-time engine (server/src/slaClock.js) under one SLA clock    *)
(* (slaService.js): a cycle starts, gets its due instants, and time goes   *)
(* by.  The settings and the holiday table stay as they are meanwhile.     *)
(***************************************************************************)
EXTENDS Calendar, FiniteSetsExt

CONSTANTS
  Horizon,    \* days the loops look ahead (MAX_DAY_ITERATIONS)
  LoadAhead,  \* days a cycle loads holidays for (HOLIDAY_HORIZON_MS)
  Policies,   \* the settings a behaviour may run under
  Begins,     \* the instants at which a behaviour may begin ...
  MaxNow      \* ... and the last one of a behaviour

(* [zone, open, close, days, holidays, target]: the zone, the hours and     *)
(* days of the working week, the dates of the holiday table, the target. *)
ASSUME SlaAssumption ==
  /\ Horizon \in Nat \ {0} /\ LoadAhead \in Nat
  /\ Begins \subseteq Nat /\ MaxNow \in Nat
  /\ \A p \in Policies :
       /\ p.zone \in Zones
       /\ p.open \in 0 .. DayLength - 1 /\ p.close \in p.open + 1 .. DayLength
       /\ p.days \in SUBSET (0 .. WeekLength - 1) \ {{}}
       /\ p.holidays \in SUBSET Nat
       /\ p.target \in Nat \ {0}

VARIABLES
  policy,  \* what loadSlaPolicy returns, and the SlaHoliday rows
  cycle,   \* startedAt, dueAt and approachAt of the clock, once started
  worked   \* the working hours that have gone by since, hour by hour

vars == <<now, policy, cycle, worked>>

NoCycle == [start |-> -1, due |-> -1, warn |-> -1]

-----------------------------------------------------------------------------
(* The engine.  h is a set of days that do not count. *)

Later(a, b)   == IF a < b THEN b ELSE a
Earlier(a, b) == IF a < b THEN a ELSE b

(* A row of the table is a date, read as UTC midnight of that day. *)
HolidayKeys(z, dates) == {DayOf(z, d * DayLength) : d \in dates}

IsWorkingDay(p, h, day) == day % WeekLength \in p.days /\ day \notin h

Opens(p, day)  == FromWall(p.zone, day, p.open)
Closes(p, day) == FromWall(p.zone, day, p.close)

IsWorkingMoment(p, h, t) ==
  /\ IsWorkingDay(p, h, DayOf(p.zone, t))
  /\ p.open <= HourOf(p.zone, t) /\ HourOf(p.zone, t) < p.close

NextWorkingMoment(p, h, t) ==
  LET today == DayOf(p.zone, t)
      days  == {d \in today .. today + Horizon :
                  /\ IsWorkingDay(p, h, d)
                  /\ d = today => HourOf(p.zone, t) < p.close}
      first == Min(days)
  IN IF IsWorkingMoment(p, h, t) THEN t ELSE Opens(p, first)

(* Mutant: the whole window also on the day the count starts. *)
AvailableWhole(p, h, from, day) ==
  IF IsWorkingDay(p, h, day) THEN Closes(p, day) - Opens(p, day) ELSE 0

(* The part of a day's window from an instant on ... *)
Available(p, h, from, day) ==
  IF IsWorkingDay(p, h, day) THEN Closes(p, day) - Later(from, Opens(p, day)) ELSE 0

(* ... and the part of it that lies between two instants.  The loop ends at *)
(* a window that opens at the end or after it. *)
Part(p, h, from, end, day) ==
  IF IsWorkingDay(p, h, day) /\ Opens(p, day) < end
  THEN Later(0, Earlier(end, Closes(p, day)) - Later(from, Opens(p, day)))
  ELSE 0

(* Both loops go through Horizon days and keep a running sum: at a day,     *)
(* what the days of the span before it came to. *)
Span(first) == first .. first + Horizon - 1

Before(first, part) ==
  LET sum[d \in first .. first + Horizon] ==
        IF d = first THEN 0 ELSE sum[d - 1] + part[d - 1]
  IN sum

WorkingBetween(p, h, start, end) ==
  LET from  == NextWorkingMoment(p, h, start)
      first == DayOf(p.zone, from)
      total == Before(first, [d \in Span(first) |-> Part(p, h, from, end, d)])
  IN IF from >= end THEN 0 ELSE total[first + Horizon]

AddWorking(p, h, start, amount) ==
  LET from  == NextWorkingMoment(p, h, start)
      first == DayOf(p.zone, from)
      used  == Before(first, [d \in Span(first) |-> Available(p, h, from, d)])
      last  == Min({d \in Span(first) : /\ IsWorkingDay(p, h, d)
                                        /\ amount - used[d] <= Available(p, h, from, d)})
  IN IF amount <= 0 THEN from ELSE Later(from, Opens(p, last)) + (amount - used[last])

-----------------------------------------------------------------------------
(* The clock of a cycle. *)

(* loadHolidaysBetween: the rows dated from the day of one instant to the   *)
(* day of another. *)
HolidaysBetween(p, from, to) ==
  HolidayKeys(p.zone, p.holidays \cap (DayOf(p.zone, from) .. DayOf(p.zone, to)))

(* holidaysForCycle. *)
CycleHolidays(p, start) == HolidaysBetween(p, start, start + LoadAhead * DayLength)

(* Three quarters of the target, rounded. *)
WarnAfter(p) == (3 * p.target + 2) \div 4

Init ==
  /\ policy \in Policies /\ now \in Begins
  /\ cycle = NoCycle /\ worked = 0

OpenCycle ==
  /\ cycle = NoCycle
  /\ LET h == CycleHolidays(policy, now)
     IN cycle' = [start |-> now,
                  due   |-> AddWorking(policy, h, now, policy.target),
                  warn  |-> AddWorking(policy, h, now, WarnAfter(policy))]
  /\ UNCHANGED <<now, policy, worked>>

(* The next hour goes by; a cycle counts it if it is one to work in. *)
Tick ==
  /\ now < MaxNow /\ now' = now + 1
  /\ worked' = worked + IF /\ cycle # NoCycle
                           /\ IsWorkingMoment(policy, HolidayKeys(policy.zone, policy.holidays), now)
                        THEN 1 ELSE 0
  /\ UNCHANGED <<policy, cycle>>

Next == OpenCycle \/ Tick

Spec == Init /\ [][Next]_vars

-----------------------------------------------------------------------------
(* "Working milliseconds elapsed between two instants": what is recorded as *)
(* the duration of a cycle is the working time that has gone by, whatever   *)
(* evenings, free days, holidays and changes of the clocks lie between.     *)
(* And a clock is due, and warns, at the first instant at which that much   *)
(* working time has gone by ("a response at 17:00 sharp has consumed the    *)
(* whole day and is on time"), provided that falls within the days whose    *)
(* holidays are loaded. *)
Elapsed == WorkingBetween(policy, HolidaysBetween(policy, cycle.start, now), cycle.start, now)

Reached(t, amount) ==
  t < cycle.start + LoadAhead * DayLength => (now >= t <=> worked >= amount)

ClockExact ==
  cycle # NoCycle => /\ Elapsed = worked
                     /\ Reached(cycle.due, policy.target)
                     /\ Reached(cycle.warn, WarnAfter(policy))

(* "Holidays compare against the zone's calendar days" (slaClock.js:136):   *)
(* no working time passes on a day whose date is in the table. *)
HolidayHeld ==
  DayOf(policy.zone, now) \in policy.holidays =>
    ~IsWorkingMoment(policy, HolidayKeys(policy.zone, policy.holidays), now)

(* "addWorkingMs and workingMsBetween are inverses, so this recovers it     *)
(* exactly" (slaService.js:764): the dashboard's and the SLA report's       *)
(* target of a cycle, counted without holidays, is the target it got. *)
TargetRecovered ==
  cycle # NoCycle => WorkingBetween(policy, {}, cycle.start, cycle.due) = policy.target
=============================================================================
