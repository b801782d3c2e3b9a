------------------------------ MODULE Calendar ------------------------------
(***************************************************************************)
(* Instants, and what the clocks of a time zone show at them, as slaClock  *)
(* and reportScheduler both derive it through Intl.  An instant is a       *)
(* number of hours; the hours of a day and the days of a week are          *)
(* parameters.  A wall reading is an instant too: the reading taken for    *)
(* UTC.                                                                    *)
(***************************************************************************)
EXTENDS Integers

CONSTANTS
  DayLength,   \* hours in a day
  WeekLength,  \* days in a week; day 0 is the first day of a week
  Zones        \* the time zones the settings may name

ASSUME CalendarAssumption ==
  /\ DayLength \in Nat \ {0}
  /\ WeekLength \in Nat \ {0}
  /\ Zones \subseteq [before : Int, after : Int, at : Int]

VARIABLE now   \* the present instant

(* A zone is so far east of UTC before the instant `at', and so far from    *)
(* then on (the start of summer time); before = after if it never changes. *)
Offset(z, t) == IF t < z.at THEN z.before ELSE z.after

Wall(z, t) == t + Offset(z, t)

DayOf(z, t)  == Wall(z, t) \div DayLength
HourOf(z, t) == Wall(z, t) % DayLength

(* The instant at which the zone's clocks show this: one correction, by the *)
(* offset at the reading taken for UTC. *)
FromWall(z, day, hour) ==
  LET reading == day * DayLength + hour
  IN reading - Offset(z, reading)
=============================================================================
