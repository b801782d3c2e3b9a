--------------------------- MODULE SlaClockProofs ----------------------------
(* Where holidays hold, and where the engine counts exactly, for every      *)
(* instance of SlaClock. *)
EXTENDS SlaClock, FiniteSetTheorems, WellFoundedInduction, TLAPS

(* A reading within a day of a midnight that has passed is of that day. *)
LEMMA SameDay ==
  ASSUME NEW L \in Nat \ {0}, NEW d \in Int, NEW o \in 0 .. L - 1
  PROVE  (d * L + o) \div L = d
<1> DEFINE q == (d * L + o) \div L
           r == (d * L + o) % L
<1>1. d * L \in Int /\ q \in Int /\ r \in 0 .. L - 1 /\ d * L + o = L * q + r
  OBVIOUS
<1>2. (d - q) * L = r - o
  BY <1>1
<1>3. r - o < L /\ r - o > -L
  BY <1>1
<1>4. ~(d - q >= 1)
  <2> SUFFICES ASSUME d - q >= 1 PROVE FALSE
    OBVIOUS
  <2>1. (d - q) * L >= L
    BY <1>1
  <2> QED
    BY <1>2, <1>3, <2>1
<1>5. ~(d - q <= -1)
  <2> SUFFICES ASSUME d - q <= -1 PROVE FALSE
    OBVIOUS
  <2>1. (d - q) * L <= -L
    BY <1>1
  <2> QED
    BY <1>2, <1>3, <2>1
<1> QED
  BY <1>1, <1>4, <1>5

(* The settings are among Policies throughout. *)
LEMMA PolicyStays == Spec => [](policy \in Policies)
<1>1. Init => policy \in Policies
  BY DEF Init
<1>2. policy \in Policies /\ [Next]_vars => (policy \in Policies)'
  BY DEF Next, OpenCycle, Tick, vars
<1> QED
  BY <1>1, <1>2, PTL DEF Spec

(* The date of a holiday is the zone's day for UTC midnight of that date. *)
LEMMA KeysAreDates ==
  ASSUME NEW z \in Zones, NEW dates \in SUBSET Nat,
         z.before \in 0 .. DayLength - 1, z.after \in 0 .. DayLength - 1
  PROVE  HolidayKeys(z, dates) = dates
<1>1. DayLength \in Nat \ {0}
  BY CalendarAssumption
<1>2. ASSUME NEW d \in dates PROVE DayOf(z, d * DayLength) = d
  <2>1. Offset(z, d * DayLength) \in 0 .. DayLength - 1
    BY DEF Offset
  <2>2. d \in Int
    OBVIOUS
  <2> QED
    BY <1>1, <2>1, <2>2, SameDay DEF DayOf, Wall
<1> QED
  BY <1>2 DEF HolidayKeys

(* "Holidays compare against the zone's calendar days" in every zone with   *)
(* such offsets, whatever the hours, the working days and the holiday table *)
(* (slaClock.js:133-157). *)
THEOREM HolidayHeldEast ==
  ASSUME \A p \in Policies : /\ p.zone.before \in 0 .. DayLength - 1
                             /\ p.zone.after \in 0 .. DayLength - 1
  PROVE  Spec => []HolidayHeld
<1>1. policy \in Policies => HolidayHeld
  <2> SUFFICES ASSUME policy \in Policies, DayOf(policy.zone, now) \in policy.holidays
               PROVE  ~IsWorkingMoment(policy, HolidayKeys(policy.zone, policy.holidays), now)
    BY DEF HolidayHeld
  <2>1. policy.zone \in Zones /\ policy.holidays \in SUBSET Nat
    BY SlaAssumption
  <2>2. HolidayKeys(policy.zone, policy.holidays) = policy.holidays
    BY <2>1, KeysAreDates
  <2> QED
    BY <2>2 DEF IsWorkingMoment, IsWorkingDay
<1> QED
  BY <1>1, PolicyStays, PTL
-----------------------------------------------------------------------------
(* Numbers.  The least of a set of integers exists if the set is bounded    *)
(* below; that gives induction over the days and the hours of a span. *)

LEMMA Least ==
  ASSUME NEW T, T \subseteq Nat, T # {}
  PROVE  \E i \in T : \A j \in T : i <= j
<1>1. PICK i \in T : \A j \in T : <<j, i>> \notin OpToRel(<, Nat)
  BY NatLessThanWellFounded, WFMin
<1>2. \A j \in T : ~(j < i)
  BY <1>1, Zenon DEF OpToRel
<1> QED
  BY <1>2

LEMMA LeastInt ==
  ASSUME NEW S, S \subseteq Int, S # {}, NEW lo \in Int, \A x \in S : lo <= x
  PROVE  Min(S) \in S /\ \A x \in S : Min(S) <= x
<1> DEFINE T == {x - lo : x \in S}
<1>1. T \subseteq Nat /\ T # {}
  <2>1. \A x \in S : x - lo \in Nat
    OBVIOUS
  <2> QED
    BY <2>1
<1>2. PICK i \in T : \A j \in T : i <= j
  BY <1>1, Least
<1>3. PICK m \in S : i = m - lo
  BY <1>2
<1>4. ASSUME NEW x \in S PROVE m <= x
  <2>1. x - lo \in T
    OBVIOUS
  <2>2. i <= x - lo
    BY <1>2, <2>1
  <2>3. x \in Int /\ m \in Int
    OBVIOUS
  <2> QED
    BY <1>3, <2>2, <2>3
<1>5. \E y \in S : \A x \in S : y <= x
  BY <1>4
<1> QED
  BY <1>5 DEF Min

(* Two sequences that move by the same steps move equally far. *)
LEMMA SameSteps ==
  ASSUME NEW lo \in Int, NEW hi \in Int, lo <= hi, NEW x, NEW y,
         \A d \in lo .. hi : x[d] \in Int /\ y[d] \in Int,
         \A d \in lo .. hi - 1 : x[d + 1] - x[d] = y[d + 1] - y[d]
  PROVE  x[hi] - x[lo] = y[hi] - y[lo]
<1> SUFFICES ASSUME x[hi] - x[lo] # y[hi] - y[lo] PROVE FALSE
  OBVIOUS
<1> DEFINE S == {d \in lo .. hi : x[d] - x[lo] # y[d] - y[lo]}
           m == Min(S)
<1>1. m \in S /\ \A d \in S : m <= d
  <2>1. S \subseteq Int /\ hi \in S /\ \A d \in S : lo <= d
    OBVIOUS
  <2> HIDE DEF S
  <2> QED
    BY <2>1, LeastInt
<1>2. m \in lo + 1 .. hi
  BY <1>1
<1>3. m - 1 \in lo .. hi - 1 /\ m - 1 \notin S
  BY <1>1, <1>2
<1>4. x[m - 1] - x[lo] = y[m - 1] - y[lo]
  BY <1>3
<1>5. x[m] - x[m - 1] = y[m] - y[m - 1]
  <2> HIDE DEF m
  <2>1. (m - 1) + 1 = m
    BY <1>2
  <2> QED
    BY <1>3, <2>1
<1>6. /\ x[m] \in Int /\ x[m - 1] \in Int /\ x[lo] \in Int
      /\ y[m] \in Int /\ y[m - 1] \in Int /\ y[lo] \in Int
  BY <1>2, <1>3
<1>7. x[m] - x[lo] # y[m] - y[lo]
  BY <1>1
<1> HIDE DEF m
<1> QED
  BY <1>4, <1>5, <1>6, <1>7

(* One that never moves by less does not fall behind. *)
LEMMA LargerSteps ==
  ASSUME NEW lo \in Int, NEW hi \in Int, lo <= hi, NEW x, NEW y,
         \A d \in lo .. hi : x[d] \in Int /\ y[d] \in Int,
         \A d \in lo .. hi - 1 : y[d + 1] - y[d] <= x[d + 1] - x[d]
  PROVE  y[hi] - y[lo] <= x[hi] - x[lo]
<1> SUFFICES ASSUME ~(y[hi] - y[lo] <= x[hi] - x[lo]) PROVE FALSE
  OBVIOUS
<1> DEFINE S == {d \in lo .. hi : ~(y[d] - y[lo] <= x[d] - x[lo])}
           m == Min(S)
<1>1. m \in S /\ \A d \in S : m <= d
  <2>1. S \subseteq Int /\ hi \in S /\ \A d \in S : lo <= d
    OBVIOUS
  <2> HIDE DEF S
  <2> QED
    BY <2>1, LeastInt
<1>2. m \in lo + 1 .. hi
  BY <1>1
<1>3. m - 1 \in lo .. hi - 1 /\ m - 1 \notin S
  BY <1>1, <1>2
<1>4. y[m - 1] - y[lo] <= x[m - 1] - x[lo]
  BY <1>3
<1>5. y[m] - y[m - 1] <= x[m] - x[m - 1]
  <2> HIDE DEF m
  <2>1. (m - 1) + 1 = m
    BY <1>2
  <2> QED
    BY <1>3, <2>1
<1>6. /\ x[m] \in Int /\ x[m - 1] \in Int /\ x[lo] \in Int
      /\ y[m] \in Int /\ y[m - 1] \in Int /\ y[lo] \in Int
  BY <1>2, <1>3
<1>7. ~(y[m] - y[lo] <= x[m] - x[lo])
  BY <1>1
<1> HIDE DEF m
<1> QED
  BY <1>4, <1>5, <1>6, <1>7

(* The loops' running sum is what its recursion says. *)
LEMMA BeforeIs ==
  ASSUME NEW first \in Int, NEW part, \A d \in Span(first) : part[d] \in Int
  PROVE  LET sum == Before(first, part)
         IN /\ sum[first] = 0
            /\ \A d \in first .. first + Horizon : sum[d] \in Int
            /\ \A d \in Span(first) : sum[d + 1] = sum[d] + part[d]
<1> DEFINE Last == first + Horizon
           Sums(n, f) == f = [d \in first .. n |-> IF d = first THEN 0 ELSE f[d - 1] + part[d - 1]]
           Good(n) == \E f : Sums(n, f) /\ \A d \in first .. n : f[d] \in Int
<1>0. Horizon \in Nat \ {0} /\ Last \in Int /\ first <= Last
  BY SlaAssumption
<1>1. Good(first)
  <2> DEFINE f == [d \in first .. first |-> 0]
  <2>1. Sums(first, f) /\ \A d \in first .. first : f[d] \in Int
    OBVIOUS
  <2> QED
    BY <2>1
<1>2. ASSUME NEW n \in first .. Last - 1, Good(n) PROVE Good(n + 1)
  <2>1. PICK f : Sums(n, f) /\ \A d \in first .. n : f[d] \in Int
    BY <1>2
  <2> DEFINE g == [d \in first .. n + 1 |-> IF d = n + 1 THEN f[n] + part[n] ELSE f[d]]
  <2>2. n \in Span(first) /\ part[n] \in Int /\ f[n] \in Int
    BY <2>1, <1>0 DEF Span
  <2>3. \A d \in first .. n + 1 : g[d] \in Int
    BY <2>1, <2>2
  <2>4. ASSUME NEW d \in first .. n + 1
        PROVE  g[d] = IF d = first THEN 0 ELSE g[d - 1] + part[d - 1]
    <3>1. CASE d = n + 1
      <4>1. d # first /\ d - 1 = n /\ n \in first .. n + 1 /\ n # n + 1
        BY <3>1
      <4>2. g[n] = f[n] /\ g[d] = f[n] + part[n]
        BY <3>1, <4>1
      <4> QED
        BY <4>1, <4>2
    <3>2. CASE d # n + 1
      <4>1. d \in first .. n /\ g[d] = f[d]
        BY <3>2
      <4>2. f[d] = IF d = first THEN 0 ELSE f[d - 1] + part[d - 1]
        BY <2>1, <4>1
      <4>3. d # first => g[d - 1] = f[d - 1]
        BY <4>1, <1>0
      <4> QED
        BY <4>1, <4>2, <4>3
    <3> QED
      BY <3>1, <3>2
  <2>5. Sums(n + 1, g)
    BY <2>4
  <2> QED
    BY <2>3, <2>5
<1>3. Good(Last)
  <2> SUFFICES ASSUME ~Good(Last) PROVE FALSE
    OBVIOUS
  <2> HIDE DEF Good, Last
  <2> DEFINE S == {n \in first .. Last : ~Good(n)}
             m == Min(S)
  <2>1. S \subseteq Int /\ S # {} /\ \A n \in S : first <= n
    BY <1>0
  <2>2. m \in S /\ \A n \in S : m <= n
    <3> HIDE DEF S
    <3> QED
      BY <2>1, LeastInt
  <2>3. m - 1 \in first .. Last - 1 /\ (m - 1) + 1 = m
    BY <1>0, <1>1, <2>2
  <2>4. Good(m - 1)
    BY <2>2, <2>3, <1>0
  <2> QED
    BY <1>2, <2>2, <2>3, <2>4
<1>4. PICK f : Sums(Last, f) /\ \A d \in first .. Last : f[d] \in Int
  BY <1>3
<1> DEFINE sum == Before(first, part)
<1>5. sum = CHOOSE g : Sums(Last, g)
  BY DEF Before
<1>6. Sums(Last, sum)
  BY <1>4, <1>5
<1>7. \A d \in first .. Last : sum[d] = IF d = first THEN 0 ELSE sum[d - 1] + part[d - 1]
  <2> HIDE DEF sum
  <2> QED
    BY <1>6
<1> HIDE DEF sum, Sums, Good
<1>8. sum[first] = 0
  BY <1>0, <1>7
<1>9. ASSUME NEW d \in Span(first) PROVE sum[d + 1] = sum[d] + part[d]
  <2>1. d + 1 \in first .. Last /\ d + 1 # first /\ (d + 1) - 1 = d
    BY <1>0 DEF Span
  <2> HIDE DEF Last
  <2> QED
    BY <1>7, <2>1
<1>10. \A d \in first .. Last : sum[d] \in Int
  <2> DEFINE S == {n \in first .. Last : sum[n] \notin Int}
             m == Min(S)
  <2> SUFFICES ASSUME S # {} PROVE FALSE
    OBVIOUS
  <2>1. m \in S /\ \A n \in S : m <= n
    <3>1. S \subseteq Int /\ \A n \in S : first <= n
      OBVIOUS
    <3> HIDE DEF S
    <3> QED
      BY <3>1, LeastInt
  <2>2. m - 1 \in Span(first) /\ (m - 1) + 1 = m
    BY <1>0, <1>8, <2>1 DEF Span
  <2>3. sum[m - 1] \in Int
    BY <1>0, <2>1, <2>2 DEF Span
  <2>4. sum[m] = sum[m - 1] + part[m - 1]
    <3> HIDE DEF m
    <3> QED
      BY <1>9, <2>2
  <2> QED
    BY <2>1, <2>2, <2>3, <2>4
<1> QED
  BY <1>8, <1>9, <1>10 DEF sum
-----------------------------------------------------------------------------
(* The settings the count is exact under.  One offset rules every working   *)
(* day, and is the one read at the hours of its window; the date never goes *)
(* back; where dates are listed, midnight UTC falls on the date it is       *)
(* listed as; the days the loops look ahead have room for the target, and   *)
(* for the instants of a behaviour. *)

AllKeys(p) == HolidayKeys(p.zone, p.holidays)

Steady(p) ==
  \A d \in Int : d % WeekLength \in p.days =>
    \E o \in Int : \A t \in Int :
      \/ t = d * DayLength + p.open
      \/ t = d * DayLength + p.close
      \/ DayOf(p.zone, t) = d
      \/ (t + o) \div DayLength = d
      => Offset(p.zone, t) = o

InOrder(p) == \A s, t \in Int : s <= t => DayOf(p.zone, s) <= DayOf(p.zone, t)

KeysKept(p) ==
  \/ p.holidays = {}
  \/ p.zone.before \in 0 .. DayLength - 1 /\ p.zone.after \in 0 .. DayLength - 1

DaysAhead(p, h, d) == {e \in d + 1 .. d + Horizon - 1 : IsWorkingDay(p, h, e)}

Fits(p, h, amount) ==
  \A d \in Int : Cardinality(DaysAhead(p, h, d)) * (p.close - p.open) >= amount

InReach(p) == \A b \in Begins : DayOf(p.zone, MaxNow) < DayOf(p.zone, b) + Horizon

Ordinary(p) ==
  /\ Steady(p) /\ InOrder(p) /\ KeysKept(p)
  /\ Fits(p, AllKeys(p), p.target) /\ InReach(p)

(* What the assumptions say of a zone and of settings. *)
LEMMA SettingsType ==
  ASSUME NEW p \in Policies
  PROVE  /\ DayLength \in Nat \ {0} /\ WeekLength \in Nat \ {0} /\ Horizon \in Nat \ {0}
         /\ LoadAhead \in Nat /\ MaxNow \in Nat /\ Begins \subseteq Nat
         /\ p.zone \in Zones
         /\ p.open \in 0 .. DayLength - 1 /\ p.close \in p.open + 1 .. DayLength
         /\ p.open \in Int /\ p.close \in Int /\ p.open < p.close
         /\ p.holidays \in SUBSET Nat
         /\ p.target \in Nat \ {0}
         /\ \A t \in Int : Offset(p.zone, t) \in Int
<1>1. /\ DayLength \in Nat \ {0} /\ WeekLength \in Nat \ {0} /\ Horizon \in Nat \ {0}
      /\ LoadAhead \in Nat /\ MaxNow \in Nat /\ Begins \subseteq Nat
      /\ p.zone \in Zones
      /\ p.open \in 0 .. DayLength - 1 /\ p.close \in p.open + 1 .. DayLength
      /\ p.holidays \in SUBSET Nat
      /\ p.target \in Nat \ {0}
  BY SlaAssumption, CalendarAssumption
<1>2. p.zone.before \in Int /\ p.zone.after \in Int
  BY <1>1, CalendarAssumption
<1>3. \A t \in Int : Offset(p.zone, t) \in Int
  BY <1>2 DEF Offset
<1>4. p.open \in Int /\ p.close \in Int /\ p.open < p.close
  BY <1>1
<1> QED
  BY <1>1, <1>3, <1>4

(* The day of a reading, and the hours it is past midnight. *)
LEMMA DayHour ==
  ASSUME NEW L \in Nat \ {0}, NEW w \in Int, NEW d \in Int
  PROVE  /\ w \div L \in Int /\ w % L \in 0 .. L - 1
         /\ w \div L = d <=> (d * L <= w /\ w < d * L + L)
         /\ w \div L = d => w % L = w - d * L
<1>0. w \div L \in Int /\ w % L \in 0 .. L - 1 /\ d * L \in Int
  OBVIOUS
<1>1. w = L * (w \div L) + (w % L)
  OBVIOUS
<1>2. ASSUME w \div L = d PROVE w % L = w - d * L /\ d * L <= w /\ w < d * L + L
  <2>1. w = L * d + (w % L)
    BY <1>1, <1>2
  <2>2. L * d = d * L
    OBVIOUS
  <2>3. w = d * L + (w % L)
    BY <2>1, <2>2
  <2> DEFINE m == d * L
             r == w % L
  <2>4. m \in Int /\ r \in 0 .. L - 1 /\ w = m + r
    BY <1>0, <2>3
  <2> HIDE DEF m, r
  <2>5. r = w - m /\ m <= w /\ w < m + L
    BY <2>4
  <2> QED
    BY <2>5 DEF m, r
<1>3. ASSUME d * L <= w, w < d * L + L PROVE w \div L = d
  <2> DEFINE o == w - d * L
  <2>1. o \in 0 .. L - 1 /\ d * L + o = w
    BY <1>0, <1>3
  <2> HIDE DEF o
  <2> QED
    BY <2>1, SameDay
<1> QED
  BY <1>0, <1>2, <1>3

LEMMA DayType ==
  ASSUME NEW p \in Policies, NEW t \in Int
  PROVE  DayOf(p.zone, t) \in Int /\ HourOf(p.zone, t) \in Int
<1>1. Wall(p.zone, t) \in Int /\ DayLength \in Nat \ {0}
  BY SettingsType DEF Wall
<1> QED
  BY <1>1, DayHour DEF DayOf, HourOf

(* On a day of the working week the window lies where the zone's clocks     *)
(* show the hours of the window (slaClock.js:163-170 against 172-181). *)
LEMMA WindowHolds ==
  ASSUME NEW p \in Policies, Steady(p), NEW d \in Int, d % WeekLength \in p.days
  PROVE  /\ Opens(p, d) \in Int /\ Closes(p, d) \in Int
         /\ Closes(p, d) = Opens(p, d) + (p.close - p.open)
         /\ \A t \in Int : DayOf(p.zone, t) = d =>
              /\ HourOf(p.zone, t) < p.close <=> t < Closes(p, d)
              /\ p.open <= HourOf(p.zone, t) <=> Opens(p, d) <= t
         /\ \A t \in Int : Opens(p, d) <= t /\ t < Closes(p, d) => DayOf(p.zone, t) = d
<1>1. PICK o \in Int : \A t \in Int :
             \/ t = d * DayLength + p.open
             \/ t = d * DayLength + p.close
             \/ DayOf(p.zone, t) = d
             \/ (t + o) \div DayLength = d
             => Offset(p.zone, t) = o
  BY DEF Steady
<1> DEFINE m == d * DayLength
<1>2. /\ m \in Int /\ DayLength \in Nat \ {0}
      /\ p.open \in Int /\ p.close \in Int /\ 0 <= p.open /\ p.open < p.close /\ p.close <= DayLength
  BY SettingsType
<1>3. Offset(p.zone, m + p.open) = o /\ Offset(p.zone, m + p.close) = o
  BY <1>1, <1>2
<1> HIDE DEF m
<1>4. Opens(p, d) = (m + p.open) - o /\ Closes(p, d) = (m + p.close) - o
  <2>1. /\ Opens(p, d) = (m + p.open) - Offset(p.zone, m + p.open)
        /\ Closes(p, d) = (m + p.close) - Offset(p.zone, m + p.close)
    BY DEF Opens, Closes, FromWall, m
  <2> QED
    BY <1>3, <2>1
<1>5. ASSUME NEW t \in Int, DayOf(p.zone, t) = d
      PROVE  HourOf(p.zone, t) = (t + o) - m
  <2>1. Offset(p.zone, t) = o
    BY <1>1, <1>5
  <2>2. (t + o) \div DayLength = d /\ HourOf(p.zone, t) = (t + o) % DayLength
    BY <1>5, <2>1 DEF DayOf, HourOf, Wall
  <2>3. t + o \in Int
    OBVIOUS
  <2>4. (t + o) % DayLength = (t + o) - d * DayLength
    BY <1>2, <2>2, <2>3, DayHour
  <2> QED
    BY <2>2, <2>4 DEF m
<1>6. ASSUME NEW t \in Int, Opens(p, d) <= t, t < Closes(p, d)
      PROVE  DayOf(p.zone, t) = d
  <2>1. m <= t + o /\ t + o < m + DayLength /\ t + o \in Int
    BY <1>2, <1>4, <1>6
  <2>2. (t + o) \div DayLength = d
    BY <1>2, <2>1, DayHour DEF m
  <2>3. Offset(p.zone, t) = o
    BY <1>1, <2>2
  <2> QED
    BY <2>2, <2>3 DEF DayOf, Wall
<1>7. ASSUME NEW t \in Int, DayOf(p.zone, t) = d
      PROVE  /\ HourOf(p.zone, t) < p.close <=> t < Closes(p, d)
             /\ p.open <= HourOf(p.zone, t) <=> Opens(p, d) <= t
  BY <1>2, <1>4, <1>5, <1>7
<1>8. Opens(p, d) \in Int /\ Closes(p, d) \in Int /\ Closes(p, d) = Opens(p, d) + (p.close - p.open)
  BY <1>2, <1>4
<1> QED
  BY <1>6, <1>7, <1>8

(* A moment is worked if and only if it is in the window of its day. *)
LEMMA MomentInWindow ==
  ASSUME NEW p \in Policies, Steady(p), NEW h, NEW t \in Int
  PROVE  IsWorkingMoment(p, h, t) <=>
           LET d == DayOf(p.zone, t)
           IN IsWorkingDay(p, h, d) /\ Opens(p, d) <= t /\ t < Closes(p, d)
<1>1. DayOf(p.zone, t) \in Int
  BY DayType
<1> QED
  BY <1>1, WindowHolds DEF IsWorkingMoment, IsWorkingDay

(* The windows of working days come one after the other. *)
LEMMA WindowsInOrder ==
  ASSUME NEW p \in Policies, Steady(p), InOrder(p), NEW h,
         NEW d \in Int, NEW e \in Int, d < e, IsWorkingDay(p, h, d), IsWorkingDay(p, h, e)
  PROVE  Closes(p, d) <= Opens(p, e)
<1>1. /\ Opens(p, d) \in Int /\ Closes(p, d) \in Int /\ Closes(p, d) = Opens(p, d) + (p.close - p.open)
      /\ \A t \in Int : Opens(p, d) <= t /\ t < Closes(p, d) => DayOf(p.zone, t) = d
  BY WindowHolds DEF IsWorkingDay
<1>2. /\ Opens(p, e) \in Int /\ Closes(p, e) \in Int /\ Closes(p, e) = Opens(p, e) + (p.close - p.open)
      /\ \A t \in Int : Opens(p, e) <= t /\ t < Closes(p, e) => DayOf(p.zone, t) = e
  BY WindowHolds DEF IsWorkingDay
<1>3. p.open \in Int /\ p.close \in Int /\ p.open < p.close
  BY SettingsType
<1>4. DayOf(p.zone, Closes(p, d) - 1) = d /\ Closes(p, d) - 1 \in Int
  BY <1>1, <1>3
<1>5. DayOf(p.zone, Opens(p, e)) = e
  BY <1>2, <1>3
<1>6. ~(Opens(p, e) <= Closes(p, d) - 1)
  BY <1>2, <1>4, <1>5 DEF InOrder
<1> QED
  BY <1>1, <1>2, <1>6

(* A count starts at the first working moment that is not before the start  *)
(* (slaClock.js:188-214). *)
LEMMA RollsForward ==
  ASSUME NEW p \in Policies, Steady(p), InOrder(p), NEW h, NEW s \in Int,
         NEW ahead \in DayOf(p.zone, s) + 1 .. DayOf(p.zone, s) + Horizon,
         IsWorkingDay(p, h, ahead)
  PROVE  LET from == NextWorkingMoment(p, h, s)
         IN /\ from \in Int /\ s <= from /\ IsWorkingMoment(p, h, from)
            /\ \A t \in s .. from - 1 : ~IsWorkingMoment(p, h, t)
<1> DEFINE today == DayOf(p.zone, s)
           days == {d \in today .. today + Horizon :
                      IsWorkingDay(p, h, d) /\ (d = today => HourOf(p.zone, s) < p.close)}
           first == Min(days)
<1>0. today \in Int /\ HourOf(p.zone, s) \in Int /\ Horizon \in Nat
  BY DayType, SettingsType
<1>1. CASE IsWorkingMoment(p, h, s)
  BY <1>1 DEF NextWorkingMoment
<1>2. CASE ~IsWorkingMoment(p, h, s)
  <2>1. NextWorkingMoment(p, h, s) = Opens(p, first)
    BY <1>2 DEF NextWorkingMoment
  <2>2. first \in days /\ \A d \in days : first <= d
    <3>1. ahead \in days /\ days \subseteq Int /\ \A d \in days : today <= d
      BY <1>0
    <3> HIDE DEF days
    <3> QED
      BY <1>0, <3>1, LeastInt
  <2> HIDE DEF first
  <2>3. first \in Int /\ today <= first /\ IsWorkingDay(p, h, first)
    BY <1>0, <2>2
  <2>4. /\ Opens(p, first) \in Int /\ Closes(p, first) \in Int /\ Opens(p, first) < Closes(p, first)
        /\ \A t \in Int : DayOf(p.zone, t) = first =>
             /\ HourOf(p.zone, t) < p.close <=> t < Closes(p, first)
             /\ p.open <= HourOf(p.zone, t) <=> Opens(p, first) <= t
        /\ DayOf(p.zone, Opens(p, first)) = first
    BY <2>3, WindowHolds, SettingsType DEF IsWorkingDay
  <2>5. IsWorkingMoment(p, h, Opens(p, first))
    BY <2>3, <2>4, MomentInWindow
  <2>6. s <= Opens(p, first)
    <3>1. CASE first = today
      <4>1. HourOf(p.zone, s) < p.close
        BY <2>2, <3>1
      <4>2. ~(p.open <= HourOf(p.zone, s))
        BY <1>2, <2>3, <3>1, <4>1 DEF IsWorkingMoment
      <4> QED
        BY <2>4, <3>1, <4>2
    <3>2. CASE first # today
      BY <1>0, <2>3, <2>4, <3>2 DEF InOrder
    <3> QED
      BY <3>1, <3>2
  <2>7. ASSUME NEW t \in s .. Opens(p, first) - 1, IsWorkingMoment(p, h, t) PROVE FALSE
    <3> DEFINE d == DayOf(p.zone, t)
    <3>1. t \in Int /\ s <= t /\ t < Opens(p, first)
      BY <2>4
    <3>2. d \in Int /\ today <= d /\ d <= first
      BY <3>1, <2>4, DayType DEF InOrder
    <3>3. IsWorkingDay(p, h, d) /\ Opens(p, d) <= t /\ t < Closes(p, d)
      BY <2>7, <3>1, MomentInWindow
    <3> HIDE DEF d
    <3>4. d # first
      BY <2>4, <3>1, <3>3
    <3>5. d = today
      BY <2>2, <2>3, <3>2, <3>3, <3>4, <1>0
    <3>6. ~(HourOf(p.zone, s) < p.close)
      BY <2>2, <2>3, <3>2, <3>3, <3>4, <3>5, <1>0
    <3>7. Closes(p, d) \in Int /\ ~(s < Closes(p, d))
      BY <3>2, <3>3, <3>5, <3>6, WindowHolds DEF IsWorkingDay
    <3> QED
      BY <3>1, <3>3, <3>7
  <2> QED
    BY <2>1, <2>4, <2>5, <2>6, <2>7
<1> QED
  BY <1>1, <1>2
-----------------------------------------------------------------------------
(* Counting: workingMsBetween moves by one over each hour that is worked,   *)
(* and by none over the others (slaClock.js:216-236). *)

Counts(p, h, t) == IF IsWorkingMoment(p, h, t) THEN 1 ELSE 0

(* What the loop adds up to from a working moment on. *)
Parts(p, h, from, end) == [d \in Span(DayOf(p.zone, from)) |-> Part(p, h, from, end, d)]

Total(p, h, from, end) ==
  Before(DayOf(p.zone, from), Parts(p, h, from, end))[DayOf(p.zone, from) + Horizon]

LEMMA PartType ==
  ASSUME NEW p \in Policies, Steady(p), NEW h, NEW from \in Int, NEW e \in Int, NEW d \in Int
  PROVE  Part(p, h, from, e, d) \in Int /\ Available(p, h, from, d) \in Int
<1>1. CASE IsWorkingDay(p, h, d)
  <2>1. Opens(p, d) \in Int /\ Closes(p, d) \in Int
    BY <1>1, WindowHolds DEF IsWorkingDay
  <2> QED
    BY <2>1 DEF Part, Available, Later, Earlier
<1>2. CASE ~IsWorkingDay(p, h, d)
  BY <1>2 DEF Part, Available
<1> QED
  BY <1>1, <1>2

LEMMA PartStep ==
  ASSUME NEW p \in Policies, Steady(p), NEW h, NEW from \in Int, NEW e \in Int, NEW d \in Int,
         from <= e
  PROVE  Part(p, h, from, e + 1, d) =
           Part(p, h, from, e, d) + (IF d = DayOf(p.zone, e) THEN Counts(p, h, e) ELSE 0)
<1>1. CASE IsWorkingDay(p, h, d)
  <2>1. /\ Opens(p, d) \in Int /\ Closes(p, d) \in Int /\ Opens(p, d) < Closes(p, d)
        /\ Opens(p, d) <= e /\ e < Closes(p, d) => DayOf(p.zone, e) = d
    BY <1>1, WindowHolds, SettingsType DEF IsWorkingDay
  <2>2. Part(p, h, from, e + 1, d) =
          Part(p, h, from, e, d) + (IF Opens(p, d) <= e /\ e < Closes(p, d) THEN 1 ELSE 0)
    BY <1>1, <2>1 DEF Part, Later, Earlier
  <2>3. d = DayOf(p.zone, e) =>
          (IsWorkingMoment(p, h, e) <=> Opens(p, d) <= e /\ e < Closes(p, d))
    BY <1>1, MomentInWindow
  <2> QED
    BY <2>1, <2>2, <2>3 DEF Counts
<1>2. CASE ~IsWorkingDay(p, h, d)
  BY <1>2 DEF Part, Counts, IsWorkingMoment
<1> QED
  BY <1>1, <1>2

LEMMA TotalType ==
  ASSUME NEW p \in Policies, Steady(p), NEW h, NEW from \in Int, NEW e \in Int
  PROVE  LET first == DayOf(p.zone, from)
             sum   == Before(first, Parts(p, h, from, e))
         IN /\ first \in Int /\ Horizon \in Nat \ {0}
            /\ Total(p, h, from, e) = sum[first + Horizon] /\ Total(p, h, from, e) \in Int
            /\ sum[first] = 0
            /\ \A d \in first .. first + Horizon : sum[d] \in Int
            /\ \A d \in Span(first) : sum[d + 1] = sum[d] + Part(p, h, from, e, d)
<1> DEFINE first == DayOf(p.zone, from)
           sum == Before(first, Parts(p, h, from, e))
<1>1. first \in Int /\ Horizon \in Nat \ {0}
  BY DayType, SettingsType
<1>2. \A d \in Span(first) : Parts(p, h, from, e)[d] = Part(p, h, from, e, d) /\ Part(p, h, from, e, d) \in Int
  BY <1>1, PartType DEF Parts, Span
<1>3. /\ sum[first] = 0
      /\ \A d \in first .. first + Horizon : sum[d] \in Int
      /\ \A d \in Span(first) : sum[d + 1] = sum[d] + Parts(p, h, from, e)[d]
  <2> HIDE DEF first
  <2> QED
    BY <1>1, <1>2, BeforeIs
<1>4. first + Horizon \in first .. first + Horizon
  BY <1>1
<1> QED
  BY <1>1, <1>2, <1>3, <1>4 DEF Total

(* Nothing is counted up to the first moment. *)
LEMMA TotalNone ==
  ASSUME NEW p \in Policies, Steady(p), NEW h, NEW from \in Int
  PROVE  Total(p, h, from, from) = 0
<1> DEFINE first == DayOf(p.zone, from)
           sum == Before(first, Parts(p, h, from, from))
           none == [d \in first .. first + Horizon |-> 0]
<1>1. /\ first \in Int /\ Horizon \in Nat \ {0}
      /\ Total(p, h, from, from) = sum[first + Horizon] /\ sum[first] = 0
      /\ \A d \in first .. first + Horizon : sum[d] \in Int
      /\ \A d \in Span(first) : sum[d + 1] = sum[d] + Part(p, h, from, from, d)
  BY TotalType
<1> HIDE DEF first, sum
<1>2. ASSUME NEW d \in first .. first + Horizon - 1 PROVE sum[d + 1] - sum[d] = none[d + 1] - none[d]
  <2>1. d \in Int /\ d \in Span(first)
    BY <1>1 DEF Span
  <2>2. Part(p, h, from, from, d) = 0
    <3>1. CASE IsWorkingDay(p, h, d)
      <4>1. Opens(p, d) \in Int /\ Closes(p, d) \in Int
        BY <2>1, <3>1, WindowHolds DEF IsWorkingDay
      <4> QED
        BY <4>1 DEF Part, Later, Earlier
    <3> QED
      BY <3>1 DEF Part
  <2>3. sum[d + 1] = sum[d] + 0 /\ sum[d] \in Int
    BY <1>1, <2>1, <2>2
  <2>4. none[d + 1] = 0 /\ none[d] = 0
    BY <1>1
  <2> QED
    BY <2>3, <2>4
<1>3. sum[first + Horizon] - sum[first] = none[first + Horizon] - none[first]
  <2>1. \A d \in first .. first + Horizon : none[d] = 0
    OBVIOUS
  <2> HIDE DEF none
  <2>2. first + Horizon \in Int /\ first <= first + Horizon
    BY <1>1
  <2>3. \A d \in first .. first + Horizon : sum[d] \in Int /\ none[d] \in Int
    BY <1>1, <2>1
  <2> QED
    BY <1>1, <1>2, <2>2, <2>3, SameSteps
<1>4. none[first + Horizon] = 0 /\ none[first] = 0 /\ sum[first + Horizon] \in Int
  BY <1>1
<1> QED
  BY <1>1, <1>3, <1>4

LEMMA TotalStep ==
  ASSUME NEW p \in Policies, Steady(p), InOrder(p), NEW h, NEW from \in Int, NEW e \in Int,
         from <= e, DayOf(p.zone, e) < DayOf(p.zone, from) + Horizon
  PROVE  Total(p, h, from, e + 1) = Total(p, h, from, e) + Counts(p, h, e)
<1> DEFINE first == DayOf(p.zone, from)
           today == DayOf(p.zone, e)
           a == Before(first, Parts(p, h, from, e))
           b == Before(first, Parts(p, h, from, e + 1))
           c == Counts(p, h, e)
<1>1. /\ first \in Int /\ Horizon \in Nat \ {0}
      /\ Total(p, h, from, e) = a[first + Horizon] /\ a[first] = 0
      /\ \A d \in first .. first + Horizon : a[d] \in Int
      /\ \A d \in Span(first) : a[d + 1] = a[d] + Part(p, h, from, e, d)
  BY TotalType
<1>2. /\ Total(p, h, from, e + 1) = b[first + Horizon] /\ b[first] = 0
      /\ \A d \in first .. first + Horizon : b[d] \in Int
      /\ \A d \in Span(first) : b[d + 1] = b[d] + Part(p, h, from, e + 1, d)
  <2>1. e + 1 \in Int
    OBVIOUS
  <2> QED
    BY <2>1, TotalType
<1>3. today \in Int /\ first <= today /\ today < first + Horizon
  BY DayType DEF InOrder
<1>4. c \in Int
  BY DEF Counts
<1>5. ASSUME NEW d \in Span(first)
      PROVE  b[d + 1] - b[d] = (a[d + 1] - a[d]) + (IF d = today THEN c ELSE 0)
  <2>1. d \in Int /\ d \in first .. first + Horizon /\ d + 1 \in first .. first + Horizon
    BY <1>1 DEF Span
  <2>2. Part(p, h, from, e + 1, d) = Part(p, h, from, e, d) + (IF d = today THEN c ELSE 0)
    BY <2>1, PartStep
  <2>3. Part(p, h, from, e, d) \in Int /\ a[d] \in Int /\ b[d] \in Int
    BY <1>1, <1>2, <2>1, PartType
  <2>4. a[d + 1] = a[d] + Part(p, h, from, e, d) /\ b[d + 1] = b[d] + Part(p, h, from, e + 1, d)
    BY <1>1, <1>2
  <2> HIDE DEF a, b, c, today, first
  <2> QED
    BY <1>4, <2>2, <2>3, <2>4
<1> HIDE DEF a, b, c, today, first
<1> DEFINE x == [d \in first .. first + Horizon |-> a[d] + (IF d <= today THEN 0 ELSE c)]
<1>6. \A d \in first .. first + Horizon : x[d] \in Int /\ b[d] \in Int
  BY <1>1, <1>2, <1>4
<1>7. ASSUME NEW d \in first .. first + Horizon - 1 PROVE x[d + 1] - x[d] = b[d + 1] - b[d]
  <2>1. d \in Span(first) /\ d \in first .. first + Horizon /\ d + 1 \in first .. first + Horizon
    BY <1>1 DEF Span
  <2>2. /\ x[d + 1] = a[d + 1] + (IF d + 1 <= today THEN 0 ELSE c)
        /\ x[d] = a[d] + (IF d <= today THEN 0 ELSE c)
    BY <2>1
  <2>3. a[d] \in Int /\ a[d + 1] \in Int /\ d \in Int
    BY <1>1, <2>1
  <2>4. x[d + 1] - x[d] = (a[d + 1] - a[d]) + (IF d = today THEN c ELSE 0)
    BY <1>3, <1>4, <2>2, <2>3
  <2> QED
    BY <1>5, <2>1, <2>4
<1>8. x[first + Horizon] - x[first] = b[first + Horizon] - b[first]
  <2> HIDE DEF x
  <2> DEFINE last == first + Horizon
  <2>1. last \in Int /\ first <= last
    BY <1>1
  <2>2. \A d \in first .. last : x[d] \in Int /\ b[d] \in Int
    BY <1>6
  <2>3. ASSUME NEW d \in first .. last - 1 PROVE x[d + 1] - x[d] = b[d + 1] - b[d]
    <3>1. d \in first .. first + Horizon - 1
      BY <1>1
    <3> HIDE DEF last
    <3> QED
      BY <1>7, <3>1
  <2> HIDE DEF last
  <2>4. first \in Int
    BY <1>1
  <2>5. x[last] - x[first] = b[last] - b[first]
    BY <2>1, <2>2, <2>3, <2>4, SameSteps
  <2> QED
    BY <2>5 DEF last
<1>9. x[first + Horizon] = a[first + Horizon] + c /\ x[first] = 0
  <2>1. /\ first \in first .. first + Horizon /\ first <= today
        /\ first + Horizon \in first .. first + Horizon /\ ~(first + Horizon <= today)
    BY <1>1, <1>3
  <2>2. x[first + Horizon] = a[first + Horizon] + c /\ x[first] = a[first] + 0
    BY <2>1
  <2> QED
    BY <1>1, <2>2
<1>10. a[first + Horizon] \in Int /\ b[first + Horizon] \in Int
  BY <1>1, <1>2
<1> HIDE DEF x
<1> QED
  BY <1>1, <1>2, <1>4, <1>8, <1>9, <1>10 DEF c

(* Where the count of a start can find a working day to begin on. *)
Rolls(p, h, s) ==
  \E d \in DayOf(p.zone, s) + 1 .. DayOf(p.zone, s) + Horizon : IsWorkingDay(p, h, d)

LEMMA BetweenIs ==
  ASSUME NEW p \in Policies, Steady(p), InOrder(p), NEW h, NEW s \in Int, Rolls(p, h, s)
  PROVE  LET from == NextWorkingMoment(p, h, s)
         IN /\ from \in Int /\ s <= from /\ IsWorkingMoment(p, h, from)
            /\ DayOf(p.zone, s) <= DayOf(p.zone, from)
            /\ \A t \in s .. from - 1 : ~IsWorkingMoment(p, h, t)
            /\ \A e \in Int : WorkingBetween(p, h, s, e) = IF e <= from THEN 0 ELSE Total(p, h, from, e)
            /\ \A e \in Int : WorkingBetween(p, h, s, e) \in Int
<1> DEFINE from == NextWorkingMoment(p, h, s)
<1>1. from \in Int /\ s <= from /\ IsWorkingMoment(p, h, from) /\ \A t \in s .. from - 1 : ~IsWorkingMoment(p, h, t)
  BY RollsForward DEF Rolls
<1>2. DayOf(p.zone, s) <= DayOf(p.zone, from)
  BY <1>1 DEF InOrder
<1>3. ASSUME NEW e \in Int
      PROVE  WorkingBetween(p, h, s, e) = IF from >= e THEN 0 ELSE Total(p, h, from, e)
  BY Zenon DEF WorkingBetween, Total, Parts
<1> HIDE DEF from
<1>4. \A e \in Int : WorkingBetween(p, h, s, e) = IF e <= from THEN 0 ELSE Total(p, h, from, e)
  BY <1>1, <1>3
<1>5. ASSUME NEW e \in Int PROVE WorkingBetween(p, h, s, e) \in Int
  <2>1. Total(p, h, from, e) \in Int
    BY <1>1, TotalType
  <2> QED
    BY <1>4, <2>1
<1> QED
  BY <1>1, <1>2, <1>4, <1>5 DEF from

(* Counted from any instant on, nothing at first, and then each hour as it  *)
(* is: the whole of workingMsBetween. *)
LEMMA BetweenStarts ==
  ASSUME NEW p \in Policies, Steady(p), InOrder(p), NEW h, NEW s \in Int, Rolls(p, h, s)
  PROVE  WorkingBetween(p, h, s, s) = 0
BY BetweenIs

LEMMA BetweenStep ==
  ASSUME NEW p \in Policies, Steady(p), InOrder(p), NEW h, NEW s \in Int, Rolls(p, h, s),
         NEW e \in Int, s <= e,
         DayOf(p.zone, e) < DayOf(p.zone, NextWorkingMoment(p, h, s)) + Horizon
  PROVE  WorkingBetween(p, h, s, e + 1) = WorkingBetween(p, h, s, e) + Counts(p, h, e)
<1> DEFINE from == NextWorkingMoment(p, h, s)
<1>1. /\ from \in Int /\ s <= from
      /\ \A t \in s .. from - 1 : ~IsWorkingMoment(p, h, t)
      /\ \A u \in Int : WorkingBetween(p, h, s, u) = IF u <= from THEN 0 ELSE Total(p, h, from, u)
  BY BetweenIs
<1> HIDE DEF from
<1>2. CASE e < from
  <2>1. Counts(p, h, e) = 0
    BY <1>1, <1>2 DEF Counts
  <2>2. WorkingBetween(p, h, s, e + 1) = 0 /\ WorkingBetween(p, h, s, e) = 0
    BY <1>1, <1>2
  <2> QED
    BY <2>1, <2>2
<1>3. CASE from <= e
  <2>1. Total(p, h, from, e + 1) = Total(p, h, from, e) + Counts(p, h, e)
    BY <1>1, <1>3, TotalStep DEF from
  <2>2. WorkingBetween(p, h, s, e + 1) = Total(p, h, from, e + 1)
    BY <1>1, <1>3
  <2>3. WorkingBetween(p, h, s, e) = Total(p, h, from, e)
    BY <1>1, <1>3, TotalNone
  <2> QED
    BY <2>1, <2>2, <2>3
<1> QED
  BY <1>1, <1>2, <1>3
-----------------------------------------------------------------------------
(* Adding: addWorkingMs lands at the end of the hour that completes the     *)
(* amount (slaClock.js:238-259). *)

LEMMA Times ==
  ASSUME NEW a \in Int, NEW b \in Int, a <= b, NEW w \in Int, 0 <= w
  PROVE  a * w <= b * w
<1>1. (b - a) * w >= 0 /\ (b - a) * w = b * w - a * w
  OBVIOUS
<1>2. a * w \in Int /\ b * w \in Int
  OBVIOUS
<1> QED
  BY <1>1, <1>2

LEMMA AheadFinite ==
  ASSUME NEW p \in Policies, NEW h, NEW d \in Int
  PROVE  IsFiniteSet(DaysAhead(p, h, d)) /\ Cardinality(DaysAhead(p, h, d)) \in Nat
<1>1. d + 1 \in Int /\ d + Horizon - 1 \in Int
  BY SettingsType
<1>2. IsFiniteSet(d + 1 .. d + Horizon - 1)
  BY <1>1, FS_Interval
<1>3. IsFiniteSet(DaysAhead(p, h, d))
  BY <1>2, FS_Subset DEF DaysAhead
<1> QED
  BY <1>3, FS_CardinalityType

LEMMA FitsRolls ==
  ASSUME NEW p \in Policies, NEW h, NEW a \in Nat \ {0}, Fits(p, h, a), NEW s \in Int
  PROVE  Rolls(p, h, s)
<1> DEFINE d == DayOf(p.zone, s)
<1>1. d \in Int
  BY DayType
<1>a. p.close - p.open \in Int /\ Horizon \in Nat
  <2>1. p.close \in Int /\ p.open \in Int /\ Horizon \in Nat \ {0}
    BY SettingsType
  <2> QED
    BY <2>1
<1>2. Cardinality(DaysAhead(p, h, d)) * (p.close - p.open) >= a
  BY <1>1 DEF Fits
<1>3. DaysAhead(p, h, d) # {}
  <2> SUFFICES ASSUME DaysAhead(p, h, d) = {} PROVE FALSE
    OBVIOUS
  <2>1. Cardinality(DaysAhead(p, h, d)) = 0
    BY FS_EmptySet
  <2> DEFINE w == p.close - p.open
  <2>2. w \in Int /\ 0 * w >= a
    BY <1>2, <1>a, <2>1
  <2> HIDE DEF w
  <2> QED
    BY <2>2
<1> HIDE DEF d
<1>4. PICK e \in d + 1 .. d + Horizon - 1 : IsWorkingDay(p, h, e)
  BY <1>3 DEF DaysAhead
<1>5. e \in d + 1 .. d + Horizon
  BY <1>1, <1>a, <1>4
<1> QED
  BY <1>4, <1>5 DEF Rolls, d

(* Fewer holidays and a smaller amount leave more room. *)
LEMMA FitsFewer ==
  ASSUME NEW p \in Policies, NEW h, NEW g, g \subseteq h,
         NEW a \in Nat, NEW b \in Nat, b <= a, Fits(p, h, a)
  PROVE  Fits(p, g, b)
<1> SUFFICES ASSUME NEW d \in Int
             PROVE  Cardinality(DaysAhead(p, g, d)) * (p.close - p.open) >= b
  BY DEF Fits
<1> DEFINE x == Cardinality(DaysAhead(p, h, d))
           y == Cardinality(DaysAhead(p, g, d))
           w == p.close - p.open
<1>1. x \in Nat /\ y \in Nat /\ IsFiniteSet(DaysAhead(p, g, d))
  BY AheadFinite
<1>2. w \in Int /\ 0 <= w
  BY SettingsType
<1>3. DaysAhead(p, h, d) \in SUBSET DaysAhead(p, g, d)
  BY DEF DaysAhead, IsWorkingDay
<1>4. x <= y
  BY <1>1, <1>3, FS_Subset
<1>5. x * w >= a
  BY DEF Fits
<1> HIDE DEF x, y, w
<1>6. x * w <= y * w /\ x * w \in Int /\ y * w \in Int
  BY <1>1, <1>2, <1>4, Times
<1>7. y * w >= b
  BY <1>5, <1>6
<1> QED
  BY <1>7 DEF y, w

(* From a working moment on, every working day has some of its window left, *)
(* and those after the first have all of it. *)
LEMMA SomeAvailable ==
  ASSUME NEW p \in Policies, Steady(p), InOrder(p), NEW h,
         NEW from \in Int, IsWorkingMoment(p, h, from),
         NEW d \in Int, IsWorkingDay(p, h, d), DayOf(p.zone, from) <= d
  PROVE  /\ Available(p, h, from, d) \in Int /\ Available(p, h, from, d) >= 1
         /\ DayOf(p.zone, from) < d => Available(p, h, from, d) = p.close - p.open
<1> DEFINE first == DayOf(p.zone, from)
<1>1. first \in Int /\ IsWorkingDay(p, h, first) /\ Opens(p, first) <= from /\ from < Closes(p, first)
  BY DayType, MomentInWindow
<1>2. /\ Opens(p, d) \in Int /\ Closes(p, d) \in Int
      /\ Closes(p, d) = Opens(p, d) + (p.close - p.open)
      /\ p.open \in Int /\ p.close \in Int /\ p.open < p.close
  BY WindowHolds, SettingsType DEF IsWorkingDay
<1>3. Opens(p, first) \in Int /\ Closes(p, first) \in Int
  BY <1>1, WindowHolds DEF IsWorkingDay
<1>4. Available(p, h, from, d) = Closes(p, d) - Later(from, Opens(p, d))
  BY DEF Available
<1> HIDE DEF first
<1>5. CASE first < d
  <2>1. Closes(p, first) <= Opens(p, d)
    BY <1>1, <1>5, WindowsInOrder
  <2> QED
    BY <1>1, <1>2, <1>3, <1>4, <2>1 DEF Later
<1>6. CASE first = d
  BY <1>1, <1>2, <1>4, <1>6 DEF Later, first
<1> QED
  BY <1>1, <1>5, <1>6 DEF first

(* The loop's running sum over the days it looks ahead. *)
Used(p, h, from) ==
  Before(DayOf(p.zone, from), [d \in Span(DayOf(p.zone, from)) |-> Available(p, h, from, d)])

LEMMA UsedType ==
  ASSUME NEW p \in Policies, Steady(p), NEW h, NEW from \in Int
  PROVE  LET first == DayOf(p.zone, from)
             used  == Used(p, h, from)
         IN /\ first \in Int /\ Horizon \in Nat \ {0}
            /\ used[first] = 0
            /\ \A d \in first .. first + Horizon : used[d] \in Int
            /\ \A d \in Span(first) : used[d + 1] = used[d] + Available(p, h, from, d)
<1> DEFINE first == DayOf(p.zone, from)
           avail == [d \in Span(first) |-> Available(p, h, from, d)]
           used == Before(first, avail)
<1>1. first \in Int /\ Horizon \in Nat \ {0}
  BY DayType, SettingsType
<1>2. ASSUME NEW d \in Span(first)
      PROVE  avail[d] = Available(p, h, from, d) /\ avail[d] \in Int
  <2>1. d \in Int
    BY <1>1 DEF Span
  <2>2. Available(p, h, from, d) \in Int
    BY <2>1, PartType
  <2> QED
    BY <2>2
<1> HIDE DEF avail
<1>3. /\ used[first] = 0
      /\ \A d \in first .. first + Horizon : used[d] \in Int
      /\ \A d \in Span(first) : used[d + 1] = used[d] + avail[d]
  <2> HIDE DEF first
  <2> QED
    BY <1>1, <1>2, BeforeIs
<1>4. used = Used(p, h, from)
  BY DEF Used, avail
<1> HIDE DEF used
<1> QED
  BY <1>1, <1>2, <1>3, <1>4

(* The days ahead use up what fits in them. *)
LEMMA UsedGrows ==
  ASSUME NEW p \in Policies, Steady(p), InOrder(p), NEW h,
         NEW from \in Int, IsWorkingMoment(p, h, from), NEW a \in Nat, Fits(p, h, a)
  PROVE  Used(p, h, from)[DayOf(p.zone, from) + Horizon] >= a
<1> DEFINE first == DayOf(p.zone, from)
           used == Used(p, h, from)
           w == p.close - p.open
           seen(d) == {e \in first + 1 .. d - 1 : IsWorkingDay(p, h, e)}
           y == [d \in first .. first + Horizon |-> Cardinality(seen(d)) * w]
<1>1. /\ first \in Int /\ Horizon \in Nat \ {0} /\ w \in Int /\ 0 <= w
      /\ used[first] = 0
      /\ \A d \in first .. first + Horizon : used[d] \in Int
      /\ \A d \in Span(first) : used[d + 1] = used[d] + Available(p, h, from, d)
  BY UsedType, SettingsType
<1> HIDE DEF used
<1>2. ASSUME NEW d \in Int PROVE IsFiniteSet(seen(d)) /\ Cardinality(seen(d)) \in Nat
  <2>1. IsFiniteSet(first + 1 .. d - 1)
    BY <1>1, FS_Interval
  <2>2. IsFiniteSet(seen(d))
    BY <2>1, FS_Subset
  <2> QED
    BY <2>2, FS_CardinalityType
<1>3. seen(first) = {} /\ seen(first + 1) = {}
  BY <1>1
<1>4. ASSUME NEW d \in first + 1 .. first + Horizon - 1
      PROVE  /\ d \in Int /\ seen(d + 1) = IF IsWorkingDay(p, h, d) THEN seen(d) \cup {d} ELSE seen(d)
             /\ d \notin seen(d)
  BY <1>1
<1>5. ASSUME NEW d \in first .. first + Horizon PROVE y[d] = Cardinality(seen(d)) * w /\ y[d] \in Int
  <2>1. Cardinality(seen(d)) \in Int
    BY <1>1, <1>2
  <2> HIDE DEF seen, w
  <2>2. Cardinality(seen(d)) * w \in Int
    BY <1>1, <2>1
  <2> QED
    BY <2>2
<1>6. ASSUME NEW d \in first .. first + Horizon - 1 PROVE y[d + 1] - y[d] <= used[d + 1] - used[d]
  <2>1. d \in Span(first) /\ d \in Int /\ d \in first .. first + Horizon /\ d + 1 \in first .. first + Horizon
    BY <1>1 DEF Span
  <2>2. used[d + 1] - used[d] = Available(p, h, from, d)
    <3>1. used[d] \in Int /\ Available(p, h, from, d) \in Int /\ used[d + 1] = used[d] + Available(p, h, from, d)
      BY <1>1, <2>1, PartType
    <3> QED
      BY <3>1
  <2>3. CASE d = first
    <3>1. y[d + 1] = 0 /\ y[d] = 0
      <4>1. Cardinality(seen(d + 1)) = 0 /\ Cardinality(seen(d)) = 0
        BY <1>3, <2>3, FS_EmptySet
      <4>2. y[d + 1] = 0 * w /\ y[d] = 0 * w
        BY <1>5, <2>1, <4>1
      <4> QED
        BY <1>1, <4>2
    <3>2. Available(p, h, from, d) >= 0
      <4>1. IsWorkingDay(p, h, d)
        BY <2>3 DEF IsWorkingMoment
      <4> QED
        BY <2>1, <2>3, <4>1, SomeAvailable
    <3> QED
      BY <2>2, <3>1, <3>2, PartType
  <2>4. CASE d # first
    <3>1. d \in first + 1 .. first + Horizon - 1
      BY <1>1, <2>4
    <3> DEFINE n == Cardinality(seen(d))
    <3>2. n \in Nat /\ y[d] = n * w
      BY <1>2, <1>5, <2>1
    <3>3. CASE IsWorkingDay(p, h, d)
      <4>1. Cardinality(seen(d + 1)) = n + 1
        BY <1>2, <1>4, <3>1, <3>3, FS_AddElement
      <4>2. y[d + 1] = (n + 1) * w
        BY <1>5, <2>1, <4>1
      <4>3. Available(p, h, from, d) = w
        BY <1>1, <2>1, <3>1, <3>3, SomeAvailable
      <4> HIDE DEF n, y, w
      <4>4. n * w \in Int /\ (n + 1) * w = n * w + w
        BY <1>1, <3>2
      <4>5. y[d + 1] - y[d] = w
        BY <1>1, <3>2, <4>2, <4>4
      <4> QED
        BY <1>1, <2>2, <4>3, <4>5
    <3>4. CASE ~IsWorkingDay(p, h, d)
      <4>1. y[d + 1] = y[d] /\ y[d] \in Int
        BY <1>4, <1>5, <2>1, <3>1, <3>4
      <4>2. Available(p, h, from, d) = 0
        BY <3>4 DEF Available
      <4> QED
        BY <2>2, <4>1, <4>2
    <3> QED
      BY <3>3, <3>4
  <2> QED
    BY <2>3, <2>4
<1>7. y[first + Horizon] - y[first] <= used[first + Horizon] - used[first]
  <2>1. \A d \in first .. first + Horizon : used[d] \in Int /\ y[d] \in Int
    BY <1>1, <1>5
  <2>2. first + Horizon \in Int /\ first <= first + Horizon
    BY <1>1
  <2> HIDE DEF y, first
  <2> QED
    BY <1>1, <1>6, <2>1, <2>2, LargerSteps
<1>8. y[first] = 0
  <2>1. first \in first .. first + Horizon /\ Cardinality(seen(first)) = 0
    BY <1>1, <1>3, FS_EmptySet
  <2>2. y[first] = 0 * w
    BY <1>5, <2>1
  <2> QED
    BY <1>1, <2>2
<1>9. y[first + Horizon] >= a /\ y[first + Horizon] \in Int /\ used[first + Horizon] \in Int
  <2>1. first + Horizon \in first .. first + Horizon
    BY <1>1
  <2>2. seen(first + Horizon) = DaysAhead(p, h, first)
    BY <1>1 DEF DaysAhead
  <2>3. Cardinality(DaysAhead(p, h, first)) * w >= a
    BY <1>1 DEF Fits
  <2>4. y[first + Horizon] = Cardinality(DaysAhead(p, h, first)) * w
    BY <1>5, <2>1, <2>2
  <2> QED
    BY <1>1, <1>5, <2>1, <2>3, <2>4
<1> HIDE DEF y
<1>10. used[first + Horizon] >= a
  BY <1>1, <1>7, <1>8, <1>9
<1> QED
  BY <1>10 DEF used
(* The result is after a working moment by which all but an hour of the     *)
(* amount has gone by, and all of it has gone by then. *)
LEMMA Lands ==
  ASSUME NEW p \in Policies, Steady(p), InOrder(p), NEW h, NEW s \in Int,
         NEW a \in Nat \ {0}, Fits(p, h, a)
  PROVE  LET due  == AddWorking(p, h, s, a)
             from == NextWorkingMoment(p, h, s)
         IN /\ due \in Int /\ s < due
            /\ IsWorkingMoment(p, h, due - 1)
            /\ DayOf(p.zone, due - 1) < DayOf(p.zone, from) + Horizon
            /\ WorkingBetween(p, h, s, due) = a
<1> DEFINE from  == NextWorkingMoment(p, h, s)
           first == DayOf(p.zone, from)
           used  == Used(p, h, from)
           ok    == {d \in Span(first) : IsWorkingDay(p, h, d) /\ a - used[d] <= Available(p, h, from, d)}
           last  == Min(ok)
           due   == AddWorking(p, h, s, a)
<1>1. /\ from \in Int /\ s <= from /\ IsWorkingMoment(p, h, from)
      /\ \A e \in Int : WorkingBetween(p, h, s, e) = IF e <= from THEN 0 ELSE Total(p, h, from, e)
  BY FitsRolls, BetweenIs
<1>2. due = Later(from, Opens(p, last)) + (a - used[last])
  <2>1. ~(a <= 0)
    OBVIOUS
  <2> QED
    BY <2>1, Zenon DEF AddWorking, Used
<1> HIDE DEF from
<1>3. /\ first \in Int /\ Horizon \in Nat \ {0}
      /\ used[first] = 0
      /\ \A d \in first .. first + Horizon : used[d] \in Int
      /\ \A d \in Span(first) : used[d + 1] = used[d] + Available(p, h, from, d)
  BY <1>1, UsedType
<1>4. used[first + Horizon] >= a
  BY <1>1, UsedGrows
<1>5. /\ IsWorkingDay(p, h, first) /\ Opens(p, first) \in Int /\ Closes(p, first) \in Int
      /\ Opens(p, first) <= from /\ from < Closes(p, first)
  BY <1>1, <1>3, MomentInWindow, WindowHolds DEF IsWorkingDay
<1> HIDE DEF used, due, first
<1>6. last \in ok /\ (\A d \in ok : last <= d) /\ used[last] < a
  <2> DEFINE S == {d \in first .. first + Horizon : used[d] >= a}
             m == Min(S)
  <2>1. m \in S /\ \A d \in S : m <= d
    <3>1. S \subseteq Int /\ first + Horizon \in S /\ \A d \in S : first <= d
      BY <1>3, <1>4
    <3> HIDE DEF S
    <3> QED
      BY <1>3, <3>1, LeastInt
  <2> HIDE DEF m
  <2>2. m \in first + 1 .. first + Horizon
    BY <1>3, <2>1
  <2>3. m - 1 \in Span(first) /\ m - 1 \in Int /\ (m - 1) + 1 = m /\ m - 1 \in first .. first + Horizon
    BY <1>3, <2>2 DEF Span
  <2>4. used[m - 1] \in Int /\ used[m - 1] < a /\ used[m] >= a /\ used[m] \in Int
    BY <1>3, <2>1, <2>2, <2>3
  <2>5. used[m] = used[m - 1] + Available(p, h, from, m - 1) /\ Available(p, h, from, m - 1) \in Int
    BY <1>1, <1>3, <2>3, PartType
  <2>6. Available(p, h, from, m - 1) # 0 /\ a - used[m - 1] <= Available(p, h, from, m - 1)
    BY <2>4, <2>5
  <2>7. m - 1 \in ok
    BY <2>3, <2>6 DEF Available
  <2>8. last \in ok /\ \A d \in ok : last <= d
    <3>1. ok \subseteq Int /\ \A d \in ok : first <= d
      BY <1>3 DEF Span
    <3> HIDE DEF ok
    <3> QED
      BY <1>3, <2>7, <3>1, LeastInt
  <2> HIDE DEF last
  <2>9. last \in first .. first + Horizon /\ last < m
    BY <1>3, <2>2, <2>7, <2>8 DEF Span
  <2>10. last \notin S
    BY <2>1, <2>2, <2>9
  <2>11. used[last] \in Int
    BY <1>3, <2>9
  <2> QED
    BY <2>8, <2>9, <2>10, <2>11
<1> DEFINE left == a - used[last]
           lo   == Later(from, Opens(p, last))
<1> HIDE DEF last
<1>7. /\ last \in Int /\ first <= last /\ last < first + Horizon /\ last \in Span(first)
      /\ IsWorkingDay(p, h, last) /\ used[last] \in Int
  BY <1>3, <1>6 DEF Span
<1>8. Opens(p, last) \in Int /\ Closes(p, last) \in Int /\ Opens(p, last) < Closes(p, last)
  BY <1>7, WindowHolds, SettingsType DEF IsWorkingDay
<1>9. /\ lo \in Int /\ from <= lo /\ Opens(p, last) <= lo
      /\ Available(p, h, from, last) = Closes(p, last) - lo
      /\ left \in Int /\ 1 <= left /\ left <= Closes(p, last) - lo
      /\ due = lo + left
  <2>1. lo \in Int /\ from <= lo /\ Opens(p, last) <= lo
    BY <1>1, <1>8 DEF Later
  <2>2. Available(p, h, from, last) = Closes(p, last) - lo
    BY <1>7 DEF Available
  <2>3. left \in Int /\ 1 <= left
    BY <1>6, <1>7
  <2>4. left <= Available(p, h, from, last)
    BY <1>6
  <2> QED
    BY <1>2, <2>1, <2>2, <2>3, <2>4
<1> HIDE DEF left, lo
<1>10. due \in Int /\ from < due /\ Opens(p, last) < due /\ due <= Closes(p, last)
  BY <1>1, <1>8, <1>9
<1>11. DayOf(p.zone, due - 1) = last /\ IsWorkingMoment(p, h, due - 1)
  <2>1. due - 1 \in Int /\ Opens(p, last) <= due - 1 /\ due - 1 < Closes(p, last)
    BY <1>8, <1>10
  <2>2. DayOf(p.zone, due - 1) = last
    BY <1>7, <2>1, WindowHolds DEF IsWorkingDay
  <2> QED
    BY <1>7, <2>1, <2>2, MomentInWindow
<1> DEFINE sum == Before(first, Parts(p, h, from, due))
<1>12. /\ Total(p, h, from, due) = sum[first + Horizon]
       /\ sum[first] = 0
       /\ \A d \in first .. first + Horizon : sum[d] \in Int
       /\ \A d \in Span(first) : sum[d + 1] = sum[d] + Part(p, h, from, due, d)
  BY <1>1, <1>10, TotalType DEF first
<1> HIDE DEF sum
<1>13. ASSUME NEW d \in first .. last - 1
       PROVE  Part(p, h, from, due, d) = Available(p, h, from, d)
  <2>1. d \in Int /\ first <= d /\ d < last
    BY <1>3, <1>7
  <2>2. CASE IsWorkingDay(p, h, d)
    <3>1. Opens(p, d) \in Int /\ Closes(p, d) \in Int /\ Opens(p, d) < Closes(p, d)
      BY <2>1, <2>2, WindowHolds, SettingsType DEF IsWorkingDay
    <3>2. Closes(p, d) <= Opens(p, last)
      BY <1>7, <2>1, <2>2, WindowsInOrder
    <3>3. Opens(p, d) < due /\ Closes(p, d) <= due
      BY <1>8, <1>10, <3>1, <3>2
    <3>4. Earlier(due, Closes(p, d)) = Closes(p, d)
      BY <1>10, <3>1, <3>3 DEF Earlier
    <3>5. Available(p, h, from, d) \in Int /\ Available(p, h, from, d) >= 1
      BY <1>1, <2>1, <2>2, SomeAvailable DEF first
    <3>6. Available(p, h, from, d) = Closes(p, d) - Later(from, Opens(p, d))
      BY <2>2 DEF Available
    <3>7. Part(p, h, from, due, d) = Later(0, Available(p, h, from, d))
      BY <2>2, <3>3, <3>4, <3>6 DEF Part
    <3> QED
      BY <3>5, <3>7 DEF Later
  <2>3. CASE ~IsWorkingDay(p, h, d)
    BY <2>3 DEF Part, Available
  <2> QED
    BY <2>2, <2>3
<1>14. Part(p, h, from, due, last) = left
  <2>1. Part(p, h, from, due, last) = Later(0, Earlier(due, Closes(p, last)) - lo)
    BY <1>7, <1>10 DEF Part, lo
  <2>2. Earlier(due, Closes(p, last)) = due
    BY <1>8, <1>10 DEF Earlier
  <2>3. due - lo = left
    BY <1>9
  <2> QED
    BY <1>9, <2>1, <2>2, <2>3 DEF Later
<1>15. ASSUME NEW d \in last + 1 .. first + Horizon - 1
       PROVE  Part(p, h, from, due, d) = 0
  <2>1. d \in Int /\ last < d
    BY <1>3, <1>7
  <2>2. CASE IsWorkingDay(p, h, d)
    <3>1. Opens(p, d) \in Int
      BY <2>1, <2>2, WindowHolds DEF IsWorkingDay
    <3>2. Closes(p, last) <= Opens(p, d)
      BY <1>7, <2>1, <2>2, WindowsInOrder
    <3>3. ~(Opens(p, d) < due)
      BY <1>8, <1>10, <3>1, <3>2
    <3> QED
      BY <3>3 DEF Part
  <2> QED
    BY <2>2 DEF Part
<1>16. sum[last] = used[last]
  <2>1. ASSUME NEW d \in first .. last - 1
        PROVE  sum[d + 1] - sum[d] = used[d + 1] - used[d]
    <3>1. d \in Span(first) /\ d \in first .. first + Horizon /\ d \in Int
      BY <1>3, <1>7 DEF Span
    <3>2. Available(p, h, from, d) \in Int /\ sum[d] \in Int /\ used[d] \in Int
      BY <1>1, <1>3, <1>12, <3>1, PartType
    <3>3. sum[d + 1] = sum[d] + Available(p, h, from, d) /\ used[d + 1] = used[d] + Available(p, h, from, d)
      BY <1>3, <1>12, <1>13, <3>1
    <3> QED
      BY <3>2, <3>3
  <2>2. \A d \in first .. last : sum[d] \in Int /\ used[d] \in Int
    BY <1>3, <1>7, <1>12
  <2>3. sum[last] - sum[first] = used[last] - used[first]
    BY <1>3, <1>7, <2>1, <2>2, SameSteps
  <2>4. sum[last] \in Int
    BY <1>7, <2>2
  <2> QED
    BY <1>3, <1>7, <1>12, <2>3, <2>4
<1>17. sum[last + 1] = a
  <2>1. sum[last + 1] = sum[last] + left
    BY <1>7, <1>12, <1>14
  <2> QED
    BY <1>7, <1>16, <2>1 DEF left
<1>18. sum[first + Horizon] = a
  <2> DEFINE none == [d \in last + 1 .. first + Horizon |-> 0]
  <2>1. \A d \in last + 1 .. first + Horizon : none[d] = 0
    OBVIOUS
  <2> HIDE DEF none
  <2>2. ASSUME NEW d \in last + 1 .. first + Horizon - 1
        PROVE  sum[d + 1] - sum[d] = none[d + 1] - none[d]
    <3>1. d \in Span(first) /\ d \in first .. first + Horizon /\ sum[d] \in Int
      BY <1>3, <1>7, <1>12 DEF Span
    <3>2. sum[d + 1] = sum[d] + 0
      BY <1>12, <1>15, <3>1
    <3>3. d \in last + 1 .. first + Horizon /\ d + 1 \in last + 1 .. first + Horizon
      BY <1>3, <1>7
    <3> QED
      BY <2>1, <3>1, <3>2, <3>3
  <2>3. \A d \in last + 1 .. first + Horizon : sum[d] \in Int /\ none[d] \in Int
    BY <1>3, <1>7, <1>12, <2>1
  <2>4. last + 1 \in Int /\ first + Horizon \in Int /\ last + 1 <= first + Horizon
    BY <1>3, <1>7
  <2>5. sum[first + Horizon] - sum[last + 1] = none[first + Horizon] - none[last + 1]
    <3> DEFINE b == last + 1
               e == first + Horizon
    <3>1. b \in Int /\ e \in Int /\ b <= e
      BY <2>4
    <3>2. \A d \in b .. e : sum[d] \in Int /\ none[d] \in Int
      BY <2>3
    <3>3. \A d \in b .. e - 1 : sum[d + 1] - sum[d] = none[d + 1] - none[d]
      BY <1>3, <1>7, <2>2, <2>4
    <3> HIDE DEF b, e
    <3>4. sum[e] - sum[b] = none[e] - none[b]
      BY <3>1, <3>2, <3>3, SameSteps
    <3> QED
      BY <3>4 DEF b, e
  <2>6. none[first + Horizon] = 0 /\ none[last + 1] = 0 /\ sum[first + Horizon] \in Int
    BY <2>1, <2>3, <2>4
  <2> QED
    BY <1>17, <2>5, <2>6
<1>19. WorkingBetween(p, h, s, due) = a
  BY <1>1, <1>10, <1>12, <1>18
<1>20. s < due /\ DayOf(p.zone, due - 1) < first + Horizon
  BY <1>1, <1>7, <1>10, <1>11
<1> QED
  BY <1>10, <1>11, <1>19, <1>20 DEF due, first, from
-----------------------------------------------------------------------------
(* The clock of a cycle. *)

(* Two sets of holidays that make the same hours count, count the same. *)
LEMMA BetweenAgrees ==
  ASSUME NEW p \in Policies, Steady(p), InOrder(p), NEW h, NEW g,
         NEW s \in Int, NEW e \in Int, s <= e, Rolls(p, h, s), Rolls(p, g, s),
         \A t \in s .. e - 1 :
           /\ IsWorkingMoment(p, h, t) <=> IsWorkingMoment(p, g, t)
           /\ DayOf(p.zone, t) < DayOf(p.zone, NextWorkingMoment(p, h, s)) + Horizon
           /\ DayOf(p.zone, t) < DayOf(p.zone, NextWorkingMoment(p, g, s)) + Horizon
  PROVE  WorkingBetween(p, h, s, e) = WorkingBetween(p, g, s, e)
<1> DEFINE x == [t \in s .. e |-> WorkingBetween(p, h, s, t)]
           y == [t \in s .. e |-> WorkingBetween(p, g, s, t)]
<1>1. \A t \in s .. e : /\ x[t] = WorkingBetween(p, h, s, t) /\ x[t] \in Int
                        /\ y[t] = WorkingBetween(p, g, s, t) /\ y[t] \in Int
  BY BetweenIs
<1>2. x[s] = 0 /\ y[s] = 0 /\ s \in s .. e /\ e \in s .. e
  BY BetweenStarts
<1> HIDE DEF x, y
<1>3. ASSUME NEW t \in s .. e - 1 PROVE x[t + 1] - x[t] = y[t + 1] - y[t]
  <2>1. t \in Int /\ s <= t /\ t \in s .. e /\ t + 1 \in s .. e
    OBVIOUS
  <2>2. Counts(p, h, t) = Counts(p, g, t) /\ Counts(p, h, t) \in Int
    BY DEF Counts
  <2>3. x[t + 1] = x[t] + Counts(p, h, t)
    BY <1>1, <2>1, BetweenStep
  <2>4. y[t + 1] = y[t] + Counts(p, g, t)
    BY <1>1, <2>1, BetweenStep
  <2>5. x[t] \in Int /\ y[t] \in Int
    BY <1>1, <2>1
  <2> QED
    BY <2>2, <2>3, <2>4, <2>5
<1>4. x[e] - x[s] = y[e] - y[s]
  BY <1>1, <1>3, SameSteps
<1>5. x[e] \in Int /\ y[e] \in Int
  BY <1>1, <1>2
<1>6. x[e] = y[e]
  BY <1>2, <1>4, <1>5
<1> QED
  BY <1>1, <1>2, <1>6

(* Time that goes by is never less worked. *)
LEMMA BetweenGrows ==
  ASSUME NEW p \in Policies, Steady(p), InOrder(p), NEW h,
         NEW s \in Int, Rolls(p, h, s), NEW u \in Int, NEW v \in Int, s <= u, u <= v,
         \A t \in u .. v - 1 : DayOf(p.zone, t) < DayOf(p.zone, NextWorkingMoment(p, h, s)) + Horizon
  PROVE  WorkingBetween(p, h, s, u) <= WorkingBetween(p, h, s, v)
<1> DEFINE x == [t \in u .. v |-> WorkingBetween(p, h, s, t)]
           y == [t \in u .. v |-> 0]
<1>1. \A t \in u .. v : x[t] = WorkingBetween(p, h, s, t) /\ x[t] \in Int /\ y[t] = 0
  BY BetweenIs
<1> HIDE DEF x, y
<1>2. ASSUME NEW t \in u .. v - 1 PROVE y[t + 1] - y[t] <= x[t + 1] - x[t]
  <2>1. t \in Int /\ s <= t /\ t \in u .. v /\ t + 1 \in u .. v
    OBVIOUS
  <2>2. Counts(p, h, t) \in Int /\ 0 <= Counts(p, h, t)
    BY DEF Counts
  <2>3. x[t + 1] = x[t] + Counts(p, h, t) /\ x[t] \in Int /\ y[t + 1] = 0 /\ y[t] = 0
    BY <1>1, <2>1, BetweenStep
  <2> QED
    BY <2>2, <2>3
<1>3. \A t \in u .. v : x[t] \in Int /\ y[t] \in Int
  BY <1>1
<1>4. y[v] - y[u] <= x[v] - x[u]
  BY <1>2, <1>3, LargerSteps
<1>5. u \in u .. v /\ v \in u .. v
  OBVIOUS
<1>6. x[u] <= x[v]
  BY <1>1, <1>4, <1>5
<1> QED
  BY <1>1, <1>5, <1>6

(* The holidays loaded between two instants are those of the days between. *)
LEMMA HolidaysLoaded ==
  ASSUME NEW p \in Policies, KeysKept(p), NEW s \in Int, NEW e \in Int
  PROVE  /\ HolidaysBetween(p, s, e) \subseteq AllKeys(p)
         /\ \A d \in DayOf(p.zone, s) .. DayOf(p.zone, e) :
              d \in HolidaysBetween(p, s, e) <=> d \in AllKeys(p)
<1> DEFINE some == p.holidays \cap (DayOf(p.zone, s) .. DayOf(p.zone, e))
<1>1. p.zone \in Zones /\ p.holidays \in SUBSET Nat /\ some \in SUBSET Nat
  BY SettingsType
<1>2. HolidayKeys(p.zone, p.holidays) = p.holidays /\ HolidayKeys(p.zone, some) = some
  <2>1. CASE p.holidays = {}
    BY <2>1 DEF HolidayKeys
  <2>2. CASE p.zone.before \in 0 .. DayLength - 1 /\ p.zone.after \in 0 .. DayLength - 1
    <3> HIDE DEF some
    <3> QED
      BY <1>1, <2>2, KeysAreDates
  <2> QED
    BY <2>1, <2>2 DEF KeysKept
<1> QED
  BY <1>2 DEF AllKeys, HolidaysBetween

LEMMA MomentOnDay ==
  ASSUME NEW p, NEW h, NEW g, NEW t, DayOf(p.zone, t) \in h <=> DayOf(p.zone, t) \in g
  PROVE  IsWorkingMoment(p, h, t) <=> IsWorkingMoment(p, g, t)
BY DEF IsWorkingMoment, IsWorkingDay

(* Where a cycle that started at s may be at n. *)
Runs(s, n) ==
  \E b \in Begins : b <= s /\ s <= n /\ (n = b \/ n <= MaxNow)

LEMMA RunsInReach ==
  ASSUME NEW p \in Policies, Ordinary(p), NEW s \in Int, NEW n \in Int, Runs(s, n),
         NEW h, h \subseteq AllKeys(p), NEW t \in s .. n - 1
  PROVE  DayOf(p.zone, t) < DayOf(p.zone, NextWorkingMoment(p, h, s)) + Horizon
<1>1. PICK b \in Begins : b <= s /\ s <= n /\ (n = b \/ n <= MaxNow)
  BY DEF Runs
<1>2. b \in Int /\ MaxNow \in Int /\ Horizon \in Int /\ p.target \in Nat \ {0}
  BY SettingsType
<1>3. t \in Int /\ t <= MaxNow /\ b <= s
  BY <1>1, <1>2
<1>4. Rolls(p, h, s)
  <2>1. Fits(p, h, p.target)
    BY <1>2, FitsFewer DEF Ordinary
  <2> QED
    BY <1>2, <2>1, FitsRolls
<1>5. DayOf(p.zone, s) <= DayOf(p.zone, NextWorkingMoment(p, h, s)) /\ NextWorkingMoment(p, h, s) \in Int
  BY <1>4, BetweenIs DEF Ordinary
<1>6. DayOf(p.zone, t) <= DayOf(p.zone, MaxNow) /\ DayOf(p.zone, b) <= DayOf(p.zone, s)
  BY <1>2, <1>3 DEF Ordinary, InOrder
<1>7. DayOf(p.zone, MaxNow) < DayOf(p.zone, b) + Horizon
  BY DEF Ordinary, InReach
<1>8. /\ DayOf(p.zone, t) \in Int /\ DayOf(p.zone, MaxNow) \in Int /\ DayOf(p.zone, b) \in Int
      /\ DayOf(p.zone, s) \in Int /\ DayOf(p.zone, NextWorkingMoment(p, h, s)) \in Int
  BY <1>2, <1>3, <1>5, DayType
<1> QED
  BY <1>2, <1>5, <1>6, <1>7, <1>8

LEMMA OrdinaryRolls ==
  ASSUME NEW p \in Policies, Ordinary(p), NEW s \in Int, NEW h, h \subseteq AllKeys(p),
         NEW a \in Nat \ {0}, a <= p.target
  PROVE  Fits(p, h, a) /\ Rolls(p, h, s)
<1>1. p.target \in Nat \ {0}
  BY SettingsType
<1>2. Fits(p, h, a)
  BY <1>1, FitsFewer DEF Ordinary
<1> QED
  BY <1>2, FitsRolls

(* What is recorded as elapsed is what is counted with the whole table. *)
LEMMA ElapsedIs ==
  ASSUME NEW p \in Policies, Ordinary(p), NEW s \in Int, NEW n \in Int, Runs(s, n)
  PROVE  WorkingBetween(p, HolidaysBetween(p, s, n), s, n) = WorkingBetween(p, AllKeys(p), s, n)
<1> DEFINE g == HolidaysBetween(p, s, n)
           H == AllKeys(p)
<1>1. g \subseteq H /\ \A d \in DayOf(p.zone, s) .. DayOf(p.zone, n) : d \in g <=> d \in H
  BY HolidaysLoaded DEF Ordinary
<1>2. s <= n
  BY SettingsType DEF Runs
<1>3. Rolls(p, g, s) /\ Rolls(p, H, s)
  <2>1. 1 \in Nat \ {0} /\ 1 <= p.target
    BY SettingsType
  <2> QED
    BY <1>1, <2>1, OrdinaryRolls
<1> HIDE DEF g, H
<1>4. ASSUME NEW t \in s .. n - 1
      PROVE  /\ IsWorkingMoment(p, g, t) <=> IsWorkingMoment(p, H, t)
             /\ DayOf(p.zone, t) < DayOf(p.zone, NextWorkingMoment(p, g, s)) + Horizon
             /\ DayOf(p.zone, t) < DayOf(p.zone, NextWorkingMoment(p, H, s)) + Horizon
  <2>1. t \in Int /\ s <= t /\ t <= n
    BY <1>2
  <2>2. DayOf(p.zone, t) \in DayOf(p.zone, s) .. DayOf(p.zone, n)
    <3>1. DayOf(p.zone, s) <= DayOf(p.zone, t) /\ DayOf(p.zone, t) <= DayOf(p.zone, n)
      BY <2>1 DEF Ordinary, InOrder
    <3>2. DayOf(p.zone, s) \in Int /\ DayOf(p.zone, t) \in Int /\ DayOf(p.zone, n) \in Int
      BY <2>1, DayType
    <3> QED
      BY <3>1, <3>2
  <2>3. IsWorkingMoment(p, g, t) <=> IsWorkingMoment(p, H, t)
    BY <1>1, <2>2, MomentOnDay
  <2> QED
    BY <1>1, <2>3, RunsInReach DEF H
<1>5. WorkingBetween(p, g, s, n) = WorkingBetween(p, H, s, n)
  BY <1>2, <1>3, <1>4, BetweenAgrees DEF Ordinary
<1> QED
  BY <1>5 DEF g, H

(* An amount is reached exactly when it has gone by, within the days whose  *)
(* holidays are loaded. *)
LEMMA ReachedIs ==
  ASSUME NEW p \in Policies, Ordinary(p), NEW s \in Int, NEW n \in Int, Runs(s, n),
         NEW a \in Nat \ {0}, a <= p.target,
         AddWorking(p, CycleHolidays(p, s), s, a) < s + LoadAhead * DayLength
  PROVE  n >= AddWorking(p, CycleHolidays(p, s), s, a) <=> WorkingBetween(p, AllKeys(p), s, n) >= a
<1> DEFINE e   == s + LoadAhead * DayLength
           g   == CycleHolidays(p, s)
           H   == AllKeys(p)
           due == AddWorking(p, g, s, a)
<1>0. Steady(p) /\ InOrder(p) /\ KeysKept(p)
  BY DEF Ordinary
<1>1. e \in Int
  <2>1. LoadAhead \in Int /\ DayLength \in Int
    BY SettingsType
  <2> QED
    BY <2>1
<1>2. g \subseteq H /\ \A d \in DayOf(p.zone, s) .. DayOf(p.zone, e) : d \in g <=> d \in H
  BY <1>0, <1>1, HolidaysLoaded DEF CycleHolidays
<1>3. s <= n
  BY SettingsType DEF Runs
<1>4. Rolls(p, g, s) /\ Rolls(p, H, s) /\ Fits(p, g, a)
  BY <1>2, OrdinaryRolls
<1>5. /\ due \in Int /\ s < due /\ IsWorkingMoment(p, g, due - 1)
      /\ DayOf(p.zone, due - 1) < DayOf(p.zone, NextWorkingMoment(p, g, s)) + Horizon
      /\ WorkingBetween(p, g, s, due) = a
  BY <1>0, <1>4, Lands
<1>6. due < e
  OBVIOUS
<1> HIDE DEF due, g, H, e
<1>7. NextWorkingMoment(p, g, s) \in Int /\ Horizon \in Int
  BY <1>0, <1>4, BetweenIs, SettingsType
<1>8. ASSUME NEW t \in s .. due - 1
      PROVE  /\ IsWorkingMoment(p, g, t) <=> IsWorkingMoment(p, H, t)
             /\ DayOf(p.zone, t) < DayOf(p.zone, NextWorkingMoment(p, g, s)) + Horizon
  <2>1. t \in Int /\ s <= t /\ t <= e /\ t <= due - 1 /\ due - 1 \in Int
    BY <1>1, <1>5, <1>6
  <2>2. DayOf(p.zone, t) <= DayOf(p.zone, due - 1)
    BY <1>0, <2>1 DEF InOrder
  <2>3. DayOf(p.zone, s) <= DayOf(p.zone, t) /\ DayOf(p.zone, t) <= DayOf(p.zone, e)
    BY <1>0, <1>1, <2>1 DEF InOrder
  <2>4. /\ DayOf(p.zone, s) \in Int /\ DayOf(p.zone, t) \in Int /\ DayOf(p.zone, e) \in Int
        /\ DayOf(p.zone, due - 1) \in Int /\ DayOf(p.zone, NextWorkingMoment(p, g, s)) \in Int
    BY <1>1, <1>7, <2>1, DayType
  <2>5. DayOf(p.zone, t) \in DayOf(p.zone, s) .. DayOf(p.zone, e)
    BY <2>3, <2>4
  <2>6. IsWorkingMoment(p, g, t) <=> IsWorkingMoment(p, H, t)
    BY <1>2, <2>5, MomentOnDay
  <2> QED
    BY <1>5, <1>7, <2>2, <2>4, <2>6
<1>9. ASSUME NEW t \in s .. n - 1
      PROVE  DayOf(p.zone, t) < DayOf(p.zone, NextWorkingMoment(p, H, s)) + Horizon
  BY RunsInReach DEF H
<1>10. WorkingBetween(p, H, s, n) \in Int
  BY <1>0, <1>4, BetweenIs
<1>11. CASE due <= n
  <2>1. \A t \in s .. due - 1 : t \in s .. n - 1
    BY <1>5, <1>11
  <2>2. WorkingBetween(p, g, s, due) = WorkingBetween(p, H, s, due)
    <3>1. s <= due
      BY <1>5
    <3> QED
      BY <1>0, <1>4, <1>5, <1>8, <1>9, <2>1, <3>1, BetweenAgrees
  <2>3. WorkingBetween(p, H, s, due) <= WorkingBetween(p, H, s, n)
    <3>1. s <= due /\ \A t \in due .. n - 1 : t \in s .. n - 1
      BY <1>5
    <3> QED
      BY <1>0, <1>4, <1>5, <1>9, <1>11, <3>1, BetweenGrows
  <2>4. a <= WorkingBetween(p, H, s, n)
    BY <1>5, <2>2, <2>3
  <2>5. n >= due /\ WorkingBetween(p, H, s, n) >= a
    BY <1>5, <1>10, <1>11, <2>4
  <2> QED
    BY <2>5 DEF due, g, H
<1>12. CASE ~(due <= n)
  <2>1. n <= due - 1 /\ due - 1 \in Int /\ s <= due - 1 /\ (due - 1) + 1 = due
    BY <1>5, <1>12
  <2>2. WorkingBetween(p, g, s, n) = WorkingBetween(p, H, s, n)
    <3>1. \A t \in s .. n - 1 : t \in s .. due - 1
      BY <2>1
    <3> QED
      BY <1>0, <1>3, <1>4, <1>8, <1>9, <3>1, BetweenAgrees
  <2>3. WorkingBetween(p, g, s, n) <= WorkingBetween(p, g, s, due - 1)
    <3>1. \A t \in n .. (due - 1) - 1 : t \in s .. due - 1
      BY <1>3, <2>1
    <3> QED
      BY <1>0, <1>3, <1>4, <1>8, <2>1, <3>1, BetweenGrows
  <2>4. a = WorkingBetween(p, g, s, due - 1) + 1
    <3>1. Counts(p, g, due - 1) = 1
      BY <1>5 DEF Counts
    <3>2. WorkingBetween(p, g, s, (due - 1) + 1) = WorkingBetween(p, g, s, due - 1) + Counts(p, g, due - 1)
      BY <1>0, <1>4, <1>5, <2>1, BetweenStep
    <3> QED
      BY <1>5, <2>1, <3>1, <3>2
  <2>5. WorkingBetween(p, g, s, due - 1) \in Int
    BY <1>0, <1>4, <2>1, BetweenIs
  <2>6. ~(n >= due) /\ ~(WorkingBetween(p, H, s, n) >= a)
    BY <1>5, <1>10, <1>12, <2>2, <2>3, <2>4, <2>5
  <2> QED
    BY <2>6 DEF due, g, H
<1> QED
  BY <1>11, <1>12
(* A clock that has started has the due instants its settings give, and has *)
(* counted the hours gone by. *)
ClockInv ==
  /\ policy \in Policies /\ now \in Int /\ Runs(now, now)
  /\ cycle = NoCycle => worked = 0
  /\ cycle # NoCycle =>
       LET s == cycle.start
           h == CycleHolidays(policy, s)
       IN /\ s \in Int /\ Runs(s, now)
          /\ cycle.due = AddWorking(policy, h, s, policy.target)
          /\ cycle.warn = AddWorking(policy, h, s, WarnAfter(policy))
          /\ worked = WorkingBetween(policy, AllKeys(policy), s, now)

LEMMA WarnWithin ==
  ASSUME NEW p \in Policies
  PROVE  WarnAfter(p) \in Nat \ {0} /\ WarnAfter(p) <= p.target
<1> DEFINE x == p.target
           w == (3 * x + 2) \div 4
<1>1. x \in Nat \ {0}
  BY SettingsType
<1> HIDE DEF x
<1>2. w \in Int /\ 4 * w <= 3 * x + 2 /\ 3 * x + 2 < 4 * w + 4
  BY <1>1
<1>3. w \in Nat \ {0} /\ w <= x
  BY <1>1, <1>2
<1> QED
  BY <1>3 DEF WarnAfter, x

LEMMA ClockInvInit ==
  ASSUME Init
  PROVE  ClockInv
<1>1. policy \in Policies /\ now \in Begins /\ cycle = NoCycle /\ worked = 0
  BY DEF Init
<1>2. Begins \subseteq Nat
  BY SettingsType, <1>1
<1>3. now \in Int /\ Runs(now, now)
  BY <1>1, <1>2 DEF Runs
<1> QED
  BY <1>1, <1>3 DEF ClockInv

LEMMA ClockInvStep ==
  ASSUME \A p \in Policies : Ordinary(p), ClockInv, [Next]_vars
  PROVE  ClockInv'
<1>0. policy \in Policies /\ Ordinary(policy) /\ now \in Int /\ Runs(now, now)
  BY DEF ClockInv
<1>1. CASE OpenCycle
  <2> DEFINE h == CycleHolidays(policy, now)
  <2>1. /\ cycle = NoCycle /\ UNCHANGED <<now, policy, worked>>
        /\ cycle' = [start |-> now, due |-> AddWorking(policy, h, now, policy.target),
                     warn |-> AddWorking(policy, h, now, WarnAfter(policy))]
    BY <1>1 DEF OpenCycle
  <2>2. worked = 0
    BY <2>1 DEF ClockInv
  <2>3. WorkingBetween(policy, AllKeys(policy), now, now) = 0
    <3>1. policy.target \in Nat \ {0}
      BY <1>0, SettingsType
    <3>2. Rolls(policy, AllKeys(policy), now)
      BY <1>0, <3>1, OrdinaryRolls
    <3> QED
      BY <1>0, <3>2, BetweenStarts DEF Ordinary
  <2> HIDE DEF h
  <2>4. /\ cycle'.start = now /\ cycle'.due = AddWorking(policy, h, now, policy.target)
        /\ cycle'.warn = AddWorking(policy, h, now, WarnAfter(policy))
    BY <2>1
  <2> QED
    BY <1>0, <2>1, <2>2, <2>3, <2>4 DEF ClockInv, h
<1>2. CASE Tick
  <2>1. /\ now < MaxNow /\ now' = now + 1 /\ UNCHANGED <<policy, cycle>>
        /\ worked' = worked + IF cycle # NoCycle /\ IsWorkingMoment(policy, AllKeys(policy), now)
                              THEN 1 ELSE 0
    BY <1>2 DEF Tick, AllKeys
  <2>2. MaxNow \in Int /\ Begins \subseteq Int
    BY <1>0, SettingsType
  <2>3. now' \in Int /\ Runs(now', now')
    BY <1>0, <2>1, <2>2 DEF Runs
  <2>4. CASE cycle = NoCycle
    <3>1. worked' = 0
      BY <2>1, <2>4 DEF ClockInv
    <3> QED
      BY <1>0, <2>1, <2>3, <2>4, <3>1 DEF ClockInv
  <2>5. CASE cycle # NoCycle
    <3> DEFINE s == cycle.start
               h == CycleHolidays(policy, s)
    <3>1. /\ s \in Int /\ Runs(s, now)
          /\ cycle.due = AddWorking(policy, h, s, policy.target)
          /\ cycle.warn = AddWorking(policy, h, s, WarnAfter(policy))
          /\ worked = WorkingBetween(policy, AllKeys(policy), s, now)
      BY <2>5 DEF ClockInv
    <3> HIDE DEF s, h
    <3>2. Runs(s, now + 1) /\ s <= now
      <4>1. PICK b \in Begins : b <= s /\ s <= now
        BY <3>1 DEF Runs
      <4>2. now + 1 <= MaxNow /\ s <= now + 1
        BY <1>0, <2>1, <2>2, <3>1, <4>1
      <4> QED
        BY <4>1, <4>2 DEF Runs
    <3>3. now + 1 \in Int /\ now \in s .. (now + 1) - 1
      BY <1>0, <3>1, <3>2
    <3>4. DayOf(policy.zone, now) < DayOf(policy.zone, NextWorkingMoment(policy, AllKeys(policy), s)) + Horizon
      BY <1>0, <3>1, <3>2, <3>3, RunsInReach
    <3>5. Rolls(policy, AllKeys(policy), s)
      <4>1. policy.target \in Nat \ {0}
        BY <1>0, SettingsType
      <4> QED
        BY <1>0, <3>1, <4>1, OrdinaryRolls
    <3>6. WorkingBetween(policy, AllKeys(policy), s, now + 1) =
            WorkingBetween(policy, AllKeys(policy), s, now) + Counts(policy, AllKeys(policy), now)
      BY <1>0, <3>1, <3>2, <3>4, <3>5, BetweenStep DEF Ordinary
    <3>7. worked' = worked + Counts(policy, AllKeys(policy), now)
      BY <2>1, <2>5 DEF Counts
    <3>8. worked' = WorkingBetween(policy, AllKeys(policy), s, now')
      BY <2>1, <3>1, <3>6, <3>7
    <3> QED
      BY <1>0, <2>1, <2>3, <2>5, <3>1, <3>2, <3>8 DEF ClockInv, s, h
  <2> QED
    BY <2>4, <2>5
<1>3. CASE UNCHANGED vars
  <2>1. UNCHANGED <<now, policy, cycle, worked>>
    BY <1>3 DEF vars
  <2> QED
    BY <2>1 DEF ClockInv, AllKeys, Runs
<1> QED
  BY <1>1, <1>2, <1>3 DEF Next

LEMMA ClockInvHolds ==
  ASSUME \A p \in Policies : Ordinary(p)
  PROVE  Spec => []ClockInv
<1>1. Init => ClockInv
  BY ClockInvInit
<1>2. ClockInv /\ [Next]_vars => ClockInv'
  BY ClockInvStep
<1> QED
  BY <1>1, <1>2, PTL DEF Spec

(* The SLA clock counts exactly, whatever the hours, free days, holidays,   *)
(* target and start (slaClock.js:188-259, slaService.js:115-173, 256-269):  *)
(* what a cycle records as elapsed is the working time that has gone by,    *)
(* and it is due, and warns, at the first instant at which that much has. *)
THEOREM ClockExactHolds ==
  ASSUME \A p \in Policies : Ordinary(p)
  PROVE  Spec => []ClockExact
<1>1. ASSUME ClockInv, cycle # NoCycle
      PROVE  /\ Elapsed = worked
             /\ Reached(cycle.due, policy.target)
             /\ Reached(cycle.warn, WarnAfter(policy))
  <2> DEFINE s == cycle.start
             h == CycleHolidays(policy, s)
  <2>1. /\ policy \in Policies /\ Ordinary(policy) /\ now \in Int /\ s \in Int /\ Runs(s, now)
        /\ cycle.due = AddWorking(policy, h, s, policy.target)
        /\ cycle.warn = AddWorking(policy, h, s, WarnAfter(policy))
        /\ worked = WorkingBetween(policy, AllKeys(policy), s, now)
    BY <1>1 DEF ClockInv
  <2>2. Elapsed = worked
    BY <2>1, ElapsedIs DEF Elapsed
  <2>3. policy.target \in Nat \ {0} /\ policy.target <= policy.target
    BY <2>1, SettingsType
  <2>4. WarnAfter(policy) \in Nat \ {0} /\ WarnAfter(policy) <= policy.target
    BY <2>1, WarnWithin
  <2>5. Reached(cycle.due, policy.target)
    <3> SUFFICES ASSUME cycle.due < s + LoadAhead * DayLength
                 PROVE  now >= cycle.due <=> worked >= policy.target
      BY DEF Reached
    <3> HIDE DEF s
    <3> QED
      BY <2>1, <2>3, ReachedIs
  <2>6. Reached(cycle.warn, WarnAfter(policy))
    <3> SUFFICES ASSUME cycle.warn < s + LoadAhead * DayLength
                 PROVE  now >= cycle.warn <=> worked >= WarnAfter(policy)
      BY DEF Reached
    <3> HIDE DEF s
    <3> QED
      BY <2>1, <2>4, ReachedIs
  <2> QED
    BY <2>2, <2>5, <2>6
<1>2. ClockInv => ClockExact
  BY <1>1 DEF ClockExact
<1> QED
  BY <1>2, ClockInvHolds, PTL

(* "addWorkingMs and workingMsBetween are inverses" (slaService.js:764)     *)
(* where both are given the same holidays. *)
THEOREM AddIsInverse ==
  ASSUME NEW p \in Policies, Steady(p), InOrder(p), NEW h, NEW s \in Int,
         NEW a \in Nat \ {0}, Fits(p, h, a)
  PROVE  WorkingBetween(p, h, s, AddWorking(p, h, s, a)) = a
BY Lands

(* A zone that keeps one offset is steady and in order, as the default zone *)
(* does (slaClock.js:34). *)
LEMMA FixedZone ==
  ASSUME NEW p \in Policies, p.zone.before = p.zone.after
  PROVE  Steady(p) /\ InOrder(p)
<1> DEFINE o == p.zone.before
<1>1. o \in Int /\ \A t \in Int : Offset(p.zone, t) = o
  <2>1. p.zone \in [before : Int, after : Int, at : Int]
    BY SettingsType, CalendarAssumption
  <2> QED
    BY <2>1 DEF Offset
<1> HIDE DEF o
<1>2. Steady(p)
  BY <1>1 DEF Steady
<1>3. ASSUME NEW s \in Int, NEW t \in Int, s <= t
      PROVE  DayOf(p.zone, s) <= DayOf(p.zone, t)
  <2> DEFINE L == DayLength
             d == (s + o) \div L
             e == (t + o) \div L
  <2>1. L \in Nat \ {0} /\ s + o \in Int /\ t + o \in Int
    BY <1>1, SettingsType
  <2>2. d \in Int /\ e \in Int
    BY <2>1, DayHour
  <2>3. d * L <= s + o /\ t + o < e * L + L
    BY <2>1, <2>2, DayHour
  <2>4. DayOf(p.zone, s) = d /\ DayOf(p.zone, t) = e
    BY <1>1 DEF DayOf, Wall
  <2> HIDE DEF d, e, L
  <2>5. ASSUME e < d PROVE FALSE
    <3>1. (e + 1) * L <= d * L
      BY <2>1, <2>2, <2>5, Times
    <3>2. (e + 1) * L = e * L + L /\ e * L \in Int /\ d * L \in Int
      BY <2>1, <2>2
    <3>3. s + o <= t + o
      BY <1>1, <1>3
    <3> DEFINE u == e * L
               v == d * L
    <3>4. u \in Int /\ v \in Int /\ u + L <= v /\ v <= s + o /\ t + o < u + L
      BY <2>3, <3>1, <3>2
    <3> HIDE DEF u, v
    <3> QED
      BY <1>1, <2>1, <3>3, <3>4
  <2> QED
    BY <2>2, <2>4, <2>5
<1> QED
  BY <1>2, <1>3 DEF InOrder

(* And so ClockExact in zones at or east of UTC that keep one offset, with  *)
(* nothing left to assume of the calendar but room for the target and for   *)
(* the instants of a behaviour. *)
THEOREM ClockExactFixedZones ==
  ASSUME \A p \in Policies :
           /\ p.zone.before \in 0 .. DayLength - 1 /\ p.zone.after = p.zone.before
           /\ Fits(p, AllKeys(p), p.target) /\ InReach(p)
  PROVE  Spec => []ClockExact
<1>1. \A p \in Policies : Ordinary(p)
  BY FixedZone DEF Ordinary, KeysKept
<1> QED
  BY <1>1, ClockExactHolds

(* "This recovers it exactly" (slaService.js:764-766) for a table without   *)
(* holidays: the target counted without holidays is the one a cycle got. *)
THEOREM TargetRecoveredNoHolidays ==
  ASSUME \A p \in Policies : Ordinary(p) /\ p.holidays = {}
  PROVE  Spec => []TargetRecovered
<1>1. ASSUME ClockInv, cycle # NoCycle
      PROVE  WorkingBetween(policy, {}, cycle.start, cycle.due) = policy.target
  <2> DEFINE s == cycle.start
  <2>1. /\ policy \in Policies /\ Ordinary(policy) /\ policy.holidays = {} /\ s \in Int
        /\ cycle.due = AddWorking(policy, CycleHolidays(policy, s), s, policy.target)
    BY <1>1 DEF ClockInv
  <2> HIDE DEF s
  <2>2. CycleHolidays(policy, s) = {} /\ AllKeys(policy) = {}
    BY <2>1 DEF CycleHolidays, HolidaysBetween, AllKeys, HolidayKeys
  <2>3. policy.target \in Nat \ {0} /\ Fits(policy, {}, policy.target)
    BY <2>1, <2>2, SettingsType DEF Ordinary
  <2>4. WorkingBetween(policy, {}, s, AddWorking(policy, {}, s, policy.target)) = policy.target
    BY <2>1, <2>3, AddIsInverse DEF Ordinary
  <2> QED
    BY <2>1, <2>2, <2>4 DEF s
<1>2. ClockInv => TargetRecovered
  BY <1>1 DEF TargetRecovered
<1>3. Spec => []ClockInv
  BY ClockInvHolds
<1> QED
  BY <1>2, <1>3, PTL
=============================================================================
