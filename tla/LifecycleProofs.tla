-------------------------- MODULE LifecycleProofs --------------------------
(* Theorems about Lifecycle, for any targets, windows and bounds.  The first *)
(* sections hold for any workers, any set of handlers and any statements     *)
(* that may fail; the later ones are about handlers that run one after the   *)
(* other, and say so (Serial).                                               *)
EXTENDS Lifecycle, FiniteSetTheorems, TLAPS

-----------------------------------------------------------------------------
(* The inductive invariant.  OnlyLatestOpen alone is not inductive: between   *)
(* the statement that looks for a dangling open cycle and the one that       *)
(* inserts the next, other handlers write rows.  What carries it through is  *)
(* that a handler about to insert a row has seen its predecessor ended, and  *)
(* that no handler ever reopens a row.                                       *)

(* The handlers that work on a row they found before. *)
OnRow == {"endCycle", "latchTicket", "checkEvent", "recordEvent", "answer",
          "mirrorAnswer", "retarget", "mirrorDue", "notice", "endDangling"}

(* A handler at label l with locals rec fits the rows r.                     *)
Fits(l, rec, r) ==
  /\ l \in OnRow => rec.c \in 1 .. n
  /\ rec.todo \subseteq 1 .. n
  /\ l = "insertCycle" => rec.c <= n /\ (rec.c > 0 => r[rec.c].ended)
  /\ l = "patch" => rec.target \in ResolutionTargets

AllFit == \A w \in Workers : Fits(pc[w], my[w], row)

IInv == TypeOK /\ AllFit /\ OnlyLatestOpen

(* The part of TypeOK that does not speak of the handlers. *)
SharedOK ==
  /\ now \in Times
  /\ state \in States
  /\ resolvedAt \in Times \cup {Never}
  /\ target \in ResolutionTargets
  /\ mirror \in [due : Due, answered : BOOLEAN, breached : BOOLEAN]
  /\ n \in 0 .. MaxCycles
  /\ row \in [Cycles -> Rows]
  /\ events \in [Cycles -> [Sorts -> Nat]]
  /\ fresh \in [Cycles -> SUBSET Workers]

LEMMA Constants ==
  /\ MaxCycles \in Nat /\ MaxNow \in Nat /\ ResponseTarget \in Nat
  /\ ResolutionTargets \subseteq Nat
  /\ Times \subseteq Nat
BY LifecycleAssumption DEF Times

LEMMA PassesLen ==
  /\ Len(Passes) = 4
  /\ \A p \in 1 .. Len(Passes) : Passes[p] \in Sorts
BY DEF Passes, Sorts, Kinds, Clocks

LEMMA BlankLocal == Blank \in Locals
BY Constants, PassesLen DEF Blank, Locals, Times, States

(* Rows are never reopened: what every other step has to show of them.       *)
Kept == /\ n' = n
        /\ row' \in [Cycles -> Rows]
        /\ \A c \in 1 .. n : row[c].ended => row'[c].ended

(* A step of one handler that inserts no row and reopens none.               *)
LEMMA Step ==
  ASSUME IInv, SharedOK', Kept,
         NEW w \in Workers, NEW l \in Labels, NEW rec \in Locals,
         Become(w, l, rec), Fits(l, rec, row')
  PROVE  IInv'
<1>1. n \in 0 .. MaxCycles /\ n' = n /\ 1 .. n \subseteq Cycles
  BY Constants DEF IInv, TypeOK, Kept, Cycles
<1>2. TypeOK'
  BY DEF IInv, TypeOK, SharedOK, Become
<1>3. ASSUME NEW v \in Workers
      PROVE  Fits(pc'[v], my'[v], row')
  <2>1. Fits(pc[v], my[v], row) /\ my[v] \in Locals
    BY DEF IInv, AllFit, TypeOK
  <2>2. pc[v] = "insertCycle" /\ my[v].c > 0 => my[v].c \in 1 .. n
    BY <2>1, <1>1 DEF Fits, Locals
  <2>3. CASE pc'[v] = pc[v] /\ my'[v] = my[v]
    BY <1>1, <2>1, <2>2, <2>3 DEF Fits, Kept
  <2>4. CASE pc'[v] = l /\ my'[v] = rec
    BY <2>4
  <2> QED
    BY <2>3, <2>4 DEF Become, IInv, TypeOK
<1>4. AllFit'
  BY <1>1, <1>3 DEF AllFit, Fits
<1>5. OnlyLatestOpen'
  BY <1>1 DEF OnlyLatestOpen, OpenRows, Kept, IInv, TypeOK, Rows
<1> QED
  BY <1>2, <1>4, <1>5 DEF IInv

(* A handler that ends, or goes on without touching a row.                   *)
LEMMA FrameStep ==
  ASSUME IInv, SharedOK', n' = n, row' = row,
         NEW w \in Workers, NEW l \in Labels, NEW rec \in Locals,
         Become(w, l, rec), Fits(l, rec, row)
  PROVE  IInv'
BY Step DEF Kept, IInv, TypeOK

LEMMA FinishStep ==
  ASSUME IInv, SharedOK', Kept, NEW w \in Workers, Finish(w)
  PROVE  IInv'
<1>1. "idle" \in Labels /\ Fits("idle", Blank, row')
  BY DEF Labels, Fits, Blank, OnRow
<1> QED
  BY <1>1, BlankLocal, Step DEF Finish

(* A step that changes nothing but the handlers. *)
LEMMA Unchanged ==
  ASSUME IInv, UNCHANGED <<now, tickVars, mirror, rowVars, events>>
  PROVE  SharedOK' /\ Kept
BY DEF IInv, TypeOK, SharedOK, Kept, tickVars, rowVars

LEMMA RecordBreachesStep ==
  ASSUME IInv, SharedOK', Kept, NEW w \in Workers, NEW rec \in Locals,
         RecordBreaches(w, rec), rec.c \in 1 .. n, rec.todo \subseteq 1 .. n
  PROVE  IInv'
<1>1. CASE rec.late = {}
  BY <1>1, FinishStep DEF RecordBreaches
<1>2. CASE rec.late # {}
  <2>1. "checkEvent" \in Labels /\ Fits("checkEvent", rec, row')
    BY DEF Labels, Fits
  <2> QED
    BY <1>2, <2>1, Step DEF RecordBreaches
<1> QED
  BY <1>1, <1>2

(* A write of one row that does not reopen it. *)
LEMMA UpdateRowKeeps ==
  ASSUME IInv, NEW c \in 1 .. n, NEW new \in Rows, UpdateRow(c, new),
         row[c].ended => new.ended,
         UNCHANGED <<now, tickVars, events>>,
         mirror' \in [due : Due, answered : BOOLEAN, breached : BOOLEAN]
  PROVE  SharedOK' /\ Kept
<1>1. n \in 0 .. MaxCycles /\ c \in Cycles /\ 1 .. n \subseteq Cycles
  BY Constants DEF IInv, TypeOK, Cycles
<1> QED
  BY <1>1 DEF UpdateRow, IInv, TypeOK, SharedOK, Kept, tickVars

-----------------------------------------------------------------------------
(* One lemma per handler: each of its statements preserves the invariant.    *)

(* What the invariant says of one handler and of the ticket's numbers.       *)
LEMMA Facts ==
  ASSUME IInv, NEW w \in Workers
  PROVE  /\ my[w] \in Locals /\ Fits(pc[w], my[w], row)
         /\ n \in 0 .. MaxCycles /\ 1 .. n \subseteq Cycles
         /\ MaxCycles \in Nat /\ now \in Times /\ Times \subseteq Nat
         /\ target \in Nat /\ state \in States
         /\ \A c \in 1 .. n : row[c] \in Rows
BY Constants DEF IInv, AllFit, TypeOK, Cycles

(* The three ways a handler rewrites a row without moving its clocks. *)
LEMMA RowEnds ==
  ASSUME NEW r \in Rows
  PROVE  [r EXCEPT !.ended = TRUE] \in Rows /\ [r EXCEPT !.ended = TRUE].ended
BY DEF Rows

LEMMA RowFinalizes ==
  ASSUME NEW r \in Rows, NEW flags \in SUBSET Clocks
  PROVE  /\ [r EXCEPT !.ended = TRUE, !.breached = flags] \in Rows
         /\ [r EXCEPT !.ended = TRUE, !.breached = flags].ended
BY DEF Rows

LEMMA RowAnswers ==
  ASSUME NEW r \in Rows, NEW flags \in SUBSET Clocks, NEW at \in Times
  PROVE  /\ [r EXCEPT !.answered = at, !.breached = flags] \in Rows
         /\ [r EXCEPT !.answered = at, !.breached = flags].ended = r.ended
BY DEF Rows

LEMMA RowLetGo ==
  ASSUME NEW rec \in Locals
  PROVE  [rec EXCEPT !.c = 0] \in Locals /\ [rec EXCEPT !.c = 0].todo = rec.todo
<1>1. 0 \in 0 .. MaxCycles
  BY Constants
<1> QED
  BY <1>1 DEF Locals

LEMMA EventCounted ==
  ASSUME NEW ev \in [Cycles -> [Sorts -> Nat]], NEW c \in Cycles, NEW s \in Sorts
  PROVE  [ev EXCEPT ![c][s] = @ + 1] \in [Cycles -> [Sorts -> Nat]]
<1>1. ev[c] \in [Sorts -> Nat] /\ ev[c][s] + 1 \in Nat
  OBVIOUS
<1>2. [ev[c] EXCEPT ![s] = @ + 1] \in [Sorts -> Nat]
  BY <1>1
<1> QED
  BY <1>2

LEMMA RowType ==
  ASSUME NEW start \in Times, NEW d \in Nat
  PROVE  Row(start, d) \in Rows
<1>1. start \in Nat /\ ResponseTarget \in Nat
  BY Constants
<1>2. [k \in Clocks |-> start + IF k = "response" THEN ResponseTarget ELSE d]
        \in [Clocks -> Nat]
  BY <1>1
<1> QED
  BY <1>2 DEF Row, Rows

LEMMA CreateStepKeeps ==
  ASSUME IInv, NEW w \in Workers, CreateStep(w)
  PROVE  IInv'
<1>1. ASSUME NEW d \in ResolutionTargets, Create(w, d)
      PROVE  IInv'
  <2>1. SharedOK' /\ n' = n /\ row' = row
    BY <1>1, Constants
    DEF Create, IInv, TypeOK, SharedOK, tickVars, rowVars, States, Due, Estimate
  <2> DEFINE rec == [Blank EXCEPT !.at = now, !.target = d]
  <2>2. rec \in Locals /\ rec.c = 0 /\ rec.todo = {}
    BY BlankLocal, Facts, Constants DEF Blank, Locals
  <2>3. "insertCycle" \in Labels /\ Fits("insertCycle", rec, row)
    BY <2>2, Facts DEF Labels, RestartLabels, Fits, OnRow
  <2> QED
    BY <1>1, <2>1, <2>2, <2>3, FrameStep DEF Create
<1>2. CASE InsertCycle(w)
  <2> DEFINE c == my[w].c + 1
             rec == [Blank EXCEPT !.target = my[w].at + my[w].target]
  <2>0. my[w].c \in 0 .. n /\ my[w].c < MaxCycles /\ my[w].at \in Times
        /\ my[w].target \in Nat /\ (my[w].c > 0 => row[my[w].c].ended)
    BY <1>2, Facts DEF InsertCycle, At, Fits, Locals
  <2>1. CASE n < c
    <3>1. my[w].c = n /\ c = n + 1 /\ c \in Cycles
      BY <2>0, <2>1, Facts DEF Cycles
    <3>2. Row(my[w].at, my[w].target) \in Rows
      BY <2>0, RowType
    <3>3. n' = n + 1 /\ row' = [row EXCEPT ![c] = Row(my[w].at, my[w].target)]
      BY <1>2, <2>1, <3>1 DEF InsertCycle
    <3>4. SharedOK'
      BY <1>2, <2>1, <3>1, <3>2, <3>3, Facts
      DEF InsertCycle, IInv, TypeOK, SharedOK, tickVars, Cycles
    <3>5. Become(w, "syncTicket", rec) /\ "syncTicket" \in Labels
      BY <1>2, <2>1 DEF InsertCycle, Labels
    <3>6. rec \in Locals
      <4>1. my[w].at + my[w].target \in Nat
        BY <2>0, Facts
      <4> QED
        BY <4>1, BlankLocal DEF Blank, Locals
    <3>7. TypeOK'
      BY <3>4, <3>5, <3>6 DEF IInv, TypeOK, SharedOK, Become
    <3>8. \A e \in 1 .. n : row[e].ended
      BY <2>0, <3>1, Facts DEF IInv, OnlyLatestOpen, OpenRows
    <3>9. \A e \in 1 .. n : row'[e] = row[e]
      BY <3>1, <3>3, Facts DEF IInv, TypeOK
    <3>10. OnlyLatestOpen'
      BY <3>3, <3>8, <3>9, Facts DEF OnlyLatestOpen, OpenRows
    <3>11. ASSUME NEW v \in Workers
           PROVE  Fits(pc[v], my[v], row)'
      <4>1. Fits(pc[v], my[v], row) /\ my[v] \in Locals
        BY Facts
      <4>2. CASE pc'[v] = pc[v] /\ my'[v] = my[v]
        <5>1. pc[v] = "insertCycle" /\ my[v].c > 0 => my[v].c \in 1 .. n
          BY <4>1, Facts DEF Fits, Locals
        <5>2. 1 .. n \subseteq 1 .. n' /\ n <= n'
          BY <3>3, Facts
        <5>3. pc[v] = "insertCycle" /\ my[v].c > 0 => row'[my[v].c].ended
          BY <3>9, <4>1, <5>1 DEF Fits
        <5>4. my[v].c \in Nat
          BY <4>1, Facts DEF Locals
        <5> HIDE DEF rec
        <5> QED
          BY <3>3, <4>1, <4>2, <5>2, <5>3, <5>4, Facts DEF Fits
      <4>3. CASE pc'[v] = "syncTicket" /\ my'[v] = rec
        BY <4>3 DEF Fits, OnRow, Blank
      <4> QED
        BY <3>5, <4>2, <4>3 DEF Become, IInv, TypeOK
    <3> QED
      BY <3>7, <3>10, <3>11 DEF IInv, AllFit
  <2>2. CASE ~(n < c)
    BY <1>2, <2>2, Unchanged, FinishStep DEF InsertCycle
  <2> QED
    BY <2>1, <2>2
<1>3. CASE SyncTicket(w)
  <2>1. SharedOK' /\ Kept
    BY <1>3, Facts
    DEF SyncTicket, IInv, TypeOK, SharedOK, Kept, tickVars, rowVars, Locals, Due
  <2> QED
    BY <1>3, <2>1, FinishStep DEF SyncTicket
<1> QED
  BY <1>1, <1>2, <1>3 DEF CreateStep

(* A step of one handler that leaves everything but its locals alone.        *)
LEMMA ThinkStep ==
  ASSUME IInv, UNCHANGED <<now, tickVars, mirror, rowVars, events>>,
         NEW w \in Workers, NEW l \in Labels \ {"insertCycle"}, NEW rec \in Locals,
         Become(w, l, rec), l \in OnRow => rec.c \in 1 .. n, rec.todo \subseteq 1 .. n,
         l = "patch" => rec.target \in ResolutionTargets
  PROVE  IInv'
<1>1. Fits(l, rec, row')
  BY DEF Fits
<1> QED
  BY <1>1, Unchanged, Step

LEMMA FinishThink ==
  ASSUME IInv, UNCHANGED <<now, tickVars, mirror, rowVars, events>>,
         NEW w \in Workers, Finish(w)
  PROVE  IInv'
BY Unchanged, FinishStep

LEMMA ChangeStepKeeps ==
  ASSUME IInv, NEW w \in Workers, ChangeStep(w)
  PROVE  IInv'
<1>1. ASSUME NEW to \in States, StartChange(w, to)
      PROVE  IInv'
  <2> DEFINE rec == [Blank EXCEPT !.from = state, !.to = to]
  <2>1. rec \in Locals /\ rec.todo = {} /\ "write" \in Labels \ (OnRow \cup {"insertCycle"})
    BY BlankLocal, Facts DEF Blank, Locals, Labels, OnRow
  <2> QED
    BY <1>1, <2>1, ThinkStep DEF StartChange
<1>2. CASE Write(w)
  <2>1. my[w].to \in States /\ (state' = state \/ state' = my[w].to)
        /\ resolvedAt' \in Times \cup {Never}
    BY <1>2, Facts DEF Write, Locals, IInv, TypeOK
  <2>2. SharedOK' /\ Kept
    BY <1>2, <2>1 DEF Write, IInv, TypeOK, SharedOK, Kept, rowVars
  <2>3. \/ Finish(w)
        \/ Become(w, "findOpen", [Blank EXCEPT !.at = now])
        \/ Become(w, "findLatest", [Blank EXCEPT !.target = target])
    BY <1>2 DEF Write, AfterWrite
  <2>4. [Blank EXCEPT !.at = now] \in Locals /\ [Blank EXCEPT !.target = target] \in Locals
    BY BlankLocal, Facts DEF Blank, Locals
  <2>5. /\ "findOpen" \in Labels /\ "findLatest" \in Labels
        /\ Fits("findOpen", [Blank EXCEPT !.at = now], row')
        /\ Fits("findLatest", [Blank EXCEPT !.target = target], row')
    BY DEF Labels, RestartLabels, Fits, OnRow, Blank
  <2> QED
    BY <2>2, <2>3, <2>4, <2>5, Step, FinishStep
<1> QED
  BY <1>1, <1>2 DEF ChangeStep

LEMMA LatestOpenRow ==
  ASSUME IInv, OpenRows # {}
  PROVE  Latest(OpenRows) \in 1 .. n
<1>1. \A c \in OpenRows : c = n
  BY DEF IInv, OnlyLatestOpen
<1>2. n \in OpenRows /\ n \in Nat
  BY <1>1, Facts DEF IInv, TypeOK
<1>3. \E c \in OpenRows : \A d \in OpenRows : d <= c
  BY <1>1, <1>2
<1>4. Latest(OpenRows) \in OpenRows
  BY <1>3 DEF Latest
<1> QED
  BY <1>4 DEF OpenRows

LEMMA FinalizeStepKeeps ==
  ASSUME IInv, NEW w \in Workers, FinalizeStep(w)
  PROVE  IInv'
<1>1. CASE FindOpen(w)
  <2>1. CASE OpenRows = {}
    BY <1>1, <2>1, FinishThink DEF FindOpen
  <2>2. CASE OpenRows # {}
    <3> DEFINE c == Latest(OpenRows)
               late == RunOut(row[c], my[w].at)
               rec == [Blank EXCEPT !.c = c, !.late = late]
    <3>1. c \in 1 .. n /\ c \in 0 .. MaxCycles
      BY <2>2, LatestOpenRow, Facts
    <3>2. late \in SUBSET Clocks
      BY DEF RunOut
    <3> HIDE DEF c, late
    <3>3. rec \in Locals /\ rec.c = c /\ rec.todo = {}
      BY <3>1, <3>2, BlankLocal DEF Blank, Locals
    <3>4. Become(w, "endCycle", rec)
      BY <1>1, <2>2 DEF FindOpen, c, late
    <3>5. "endCycle" \in Labels \ {"insertCycle"}
      BY DEF Labels
    <3> QED
      BY <1>1, <3>1, <3>3, <3>4, <3>5, ThinkStep DEF FindOpen
  <2> QED
    BY <2>1, <2>2
<1>2. CASE EndCycle(w)
  <2> DEFINE c == my[w].c
             flags == (row[c].breached \ {"resolution"}) \cup my[w].late
             new == [row[c] EXCEPT !.ended = TRUE, !.breached = flags]
  <2>1. c \in 1 .. n /\ my[w].todo \subseteq 1 .. n /\ my[w].late \subseteq Clocks
    BY <1>2, Facts DEF EndCycle, At, Fits, OnRow, Locals
  <2>0. row[c] \in Rows /\ flags \in SUBSET Clocks
    BY <2>1, Facts DEF Rows
  <2>2. new \in Rows /\ new.ended
    <3> HIDE DEF c, flags
    <3> QED
      BY <2>0, RowFinalizes
  <2>3. UpdateRow(c, new) /\ UNCHANGED <<now, tickVars, mirror, events>>
    BY <1>2 DEF EndCycle
  <2>4. SharedOK' /\ Kept
    BY <2>1, <2>2, <2>3, UpdateRowKeeps DEF IInv, TypeOK
  <2>5. Goto(w, "latchTicket") \/ RecordBreaches(w, my[w])
    BY <1>2 DEF EndCycle
  <2>6. "latchTicket" \in Labels /\ Fits("latchTicket", my[w], row')
    BY <2>1 DEF Labels, Fits
  <2> QED
    BY <2>1, <2>4, <2>5, <2>6, Facts, Step, RecordBreachesStep DEF Goto
<1>3. CASE LatchTicket(w)
  <2>1. my[w].c \in 1 .. n /\ my[w].todo \subseteq 1 .. n
    BY <1>3, Facts DEF LatchTicket, At, Fits, OnRow
  <2>2. SharedOK' /\ Kept
    BY <1>3 DEF LatchTicket, IInv, TypeOK, SharedOK, Kept, tickVars, rowVars
  <2> QED
    BY <1>3, <2>1, <2>2, Facts, RecordBreachesStep DEF LatchTicket
<1> QED
  BY <1>1, <1>2, <1>3 DEF FinalizeStep

LEMMA RecordStepKeeps ==
  ASSUME IInv, NEW w \in Workers, RecordStep(w)
  PROVE  IInv'
<1> DEFINE rest == [my[w] EXCEPT !.late = @ \ {NextLate(w)}]
<1>1. rest \in Locals /\ rest.c = my[w].c /\ rest.todo = my[w].todo
  BY Facts DEF Locals
<1>2. CASE CheckEvent(w)
  <2>1. my[w].c \in 1 .. n /\ my[w].todo \subseteq 1 .. n
    BY <1>2, Facts DEF CheckEvent, At, Fits, OnRow
  <2>2. Goto(w, "recordEvent") \/ RecordBreaches(w, rest)
    BY <1>2 DEF CheckEvent
  <2>3. "recordEvent" \in Labels \ {"insertCycle"}
    BY DEF Labels
  <2>4. UNCHANGED <<now, tickVars, mirror, rowVars, events>>
    BY <1>2 DEF CheckEvent
  <2> HIDE DEF rest
  <2> QED
    BY <1>1, <2>1, <2>2, <2>3, <2>4, Facts, ThinkStep, Unchanged, RecordBreachesStep
    DEF Goto
<1>3. CASE RecordEvent(w)
  <2>1. my[w].c \in 1 .. n /\ my[w].todo \subseteq 1 .. n
    BY <1>3, Facts DEF RecordEvent, At, Fits, OnRow
  <2>2. my[w].c \in Cycles /\ <<"breach", NextLate(w)>> \in Sorts
    BY <2>1, Facts DEF Sorts, Kinds, Clocks, NextLate
  <2>3. events' \in [Cycles -> [Sorts -> Nat]]
    BY <1>3, <2>2 DEF RecordEvent, IInv, TypeOK
  <2>4. SharedOK' /\ Kept
    BY <1>3, <2>3 DEF RecordEvent, IInv, TypeOK, SharedOK, Kept, tickVars, rowVars
  <2>5. RecordBreaches(w, rest)
    BY <1>3 DEF RecordEvent
  <2> HIDE DEF rest
  <2> QED
    BY <1>1, <2>1, <2>4, <2>5, RecordBreachesStep
<1> QED
  BY <1>2, <1>3 DEF RecordStep

LEMMA RestartStepKeeps ==
  ASSUME IInv, NEW w \in Workers, RestartStep(w)
  PROVE  IInv'
<1>1. CASE StartReply(w)
  <2> DEFINE rec == [Blank EXCEPT !.from = state, !.to = "IN_PROGRESS"]
  <2>1. rec \in Locals /\ rec.todo = {} /\ "reopen" \in Labels \ (OnRow \cup {"insertCycle"})
    BY BlankLocal, Facts DEF Blank, Locals, Labels, OnRow, States
  <2> QED
    BY <1>1, <2>1, ThinkStep DEF StartReply
<1>2. CASE Reopen(w)
  <2> DEFINE rec == [Blank EXCEPT !.target = target]
  <2>1. rec \in Locals /\ rec.todo = {}
    BY BlankLocal, Facts DEF Blank, Locals
  <2>2. "findLatest" \in Labels /\ Fits("findLatest", rec, row')
    BY <2>1 DEF Labels, RestartLabels, Fits, OnRow
  <2>3. SharedOK' /\ Kept
    BY <1>2 DEF Reopen, IInv, TypeOK, SharedOK, Kept, rowVars, States
  <2> QED
    BY <1>2, <2>1, <2>2, <2>3, Step DEF Reopen
<1>3. CASE FindLatest(w)
  <2> DEFINE rec == [my[w] EXCEPT !.c = n, !.at = now]
             open == n > 0 /\ ~row[n].ended
             label == IF open THEN "endDangling" ELSE "insertCycle"
  <2>1. rec \in Locals /\ rec.c = n /\ rec.todo \subseteq 1 .. n
    BY Facts DEF Locals, Fits
  <2>2. label \in Labels
    BY DEF Labels, RestartLabels
  <2>3. Fits(label, rec, row)
    BY <2>1, Facts DEF Fits, OnRow
  <2>4. SharedOK' /\ n' = n /\ row' = row
    BY <1>3, Unchanged DEF FindLatest, rowVars
  <2>5. Become(w, label, rec)
    BY <1>3 DEF FindLatest
  <2> HIDE DEF rec, label
  <2> QED
    BY <2>1, <2>2, <2>3, <2>4, <2>5, FrameStep
<1>4. CASE EndDangling(w)
  <2> DEFINE c == my[w].c
             new == [row[c] EXCEPT !.ended = TRUE]
  <2>1. c \in 1 .. n /\ my[w].todo \subseteq 1 .. n
    BY <1>4, Facts DEF EndDangling, At, Fits, OnRow
  <2>0. row[c] \in Rows
    BY <2>1, Facts
  <2>2. new \in Rows /\ new.ended
    <3> HIDE DEF c
    <3> QED
      BY <2>0, RowEnds
  <2>3. UpdateRow(c, new) /\ UNCHANGED <<now, tickVars, mirror, events>>
    BY <1>4 DEF EndDangling
  <2>4. SharedOK' /\ Kept
    BY <2>1, <2>2, <2>3, UpdateRowKeeps DEF IInv, TypeOK
  <2>5. row'[c].ended
    BY <2>1, <2>2, <2>3, Facts DEF UpdateRow, IInv, TypeOK
  <2>6. "insertCycle" \in Labels /\ Fits("insertCycle", my[w], row')
    BY <2>1, <2>5, Facts DEF Labels, RestartLabels, Fits, OnRow
  <2> QED
    BY <1>4, <2>4, <2>6, Facts, Step DEF EndDangling, Goto
<1> QED
  BY <1>1, <1>2, <1>3, <1>4 DEF RestartStep

LEMMA CloseStepKeeps ==
  ASSUME IInv, NEW w \in Workers, CloseStep(w)
  PROVE  IInv'
<1>1. CASE StartAutoClose(w)
  <2>1. "autoClose" \in Labels \ (OnRow \cup {"insertCycle"})
    BY DEF Labels, OnRow
  <2> DEFINE rec == [Blank EXCEPT !.at = now]
  <2>2. rec \in Locals /\ rec.todo \subseteq 1 .. n
    BY BlankLocal DEF Blank, Locals, IInv, TypeOK
  <2> HIDE DEF rec
  <2>3. Become(w, "autoClose", rec)
    BY <1>1 DEF StartAutoClose, rec
  <2> QED
    BY <1>1, <2>1, <2>2, <2>3, ThinkStep DEF StartAutoClose, OnRow
<1>2. CASE AutoClose(w)
  <2>1. SharedOK' /\ Kept
    BY <1>2 DEF AutoClose, IInv, TypeOK, SharedOK, Kept, rowVars, States
  <2> QED
    BY <1>2, <2>1, FinishStep DEF AutoClose
<1> QED
  BY <1>1, <1>2 DEF CloseStep

LEMMA NoteStepKeeps ==
  ASSUME IInv, NEW w \in Workers, NoteStep(w)
  PROVE  IInv'
<1>1. CASE StartNote(w)
  <2> DEFINE rec == [Blank EXCEPT !.at = now]
  <2>1. rec \in Locals /\ rec.todo = {} /\ "readLatest" \in Labels \ (OnRow \cup {"insertCycle"})
    BY BlankLocal, Facts DEF Blank, Locals, Labels, OnRow
  <2> QED
    BY <1>1, <2>1, ThinkStep DEF StartNote
<1>2. CASE ReadLatest(w)
  <2>1. CASE n > 0 /\ row[n].answered = Never
    <3> DEFINE late == {"response"} \cap RunOut(row[n], my[w].at)
               flag == late # {} \/ "response" \in row[n].breached
               rec == [my[w] EXCEPT !.c = n, !.late = late, !.latched = flag]
    <3>1. late \in SUBSET Clocks /\ flag \in BOOLEAN
      BY DEF RunOut
    <3>2. Become(w, "answer", rec)
      BY <1>2, <2>1 DEF ReadLatest
    <3> HIDE DEF late, flag
    <3>3. n \in 1 .. n /\ n \in 0 .. MaxCycles /\ my[w] \in Locals
          /\ my[w].todo \subseteq 1 .. n
      BY <2>1, Facts DEF Fits
    <3>5. rec \in Locals /\ rec.c = n /\ rec.todo = my[w].todo
      BY <3>1, <3>3 DEF Locals
    <3>4. "answer" \in Labels \ {"insertCycle"}
      BY DEF Labels
    <3> QED
      BY <1>2, <3>2, <3>3, <3>4, <3>5, ThinkStep DEF ReadLatest
  <2>2. CASE ~(n > 0 /\ row[n].answered = Never)
    BY <1>2, <2>2, FinishThink DEF ReadLatest
  <2> QED
    BY <2>1, <2>2
<1>3. CASE Answer(w)
  <2> DEFINE c == my[w].c
             flag == IF my[w].latched THEN {"response"} ELSE {}
             flags == (row[c].breached \ {"response"}) \cup flag
             new == [row[c] EXCEPT !.answered = my[w].at, !.breached = flags]
  <2>1. c \in 1 .. n /\ my[w].todo \subseteq 1 .. n /\ my[w].at \in Times
    BY <1>3, Facts DEF Answer, At, Fits, OnRow, Locals
  <2>2. flags \in SUBSET Clocks
    BY <2>1, Facts DEF Rows, Clocks
  <2>3. UpdateRow(c, new) /\ UNCHANGED <<now, tickVars, mirror, events>>
    BY <1>3 DEF Answer
  <2> HIDE DEF flags
  <2>0. row[c] \in Rows
    BY <2>1, Facts
  <2>4. new \in Rows /\ new.ended = row[c].ended
    <3> HIDE DEF c
    <3> QED
      BY <2>0, <2>1, <2>2, RowAnswers
  <2>5. SharedOK' /\ Kept
    BY <2>1, <2>3, <2>4, UpdateRowKeeps DEF IInv, TypeOK
  <2>6. "mirrorAnswer" \in Labels /\ Fits("mirrorAnswer", my[w], row')
    BY <2>1 DEF Labels, Fits
  <2> QED
    BY <1>3, <2>5, <2>6, Facts, Step DEF Answer, Goto
<1>4. CASE MirrorAnswer(w)
  <2>1. my[w].c \in 1 .. n /\ my[w].todo \subseteq 1 .. n /\ my[w].latched \in BOOLEAN
    BY <1>4, Facts DEF MirrorAnswer, At, Fits, OnRow, Locals
  <2>2. SharedOK' /\ Kept
    BY <1>4, <2>1 DEF MirrorAnswer, IInv, TypeOK, SharedOK, Kept, tickVars, rowVars
  <2> QED
    BY <1>4, <2>1, <2>2, Facts, RecordBreachesStep DEF MirrorAnswer
<1> QED
  BY <1>1, <1>2, <1>3, <1>4 DEF NoteStep

LEMMA PatchStepKeeps ==
  ASSUME IInv, NEW w \in Workers, PatchStep(w)
  PROVE  IInv'
<1>1. ASSUME NEW d \in ResolutionTargets, StartPatch(w, d)
      PROVE  IInv'
  <2> DEFINE rec == [Blank EXCEPT !.target = d]
  <2>1. rec \in Locals /\ rec.todo = {} /\ rec.target = d /\ "patch" \in Labels \ (OnRow \cup {"insertCycle"})
    BY BlankLocal, Constants DEF Blank, Locals, Labels, OnRow
  <2> QED
    BY <1>1, <2>1, ThinkStep DEF StartPatch
<1>2. CASE Patch(w)
  <2>0. my[w].target \in ResolutionTargets
    BY <1>2, Facts DEF Patch, At, Fits
  <2>1. SharedOK' /\ Kept
    BY <1>2, <2>0 DEF Patch, IInv, TypeOK, SharedOK, Kept, rowVars, Due, Estimate
  <2>2. "findTarget" \in Labels /\ Fits("findTarget", my[w], row')
    BY Facts DEF Labels, Fits, OnRow
  <2> QED
    BY <1>2, <2>1, <2>2, Facts, Step DEF Patch, Goto
<1>3. CASE FindTarget(w)
  <2>1. CASE OpenRows = {}
    BY <1>3, <2>1, FinishThink DEF FindTarget
  <2>2. CASE OpenRows # {}
    <3> DEFINE c == Latest(OpenRows)
               due == row[c].start + my[w].target
               rec == [Blank EXCEPT !.c = c, !.at = now, !.target = due]
    <3>1. c \in 1 .. n /\ c \in 0 .. MaxCycles
      BY <2>2, LatestOpenRow, Facts
    <3>2. due \in Nat
      <4>1. row[c].start \in Nat
        BY <3>1, Facts DEF Rows
      <4>2. my[w].target \in Nat
        BY Facts DEF Locals
      <4> HIDE DEF c
      <4> QED
        BY <4>1, <4>2
    <3>3. Become(w, "retarget", rec)
      BY <1>3, <2>2 DEF FindTarget
    <3> HIDE DEF c, due
    <3>4. rec \in Locals /\ rec.c = c /\ rec.todo = {}
      BY <3>1, <3>2, BlankLocal, Facts DEF Blank, Locals
    <3>5. "retarget" \in Labels \ {"insertCycle"}
      BY DEF Labels
    <3> QED
      BY <1>3, <3>1, <3>3, <3>4, <3>5, ThinkStep DEF FindTarget
  <2> QED
    BY <2>1, <2>2
<1>4. CASE Retarget(w)
  <2> DEFINE c == my[w].c
             flag == IF my[w].at > my[w].target THEN {"resolution"} ELSE {}
             flags == (row[c].breached \ {"resolution"}) \cup flag
             due == [row[c].due EXCEPT !["resolution"] = my[w].target]
             new == [row[c] EXCEPT !.due["resolution"] = my[w].target,
                                   !.breached = flags]
  <2>1. c \in 1 .. n /\ my[w].todo \subseteq 1 .. n /\ my[w].target \in Nat
    BY <1>4, Facts DEF Retarget, At, Fits, OnRow, Locals
  <2>2. flags \in SUBSET Clocks /\ due \in [Clocks -> Nat]
    BY <2>1, Facts DEF Rows, Clocks
  <2>3. UpdateRow(c, new) /\ UNCHANGED <<now, tickVars, mirror, events>>
    BY <1>4 DEF Retarget
  <2>4. new = [row[c] EXCEPT !.due = due, !.breached = flags]
    BY <2>1, Facts DEF Rows
  <2>8. row[c] \in Rows
    BY <2>1, Facts
  <2> HIDE DEF flags, due, new, c
  <2>5. new \in Rows /\ new.ended = row[c].ended
    BY <2>2, <2>4, <2>8 DEF Rows
  <2> USE DEF c
  <2>6. SharedOK' /\ Kept
    BY <2>1, <2>3, <2>5, UpdateRowKeeps DEF IInv, TypeOK
  <2>7. "mirrorDue" \in Labels /\ Fits("mirrorDue", my[w], row')
    BY <2>1 DEF Labels, Fits
  <2> QED
    BY <1>4, <2>6, <2>7, Facts, Step DEF Retarget, Goto
<1>5. CASE MirrorDue(w)
  <2>1. SharedOK' /\ Kept
    BY <1>5, Facts
    DEF MirrorDue, IInv, TypeOK, SharedOK, Kept, tickVars, rowVars, Locals, Due
  <2> QED
    BY <1>5, <2>1, FinishStep DEF MirrorDue
<1> QED
  BY <1>1, <1>2, <1>3, <1>4, <1>5 DEF PatchStep

(* What comes after a candidate of a sweep. *)
LEMMA ProceedStep ==
  ASSUME IInv, SharedOK', Kept, NEW w \in Workers, NEW rec \in Locals,
         Proceed(w, rec), rec.todo \subseteq 1 .. n
  PROVE  IInv'
<1> DEFINE next == [Blank EXCEPT !.at = rec.at, !.pass = rec.pass + 1]
<1>1. CASE rec.todo # {}
  <2>1. "claim" \in Labels /\ Fits("claim", rec, row')
    BY DEF Labels, Fits, OnRow
  <2> QED
    BY <1>1, <2>1, Step DEF Proceed
<1>2. CASE rec.todo = {} /\ rec.pass < Len(Passes)
  <2>1. rec.pass + 1 \in 1 .. Len(Passes) /\ rec.at \in Times
    BY <1>2, PassesLen DEF Locals
  <2>2. next \in Locals /\ next.todo = {}
    BY <2>1, BlankLocal DEF Blank, Locals
  <2>3. Become(w, "scan", next)
    BY <1>2 DEF Proceed
  <2> HIDE DEF next
  <2>4. "scan" \in Labels /\ Fits("scan", next, row')
    BY <2>2 DEF Labels, Fits, OnRow
  <2> QED
    BY <2>2, <2>3, <2>4, Step
<1>3. CASE rec.todo = {} /\ ~(rec.pass < Len(Passes))
  BY <1>3, FinishStep DEF Proceed
<1> QED
  BY <1>1, <1>2, <1>3

LEMMA SweepStepKeeps ==
  ASSUME IInv, NEW w \in Workers, SweepStep(w)
  PROVE  IInv'
<1>0. my[w] \in Locals /\ my[w].todo \subseteq 1 .. n /\ Pass(w) \in Sorts
  BY Facts, PassesLen DEF Fits, Locals, Pass
<1>1. CASE StartSweep(w)
  <2> DEFINE rec == [Blank EXCEPT !.at = now]
  <2>1. rec \in Locals /\ rec.todo = {} /\ "scan" \in Labels \ (OnRow \cup {"insertCycle"})
    BY BlankLocal, Facts DEF Blank, Locals, Labels, OnRow
  <2> QED
    BY <1>1, <2>1, ThinkStep DEF StartSweep
<1>2. CASE Scan(w)
  <2> DEFINE found == Candidates(Pass(w), my[w].at)
             rec == [my[w] EXCEPT !.todo = found]
  <2>1. found \subseteq 1 .. n
    BY DEF Candidates, OpenRows
  <2>2. fresh' \in [Cycles -> SUBSET Workers]
    BY <1>2 DEF Scan, IInv, TypeOK
  <2>3. SharedOK' /\ Kept
    BY <1>2, <2>2 DEF Scan, IInv, TypeOK, SharedOK, Kept, tickVars
  <2>4. Proceed(w, rec)
    BY <1>2 DEF Scan
  <2> HIDE DEF found
  <2>5. rec \in Locals /\ rec.todo = found
    BY <1>0, <2>1, Facts DEF Locals
  <2> QED
    BY <2>1, <2>3, <2>4, <2>5, ProceedStep
<1>3. CASE Notice(w)
  <2> DEFINE rec == [my[w] EXCEPT !.c = 0]
  <2>1. events' \in [Cycles -> [Sorts -> Nat]]
    <3>1. my[w].c \in Cycles
      BY <1>3, Facts DEF Notice, At, Fits, OnRow
    <3>2. events \in [Cycles -> [Sorts -> Nat]]
      BY DEF IInv, TypeOK
    <3>3. events' = [events EXCEPT ![my[w].c][Pass(w)] = @ + 1]
      BY <1>3 DEF Notice
    <3> QED
      BY <1>0, <3>1, <3>2, <3>3, EventCounted
  <2>2. SharedOK' /\ Kept
    BY <1>3, <2>1 DEF Notice, IInv, TypeOK, SharedOK, Kept, tickVars, rowVars
  <2>3. rec \in Locals /\ rec.todo = my[w].todo
    BY <1>0, RowLetGo
  <2> QED
    BY <1>0, <1>3, <2>2, <2>3, ProceedStep DEF Notice
<1>4. ASSUME NEW c \in Cycles, Claim(w, c)
      PROVE  IInv'
  <2> DEFINE rest == [my[w] EXCEPT !.todo = @ \ {c}]
             found == [rest EXCEPT !.c = c]
             new == Latched(row[c], Pass(w))
  <2>1. c \in 1 .. n /\ c \in 0 .. MaxCycles
    BY <1>0, <1>4, Facts DEF Claim
  <2>2. rest \in Locals /\ rest.todo \subseteq 1 .. n
    BY <1>0 DEF Locals
  <2>3. found \in Locals /\ found.c = c /\ found.todo \subseteq 1 .. n
    BY <1>0, <2>1 DEF Locals
  <2>4. new \in Rows /\ new.ended = row[c].ended
    BY <1>0, <2>1, Facts DEF Latched, Rows, Sorts
  <2>5. CASE w \in fresh[c]
    <3>1. UpdateRow(c, new) /\ UNCHANGED <<now, tickVars, mirror, events>>
      BY <1>4, <2>5 DEF Claim
    <3>2. Become(w, "notice", found)
      BY <1>4, <2>5 DEF Claim
    <3> HIDE DEF found, new
    <3>3. SharedOK' /\ Kept
      BY <2>1, <2>4, <3>1, UpdateRowKeeps DEF IInv, TypeOK
    <3>4. "notice" \in Labels /\ Fits("notice", found, row')
      BY <2>1, <2>3 DEF Labels, Fits
    <3> QED
      BY <2>3, <3>2, <3>3, <3>4, Step
  <2>6. CASE w \notin fresh[c]
    BY <1>4, <2>2, <2>6, Unchanged, ProceedStep DEF Claim
  <2> QED
    BY <2>5, <2>6
<1> QED
  BY <1>1, <1>2, <1>3, <1>4 DEF SweepStep

-----------------------------------------------------------------------------
(* The induction. *)

LEMMA InitInv == Init => IInv
<1> SUFFICES ASSUME Init PROVE IInv
  OBVIOUS
<1>1. Nothing \in Rows
  BY Constants DEF Nothing, Row, Rows, Times, Clocks
<1>2. TypeOK
  BY <1>1, BlankLocal, Constants
  DEF Init, TypeOK, Times, States, Due, Estimate, Labels
<1>3. AllFit
  BY DEF Init, AllFit, Fits, OnRow, Blank
<1>4. OnlyLatestOpen
  BY DEF Init, OnlyLatestOpen, OpenRows
<1> QED
  BY <1>2, <1>3, <1>4 DEF IInv

(* A step that leaves the handlers and the rows alone. *)
LEMMA OutsideStep ==
  ASSUME IInv, SharedOK', UNCHANGED <<rowVars, pc, my>>
  PROVE  IInv'
BY DEF IInv, TypeOK, SharedOK, AllFit, Fits, OnlyLatestOpen, OpenRows, rowVars

LEMMA NextKeeps == IInv /\ [Next]_vars => IInv'
<1> SUFFICES ASSUME IInv, [Next]_vars PROVE IInv'
  OBVIOUS
<1>1. CASE Tick
  <2>1. SharedOK'
    BY <1>1, Constants DEF Tick, IInv, TypeOK, SharedOK, tickVars, rowVars, Times
  <2> QED
    BY <1>1, <2>1, OutsideStep DEF Tick
<1>2. CASE Confirm
  <2>1. SharedOK'
    BY <1>2 DEF Confirm, IInv, TypeOK, SharedOK, rowVars, States
  <2> QED
    BY <1>2, <2>1, OutsideStep DEF Confirm
<1>3. ASSUME NEW w \in Workers, Worker(w)
      PROVE  IInv'
  <2>1. CASE Fail(w)
    BY <2>1, FinishThink DEF Fail
  <2> QED
    BY <1>3, <2>1, CreateStepKeeps, ChangeStepKeeps, FinalizeStepKeeps,
       RecordStepKeeps, RestartStepKeeps, CloseStepKeeps, NoteStepKeeps,
       PatchStepKeeps, SweepStepKeeps
    DEF Worker
<1>4. CASE UNCHANGED vars
  <2>1. SharedOK'
    BY <1>4 DEF vars, IInv, TypeOK, SharedOK, tickVars, rowVars
  <2> QED
    BY <1>4, <2>1, OutsideStep DEF vars
<1> QED
  BY <1>1, <1>2, <1>3, <1>4 DEF Next

(* The inductive invariant holds in every behaviour. *)
THEOREM InvariantHolds == Spec => []IInv
BY InitInv, NextKeeps, PTL DEF Spec

(* Every behaviour is well typed. *)
THEOREM LifecycleTypeCorrect == Spec => []TypeOK
<1>1. IInv => TypeOK
  BY DEF IInv
<1> QED
  BY InvariantHolds, <1>1, PTL

(* However many handlers resolve, rework and reopen a ticket at once, and     *)
(* wherever they fail, only its newest cycle is ever open (restartCycle's    *)
(* "so history can never show two").                                         *)
THEOREM OnlyLatestOpenHolds == Spec => []OnlyLatestOpen
<1>1. IInv => OnlyLatestOpen
  BY DEF IInv
<1> QED
  BY InvariantHolds, <1>1, PTL

(* A ticket is closed only from RESOLVED: the force close, the requester's    *)
(* confirmation and the auto-close are compare-and-sets, and nothing else    *)
(* writes CLOSED.  The state a handler means to write is one it judged.      *)
THEOREM CloseFromResolvedHolds == Spec => CloseFromResolved
<1>1. ASSUME [Next]_vars, state' = "CLOSED", state # "CLOSED"
      PROVE  state = "RESOLVED"
  <2>1. ASSUME NEW w \in Workers, Worker(w)
        PROVE  state = "RESOLVED"
    <3>1. CASE CreateStep(w)
      BY <1>1, <3>1 DEF CreateStep, Create, InsertCycle, SyncTicket, tickVars
    <3>2. CASE ChangeStep(w)
      BY <1>1, <3>2 DEF ChangeStep, StartChange, Write, ForceClose, tickVars
    <3>3. CASE FinalizeStep(w) \/ RecordStep(w)
      BY <1>1, <3>3
      DEF FinalizeStep, FindOpen, EndCycle, LatchTicket, RecordStep, CheckEvent,
          RecordEvent, tickVars
    <3>4. CASE RestartStep(w)
      BY <1>1, <3>4
      DEF RestartStep, StartReply, Reopen, FindLatest, EndDangling, tickVars
    <3>5. CASE CloseStep(w)
      BY <1>1, <3>5 DEF CloseStep, StartAutoClose, AutoClose, tickVars
    <3>6. CASE NoteStep(w)
      BY <1>1, <3>6
      DEF NoteStep, StartNote, ReadLatest, Answer, MirrorAnswer, tickVars
    <3>7. CASE PatchStep(w)
      BY <1>1, <3>7
      DEF PatchStep, StartPatch, Patch, FindTarget, Retarget, MirrorDue, tickVars
    <3>8. CASE SweepStep(w)
      BY <1>1, <3>8 DEF SweepStep, StartSweep, Scan, Claim, Notice, tickVars
    <3>9. CASE Fail(w)
      BY <1>1, <3>9 DEF Fail, tickVars
    <3> QED
      BY <2>1, <3>1, <3>2, <3>3, <3>4, <3>5, <3>6, <3>7, <3>8, <3>9 DEF Worker
  <2>2. CASE Tick \/ Confirm \/ UNCHANGED vars
    BY <1>1, <2>2 DEF Tick, Confirm, vars, tickVars
  <2> QED
    BY <1>1, <2>1, <2>2 DEF Next
<1>2. [Next]_vars => [state' = "CLOSED" /\ state # "CLOSED" => state = "RESOLVED"]_vars
  BY <1>1
<1> QED
  BY <1>2, PTL DEF Spec, CloseFromResolved


-----------------------------------------------------------------------------
(* What follows is for handlers that run one after the other: with two, a    *)
(* note and a sweep that judge the same row by what each has read record a   *)
(* breach twice or beside an answer in time, and a rework meets a reply.     *)

Serial == \A v, w \in Workers : v = w

(* What is recorded.  A row's response is late when it came too late, or has *)
(* not come and it is too late for it.                                       *)
Response == <<"breach", "response">>

Late(r, t) == IF r.answered = Never THEN t > r.due["response"]
                                    ELSE r.answered > r.due["response"]

Recorded ==
  \A c \in Cycles :
    /\ \A s \in Sorts : events[c][s] \in {0, 1} /\ (c > n => events[c][s] = 0)
    /\ c <= n /\ events[c][Response] > 0 => Late(row[c], now)

(* What the handler holds against a row is still true of it.                 *)
Accusing == {"endCycle", "latchTicket", "checkEvent", "recordEvent", "mirrorAnswer"}

Holds(w) ==
  /\ my[w].at <= now
  /\ pc[w] \in Accusing /\ "response" \in my[w].late => Late(row[my[w].c], now)
  /\ pc[w] \in {"readLatest", "answer"} =>
       \A c \in 1 .. n : events[c][Response] > 0 => Late(row[c], my[w].at)
  /\ pc[w] = "answer" =>
       /\ row[my[w].c].answered = Never
       /\ "response" \in my[w].late => Late(row[my[w].c], my[w].at)
  /\ pc[w] = "recordEvent" => events[my[w].c][<<"breach", NextLate(w)>>] = 0
  /\ pc[w] \in {"claim", "notice"} =>
       \A c \in my[w].todo \cup (IF pc[w] = "notice" THEN {my[w].c} ELSE {}) :
         events[c][Pass(w)] = 0 /\ (Pass(w) = Response => Late(row[c], now))
  /\ pc[w] = "notice" => my[w].c \notin my[w].todo

RecordInv == Recorded /\ \A w \in Workers : Holds(w)

LEMMA Becomes ==
  ASSUME IInv, NEW w \in Workers, NEW l, NEW rec, Become(w, l, rec)
  PROVE  pc'[w] = l /\ my'[w] = rec
BY DEF Become, IInv, TypeOK

LEMMA Finishes ==
  ASSUME IInv, NEW w \in Workers, Finish(w)
  PROVE  pc'[w] = "idle" /\ my'[w] = Blank
BY Becomes DEF Finish

LEMMA GoesTo ==
  ASSUME IInv, NEW w \in Workers, NEW l, Goto(w, l)
  PROVE  pc'[w] = l /\ my'[w] = my[w]
BY Becomes DEF Goto

LEMMA BreachesNext ==
  ASSUME IInv, NEW w \in Workers, NEW rec, RecordBreaches(w, rec)
  PROVE  \/ pc'[w] = "idle" /\ my'[w] = Blank
         \/ pc'[w] = "checkEvent" /\ my'[w] = rec
BY Becomes, Finishes DEF RecordBreaches

LEMMA ProceedsTo ==
  ASSUME IInv, NEW w \in Workers, NEW rec, Proceed(w, rec)
  PROVE  \/ pc'[w] = "idle" /\ my'[w] = Blank
         \/ pc'[w] = "claim" /\ my'[w] = rec
         \/ pc'[w] = "scan" /\ my'[w].at = rec.at
<1>1. CASE Finish(w)
  BY <1>1, Finishes
<1>2. CASE Become(w, "claim", rec)
  BY <1>2, Becomes
<1> DEFINE next == [Blank EXCEPT !.at = rec.at, !.pass = rec.pass + 1]
<1>3. CASE Become(w, "scan", next)
  <2>1. next.at = rec.at
    BY DEF Blank
  <2> HIDE DEF next
  <2> QED
    BY <1>3, <2>1, Becomes
<1> QED
  BY <1>1, <1>2, <1>3 DEF Proceed

LEMMA NewestOpen ==
  ASSUME IInv, OpenRows # {}
  PROVE  Latest(OpenRows) = n /\ n \in OpenRows /\ n \in 1 .. n
<1>1. \A c \in OpenRows : c = n
  BY DEF IInv, OnlyLatestOpen
<1>2. n \in OpenRows /\ n \in Nat
  BY <1>1, Facts DEF IInv, TypeOK
<1>3. \E c \in OpenRows : \A d \in OpenRows : d <= c
  BY <1>1, <1>2
<1>4. Latest(OpenRows) \in OpenRows
  BY <1>3 DEF Latest
<1> QED
  BY <1>1, <1>2, <1>4 DEF OpenRows

LEMMA RowUpdated ==
  ASSUME IInv, NEW c \in 1 .. n, NEW new, UpdateRow(c, new)
  PROVE  n' = n /\ row'[c] = new /\ \A d \in 1 .. n : d # c => row'[d] = row[d]
<1>1. 1 .. n \subseteq Cycles
  BY Constants DEF IInv, TypeOK, Cycles
<1> QED
  BY <1>1 DEF UpdateRow, IInv, TypeOK

-----------------------------------------------------------------------------
(* Breaches are recorded once, and none beside an answer that came in time.  *)

(* No row is added, and no answer or response target changes. *)
RowsStand ==
  /\ n' = n
  /\ \A c \in 1 .. n : /\ row'[c].answered = row[c].answered
                       /\ row'[c].due["response"] = row[c].due["response"]

LEMMA LateStays ==
  ASSUME IInv, RowsStand, NEW c \in 1 .. n, NEW t \in Nat, NEW u \in Nat, t <= u,
         Late(row[c], t)
  PROVE  Late(row'[c], u)
<1>1. row[c].due["response"] \in Nat
  BY Constants DEF IInv, TypeOK, Cycles, Rows, Clocks
<1> QED
  BY <1>1 DEF Late, RowsStand

LEMMA RecordedStands ==
  ASSUME IInv, Recorded, RowsStand, UNCHANGED events, now' \in Nat, now <= now'
  PROVE  Recorded'
<1>1. now \in Nat /\ n \in Nat /\ MaxCycles \in Nat
  BY Constants DEF IInv, TypeOK
<1>2. ASSUME NEW c \in Cycles
      PROVE  /\ \A s \in Sorts : events'[c][s] \in {0, 1} /\ (c > n' => events'[c][s] = 0)
             /\ c <= n' /\ events'[c][Response] > 0 => Late(row'[c], now')
  <2>1. \A s \in Sorts : events'[c][s] \in {0, 1} /\ (c > n' => events'[c][s] = 0)
    BY DEF Recorded, RowsStand
  <2>2. ASSUME c <= n', events'[c][Response] > 0
        PROVE  Late(row'[c], now')
    <3>1. c \in 1 .. n /\ Late(row[c], now)
      BY <1>1, <2>2 DEF Recorded, RowsStand, Cycles
    <3> QED
      BY <1>1, <3>1, LateStays
  <2> QED
    BY <2>1, <2>2
<1> QED
  BY <1>2 DEF Recorded

(* A handler holds something at these labels only. *)
Loaded == Accusing \cup {"readLatest", "answer", "claim", "notice"}

LEMMA HoldsNothing ==
  ASSUME NEW w \in Workers, pc'[w] \notin Loaded, my'[w].at <= now'
  PROVE  Holds(w)'
BY DEF Holds, Loaded, Accusing

LEMMA FinishHolds ==
  ASSUME IInv, NEW w \in Workers, Finish(w), now' \in Nat
  PROVE  Holds(w)'
<1>1. my'[w].at = 0
  BY Finishes DEF Blank
<1> QED
  BY <1>1, Finishes, HoldsNothing DEF Loaded, Accusing

LEMMA StillAccuses ==
  ASSUME IInv, NEW w \in Workers, Holds(w), RowsStand, UNCHANGED now,
         pc[w] \in Accusing, pc'[w] \in Accusing \ {"recordEvent"},
         my'[w].c = my[w].c, my'[w].at = my[w].at, my'[w].late \subseteq my[w].late
  PROVE  Holds(w)'
<1>1. my[w].c \in 1 .. n /\ now \in Nat
  BY Facts DEF Fits, OnRow, Accusing
<1>2. "response" \in my'[w].late => Late(row'[my[w].c], now)
  BY <1>1, LateStays DEF Holds
<1> QED
  BY <1>2 DEF Holds, Accusing

LEMMA QuietRecords ==
  ASSUME IInv, Recorded, NEW w \in Workers, Holds(w), UNCHANGED <<now, events>>, RowsStand,
         \/ pc'[w] \notin Loaded /\ my'[w].at \in {0, now, my[w].at}
         \/ Finish(w)
  PROVE  Recorded' /\ Holds(w)'
<1>1. now \in Nat /\ my[w].at <= now
  BY Facts DEF Holds
<1>2. Recorded'
  BY <1>1, RecordedStands
<1>3. CASE Finish(w)
  BY <1>1, <1>2, <1>3, FinishHolds
<1>4. CASE pc'[w] \notin Loaded /\ my'[w].at \in {0, now, my[w].at}
  BY <1>1, <1>2, <1>4, HoldsNothing
<1> QED
  BY <1>3, <1>4

LEMMA CreateRecords ==
  ASSUME IInv, Recorded, NEW w \in Workers, Holds(w), CreateStep(w)
  PROVE  Recorded' /\ Holds(w)'
<1>0. UNCHANGED <<now, events>> /\ now \in Nat /\ now \in Times
  BY Facts DEF CreateStep, Create, InsertCycle, SyncTicket
<1>1. ASSUME NEW d \in ResolutionTargets, Create(w, d)
      PROVE  Recorded' /\ Holds(w)'
  <2> DEFINE rec == [Blank EXCEPT !.at = now, !.target = d]
  <2>1. Become(w, "insertCycle", rec) /\ rec.at = now
    BY <1>1 DEF Create, Blank
  <2> HIDE DEF rec
  <2>2. pc'[w] = "insertCycle" /\ my'[w].at = now
    BY <2>1, Becomes
  <2>3. RowsStand
    BY <1>1 DEF Create, rowVars, RowsStand
  <2> QED
    BY <1>0, <2>2, <2>3, QuietRecords DEF Loaded, Accusing
<1>2. CASE InsertCycle(w)
  <2>1. CASE n < my[w].c + 1
    <3> DEFINE c == my[w].c + 1
               rec == [Blank EXCEPT !.target = my[w].at + my[w].target]
    <3>1. c = n + 1 /\ c \in Cycles /\ n \in Nat
      BY <1>2, <2>1, Facts DEF InsertCycle, At, Fits, Locals, Cycles
    <3>2. n' = n + 1 /\ row' = [row EXCEPT ![c] = Row(my[w].at, my[w].target)]
      BY <1>2, <2>1, <3>1 DEF InsertCycle
    <3>3. Become(w, "syncTicket", rec) /\ rec.at = 0
      BY <1>2, <2>1 DEF InsertCycle, Blank
    <3> HIDE DEF c, rec
    <3>4. pc'[w] = "syncTicket" /\ my'[w].at = 0
      BY <3>3, Becomes
    <3>5. Holds(w)'
      BY <1>0, <3>4, HoldsNothing DEF Loaded, Accusing
    <3>6. ASSUME NEW d \in Cycles
          PROVE  /\ \A s \in Sorts : events'[d][s] \in {0, 1} /\ (d > n' => events'[d][s] = 0)
                 /\ d <= n' /\ events'[d][Response] > 0 => Late(row'[d], now')
      <4>0. d \in Nat
        BY Constants DEF Cycles
      <4>1. \A s \in Sorts : events'[d][s] \in {0, 1} /\ (d > n' => events'[d][s] = 0)
        BY <1>0, <3>1, <3>2, <4>0 DEF Recorded
      <4>2. CASE d = c
        <5>1. Response \in Sorts
          BY DEF Response, Sorts, Kinds, Clocks
        <5>2. events'[d][Response] = 0
          BY <1>0, <3>1, <4>2, <5>1 DEF Recorded
        <5> QED
          BY <4>1, <5>2
      <4>3. CASE d # c
        <5>1. row'[d] = row[d] /\ (d <= n' => d <= n)
          BY <3>1, <3>2, <4>0, <4>3 DEF IInv, TypeOK
        <5> QED
          BY <1>0, <4>1, <5>1 DEF Recorded
      <4> QED
        BY <4>2, <4>3
    <3> QED
      BY <3>5, <3>6 DEF Recorded
  <2>2. CASE ~(n < my[w].c + 1)
    BY <1>0, <1>2, <2>2, QuietRecords DEF InsertCycle, rowVars, RowsStand
  <2> QED
    BY <2>1, <2>2
<1>3. CASE SyncTicket(w)
  BY <1>0, <1>3, QuietRecords DEF SyncTicket, rowVars, RowsStand
<1> QED
  BY <1>1, <1>2, <1>3 DEF CreateStep

LEMMA ChangeRecords ==
  ASSUME IInv, Recorded, NEW w \in Workers, Holds(w),
         ChangeStep(w) \/ RestartStep(w) \/ CloseStep(w)
  PROVE  Recorded' /\ Holds(w)'
<1>0. UNCHANGED <<now, events>>
  BY DEF ChangeStep, StartChange, Write, RestartStep, StartReply, Reopen, FindLatest,
     EndDangling, CloseStep, StartAutoClose, AutoClose
<1>1. RowsStand
  <2>1. CASE EndDangling(w)
    <3> DEFINE c == my[w].c
               new == [row[c] EXCEPT !.ended = TRUE]
    <3>1. c \in 1 .. n /\ UpdateRow(c, new)
      BY <2>1, Facts DEF EndDangling, At, Fits, OnRow
    <3>2. new.answered = row[c].answered /\ new.due = row[c].due
      BY <3>1, Facts DEF Rows
    <3> HIDE DEF new, c
    <3> QED
      BY <3>1, <3>2, RowUpdated DEF RowsStand
  <2>2. CASE UNCHANGED rowVars
    BY <2>2 DEF rowVars, RowsStand
  <2> QED
    BY <2>1, <2>2 DEF ChangeStep, StartChange, Write, RestartStep, StartReply, Reopen,
       FindLatest, CloseStep, StartAutoClose, AutoClose
<1>2. \/ Finish(w)
      \/ pc'[w] \notin Loaded /\ my'[w].at \in {0, now, my[w].at}
  <2>1. ASSUME NEW l \in {"write", "findOpen", "findLatest", "reopen", "endDangling",
                          "insertCycle", "autoClose"},
               NEW rec, Become(w, l, rec), rec.at \in {0, now, my[w].at}
        PROVE  pc'[w] \notin Loaded /\ my'[w].at \in {0, now, my[w].at}
    BY <2>1, Becomes DEF Loaded, Accusing
  <2>2. \A s, t : [Blank EXCEPT !.from = s, !.to = t].at = 0
    BY DEF Blank
  <2>3. [Blank EXCEPT !.at = now].at = now
    BY DEF Blank
  <2>4. \A d : [Blank EXCEPT !.target = d].at = 0
    BY DEF Blank
  <2>5. [my[w] EXCEPT !.c = n, !.at = now].at = now
    BY Facts DEF Locals
  <2>6. CASE ChangeStep(w)
    <3>1. \/ Finish(w)
          \/ \E s, t : Become(w, "write", [Blank EXCEPT !.from = s, !.to = t])
          \/ Become(w, "findOpen", [Blank EXCEPT !.at = now])
          \/ Become(w, "findLatest", [Blank EXCEPT !.target = target])
      BY <2>6 DEF ChangeStep, StartChange, Write, AfterWrite
    <3> QED
      BY <2>1, <2>2, <2>3, <2>4, <3>1
  <2>7. CASE RestartStep(w)
    <3>1. \/ Become(w, "reopen", [Blank EXCEPT !.from = state, !.to = "IN_PROGRESS"])
          \/ Become(w, "findLatest", [Blank EXCEPT !.target = target])
          \/ Become(w, "endDangling", [my[w] EXCEPT !.c = n, !.at = now])
          \/ Become(w, "insertCycle", [my[w] EXCEPT !.c = n, !.at = now])
          \/ Become(w, "insertCycle", my[w])
      BY <2>7 DEF RestartStep, StartReply, Reopen, FindLatest, EndDangling, Goto
    <3> QED
      BY <2>1, <2>2, <2>4, <2>5, <3>1
  <2>8. CASE CloseStep(w)
    BY <2>1, <2>3, <2>8 DEF CloseStep, StartAutoClose, AutoClose
  <2> QED
    BY <2>6, <2>7, <2>8
<1> QED
  BY <1>0, <1>1, <1>2, QuietRecords

LEMMA FinalizeRecords ==
  ASSUME IInv, Recorded, NEW w \in Workers, Holds(w), FinalizeStep(w)
  PROVE  Recorded' /\ Holds(w)'
<1>0. /\ UNCHANGED <<now, events>> /\ now \in Nat /\ my[w].at \in Nat /\ my[w].at <= now
      /\ my[w] \in Locals
  BY Facts DEF FinalizeStep, FindOpen, EndCycle, LatchTicket, Holds, Locals
<1>n. ASSUME RowsStand, pc[w] \in Accusing,
             \/ Goto(w, "latchTicket") \/ RecordBreaches(w, my[w])
      PROVE  Recorded' /\ Holds(w)'
  <2>1. Recorded'
    BY <1>0, <1>n, RecordedStands
  <2>2. \/ pc'[w] = "idle" /\ my'[w] = Blank
        \/ pc'[w] \in {"latchTicket", "checkEvent"} /\ my'[w] = my[w]
    BY <1>n, GoesTo, BreachesNext
  <2>3. CASE pc'[w] = "idle" /\ my'[w] = Blank
    BY <1>0, <2>1, <2>3, HoldsNothing DEF Loaded, Accusing, Blank
  <2>4. CASE pc'[w] \in {"latchTicket", "checkEvent"} /\ my'[w] = my[w]
    BY <1>0, <1>n, <2>1, <2>4, StillAccuses DEF Accusing
  <2> QED
    BY <2>2, <2>3, <2>4
<1>1. CASE FindOpen(w)
  <2>1. RowsStand
    BY <1>1 DEF FindOpen, rowVars, RowsStand
  <2>2. CASE OpenRows = {}
    BY <1>0, <1>1, <2>1, <2>2, QuietRecords DEF FindOpen
  <2>3. CASE OpenRows # {}
    <3> DEFINE late == RunOut(row[n], my[w].at)
               rec == [Blank EXCEPT !.c = n, !.late = late]
    <3>1. Become(w, "endCycle", rec) /\ n \in 1 .. n
      BY <1>1, <2>3, NewestOpen DEF FindOpen
    <3>2. rec.c = n /\ rec.late = late /\ rec.at = 0
      BY DEF Blank
    <3>3. "response" \in late => my[w].at > row[n].due["response"] /\ row[n].answered = Never
      BY DEF RunOut
    <3> HIDE DEF rec, late
    <3>4. /\ pc'[w] = "endCycle" /\ my'[w].c = n /\ my'[w].late = late /\ my'[w].at = 0
          /\ row'[n] = row[n]
      BY <1>1, <3>1, <3>2, Becomes DEF FindOpen, rowVars
    <3>5. row[n].due["response"] \in Nat
      BY <3>1, Facts DEF Rows, Clocks
    <3>6. "response" \in my'[w].late => Late(row'[my'[w].c], now')
      BY <1>0, <3>3, <3>4, <3>5 DEF Late
    <3>7. Holds(w)'
      BY <1>0, <3>4, <3>6 DEF Holds, Accusing
    <3> QED
      BY <1>0, <2>1, <3>7, RecordedStands
  <2> QED
    BY <2>2, <2>3
<1>2. CASE EndCycle(w)
  <2> DEFINE c == my[w].c
             flags == (row[c].breached \ {"resolution"}) \cup my[w].late
             new == [row[c] EXCEPT !.ended = TRUE, !.breached = flags]
  <2>1. c \in 1 .. n /\ UpdateRow(c, new)
    BY <1>2, Facts DEF EndCycle, At, Fits, OnRow
  <2>2. new.answered = row[c].answered /\ new.due = row[c].due
    BY <2>1, Facts DEF Rows
  <2> HIDE DEF new, c
  <2>3. RowsStand
    BY <2>1, <2>2, RowUpdated DEF RowsStand
  <2> QED
    BY <1>2, <1>n, <2>3 DEF EndCycle, At, Accusing
<1>3. CASE LatchTicket(w)
  BY <1>3, <1>n DEF LatchTicket, At, Accusing, rowVars, RowsStand
<1> QED
  BY <1>1, <1>2, <1>3 DEF FinalizeStep

LEMMA RecordRecords ==
  ASSUME IInv, Recorded, NEW w \in Workers, Holds(w), RecordStep(w)
  PROVE  Recorded' /\ Holds(w)'
<1> DEFINE rest == [my[w] EXCEPT !.late = @ \ {NextLate(w)}]
           s == <<"breach", NextLate(w)>>
<1>0. /\ now' = now /\ now \in Nat /\ my[w].at <= now /\ RowsStand /\ row' = row /\ n' = n
      /\ n \in Nat /\ my[w] \in Locals /\ pc[w] \in Accusing
      /\ my[w].c \in 1 .. n /\ my[w].c \in Cycles
  BY Facts DEF RecordStep, CheckEvent, RecordEvent, Holds, rowVars, RowsStand, At, Accusing,
     Fits, OnRow
<1>1. rest.c = my[w].c /\ rest.at = my[w].at /\ rest.late \subseteq my[w].late
  BY <1>0 DEF Locals
<1>2. s \in Sorts /\ Response \in Sorts
  BY DEF Sorts, Kinds, Clocks, NextLate, Response
<1>3. s = Response => "response" \in my[w].late
  BY DEF Response, NextLate
<1>n. ASSUME RecordBreaches(w, rest)
      PROVE  Holds(w)'
  <2> HIDE DEF rest
  <2>1. CASE pc'[w] = "idle" /\ my'[w] = Blank
    BY <1>0, <2>1, HoldsNothing DEF Loaded, Accusing, Blank
  <2>2. CASE pc'[w] = "checkEvent" /\ my'[w] = rest
    BY <1>0, <1>1, <2>2, StillAccuses DEF Accusing
  <2> QED
    BY <1>n, <2>1, <2>2, BreachesNext
<1>4. CASE CheckEvent(w)
  <2>1. UNCHANGED events
    BY <1>4 DEF CheckEvent
  <2>2. Recorded'
    BY <1>0, <2>1, RecordedStands
  <2>3. CASE events[my[w].c][s] = 0
    <3>1. pc'[w] = "recordEvent" /\ my'[w] = my[w]
      BY <1>4, <2>3, GoesTo DEF CheckEvent
    <3>2. "response" \in my[w].late => Late(row[my[w].c], now)
      BY <1>0 DEF Holds
    <3>3. NextLate(w)' = NextLate(w)
      BY <3>1 DEF NextLate
    <3> QED
      BY <1>0, <2>1, <2>2, <2>3, <3>1, <3>2, <3>3 DEF Holds, Accusing
  <2>4. CASE events[my[w].c][s] # 0
    BY <1>4, <1>n, <2>2, <2>4 DEF CheckEvent
  <2> QED
    BY <2>3, <2>4
<1>5. CASE RecordEvent(w)
  <2>1. events[my[w].c][s] = 0
    BY <1>5 DEF RecordEvent, At, Holds
  <2>2. events' = [events EXCEPT ![my[w].c][s] = @ + 1]
    BY <1>5 DEF RecordEvent
  <2>3. \A c \in Cycles : \A q \in Sorts :
          events'[c][q] = IF c = my[w].c /\ q = s THEN 1 ELSE events[c][q]
    BY <1>0, <1>2, <2>1, <2>2 DEF IInv, TypeOK
  <2>4. s = Response => Late(row[my[w].c], now)
    BY <1>0, <1>3 DEF Holds
  <2> HIDE DEF s
  <2>5. ASSUME NEW c \in Cycles
        PROVE  /\ \A q \in Sorts : events'[c][q] \in {0, 1} /\ (c > n' => events'[c][q] = 0)
               /\ c <= n' /\ events'[c][Response] > 0 => Late(row'[c], now')
    BY <1>0, <1>2, <2>3, <2>4 DEF Recorded
  <2>6. Recorded'
    BY <2>5 DEF Recorded
  <2> QED
    BY <1>5, <1>n, <2>6 DEF RecordEvent
<1> QED
  BY <1>4, <1>5 DEF RecordStep

LEMMA NoteRecords ==
  ASSUME IInv, Recorded, NEW w \in Workers, Holds(w), NoteStep(w)
  PROVE  Recorded' /\ Holds(w)'
<1>0. /\ UNCHANGED <<now, events>> /\ now \in Nat /\ my[w].at \in Nat /\ my[w].at <= now
      /\ my[w] \in Locals /\ n \in Nat /\ 1 .. n \subseteq Cycles /\ my[w].at \in Times
  BY Facts DEF NoteStep, StartNote, ReadLatest, Answer, MirrorAnswer, Holds, Locals
<1>1. CASE StartNote(w)
  <2>1. RowsStand /\ row' = row
    BY <1>1 DEF StartNote, rowVars, RowsStand
  <2> DEFINE rec == [Blank EXCEPT !.at = now]
  <2>2. Become(w, "readLatest", rec) /\ rec.at = now
    BY <1>1 DEF StartNote, Blank
  <2> HIDE DEF rec
  <2>3. pc'[w] = "readLatest" /\ my'[w].at = now
    BY <2>2, Becomes
  <2>4. \A c \in 1 .. n' : events'[c][Response] > 0 => Late(row'[c], my'[w].at)
    BY <1>0, <2>1, <2>3 DEF Recorded, RowsStand
  <2>5. Holds(w)'
    BY <1>0, <2>3, <2>4 DEF Holds, Accusing
  <2> QED
    BY <1>0, <2>1, <2>5, RecordedStands
<1>2. CASE ReadLatest(w)
  <2>1. RowsStand /\ row' = row
    BY <1>2 DEF ReadLatest, rowVars, RowsStand
  <2>2. CASE ~(n > 0 /\ row[n].answered = Never)
    BY <1>0, <1>2, <2>1, <2>2, QuietRecords DEF ReadLatest
  <2>3. CASE n > 0 /\ row[n].answered = Never
    <3> DEFINE late == {"response"} \cap RunOut(row[n], my[w].at)
               flag == late # {} \/ "response" \in row[n].breached
               rec == [my[w] EXCEPT !.c = n, !.late = late, !.latched = flag]
    <3>1. Become(w, "answer", rec)
      BY <1>2, <2>3 DEF ReadLatest
    <3>2. rec.c = n /\ rec.late = late /\ rec.at = my[w].at
      BY <1>0 DEF Locals
    <3>3. "response" \in late => my[w].at > row[n].due["response"]
      BY DEF RunOut
    <3> HIDE DEF rec, late
    <3>4. pc'[w] = "answer" /\ my'[w].c = n /\ my'[w].late = late /\ my'[w].at = my[w].at
      BY <3>1, <3>2, Becomes
    <3>5. "response" \in late => Late(row[n], my[w].at)
      BY <2>3, <3>3 DEF Late
    <3>6. \A c \in 1 .. n' : events'[c][Response] > 0 => Late(row'[c], my'[w].at)
      BY <1>0, <1>2, <2>1, <3>4 DEF ReadLatest, At, Holds, RowsStand
    <3>7. Holds(w)'
      BY <1>0, <2>1, <2>3, <3>4, <3>5, <3>6 DEF Holds, Accusing
    <3> QED
      BY <1>0, <2>1, <3>7, RecordedStands
  <2> QED
    BY <2>2, <2>3
<1>3. CASE Answer(w)
  <2> DEFINE c == my[w].c
             flag == IF my[w].latched THEN {"response"} ELSE {}
             flags == (row[c].breached \ {"response"}) \cup flag
             new == [row[c] EXCEPT !.answered = my[w].at, !.breached = flags]
  <2>1. c \in 1 .. n /\ UpdateRow(c, new) /\ row[c] \in Rows
    BY <1>3, Facts DEF Answer, At, Fits, OnRow
  <2>2. new.answered = my[w].at /\ new.due = row[c].due
    BY <2>1 DEF Rows
  <2>3. row[c].due["response"] \in Nat
    BY <2>1 DEF Rows, Clocks
  <2> HIDE DEF new
  <2>4. /\ n' = n /\ row'[c].answered = my[w].at /\ row'[c].due = row[c].due
        /\ \A d \in 1 .. n : d # c => row'[d] = row[d]
    BY <2>1, <2>2, RowUpdated
  <2>5. \A t : Late(row[c], my[w].at) => Late(row'[c], t)
    BY <1>0, <1>3, <2>3, <2>4 DEF Answer, At, Holds, Late, Never
  <2>6. ASSUME NEW d \in Cycles
        PROVE  /\ \A s \in Sorts : events'[d][s] \in {0, 1} /\ (d > n' => events'[d][s] = 0)
               /\ d <= n' /\ events'[d][Response] > 0 => Late(row'[d], now')
    <3>1. \A s \in Sorts : events'[d][s] \in {0, 1} /\ (d > n' => events'[d][s] = 0)
      BY <1>0, <2>4 DEF Recorded
    <3>2. CASE d = c
      <4>1. events[c][Response] > 0 => Late(row[c], my[w].at)
        BY <1>3, <2>1 DEF Answer, At, Holds
      <4> QED
        BY <1>0, <2>5, <3>1, <3>2, <4>1
    <3>3. CASE d # c
      <4>1. d <= n => row'[d] = row[d]
        BY <1>0, <2>4, <3>3, Constants DEF Cycles
      <4> QED
        BY <1>0, <2>4, <3>1, <4>1 DEF Recorded
    <3> QED
      BY <3>2, <3>3
  <2>7. pc'[w] = "mirrorAnswer" /\ my'[w] = my[w]
    BY <1>3, GoesTo DEF Answer
  <2>8. "response" \in my[w].late => Late(row[c], my[w].at)
    BY <1>3 DEF Answer, At, Holds
  <2>9. Holds(w)'
    BY <1>0, <2>5, <2>7, <2>8 DEF Holds, Accusing
  <2> QED
    BY <2>6, <2>9 DEF Recorded
<1>4. CASE MirrorAnswer(w)
  <2>1. RowsStand /\ pc[w] = "mirrorAnswer"
    BY <1>4 DEF MirrorAnswer, rowVars, RowsStand, At
  <2>2. Recorded'
    BY <1>0, <2>1, RecordedStands
  <2>3. \/ pc'[w] = "idle" /\ my'[w] = Blank
        \/ pc'[w] = "checkEvent" /\ my'[w] = my[w]
    BY <1>4, BreachesNext DEF MirrorAnswer
  <2>4. CASE pc'[w] = "idle" /\ my'[w] = Blank
    BY <1>0, <2>2, <2>4, HoldsNothing DEF Loaded, Accusing, Blank
  <2>5. CASE pc'[w] = "checkEvent" /\ my'[w] = my[w]
    BY <1>0, <2>1, <2>2, <2>5, StillAccuses DEF Accusing
  <2> QED
    BY <2>3, <2>4, <2>5
<1> QED
  BY <1>1, <1>2, <1>3, <1>4 DEF NoteStep

LEMMA PatchRecords ==
  ASSUME IInv, Recorded, NEW w \in Workers, Holds(w), PatchStep(w)
  PROVE  Recorded' /\ Holds(w)'
<1>0. UNCHANGED <<now, events>>
  BY DEF PatchStep, StartPatch, Patch, FindTarget, Retarget, MirrorDue
<1>1. RowsStand
  <2>1. CASE Retarget(w)
    <3> DEFINE c == my[w].c
               flag == IF my[w].at > my[w].target THEN {"resolution"} ELSE {}
               flags == (row[c].breached \ {"resolution"}) \cup flag
               new == [row[c] EXCEPT !.due["resolution"] = my[w].target,
                                     !.breached = flags]
    <3>1. c \in 1 .. n /\ UpdateRow(c, new) /\ row[c] \in Rows
      BY <2>1, Facts DEF Retarget, At, Fits, OnRow
    <3>2. new.answered = row[c].answered /\ new.due["response"] = row[c].due["response"]
      BY <3>1 DEF Rows, Clocks
    <3> HIDE DEF new, c
    <3> QED
      BY <3>1, <3>2, RowUpdated DEF RowsStand
  <2>2. CASE UNCHANGED rowVars
    BY <2>2 DEF rowVars, RowsStand
  <2> QED
    BY <2>1, <2>2 DEF PatchStep, StartPatch, Patch, FindTarget, MirrorDue
<1>2. Finish(w) \/ (pc'[w] \notin Loaded /\ my'[w].at \in {0, now, my[w].at})
  <2>1. ASSUME NEW d, Become(w, "patch", [Blank EXCEPT !.target = d])
        PROVE  pc'[w] = "patch" /\ my'[w].at = 0
    <3> DEFINE rec == [Blank EXCEPT !.target = d]
    <3>1. Become(w, "patch", rec) /\ rec.at = 0
      BY <2>1 DEF Blank
    <3> HIDE DEF rec
    <3> QED
      BY <3>1, Becomes
  <2>2. ASSUME NEW c, NEW d,
               Become(w, "retarget", [Blank EXCEPT !.c = c, !.at = now, !.target = d])
        PROVE  pc'[w] = "retarget" /\ my'[w].at = now
    <3> DEFINE rec == [Blank EXCEPT !.c = c, !.at = now, !.target = d]
    <3>1. Become(w, "retarget", rec) /\ rec.at = now
      BY <2>2 DEF Blank
    <3> HIDE DEF rec
    <3> QED
      BY <3>1, Becomes
  <2>3. \/ Finish(w)
        \/ Goto(w, "findTarget") \/ Goto(w, "mirrorDue")
        \/ \E d : Become(w, "patch", [Blank EXCEPT !.target = d])
        \/ \E c, d : Become(w, "retarget", [Blank EXCEPT !.c = c, !.at = now, !.target = d])
    BY DEF PatchStep, StartPatch, Patch, FindTarget, Retarget, MirrorDue
  <2>4. CASE Goto(w, "findTarget") \/ Goto(w, "mirrorDue")
    BY <2>4, GoesTo DEF Loaded, Accusing
  <2>5. ASSUME NEW d, Become(w, "patch", [Blank EXCEPT !.target = d])
        PROVE  pc'[w] \notin Loaded /\ my'[w].at = 0
    BY <2>1, <2>5 DEF Loaded, Accusing
  <2>6. ASSUME NEW c, NEW d,
               Become(w, "retarget", [Blank EXCEPT !.c = c, !.at = now, !.target = d])
        PROVE  pc'[w] \notin Loaded /\ my'[w].at = now
    BY <2>2, <2>6 DEF Loaded, Accusing
  <2> QED
    BY <2>3, <2>4, <2>5, <2>6
<1> QED
  BY <1>0, <1>1, <1>2, QuietRecords

(* The next candidate of a sweep. *)
LEMMA ProceedHolds ==
  ASSUME IInv, NEW w \in Workers, NEW rec, Proceed(w, rec), now' \in Nat,
         rec.at \in Nat, rec.at <= now', rec.pass = my[w].pass,
         \A c \in rec.todo :
           events'[c][Pass(w)] = 0 /\ (Pass(w) = Response => Late(row'[c], now'))
  PROVE  Holds(w)'
<1>1. CASE pc'[w] = "idle" /\ my'[w] = Blank
  BY <1>1, HoldsNothing DEF Loaded, Accusing, Blank
<1>2. CASE pc'[w] = "scan" /\ my'[w].at = rec.at
  BY <1>2, HoldsNothing DEF Loaded, Accusing
<1>3. CASE pc'[w] = "claim" /\ my'[w] = rec
  <2>1. Pass(w)' = Pass(w)
    BY <1>3 DEF Pass
  <2> QED
    BY <1>3, <2>1 DEF Holds, Accusing
<1> QED
  BY <1>1, <1>2, <1>3, ProceedsTo

LEMMA SweepRecords ==
  ASSUME IInv, Recorded, NEW w \in Workers, Holds(w), SweepStep(w)
  PROVE  Recorded' /\ Holds(w)'
<1>0. /\ now' = now /\ now \in Nat /\ my[w].at \in Nat /\ my[w].at <= now
      /\ my[w] \in Locals /\ n \in Nat /\ Pass(w) \in Sorts /\ Response \in Sorts
      /\ my[w].todo \subseteq 1 .. n /\ 1 .. n \subseteq Cycles
  <2>1. my[w] \in Locals /\ my[w].todo \subseteq 1 .. n
    BY Facts DEF Fits
  <2>2. Pass(w) \in Sorts
    BY <2>1, PassesLen DEF Pass, Locals
  <2>3. now' = now
    BY DEF SweepStep, StartSweep, Scan, Claim, Notice
  <2>4. Response \in Sorts
    BY DEF Response, Sorts, Kinds, Clocks
  <2>5. my[w].at \in Nat /\ now \in Nat /\ n \in Nat /\ 1 .. n \subseteq Cycles
    BY <2>1, Facts DEF Locals
  <2> QED
    BY <2>1, <2>2, <2>3, <2>4, <2>5 DEF Holds
<1>1. CASE StartSweep(w)
  <2> DEFINE rec == [Blank EXCEPT !.at = now]
  <2>1. Become(w, "scan", rec) /\ rec.at = now
    BY <1>1 DEF StartSweep, Blank
  <2> HIDE DEF rec
  <2>2. pc'[w] = "scan" /\ my'[w].at = now
    BY <2>1, Becomes
  <2> QED
    BY <1>0, <1>1, <2>2, QuietRecords DEF StartSweep, Loaded, Accusing, rowVars, RowsStand
<1>2. CASE Scan(w)
  <2> DEFINE found == Candidates(Pass(w), my[w].at)
             rec == [my[w] EXCEPT !.todo = found]
  <2>1. Proceed(w, rec) /\ UNCHANGED <<n, row, events>>
    BY <1>2 DEF Scan
  <2>2. \A c \in found : events[c][Pass(w)] = 0 /\ c \in 1 .. n
    BY DEF Candidates, OpenRows
  <2>3. Pass(w) = Response =>
          \A c \in found : row[c].answered = Never /\ row[c].due["response"] < my[w].at
    BY DEF Candidates, Reached, Response
  <2>4. rec.todo = found /\ rec.at = my[w].at /\ rec.pass = my[w].pass
    BY <1>0 DEF Locals
  <2> HIDE DEF rec, found
  <2>5. ASSUME NEW c \in found, Pass(w) = Response
        PROVE  Late(row[c], now)
    <3>1. row[c].due["response"] \in Nat
      BY <2>2, Facts DEF Rows, Clocks
    <3> QED
      BY <1>0, <2>3, <2>5, <3>1 DEF Late
  <2>6. Holds(w)'
    BY <1>0, <2>1, <2>2, <2>4, <2>5, ProceedHolds
  <2>7. Recorded'
    BY <1>0, <2>1, RecordedStands DEF RowsStand
  <2> QED
    BY <2>6, <2>7
<1>3. CASE Notice(w)
  <2> DEFINE rec == [my[w] EXCEPT !.c = 0]
  <2>1. Proceed(w, rec) /\ UNCHANGED <<n, row>>
    BY <1>3 DEF Notice, rowVars
  <2>2. rec.todo = my[w].todo /\ rec.at = my[w].at /\ rec.pass = my[w].pass
    BY <1>0 DEF Locals
  <2> HIDE DEF rec
  <2>3. /\ my[w].c \in 1 .. n /\ my[w].c \notin my[w].todo /\ events[my[w].c][Pass(w)] = 0
        /\ Pass(w) = Response => Late(row[my[w].c], now)
        /\ \A c \in my[w].todo :
             events[c][Pass(w)] = 0 /\ (Pass(w) = Response => Late(row[c], now))
    BY <1>3, Facts DEF Notice, At, Holds, Fits, OnRow
  <2>4. events' = [events EXCEPT ![my[w].c][Pass(w)] = @ + 1]
    BY <1>3 DEF Notice
  <2>5. \A c \in Cycles : \A s \in Sorts :
          events'[c][s] = IF c = my[w].c /\ s = Pass(w) THEN 1 ELSE events[c][s]
    BY <1>0, <2>3, <2>4 DEF IInv, TypeOK
  <2>6. \A c \in my[w].todo : events'[c][Pass(w)] = 0
    BY <1>0, <2>3, <2>5
  <2>7. Holds(w)'
    BY <1>0, <2>1, <2>2, <2>3, <2>6, ProceedHolds
  <2>8. ASSUME NEW c \in Cycles
        PROVE  /\ \A s \in Sorts : events'[c][s] \in {0, 1} /\ (c > n' => events'[c][s] = 0)
               /\ c <= n' /\ events'[c][Response] > 0 => Late(row'[c], now')
    BY <1>0, <2>1, <2>3, <2>5 DEF Recorded
  <2> QED
    BY <2>7, <2>8 DEF Recorded
<1>4. ASSUME NEW c \in Cycles, Claim(w, c)
      PROVE  Recorded' /\ Holds(w)'
  <2> DEFINE rest == [my[w] EXCEPT !.todo = @ \ {c}]
             found == [rest EXCEPT !.c = c]
             new == Latched(row[c], Pass(w))
  <2>1. /\ c \in my[w].todo /\ c \in 1 .. n /\ events' = events
        /\ \A d \in my[w].todo :
             events[d][Pass(w)] = 0 /\ (Pass(w) = Response => Late(row[d], now))
    BY <1>0, <1>4 DEF Claim, At, Holds
  <2>2. rest.todo = my[w].todo \ {c} /\ rest.at = my[w].at /\ rest.pass = my[w].pass
    BY <1>0 DEF Locals
  <2>3. /\ found.todo = my[w].todo \ {c} /\ found.at = my[w].at /\ found.pass = my[w].pass
        /\ found.c = c
    BY <1>0 DEF Locals
  <2>4. new.answered = row[c].answered /\ new.due = row[c].due
    BY <2>1, Facts DEF Latched, Rows
  <2>5. w \notin fresh[c] => Proceed(w, rest) /\ UNCHANGED rowVars
    BY <1>4 DEF Claim
  <2>6. w \in fresh[c] => Become(w, "notice", found) /\ UpdateRow(c, new)
    BY <1>4 DEF Claim
  <2> HIDE DEF rest, found, new
  <2>7. RowsStand
    <3>1. UpdateRow(c, new) => RowsStand
      BY <2>1, <2>4, RowUpdated DEF RowsStand
    <3> QED
      BY <2>5, <2>6, <3>1 DEF rowVars, RowsStand
  <2>8. Recorded'
    BY <1>0, <2>1, <2>7, RecordedStands
  <2>9. \A d \in my[w].todo :
          events'[d][Pass(w)] = 0 /\ (Pass(w) = Response => Late(row'[d], now'))
    BY <1>0, <2>1, <2>7, LateStays
  <2>10. CASE w \notin fresh[c]
    BY <1>0, <2>2, <2>5, <2>8, <2>9, <2>10, ProceedHolds
  <2>11. CASE w \in fresh[c]
    <3>1. pc'[w] = "notice" /\ my'[w] = found
      BY <2>6, <2>11, Becomes
    <3>2. Pass(w)' = Pass(w)
      BY <2>3, <3>1 DEF Pass
    <3>3. Holds(w)'
      BY <1>0, <2>1, <2>3, <2>9, <3>1, <3>2 DEF Holds, Accusing
    <3> QED
      BY <2>8, <3>3
  <2> QED
    BY <2>10, <2>11
<1> QED
  BY <1>1, <1>2, <1>3, <1>4 DEF SweepStep

LEMMA NextRecords ==
  ASSUME Serial, IInv, RecordInv, [Next]_vars
  PROVE  RecordInv'
<1>0. Recorded /\ \A w \in Workers : Holds(w)
  BY DEF RecordInv
<1>1. ASSUME NEW w \in Workers, Worker(w)
      PROVE  RecordInv'
  <2>1. CASE Fail(w)
    <3>1. UNCHANGED <<now, events>> /\ RowsStand /\ Finish(w)
      BY <2>1 DEF Fail, rowVars, RowsStand
    <3> QED
      BY <1>0, <3>1, QuietRecords DEF RecordInv, Serial
  <2>2. Recorded' /\ Holds(w)'
    BY <1>0, <1>1, <2>1, CreateRecords, ChangeRecords, FinalizeRecords, RecordRecords,
       NoteRecords, PatchRecords, SweepRecords
    DEF Worker, RecordInv
  <2> QED
    BY <2>2 DEF RecordInv, Serial
<1>2. CASE Tick \/ Confirm \/ UNCHANGED vars
  <2>1. /\ UNCHANGED <<pc, my, n, row, events>> /\ now \in Nat
        /\ now' \in Nat /\ now <= now'
    BY <1>2, Constants DEF Tick, Confirm, vars, rowVars, IInv, TypeOK
  <2>2. Recorded'
    BY <1>0, <2>1, RecordedStands DEF RowsStand
  <2>3. \A c \in 1 .. n : Late(row[c], now) => Late(row[c], now')
    BY <2>1, LateStays DEF RowsStand
  <2>4. ASSUME NEW w \in Workers
        PROVE  Holds(w)'
    <3>1. my[w].at \in Nat /\ my[w].todo \subseteq 1 .. n
            /\ (pc[w] \in Accusing \cup {"notice"} => my[w].c \in 1 .. n)
      BY Facts DEF Locals, Fits, OnRow, Accusing
    <3>2. Pass(w)' = Pass(w) /\ NextLate(w)' = NextLate(w)
      BY <2>1 DEF Pass, NextLate
    <3> QED
      BY <1>0, <2>1, <2>3, <3>1, <3>2 DEF Holds
  <2> QED
    BY <2>2, <2>4 DEF RecordInv
<1> QED
  BY <1>1, <1>2 DEF Next

LEMMA InitRecords == Init => RecordInv
<1>1. ASSUME Init
      PROVE  RecordInv
  <2>1. Response \in Sorts
    BY DEF Response, Sorts, Kinds, Clocks
  <2>2. Recorded
    BY <1>1, <2>1 DEF Init, Recorded
  <2>3. \A w \in Workers : Holds(w)
    BY <1>1 DEF Init, Holds, Blank, Accusing
  <2> QED
    BY <2>2, <2>3 DEF RecordInv
<1> QED
  BY <1>1

(* When handlers run one at a time, wherever one is cut off, a response that *)
(* came in time is never reported as a breach: neither by a sweep, nor by    *)
(* the note that answers, nor by the end of the cycle (finalizeOpenCycle,    *)
(* recordFirstResponse, sweepSla).                                           *)
THEOREM NoFalseBreachHolds ==
  ASSUME Serial
  PROVE  Spec => []NoFalseBreach
<1>1. IInv /\ RecordInv => NoFalseBreach
  <2> SUFFICES ASSUME IInv, Recorded, NEW c \in 1 .. n, events[c][Response] > 0
               PROVE  row[c].answered = Never \/ row[c].answered > row[c].due["response"]
    BY DEF RecordInv, NoFalseBreach, Response
  <2>1. c \in Cycles /\ c <= n
    BY Constants DEF IInv, TypeOK, Cycles
  <2> QED
    BY <2>1 DEF Recorded, Late
<1>2. IInv /\ RecordInv /\ [Next]_vars => IInv' /\ RecordInv'
  BY NextKeeps, NextRecords
<1> QED
  BY <1>1, <1>2, InitInv, InitRecords, PTL DEF Spec

(* When handlers run one at a time, each clock of a cycle is reported at most *)
(* once as approaching and at most once as breached, whichever of the sweep,  *)
(* the note and the end of the cycle comes first (hasBreachEvent, sweepSla).  *)
THEOREM RecordedOnceHolds ==
  ASSUME Serial
  PROVE  Spec => []RecordedOnce
<1>1. IInv /\ RecordInv => RecordedOnce
  <2> SUFFICES ASSUME IInv, Recorded, NEW c \in 1 .. n, NEW s \in Sorts
               PROVE  events[c][s] <= 1
    BY DEF RecordInv, RecordedOnce
  <2>1. c \in Cycles
    BY Constants DEF IInv, TypeOK, Cycles
  <2> QED
    BY <2>1 DEF Recorded
<1>2. IInv /\ RecordInv /\ [Next]_vars => IInv' /\ RecordInv'
  BY NextKeeps, NextRecords
<1> QED
  BY <1>1, <1>2, InitInv, InitRecords, PTL DEF Spec

-----------------------------------------------------------------------------
(* The cycle follows the ticket's state, and the mirrors follow the cycle,   *)
(* when no handler is cut off between the statements that do it.             *)

Starting == {"insertCycle", "findLatest"}
Ending   == {"findOpen", "endCycle"}

Balanced == OpenRows # {} <=> state \in Working

DueAgrees    == mirror.due = row[n].due["resolution"]
AnswerAgrees == /\ mirror.answered <=> row[n].answered # Never
                /\ mirror.breached => "response" \in row[n].breached

(* The statements of a handler between a change of state and the end or the  *)
(* start of a cycle, and the states they run in.                             *)
Phase(w) ==
  /\ pc[w] # "endDangling"
  /\ pc[w] \in Starting => state \in Working /\ OpenRows = {}
  /\ pc[w] \in Ending => state = "RESOLVED" /\ OpenRows # {}
  /\ pc[w] \notin Starting \cup Ending => Balanced
  /\ pc[w] = "latchTicket" => state = "RESOLVED"
  /\ pc[w] = "write" => my[w].from = state /\ <<state, my[w].to>> \in Moves
  /\ pc[w] = "reopen" => state \in {"RESOLVED", "CLOSED"}
  /\ pc[w] \in {"insertCycle", "endCycle", "retarget", "answer", "mirrorAnswer"} => my[w].c = n

(* What the handler has still to copy to the ticket. *)
Mirrored(w) ==
  /\ pc[w] = "syncTicket" =>
       my[w].target = row[n].due["resolution"] /\ row[n].answered = Never
  /\ pc[w] = "mirrorAnswer" =>
       row[n].answered # Never /\ (my[w].latched => "response" \in row[n].breached)
  /\ pc[w] = "mirrorDue" => my[w].target = row[n].due["resolution"]
  /\ pc[w] \notin Starting \cup {"syncTicket"} /\ state \in Working =>
       /\ pc[w] \notin {"findTarget", "retarget", "mirrorDue"} => DueAgrees
       /\ pc[w] # "mirrorAnswer" => AnswerAgrees

NotCreated == state = "NONE" => n = 0

InStep(w) == NotCreated /\ Phase(w) /\ Mirrored(w)

PhaseInv == NotCreated /\ \A w \in Workers : Phase(w) /\ Mirrored(w)

(* At the other labels nothing is under way. *)
Steady == NotCreated /\ Balanced /\ (state \in Working => DueAgrees /\ AnswerAgrees)

Apart == Starting \cup Ending \cup
         {"endDangling", "syncTicket", "latchTicket", "mirrorAnswer", "findTarget", "retarget",
          "mirrorDue"}

LEMMA SteadyAt ==
  ASSUME NEW w \in Workers, InStep(w), pc[w] \notin Apart
  PROVE  Steady
BY DEF InStep, Phase, Mirrored, Steady, Apart, Starting, Ending

LEMMA SteadyEnds ==
  ASSUME NEW w \in Workers, Steady', pc'[w] \notin Apart \cup {"write", "reopen", "answer"}
  PROVE  InStep(w)'
BY DEF InStep, Phase, Mirrored, Steady, Apart, Starting, Ending

(* A handler that changes neither the ticket nor a row. *)
LEMMA SteadyStays ==
  ASSUME Steady, UNCHANGED <<state, mirror, n, row>>
  PROVE  Steady'
BY DEF Steady, NotCreated, Balanced, DueAgrees, AnswerAgrees, OpenRows

LEMMA SteadyThinks ==
  ASSUME NEW w \in Workers, InStep(w), pc[w] \notin Apart, UNCHANGED <<state, mirror, n, row>>,
         pc'[w] \notin Apart \cup {"write", "reopen", "answer"}
  PROVE  InStep(w)'
BY SteadyAt, SteadyStays, SteadyEnds

(* A write of a row that neither ends nor reopens it. *)
LEMMA OpenStands ==
  ASSUME IInv, NEW c \in 1 .. n, NEW new, UpdateRow(c, new), new.ended = row[c].ended
  PROVE  OpenRows' = OpenRows /\ n' = n
<1>1. \A d \in 1 .. n : row'[d].ended = row[d].ended
  BY RowUpdated
<1> QED
  BY <1>1, RowUpdated DEF OpenRows

LEMMA CreateInStep ==
  ASSUME IInv, NEW w \in Workers, InStep(w), CreateStep(w)
  PROVE  InStep(w)'
<1>0. n \in Nat /\ my[w] \in Locals
  BY Facts
<1>1. ASSUME NEW d \in ResolutionTargets, Create(w, d)
      PROVE  InStep(w)'
  <2> DEFINE rec == [Blank EXCEPT !.at = now, !.target = d]
  <2>1. Become(w, "insertCycle", rec) /\ rec.c = 0
    BY <1>1 DEF Create, Blank
  <2> HIDE DEF rec
  <2>2. pc'[w] = "insertCycle" /\ my'[w].c = 0
    BY <2>1, Becomes
  <2>3. pc[w] = "idle" /\ state = "NONE" /\ state' = "NEW" /\ n' = n /\ row' = row
    BY <1>1 DEF Create, Starts, rowVars
  <2>4. n = 0 /\ OpenRows' = {}
    BY <1>0, <2>3 DEF InStep, NotCreated, OpenRows
  <2> QED
    BY <2>2, <2>3, <2>4 DEF InStep, NotCreated, Phase, Mirrored, Starting, Ending, Working
<1>2. CASE InsertCycle(w)
  <2> DEFINE due == my[w].at + my[w].target
             rec == [Blank EXCEPT !.target = due]
             first == Row(my[w].at, my[w].target)
  <2>1. /\ my[w].c = n /\ state \in Working /\ OpenRows = {} /\ pc[w] = "insertCycle"
        /\ n < MaxCycles
    BY <1>2 DEF InsertCycle, At, InStep, Phase, Starting
  <2>2. n + 1 \in Cycles /\ n < n + 1
    BY <1>0, <2>1, Constants DEF Cycles
  <2>3. n' = n + 1 /\ row' = [row EXCEPT ![n + 1] = first] /\ UNCHANGED <<state, mirror>>
    BY <1>2, <2>1, <2>2 DEF InsertCycle, tickVars
  <2>4. Become(w, "syncTicket", rec) /\ rec.target = due
    BY <1>2, <2>1, <2>2 DEF InsertCycle, Blank
  <2>5. ~first.ended /\ first.answered = Never /\ first.due["resolution"] = due
    BY DEF Row, Clocks
  <2> HIDE DEF rec, first, due
  <2>6. pc'[w] = "syncTicket" /\ my'[w].target = due
    BY <2>4, Becomes
  <2>7. row'[n'] = first
    BY <2>2, <2>3 DEF IInv, TypeOK
  <2>8. n' \in OpenRows'
    BY <1>0, <2>3, <2>5, <2>7 DEF OpenRows
  <2>9. "NONE" \notin Working
    BY DEF Working
  <2> QED
    BY <2>1, <2>3, <2>5, <2>6, <2>7, <2>8, <2>9
    DEF InStep, NotCreated, Phase, Mirrored, Balanced, Starting, Ending
<1>3. CASE SyncTicket(w)
  <2>1. /\ NotCreated /\ Balanced
        /\ my[w].target = row[n].due["resolution"] /\ row[n].answered = Never
    BY <1>3 DEF SyncTicket, At, InStep, Phase, Mirrored, Starting, Ending
  <2>2. /\ mirror' = [due |-> my[w].target, answered |-> FALSE, breached |-> FALSE]
        /\ UNCHANGED <<state, n, row>>
    BY <1>3 DEF SyncTicket, tickVars, rowVars
  <2>3. Steady'
    BY <2>1, <2>2 DEF Steady, NotCreated, Balanced, DueAgrees, AnswerAgrees, OpenRows
  <2>4. pc'[w] = "idle"
    BY <1>3, Finishes DEF SyncTicket
  <2> QED
    BY <2>3, <2>4, SteadyEnds DEF Apart, Starting, Ending
<1> QED
  BY <1>1, <1>2, <1>3 DEF CreateStep

LEMMA ChangeInStep ==
  ASSUME IInv, NEW w \in Workers, InStep(w), ChangeStep(w)
  PROVE  InStep(w)'
<1>1. ASSUME NEW to \in States, StartChange(w, to)
      PROVE  InStep(w)'
  <2> DEFINE rec == [Blank EXCEPT !.from = state, !.to = to]
  <2>1. Become(w, "write", rec) /\ rec.from = state /\ rec.to = to
    BY <1>1 DEF StartChange, Blank
  <2> HIDE DEF rec
  <2>2. pc'[w] = "write" /\ my'[w].from = state /\ my'[w].to = to
    BY <2>1, Becomes
  <2>3. /\ pc[w] = "idle" /\ <<state, to>> \in Moves /\ UNCHANGED <<state, mirror, n, row>>
    BY <1>1 DEF StartChange, Starts, tickVars, rowVars
  <2>4. Steady'
    BY <2>3, SteadyAt, SteadyStays DEF Apart, Starting, Ending
  <2> QED
    BY <2>2, <2>3, <2>4 DEF Steady, InStep, Phase, Mirrored, Starting, Ending
<1>2. CASE Write(w)
  <2>1. /\ my[w].from = state /\ <<state, my[w].to>> \in Moves /\ Steady
        /\ UNCHANGED <<mirror, n, row>> /\ "RESOLVED" \notin Working /\ "CLOSED" \notin Working
        /\ "IN_PROGRESS" \in Working /\ "NEW" \in Working
    BY <1>2, SteadyAt DEF Write, At, InStep, Phase, Apart, Starting, Ending, rowVars, Working
  <2>2. UNCHANGED OpenRows
    BY <2>1 DEF OpenRows
  <2>3. CASE state = "NEW"
    <3>1. my[w].to = "IN_PROGRESS"
      BY <2>1, <2>3 DEF Moves
    <3>2. state' = "IN_PROGRESS" /\ Finish(w)
      BY <1>2, <2>1, <2>3, <3>1 DEF Write, ForceClose, AfterWrite
    <3>3. Steady'
      BY <2>1, <2>2, <2>3, <3>2 DEF Steady, NotCreated, Balanced, DueAgrees, AnswerAgrees
    <3> QED
      BY <3>2, <3>3, Finishes, SteadyEnds DEF Apart, Starting, Ending
  <2>4. CASE state = "IN_PROGRESS"
    <3> DEFINE rec == [Blank EXCEPT !.at = now]
    <3>1. my[w].to = "RESOLVED"
      BY <2>1, <2>4 DEF Moves
    <3>2. state' = "RESOLVED" /\ Become(w, "findOpen", rec)
      BY <1>2, <2>1, <2>4, <3>1 DEF Write, ForceClose, AfterWrite
    <3> HIDE DEF rec
    <3>3. pc'[w] = "findOpen"
      BY <3>2, Becomes
    <3>4. OpenRows' # {}
      BY <2>1, <2>2, <2>4 DEF Steady, Balanced
    <3> QED
      BY <2>1, <3>2, <3>3, <3>4 DEF InStep, NotCreated, Phase, Mirrored, Starting, Ending
  <2>5. CASE state = "RESOLVED" /\ my[w].to = "CLOSED"
    <3>1. state' = "CLOSED" /\ Finish(w)
      BY <1>2, <2>1, <2>5 DEF Write, ForceClose, AfterWrite
    <3>2. Steady'
      BY <2>1, <2>2, <2>5, <3>1 DEF Steady, NotCreated, Balanced
    <3> QED
      BY <3>1, <3>2, Finishes, SteadyEnds DEF Apart, Starting, Ending
  <2>6. CASE state = "RESOLVED" /\ my[w].to = "IN_PROGRESS"
    <3> DEFINE rec == [Blank EXCEPT !.target = target]
    <3>1. state' = "IN_PROGRESS" /\ Become(w, "findLatest", rec)
      BY <1>2, <2>1, <2>6 DEF Write, ForceClose, AfterWrite
    <3> HIDE DEF rec
    <3>2. pc'[w] = "findLatest"
      BY <3>1, Becomes
    <3>3. OpenRows' = {}
      BY <2>1, <2>2, <2>6 DEF Steady, Balanced
    <3> QED
      BY <2>1, <3>1, <3>2, <3>3 DEF InStep, NotCreated, Phase, Mirrored, Starting, Ending
  <2> QED
    BY <2>1, <2>3, <2>4, <2>5, <2>6 DEF Moves
<1> QED
  BY <1>1, <1>2 DEF ChangeStep

LEMMA FinalizeInStep ==
  ASSUME IInv, NEW w \in Workers, InStep(w), FinalizeStep(w) \/ RecordStep(w)
  PROVE  InStep(w)'
<1>1. CASE FindOpen(w)
  <2>1. state = "RESOLVED" /\ OpenRows # {} /\ UNCHANGED <<state, n, row>> /\ NotCreated
    BY <1>1 DEF FindOpen, At, InStep, Phase, Ending, tickVars, rowVars
  <2> DEFINE rec == [Blank EXCEPT !.c = n, !.late = RunOut(row[n], my[w].at)]
  <2>2. Become(w, "endCycle", rec) /\ rec.c = n
    BY <1>1, <2>1, NewestOpen DEF FindOpen, Blank
  <2> HIDE DEF rec
  <2>3. pc'[w] = "endCycle" /\ my'[w].c = n
    BY <2>2, Becomes
  <2>4. OpenRows' = OpenRows /\ "RESOLVED" \notin Working
    BY <2>1 DEF OpenRows, Working
  <2> QED
    BY <2>1, <2>3, <2>4 DEF InStep, NotCreated, Phase, Mirrored, Starting, Ending
<1>2. CASE EndCycle(w)
  <2> DEFINE flags == (row[n].breached \ {"resolution"}) \cup my[w].late
             new == [row[n] EXCEPT !.ended = TRUE, !.breached = flags]
  <2>1. my[w].c = n /\ state = "RESOLVED" /\ NotCreated /\ state' = state
    BY <1>2 DEF EndCycle, At, InStep, Phase, Ending, tickVars
  <2>2. n \in 1 .. n /\ UpdateRow(n, new)
    BY <1>2, <2>1, Facts DEF EndCycle, At, Fits, OnRow
  <2>3. new.ended
    BY <2>2, Facts DEF Rows
  <2> HIDE DEF new
  <2>4. OpenRows' = {} /\ n' = n
    BY <2>2, <2>3, RowUpdated DEF OpenRows, IInv, OnlyLatestOpen
  <2>5. "RESOLVED" \notin Working
    BY DEF Working
  <2>6. pc'[w] \in {"latchTicket", "idle", "checkEvent"}
    BY <1>2, GoesTo, BreachesNext DEF EndCycle
  <2> QED
    BY <2>1, <2>4, <2>5, <2>6
    DEF InStep, NotCreated, Phase, Mirrored, Balanced, Starting, Ending
<1>3. CASE LatchTicket(w)
  <2>1. /\ state = "RESOLVED" /\ NotCreated /\ Balanced /\ UNCHANGED <<state, n, row>>
        /\ "RESOLVED" \notin Working
    BY <1>3 DEF LatchTicket, At, InStep, Phase, Starting, Ending, tickVars, rowVars, Working
  <2>2. Steady'
    BY <2>1 DEF Steady, NotCreated, Balanced, OpenRows
  <2>3. pc'[w] \in {"idle", "checkEvent"}
    BY <1>3, BreachesNext DEF LatchTicket
  <2> QED
    BY <2>2, <2>3, SteadyEnds DEF Apart, Starting, Ending
<1>4. CASE RecordStep(w)
  <2>1. /\ pc[w] \in {"checkEvent", "recordEvent"} /\ UNCHANGED <<state, mirror, n, row>>
    BY <1>4 DEF RecordStep, CheckEvent, RecordEvent, At, tickVars, rowVars
  <2>2. pc'[w] \in {"idle", "checkEvent", "recordEvent"}
    BY <1>4, GoesTo, BreachesNext DEF RecordStep, CheckEvent, RecordEvent
  <2> QED
    BY <2>1, <2>2, SteadyThinks DEF Apart, Starting, Ending
<1> QED
  BY <1>1, <1>2, <1>3, <1>4 DEF FinalizeStep

LEMMA RestartInStep ==
  ASSUME IInv, NEW w \in Workers, InStep(w), RestartStep(w) \/ CloseStep(w)
  PROVE  InStep(w)'
<1>w. /\ "RESOLVED" \notin Working /\ "CLOSED" \notin Working /\ "IN_PROGRESS" \in Working
      /\ "NONE" \notin Working
  BY DEF Working
<1>1. CASE StartReply(w)
  <2> DEFINE rec == [Blank EXCEPT !.from = state, !.to = "IN_PROGRESS"]
  <2>1. Become(w, "reopen", rec)
    BY <1>1 DEF StartReply
  <2> HIDE DEF rec
  <2>2. /\ pc[w] = "idle" /\ pc'[w] = "reopen" /\ state \in {"RESOLVED", "CLOSED"}
        /\ UNCHANGED <<state, mirror, n, row>>
    BY <1>1, <2>1, Becomes DEF StartReply, Starts, tickVars, rowVars
  <2>3. Steady'
    BY <2>2, SteadyAt, SteadyStays DEF Apart, Starting, Ending
  <2> QED
    BY <2>2, <2>3 DEF Steady, InStep, Phase, Mirrored, Starting, Ending
<1>2. CASE Reopen(w)
  <2> DEFINE rec == [Blank EXCEPT !.target = target]
  <2>1. Become(w, "findLatest", rec)
    BY <1>2 DEF Reopen
  <2> HIDE DEF rec
  <2>2. /\ pc[w] = "reopen" /\ pc'[w] = "findLatest" /\ state' = "IN_PROGRESS"
        /\ UNCHANGED <<n, row>>
    BY <1>2, <2>1, Becomes DEF Reopen, At, rowVars
  <2>3. OpenRows' = {}
    BY <1>w, <2>2 DEF InStep, Phase, Balanced, OpenRows, Starting, Ending
  <2> QED
    BY <1>w, <2>2, <2>3 DEF InStep, NotCreated, Phase, Mirrored, Starting, Ending
<1>3. CASE FindLatest(w)
  <2>1. /\ OpenRows = {} /\ state \in Working /\ UNCHANGED <<state, n, row>> /\ n \in Nat
    BY <1>3, Facts DEF FindLatest, At, InStep, Phase, Starting, tickVars, rowVars
  <2>2. ~(n > 0 /\ ~row[n].ended)
    BY <2>1 DEF OpenRows
  <2> DEFINE rec == [my[w] EXCEPT !.c = n, !.at = now]
  <2>3. Become(w, "insertCycle", rec) /\ rec.c = n
    BY <1>3, <2>2, Facts DEF FindLatest, Locals
  <2> HIDE DEF rec
  <2>4. pc'[w] = "insertCycle" /\ my'[w].c = n
    BY <2>3, Becomes
  <2>5. OpenRows' = {}
    BY <2>1 DEF OpenRows
  <2> QED
    BY <1>w, <2>1, <2>4, <2>5 DEF InStep, NotCreated, Phase, Mirrored, Starting, Ending
<1>4. CASE EndDangling(w)
  BY <1>4 DEF EndDangling, At, InStep, Phase
<1>5. CASE StartAutoClose(w)
  <2>1. /\ pc[w] = "idle" /\ pc'[w] = "autoClose" /\ UNCHANGED <<state, mirror, n, row>>
    BY <1>5, Becomes DEF StartAutoClose, Starts, tickVars, rowVars
  <2> QED
    BY <2>1, SteadyThinks DEF Apart, Starting, Ending
<1>6. CASE AutoClose(w)
  <2>1. /\ pc[w] = "autoClose" /\ pc'[w] = "idle" /\ UNCHANGED <<mirror, n, row>>
        /\ state' = state \/ (state = "RESOLVED" /\ state' = "CLOSED")
    BY <1>6, Finishes DEF AutoClose, At, rowVars
  <2>2. Steady
    BY <2>1, SteadyAt DEF Apart, Starting, Ending
  <2>3. Steady'
    BY <1>w, <2>1, <2>2, SteadyStays DEF Steady, NotCreated, Balanced, OpenRows
  <2> QED
    BY <2>1, <2>3, SteadyEnds DEF Apart, Starting, Ending
<1> QED
  BY <1>1, <1>2, <1>3, <1>4, <1>5, <1>6 DEF RestartStep, CloseStep

LEMMA NoteInStep ==
  ASSUME IInv, NEW w \in Workers, InStep(w), NoteStep(w)
  PROVE  InStep(w)'
<1>0. my[w] \in Locals /\ n \in Nat
  BY Facts
<1>1. CASE StartNote(w)
  <2> DEFINE rec == [Blank EXCEPT !.at = now]
  <2>1. Become(w, "readLatest", rec)
    BY <1>1 DEF StartNote
  <2> HIDE DEF rec
  <2>2. pc[w] = "idle" /\ pc'[w] = "readLatest" /\ UNCHANGED <<state, mirror, n, row>>
    BY <1>1, <2>1, Becomes DEF StartNote, Starts, tickVars, rowVars
  <2> QED
    BY <2>2, SteadyThinks DEF Apart, Starting, Ending
<1>2. CASE ReadLatest(w)
  <2>1. pc[w] = "readLatest" /\ UNCHANGED <<state, mirror, n, row>>
    BY <1>2 DEF ReadLatest, At, tickVars, rowVars
  <2>2. Steady'
    BY <2>1, SteadyAt, SteadyStays DEF Apart, Starting, Ending
  <2>3. CASE Finish(w)
    BY <2>2, <2>3, Finishes, SteadyEnds DEF Apart, Starting, Ending
  <2>4. CASE ~Finish(w)
    <3> DEFINE late == {"response"} \cap RunOut(row[n], my[w].at)
               flag == late # {} \/ "response" \in row[n].breached
               rec == [my[w] EXCEPT !.c = n, !.late = late, !.latched = flag]
    <3>1. Become(w, "answer", rec)
      BY <1>2, <2>4 DEF ReadLatest
    <3>2. rec.c = n
      BY <1>0 DEF Locals
    <3> HIDE DEF rec
    <3>3. pc'[w] = "answer" /\ my'[w].c = n
      BY <3>1, <3>2, Becomes
    <3> QED
      BY <2>1, <2>2, <3>3 DEF Steady, InStep, Phase, Mirrored, Starting, Ending
  <2> QED
    BY <2>3, <2>4
<1>3. CASE Answer(w)
  <2> DEFINE flag == IF my[w].latched THEN {"response"} ELSE {}
             flags == (row[n].breached \ {"response"}) \cup flag
             new == [row[n] EXCEPT !.answered = my[w].at, !.breached = flags]
  <2>1. my[w].c = n /\ Steady /\ UNCHANGED <<state, mirror>> /\ my[w].at \in Nat
    BY <1>0, <1>3, SteadyAt, Facts
    DEF Answer, At, InStep, Phase, Apart, Starting, Ending, tickVars, Locals
  <2>2. n \in 1 .. n /\ UpdateRow(n, new) /\ row[n] \in Rows
    BY <1>3, <2>1, Facts DEF Answer, At, Fits, OnRow
  <2>3. /\ new.answered = my[w].at /\ new.due = row[n].due /\ new.ended = row[n].ended
        /\ my[w].latched => "response" \in new.breached
    BY <2>2 DEF Rows
  <2> HIDE DEF new
  <2>4. OpenRows' = OpenRows /\ n' = n /\ row'[n] = new
    BY <2>2, <2>3, OpenStands, RowUpdated
  <2>5. pc'[w] = "mirrorAnswer" /\ my'[w] = my[w]
    BY <1>3, GoesTo DEF Answer
  <2>6. row'[n'].answered # Never
    BY <2>1, <2>3, <2>4 DEF Never
  <2> QED
    BY <2>1, <2>3, <2>4, <2>5, <2>6
    DEF Steady, InStep, NotCreated, Phase, Mirrored, Balanced, DueAgrees, Starting, Ending
<1>4. CASE MirrorAnswer(w)
  <2>1. /\ NotCreated /\ Balanced /\ (state \in Working => DueAgrees)
        /\ row[n].answered # Never /\ (my[w].latched => "response" \in row[n].breached)
        /\ UNCHANGED <<state, n, row>>
    BY <1>4 DEF MirrorAnswer, At, InStep, Phase, Mirrored, Starting, Ending, tickVars, rowVars
  <2>2. /\ mirror'.due = mirror.due /\ mirror'.answered = TRUE
        /\ mirror'.breached = my[w].latched
    BY <1>4 DEF MirrorAnswer, IInv, TypeOK
  <2>3. Steady'
    BY <2>1, <2>2 DEF Steady, NotCreated, Balanced, DueAgrees, AnswerAgrees, OpenRows
  <2>4. pc'[w] \in {"idle", "checkEvent"}
    BY <1>4, BreachesNext DEF MirrorAnswer
  <2> QED
    BY <2>3, <2>4, SteadyEnds DEF Apart, Starting, Ending
<1> QED
  BY <1>1, <1>2, <1>3, <1>4 DEF NoteStep

LEMMA PatchInStep ==
  ASSUME IInv, NEW w \in Workers, InStep(w), PatchStep(w)
  PROVE  InStep(w)'
<1>0. my[w] \in Locals /\ n \in Nat
  BY Facts
<1>1. ASSUME NEW d \in ResolutionTargets, StartPatch(w, d)
      PROVE  InStep(w)'
  <2> DEFINE rec == [Blank EXCEPT !.target = d]
  <2>1. Become(w, "patch", rec)
    BY <1>1 DEF StartPatch
  <2> HIDE DEF rec
  <2>2. pc[w] = "idle" /\ pc'[w] = "patch" /\ UNCHANGED <<state, mirror, n, row>>
    BY <1>1, <2>1, Becomes DEF StartPatch, Starts, tickVars, rowVars
  <2> QED
    BY <2>2, SteadyThinks DEF Apart, Starting, Ending
<1>2. CASE Patch(w)
  <2>1. Steady /\ UNCHANGED <<state, n, row>> /\ pc'[w] = "findTarget"
    BY <1>2, SteadyAt, GoesTo DEF Patch, At, Apart, Starting, Ending, rowVars
  <2>2. mirror'.answered = mirror.answered /\ mirror'.breached = mirror.breached
    BY <1>2 DEF Patch, IInv, TypeOK
  <2> QED
    BY <2>1, <2>2
    DEF Steady, InStep, NotCreated, Phase, Mirrored, Balanced, AnswerAgrees, OpenRows,
        Starting, Ending
<1>3. CASE FindTarget(w)
  <2>1. /\ NotCreated /\ Balanced /\ (state \in Working => AnswerAgrees)
        /\ UNCHANGED <<state, mirror, n, row>>
    BY <1>3 DEF FindTarget, At, InStep, Phase, Mirrored, Starting, Ending, tickVars, rowVars
  <2>2. NotCreated' /\ Balanced' /\ (state \in Working => AnswerAgrees)'
    BY <2>1 DEF NotCreated, Balanced, AnswerAgrees, OpenRows
  <2>3. CASE OpenRows = {}
    <3>1. pc'[w] = "idle" /\ state' \notin Working
      BY <1>3, <2>1, <2>3, Finishes DEF FindTarget, Balanced
    <3>2. Steady'
      BY <2>2, <3>1 DEF Steady
    <3> QED
      BY <3>1, <3>2, SteadyEnds DEF Apart, Starting, Ending
  <2>4. CASE OpenRows # {}
    <3> DEFINE rec == [Blank EXCEPT !.c = n, !.at = now,
                                    !.target = row[n].start + my[w].target]
    <3>1. Become(w, "retarget", rec) /\ rec.c = n
      BY <1>3, <2>4, NewestOpen DEF FindTarget, Blank
    <3> HIDE DEF rec
    <3>2. pc'[w] = "retarget" /\ my'[w].c = n
      BY <3>1, Becomes
    <3> QED
      BY <2>1, <2>2, <3>2 DEF InStep, Phase, Mirrored, Starting, Ending
  <2> QED
    BY <2>3, <2>4
<1>4. CASE Retarget(w)
  <2> DEFINE flag == IF my[w].at > my[w].target THEN {"resolution"} ELSE {}
             flags == (row[n].breached \ {"resolution"}) \cup flag
             new == [row[n] EXCEPT !.due["resolution"] = my[w].target,
                                   !.breached = flags]
  <2>1. /\ my[w].c = n /\ NotCreated /\ Balanced /\ (state \in Working => AnswerAgrees)
        /\ UNCHANGED <<state, mirror>>
    BY <1>4 DEF Retarget, At, InStep, Phase, Mirrored, Starting, Ending, tickVars
  <2>2. n \in 1 .. n /\ UpdateRow(n, new) /\ row[n] \in Rows
    BY <1>4, <2>1, Facts DEF Retarget, At, Fits, OnRow
  <2>3. /\ new.answered = row[n].answered /\ new.ended = row[n].ended
        /\ new.due["resolution"] = my[w].target
        /\ "response" \in row[n].breached => "response" \in new.breached
    BY <2>2 DEF Rows, Clocks
  <2> HIDE DEF new
  <2>4. OpenRows' = OpenRows /\ n' = n /\ row'[n] = new
    BY <2>2, <2>3, OpenStands, RowUpdated
  <2>5. pc'[w] = "mirrorDue" /\ my'[w] = my[w]
    BY <1>4, GoesTo DEF Retarget
  <2> QED
    BY <2>1, <2>3, <2>4, <2>5
    DEF InStep, NotCreated, Phase, Mirrored, Balanced, AnswerAgrees, Starting, Ending
<1>5. CASE MirrorDue(w)
  <2>1. /\ NotCreated /\ Balanced /\ (state \in Working => AnswerAgrees)
        /\ my[w].target = row[n].due["resolution"] /\ UNCHANGED <<state, n, row>>
    BY <1>5 DEF MirrorDue, At, InStep, Phase, Mirrored, Starting, Ending, tickVars, rowVars
  <2>2. /\ mirror'.due = my[w].target /\ mirror'.answered = mirror.answered
        /\ mirror'.breached = mirror.breached
    BY <1>5 DEF MirrorDue, IInv, TypeOK
  <2>3. Steady'
    BY <2>1, <2>2 DEF Steady, NotCreated, Balanced, DueAgrees, AnswerAgrees, OpenRows
  <2>4. pc'[w] = "idle"
    BY <1>5, Finishes DEF MirrorDue
  <2> QED
    BY <2>3, <2>4, SteadyEnds DEF Apart, Starting, Ending
<1> QED
  BY <1>1, <1>2, <1>3, <1>4, <1>5 DEF PatchStep

LEMMA SweepInStep ==
  ASSUME IInv, NEW w \in Workers, InStep(w), SweepStep(w)
  PROVE  InStep(w)'
<1>0. pc[w] \in {"idle", "scan", "claim", "notice"}
  BY DEF SweepStep, StartSweep, Starts, Scan, Notice, Claim, At
<1>1. pc'[w] \in {"idle", "scan", "claim", "notice"}
  <2>1. \/ \E rec : Become(w, "scan", rec) \/ Become(w, "notice", rec)
        \/ \E rec : Proceed(w, rec)
    BY DEF SweepStep, StartSweep, Scan, Notice, Claim
  <2> QED
    BY <2>1, Becomes, ProceedsTo
<1>2. Steady
  BY <1>0, SteadyAt DEF Apart, Starting, Ending
<1>3. CASE UNCHANGED <<state, mirror, n, row>>
  BY <1>0, <1>1, <1>3, SteadyThinks DEF Apart, Starting, Ending
<1>4. ASSUME NEW c \in Cycles, Claim(w, c), UpdateRow(c, Latched(row[c], Pass(w)))
      PROVE  InStep(w)'
  <2> DEFINE new == Latched(row[c], Pass(w))
  <2>1. c \in 1 .. n /\ UNCHANGED <<state, mirror>>
    BY <1>4, Facts DEF Claim, Fits, tickVars
  <2>2. /\ new.answered = row[c].answered /\ new.ended = row[c].ended /\ new.due = row[c].due
        /\ row[c].breached \subseteq new.breached
    BY <2>1, Facts DEF Latched, Rows
  <2>3. UpdateRow(c, new)
    BY <1>4
  <2> HIDE DEF new
  <2>4. OpenRows' = OpenRows /\ n' = n
    BY <2>1, <2>2, <2>3, OpenStands
  <2>5. n \in 1 .. n => /\ row'[n].answered = row[n].answered /\ row'[n].due = row[n].due
                        /\ row[n].breached \subseteq row'[n].breached
    BY <2>1, <2>2, <2>3, RowUpdated
  <2>6. state \in Working => n \in 1 .. n
    BY <1>2, NewestOpen DEF Steady, Balanced
  <2>7. Steady'
    BY <1>2, <2>1, <2>4, <2>5, <2>6 DEF Steady, NotCreated, Balanced, DueAgrees, AnswerAgrees
  <2> QED
    BY <1>1, <2>7, SteadyEnds DEF Apart, Starting, Ending
<1> QED
  BY <1>3, <1>4 DEF SweepStep, StartSweep, Scan, Notice, Claim, tickVars, rowVars

LEMMA NextPhase ==
  ASSUME Serial, FailAt \subseteq {"notice"}, IInv, PhaseInv, [Next]_vars
  PROVE  PhaseInv'
<1>0. \A w \in Workers : InStep(w)
  BY DEF PhaseInv, InStep
<1>1. ASSUME NEW w \in Workers, Worker(w)
      PROVE  PhaseInv'
  <2>1. CASE Fail(w)
    <3>1. /\ pc[w] = "notice" /\ pc'[w] = "idle" /\ UNCHANGED <<state, mirror, n, row>>
      BY <2>1, Finishes DEF Fail, tickVars, rowVars
    <3>2. InStep(w)'
      BY <1>0, <3>1, SteadyThinks DEF Apart, Starting, Ending
    <3> QED
      BY <3>2 DEF PhaseInv, InStep, Serial
  <2>2. CASE ~Fail(w)
    <3>1. InStep(w)'
      BY <1>0, <1>1, <2>2, CreateInStep, ChangeInStep, FinalizeInStep, RestartInStep,
         NoteInStep, PatchInStep, SweepInStep
      DEF Worker
    <3> QED
      BY <3>1 DEF PhaseInv, InStep, Serial
  <2> QED
    BY <2>1, <2>2
<1>2. CASE Tick \/ UNCHANGED vars
  BY <1>2 DEF Tick, vars, tickVars, rowVars, PhaseInv, NotCreated, Phase, Mirrored, Balanced,
     DueAgrees, AnswerAgrees, OpenRows
<1>3. CASE Confirm
  <2>1. PICK w \in Workers : pc[w] = "idle"
    BY <1>3 DEF Confirm, Starts
  <2>2. /\ UNCHANGED <<mirror, n, row, pc, my>> /\ state = "RESOLVED" /\ state' = "CLOSED"
    BY <1>3 DEF Confirm, rowVars
  <2>3. Steady
    BY <1>0, <2>1, SteadyAt DEF Apart, Starting, Ending
  <2>4. Steady'
    BY <2>2, <2>3 DEF Steady, NotCreated, Balanced, OpenRows, Working
  <2>5. InStep(w)'
    BY <2>1, <2>2, <2>4, SteadyEnds DEF Apart, Starting, Ending
  <2> QED
    BY <2>5 DEF PhaseInv, InStep, Serial
<1> QED
  BY <1>1, <1>2, <1>3 DEF Next

LEMMA InitPhase == Init => PhaseInv
BY DEF Init, PhaseInv, NotCreated, Phase, Mirrored, Balanced, OpenRows, Working, Starting,
       Ending

(* When handlers run one at a time and none is cut off but before a sweep's  *)
(* notice, a ticket at rest has an open cycle exactly while it is being      *)
(* worked on: every change of state, reply and confirmation ends or starts   *)
(* the cycle that goes with it (applyStateChange, restartCycle).             *)
THEOREM OpenIffWorkingHolds ==
  ASSUME Serial, FailAt \subseteq {"notice"}, Workers # {}
  PROVE  Spec => []OpenIffWorking
<1>1. PhaseInv => OpenIffWorking
  BY DEF PhaseInv, Phase, Balanced, OpenIffWorking, Idle, Starting, Ending
<1>2. IInv /\ PhaseInv /\ [Next]_vars => IInv' /\ PhaseInv'
  BY NextKeeps, NextPhase
<1> QED
  BY <1>1, <1>2, InitInv, InitPhase, PTL DEF Spec

(* When handlers run one at a time and none is cut off but before a sweep's  *)
(* notice, the ticket's dueAt, firstResponseAt and responseBreached agree    *)
(* with its cycle whenever a ticket that is being worked on is at rest,      *)
(* whatever order of notes, changes of priority, sweeps and reworks led      *)
(* there.                                                                    *)
THEOREM MirrorMatchesHolds ==
  ASSUME Serial, FailAt \subseteq {"notice"}, Workers # {}
  PROVE  Spec => []MirrorMatches
<1>1. PhaseInv => MirrorMatches
  BY DEF PhaseInv, Mirrored, DueAgrees, AnswerAgrees, MirrorMatches, Idle, Starting
<1>2. IInv /\ PhaseInv /\ [Next]_vars => IInv' /\ PhaseInv'
  BY NextKeeps, NextPhase
<1> QED
  BY <1>1, <1>2, InitInv, InitPhase, PTL DEF Spec
-----------------------------------------------------------------------------
(* A cycle that a handler is bound to start finds a row for it: reopening    *)
(* starts only where the bound leaves one, and no other handler takes it.    *)

Wanting == {w \in Workers : Restarting(w)}

(* What a handler that is to write a state has judged. *)
Judged(w) ==
  /\ pc[w] = "write" => <<my[w].from, my[w].to>> \in Moves
  /\ pc[w] = "reopen" => my[w].from \in {"RESOLVED", "CLOSED"} /\ my[w].to = "IN_PROGRESS"

RoomInv ==
  /\ \A w \in Workers : Judged(w)
  /\ state = "NONE" => n = 0 /\ Wanting = {}
  /\ n + Cardinality(Wanting) <= MaxCycles

(* The labels from which a handler may come to insert a row. *)
Before == RestartLabels \cup {"write", "reopen"}

(* A step of one handler leaves the others where they are. *)
Alone(w) == \A v \in Workers \ {w} : pc'[v] = pc[v] /\ my'[v] = my[v]

LEMMA BecomesAlone ==
  ASSUME IInv, NEW w \in Workers, NEW l, NEW rec, Become(w, l, rec)
  PROVE  Alone(w)
BY DEF Become, Alone, IInv, TypeOK

LEMMA WorkerAlone ==
  ASSUME IInv, NEW w \in Workers, Worker(w)
  PROVE  Alone(w)
<1>l. \A l, rec : Become(w, l, rec) => Alone(w)
  BY BecomesAlone
<1>f. Finish(w) => Alone(w)
  BY <1>l DEF Finish
<1>b. \A rec : (RecordBreaches(w, rec) => Alone(w)) /\ (Proceed(w, rec) => Alone(w))
  BY <1>l, <1>f DEF RecordBreaches, Proceed
<1>g. \A l : Goto(w, l) => Alone(w)
  BY <1>l DEF Goto
<1>1. CreateStep(w) \/ Fail(w) => Alone(w)
  BY <1>f, <1>l DEF CreateStep, Create, InsertCycle, SyncTicket, Fail
<1>2. ChangeStep(w) => Alone(w)
  BY <1>f, <1>l DEF ChangeStep, StartChange, Write, AfterWrite
<1>3. FinalizeStep(w) \/ RecordStep(w) => Alone(w)
  BY <1>f, <1>b, <1>l, <1>g DEF FinalizeStep, FindOpen, EndCycle, LatchTicket, RecordStep,
     CheckEvent, RecordEvent
<1>4. RestartStep(w) => Alone(w)
  BY <1>l, <1>g DEF RestartStep, StartReply, Reopen, FindLatest, EndDangling
<1>5. NoteStep(w) => Alone(w)
  BY <1>f, <1>b, <1>l, <1>g DEF NoteStep, StartNote, ReadLatest, Answer, MirrorAnswer
<1>6. PatchStep(w) => Alone(w)
  BY <1>f, <1>l, <1>g DEF PatchStep, StartPatch, Patch, FindTarget, Retarget, MirrorDue
<1>7. SweepStep(w) => Alone(w)
  BY <1>b, <1>l DEF SweepStep, StartSweep, Scan, Notice, Claim
<1>8. CloseStep(w) => Alone(w)
  BY <1>f, <1>l DEF CloseStep, StartAutoClose, AutoClose
<1> QED
  BY <1>1, <1>2, <1>3, <1>4, <1>5, <1>6, <1>7, <1>8 DEF Worker

(* Only these steps lead a handler towards an insert. *)
LEMMA ToBefore ==
  ASSUME IInv, NEW w \in Workers, Worker(w), pc'[w] \in Before
  PROVE  \/ \E d \in ResolutionTargets : Create(w, d)
         \/ ChangeStep(w) \/ RestartStep(w)
<1>n. \A l \in {"idle", "checkEvent", "claim", "scan", "syncTicket", "endCycle", "latchTicket",
                "recordEvent", "answer", "readLatest", "mirrorAnswer", "patch", "findTarget",
                "retarget", "mirrorDue", "notice", "autoClose"} : l \notin Before
  BY DEF Before, RestartLabels
<1>f. ~Finish(w)
  BY <1>n, Finishes
<1>b. \A rec : ~RecordBreaches(w, rec) /\ ~Proceed(w, rec)
  BY <1>n, BreachesNext, ProceedsTo
<1>l. \A l, rec : l \notin Before => ~Become(w, l, rec)
  BY Becomes
<1>1. ~InsertCycle(w) /\ ~SyncTicket(w) /\ ~Fail(w)
  BY <1>f, <1>l, <1>n DEF InsertCycle, SyncTicket, Fail
<1>3. ~FinalizeStep(w) /\ ~RecordStep(w)
  BY <1>f, <1>b, <1>l, <1>n DEF FinalizeStep, FindOpen, EndCycle, LatchTicket, RecordStep,
     CheckEvent, RecordEvent, Goto
<1>5. ~NoteStep(w)
  BY <1>f, <1>b, <1>l, <1>n DEF NoteStep, StartNote, ReadLatest, Answer, MirrorAnswer, Goto
<1>6. ~PatchStep(w)
  BY <1>f, <1>l, <1>n DEF PatchStep, StartPatch, Patch, FindTarget, Retarget, MirrorDue, Goto
<1>7. ~SweepStep(w)
  BY <1>b, <1>l, <1>n DEF SweepStep, StartSweep, Scan, Notice, Claim
<1>8. ~CloseStep(w)
  BY <1>f, <1>l, <1>n DEF CloseStep, StartAutoClose, AutoClose
<1> QED
  BY <1>1, <1>3, <1>5, <1>6, <1>7, <1>8 DEF Worker, CreateStep

(* The only insert, and the only way out of NONE. *)
LEMMA RowsAndState ==
  ASSUME IInv, NEW w \in Workers, Judged(w), Worker(w)
  PROVE  /\ n' = n \/ InsertCycle(w)
         /\ state' = "NONE" => state = "NONE"
<1>1. CreateStep(w) => (n' = n \/ InsertCycle(w)) /\ (state' = "NONE" => state = "NONE")
  BY DEF CreateStep, Create, SyncTicket, InsertCycle, rowVars, tickVars
<1>2. ChangeStep(w) => n' = n /\ (state' = "NONE" => state = "NONE")
  BY DEF ChangeStep, StartChange, Write, Judged, At, Moves, rowVars, tickVars
<1>3. FinalizeStep(w) \/ RecordStep(w) => n' = n /\ state' = state
  BY DEF FinalizeStep, FindOpen, EndCycle, LatchTicket, RecordStep, CheckEvent, RecordEvent,
         UpdateRow, rowVars, tickVars
<1>4. RestartStep(w) => n' = n /\ (state' = "NONE" => state = "NONE")
  BY DEF RestartStep, StartReply, Reopen, FindLatest, EndDangling, UpdateRow, rowVars, tickVars
<1>5. NoteStep(w) \/ PatchStep(w) => n' = n /\ state' = state
  BY DEF NoteStep, StartNote, ReadLatest, Answer, MirrorAnswer, PatchStep, StartPatch, Patch,
         FindTarget, Retarget, MirrorDue, UpdateRow, rowVars, tickVars
<1>6. SweepStep(w) \/ Fail(w) => n' = n /\ state' = state
  BY DEF SweepStep, StartSweep, Scan, Notice, Claim, UpdateRow, Fail, rowVars, tickVars
<1>7. CloseStep(w) => n' = n /\ (state' = "NONE" => state = "NONE")
  BY DEF CloseStep, StartAutoClose, AutoClose, rowVars, tickVars
<1> QED
  BY <1>1, <1>2, <1>3, <1>4, <1>5, <1>6, <1>7 DEF Worker

(* One handler more or less. *)
LEMMA WantingMoves ==
  ASSUME IsFiniteSet(Workers), NEW w \in Workers, Alone(w)
  PROVE  /\ Cardinality(Wanting) \in Nat /\ Cardinality(Wanting') \in Nat
         /\ (Restarting(w)' <=> Restarting(w)) => Wanting' = Wanting
         /\ Restarting(w) /\ ~Restarting(w)' => Cardinality(Wanting') = Cardinality(Wanting) - 1
         /\ ~Restarting(w) /\ Restarting(w)' => Cardinality(Wanting') = Cardinality(Wanting) + 1
<1>1. \A v \in Workers \ {w} : Restarting(v)' <=> Restarting(v)
  BY DEF Alone, Restarting
<1>2. IsFiniteSet(Wanting) /\ IsFiniteSet(Wanting')
  BY FS_Subset DEF Wanting
<1>3. (Restarting(w)' <=> Restarting(w)) => Wanting' = Wanting
  BY <1>1 DEF Wanting
<1>4. Restarting(w) /\ ~Restarting(w)' => Wanting = Wanting' \cup {w} /\ w \notin Wanting'
  BY <1>1 DEF Wanting
<1>5. ~Restarting(w) /\ Restarting(w)' => Wanting' = Wanting \cup {w} /\ w \notin Wanting
  BY <1>1 DEF Wanting
<1>6. Cardinality(Wanting) \in Nat /\ Cardinality(Wanting') \in Nat
  BY <1>2, FS_CardinalityType
<1>7. Restarting(w) /\ ~Restarting(w)' => Cardinality(Wanting) = Cardinality(Wanting') + 1
  BY <1>2, <1>4, FS_AddElement
<1>8. ~Restarting(w) /\ Restarting(w)' => Cardinality(Wanting') = Cardinality(Wanting) + 1
  BY <1>2, <1>5, FS_AddElement
<1> QED
  BY <1>3, <1>6, <1>7, <1>8

LEMMA WorkerRoom ==
  ASSUME IsFiniteSet(Workers), MaxCycles >= 1, IInv, RoomInv, NEW w \in Workers, Worker(w)
  PROVE  RoomInv'
<1>1. /\ Alone(w) /\ Judged(w)
      /\ n' = n \/ InsertCycle(w)
      /\ state' = "NONE" => state = "NONE"
  BY WorkerAlone, RowsAndState DEF RoomInv
<1>2. /\ n \in Nat /\ MaxCycles \in Nat /\ my[w] \in Locals
      /\ Cardinality(Wanting) \in Nat /\ Cardinality(Wanting') \in Nat
  BY <1>1, Facts, WantingMoves
<1>3. \A v \in Workers \ {w} : Judged(v)'
  BY <1>1 DEF Alone, RoomInv, Judged
<1>4. ASSUME Judged(w)', n' = n, ~Restarting(w) /\ Restarting(w)' => n + Cardinality(Wanting) < MaxCycles,
             state' = "NONE" => ~Restarting(w)'
      PROVE  RoomInv'
  <2>1. Cardinality(Wanting') + n <= MaxCycles
    BY <1>1, <1>2, <1>4, WantingMoves DEF RoomInv
  <2>2. state' = "NONE" => n' = 0 /\ Wanting' = {}
    <3>1. state' = "NONE" => state = "NONE" /\ n = 0 /\ Wanting = {} /\ ~Restarting(w)
      BY <1>1 DEF RoomInv, Wanting
    <3> QED
      BY <1>1, <1>4, <3>1, WantingMoves
  <2> QED
    BY <1>2, <1>3, <1>4, <2>1, <2>2 DEF RoomInv
<1>5. CASE pc'[w] \notin Before /\ n' = n
  <2>1. ~Restarting(w)' /\ Judged(w)'
    BY <1>5 DEF Before, Restarting, Judged
  <2> QED
    BY <1>4, <1>5, <2>1
<1>6. CASE InsertCycle(w) /\ n' # n
  <2>1. /\ n' = my[w].c + 1 /\ n < my[w].c + 1 /\ pc[w] = "insertCycle"
        /\ Become(w, "syncTicket", [Blank EXCEPT !.target = my[w].at + my[w].target])
        /\ UNCHANGED state
    BY <1>6 DEF InsertCycle, At, rowVars, tickVars
  <2>2. my[w].c <= n /\ my[w].c \in Nat
    BY <1>2, <2>1, Facts DEF Fits, Locals
  <2>3. n' = n + 1
    BY <1>2, <2>1, <2>2
  <2>4. pc'[w] = "syncTicket"
    BY <2>1, Becomes
  <2>5. Restarting(w) /\ ~Restarting(w)' /\ Judged(w)'
    BY <2>1, <2>4 DEF Restarting, RestartLabels, Judged
  <2>6. Cardinality(Wanting') = Cardinality(Wanting) - 1
    BY <1>1, <2>5, WantingMoves
  <2>7. state # "NONE"
    BY <2>5 DEF RoomInv, Wanting
  <2> QED
    BY <1>2, <1>3, <2>1, <2>3, <2>5, <2>6, <2>7 DEF RoomInv
<1>7. CASE pc'[w] \in Before /\ n' = n
  <2>1. CASE \E d \in ResolutionTargets : Create(w, d)
    <3>1. PICK d \in ResolutionTargets : Create(w, d)
      BY <2>1
    <3>2. pc'[w] = "insertCycle" /\ state = "NONE" /\ state' = "NEW"
      BY <3>1, Becomes DEF Create
    <3>3. n = 0 /\ Cardinality(Wanting) = 0
      BY <3>2, FS_EmptySet DEF RoomInv
    <3> QED
      BY <1>2, <1>4, <1>7, <3>2, <3>3 DEF Judged
  <2>2. CASE ChangeStep(w)
    <3>1. CASE \E to \in States : StartChange(w, to)
      <4>1. PICK to \in States : StartChange(w, to)
        BY <3>1
      <4> DEFINE rec == [Blank EXCEPT !.from = state, !.to = to]
      <4>2. /\ pc'[w] = "write" /\ my'[w] = rec /\ rec.from = state /\ rec.to = to
            /\ <<state, to>> \in Moves /\ state' = state
            /\ to = "IN_PROGRESS" /\ state = "RESOLVED" => RoomForCycle
        <5>1. rec.from = state /\ rec.to = to
          BY DEF Blank
        <5> QED
          BY <4>1, <5>1, Becomes DEF StartChange, tickVars
      <4> HIDE DEF rec
      <4>3. Judged(w)' /\ state # "NONE" /\ state # "CLOSED"
        BY <4>2 DEF Judged, Moves
      <4>4. Restarting(w)' => n + Cardinality(Wanting) < MaxCycles
        BY <4>2, <4>3 DEF Restarting, RestartLabels, RoomForCycle, Wanting
      <4> QED
        BY <1>4, <1>7, <4>2, <4>3, <4>4
    <3>2. CASE Write(w)
      <4>1. pc[w] = "write"
        BY <3>2 DEF Write, At
      <4>2. AfterWrite(w) /\ state' = my[w].to
        <5>1. ~Finish(w)
          BY <1>7, Finishes DEF Before, RestartLabels
        <5> QED
          BY <3>2, <5>1 DEF Write
      <4>3. my[w].to = "IN_PROGRESS" /\ my[w].from = "RESOLVED" /\ pc'[w] = "findLatest"
        <5>1. \A rec : ~Become(w, "findOpen", rec)
          BY <1>7, Becomes DEF Before, RestartLabels
        <5>2. ~Finish(w)
          BY <1>7, Finishes DEF Before, RestartLabels
        <5> QED
          BY <4>2, <5>1, <5>2, Becomes DEF AfterWrite
      <4>4. Restarting(w) /\ Judged(w)' /\ state' # "NONE"
        BY <4>1, <4>2, <4>3 DEF Restarting, Judged
      <4> QED
        BY <1>4, <1>7, <4>4
    <3> QED
      BY <2>2, <3>1, <3>2 DEF ChangeStep
  <2>3. CASE RestartStep(w)
    <3>1. CASE StartReply(w)
      <4> DEFINE rec == [Blank EXCEPT !.from = state, !.to = "IN_PROGRESS"]
      <4>1. /\ pc'[w] = "reopen" /\ my'[w] = rec /\ rec.from = state /\ rec.to = "IN_PROGRESS"
            /\ state \in {"RESOLVED", "CLOSED"} /\ state' = state /\ RoomForCycle
        <5>1. rec.from = state /\ rec.to = "IN_PROGRESS"
          BY DEF Blank
        <5> QED
          BY <3>1, <5>1, Becomes DEF StartReply, tickVars
      <4> HIDE DEF rec
      <4> QED
        BY <1>4, <1>7, <4>1 DEF Judged, RoomForCycle, Wanting
    <3>2. CASE Reopen(w)
      <4>1. pc[w] = "reopen" /\ pc'[w] = "findLatest" /\ state' = "IN_PROGRESS"
        BY <3>2, Becomes DEF Reopen, At
      <4>2. Restarting(w) /\ Judged(w)'
        BY <1>1, <4>1 DEF Restarting, Judged
      <4> QED
        BY <1>4, <1>7, <4>1, <4>2
    <3>3. CASE FindLatest(w) \/ EndDangling(w)
      <4>1. Restarting(w) /\ state' = state
        BY <3>3 DEF FindLatest, EndDangling, At, Restarting, RestartLabels, tickVars
      <4>2. pc'[w] \in {"endDangling", "insertCycle"}
        BY <3>3, Becomes, GoesTo DEF FindLatest, EndDangling
      <4>3. Judged(w)' /\ state # "NONE"
        BY <4>1, <4>2 DEF Judged, RoomInv, Wanting
      <4> QED
        BY <1>4, <1>7, <4>1, <4>3
    <3> QED
      BY <2>3, <3>1, <3>2, <3>3 DEF RestartStep
  <2> QED
    BY <1>7, <2>1, <2>2, <2>3, ToBefore
<1> QED
  BY <1>1, <1>5, <1>6, <1>7

LEMMA NextRoom ==
  ASSUME IsFiniteSet(Workers), MaxCycles >= 1, IInv, RoomInv, [Next]_vars
  PROVE  RoomInv'
<1>1. CASE Tick \/ Confirm \/ UNCHANGED vars
  <2>1. UNCHANGED <<n, pc, my>> /\ (state' = "NONE" => state = "NONE")
    BY <1>1 DEF Tick, Confirm, vars, tickVars, rowVars
  <2> QED
    BY <2>1 DEF RoomInv, Judged, Wanting, Restarting
<1> QED
  BY <1>1, WorkerRoom DEF Next

(* slaService takes the previous cycle's number plus one and always inserts  *)
(* the row (startCycle, restartCycle), where the model keeps at most         *)
(* MaxCycles rows.  The bound never stands in the way: whatever handlers     *)
(* race and wherever they fail, one on its way to start a cycle finds a row  *)
(* free, so that no property holds because a cycle was left out.             *)
THEOREM RowLeftForCycle ==
  ASSUME IsFiniteSet(Workers), MaxCycles >= 1
  PROVE  Spec => [](\A w \in Workers :
                      /\ pc[w] \in RestartLabels => n < MaxCycles
                      /\ pc[w] = "insertCycle" => my[w].c < MaxCycles)
<1>1. Init => RoomInv
  <2> SUFFICES ASSUME Init PROVE RoomInv
    OBVIOUS
  <2>1. Wanting = {}
    BY DEF Init, Wanting, Restarting, RestartLabels
  <2>2. Cardinality(Wanting) = 0
    BY <2>1, FS_EmptySet
  <2> QED
    BY <2>1, <2>2, LifecycleAssumption DEF Init, RoomInv, Judged
<1>2. IInv /\ RoomInv /\ [Next]_vars => IInv' /\ RoomInv'
  BY NextKeeps, NextRoom
<1>3. ASSUME IInv, RoomInv, NEW w \in Workers, pc[w] \in RestartLabels
      PROVE  n < MaxCycles /\ (pc[w] = "insertCycle" => my[w].c < MaxCycles)
  <2>1. Wanting # {}
    BY <1>3 DEF Wanting, Restarting
  <2>2. IsFiniteSet(Wanting)
    BY FS_Subset DEF Wanting
  <2>3. Cardinality(Wanting) \in Nat /\ Cardinality(Wanting) # 0
    BY <2>1, <2>2, FS_EmptySet, FS_CardinalityType
  <2>4. n \in Nat /\ MaxCycles \in Nat
    BY <1>3, Facts
  <2>5. n < MaxCycles
    BY <1>3, <2>3, <2>4 DEF RoomInv
  <2>6. pc[w] = "insertCycle" => my[w].c <= n /\ my[w].c \in Nat
    BY <1>3, Facts DEF Fits, Locals
  <2> QED
    BY <2>4, <2>5, <2>6
<1>4. IInv /\ RoomInv => \A w \in Workers :
                           /\ pc[w] \in RestartLabels => n < MaxCycles
                           /\ pc[w] = "insertCycle" => my[w].c < MaxCycles
  BY <1>3 DEF RestartLabels
<1> QED
  BY <1>1, <1>2, <1>4, InitInv, PTL DEF Spec

-----------------------------------------------------------------------------
(* The auto-close sweep judges a resolution when it makes its list.  Until it *)
(* writes, the ticket may be reopened and resolved again, by any number of   *)
(* handlers; whatever makes it RESOLVED stamps it anew.                      *)

LEMMA ToAutoClose ==
  ASSUME IInv, NEW w \in Workers, Worker(w), pc'[w] = "autoClose"
  PROVE  StartAutoClose(w)
<1>f. ~Finish(w)
  BY Finishes
<1>b. \A rec : ~RecordBreaches(w, rec) /\ ~Proceed(w, rec)
  BY BreachesNext, ProceedsTo
<1>l. \A l, rec : l # "autoClose" => ~Become(w, l, rec)
  BY Becomes
<1>1. ~CreateStep(w) /\ ~Fail(w)
  BY <1>f, <1>l DEF CreateStep, Create, InsertCycle, SyncTicket, Fail
<1>2. ~ChangeStep(w)
  BY <1>f, <1>l DEF ChangeStep, StartChange, Write, AfterWrite
<1>3. ~FinalizeStep(w) /\ ~RecordStep(w)
  BY <1>f, <1>b, <1>l DEF FinalizeStep, FindOpen, EndCycle, LatchTicket, RecordStep,
     CheckEvent, RecordEvent, Goto
<1>4. ~RestartStep(w)
  <2>1. ~StartReply(w) /\ ~Reopen(w) /\ ~EndDangling(w)
    BY <1>l DEF StartReply, Reopen, EndDangling, Goto
  <2>2. FindLatest(w) => \E rec : Become(w, "endDangling", rec) \/ Become(w, "insertCycle", rec)
    BY DEF FindLatest
  <2> QED
    BY <1>l, <2>1, <2>2 DEF RestartStep
<1>5. ~NoteStep(w)
  BY <1>f, <1>b, <1>l DEF NoteStep, StartNote, ReadLatest, Answer, MirrorAnswer, Goto
<1>6. ~PatchStep(w)
  BY <1>f, <1>l DEF PatchStep, StartPatch, Patch, FindTarget, Retarget, MirrorDue, Goto
<1>7. ~SweepStep(w)
  BY <1>b, <1>l DEF SweepStep, StartSweep, Scan, Notice, Claim
<1>8. ~AutoClose(w)
  BY <1>f DEF AutoClose
<1> QED
  BY <1>1, <1>2, <1>3, <1>4, <1>5, <1>6, <1>7, <1>8 DEF Worker, CloseStep

(* What a step does to the ticket's resolution. *)
Stamped == \/ UNCHANGED <<state, resolvedAt>>
           \/ state' # "RESOLVED"
           \/ resolvedAt' = now

LEMMA WorkerStamps ==
  ASSUME NEW w \in Workers, Worker(w)
  PROVE  Stamped /\ now' = now
<1>1. CASE CreateStep(w)
  BY <1>1 DEF CreateStep, Create, InsertCycle, SyncTicket, tickVars, Stamped
<1>2. CASE ChangeStep(w)
  BY <1>2 DEF ChangeStep, StartChange, Write, tickVars, Stamped
<1>3. CASE FinalizeStep(w) \/ RecordStep(w)
  BY <1>3 DEF FinalizeStep, FindOpen, EndCycle, LatchTicket, RecordStep, CheckEvent,
              RecordEvent, tickVars, Stamped
<1>4. CASE RestartStep(w)
  BY <1>4 DEF RestartStep, StartReply, Reopen, FindLatest, EndDangling, tickVars, Stamped
<1>5. CASE CloseStep(w)
  BY <1>5 DEF CloseStep, StartAutoClose, AutoClose, tickVars, Stamped
<1>6. CASE NoteStep(w)
  BY <1>6 DEF NoteStep, StartNote, ReadLatest, Answer, MirrorAnswer, tickVars, Stamped
<1>7. CASE PatchStep(w)
  BY <1>7 DEF PatchStep, StartPatch, Patch, FindTarget, Retarget, MirrorDue, tickVars,
              Stamped
<1>8. CASE SweepStep(w)
  BY <1>8 DEF SweepStep, StartSweep, Scan, Claim, Notice, tickVars, Stamped
<1>9. CASE Fail(w)
  BY <1>9 DEF Fail, tickVars, Stamped
<1> QED
  BY <1>1, <1>2, <1>3, <1>4, <1>5, <1>6, <1>7, <1>8, <1>9 DEF Worker

LEMMA OnlyCloses ==
  ASSUME NEW w \in Workers, Worker(w), pc[w] = "autoClose"
  PROVE  AutoClose(w) \/ Fail(w)
BY DEF Worker, CreateStep, Create, InsertCycle, SyncTicket, ChangeStep, StartChange, Write,
       FinalizeStep, FindOpen, EndCycle, LatchTicket, RecordStep, CheckEvent, RecordEvent,
       RestartStep, StartReply, Reopen, FindLatest, EndDangling, CloseStep, StartAutoClose,
       NoteStep, StartNote, ReadLatest, Answer, MirrorAnswer, PatchStep, StartPatch, Patch,
       FindTarget, Retarget, MirrorDue, SweepStep, StartSweep, Scan, Claim, Notice, Starts, At

Earned(w) ==
  pc[w] = "autoClose" =>
    /\ my[w].at <= now
    /\ state = "RESOLVED" =>
         resolvedAt + ConfirmWindow <= my[w].at \/ resolvedAt >= my[w].at

LEMMA NextEarned ==
  ASSUME IInv, \A w \in Workers : Earned(w), [Next]_vars
  PROVE  \A w \in Workers : Earned(w)'
<1>0. /\ now \in Nat /\ ConfirmWindow \in Nat /\ resolvedAt \in Int
      /\ \A w \in Workers : my[w].at \in Nat
  <2>1. now \in Nat /\ ConfirmWindow \in Nat /\ resolvedAt \in Int
    BY LifecycleAssumption DEF IInv, TypeOK, Times, Never
  <2>2. ASSUME NEW w \in Workers PROVE my[w].at \in Nat
    <3>1. my[w] \in Locals
      BY DEF IInv, TypeOK
    <3> QED
      BY <3>1 DEF Locals, Times
  <2> QED
    BY <2>1, <2>2
<1>1. ASSUME NEW w \in Workers, Worker(w), NEW v \in Workers
      PROVE  Earned(v)'
  <2>1. Stamped /\ now' = now
    BY <1>1, WorkerStamps
  <2>2. CASE v = w
    <3> SUFFICES ASSUME pc'[w] = "autoClose" PROVE Earned(w)'
      BY <2>2 DEF Earned
    <3>1. StartAutoClose(w)
      BY <1>1, ToAutoClose
    <3>2. my'[w].at = now
      <4>1. my'[w] = [Blank EXCEPT !.at = now]
        BY <3>1, Becomes DEF StartAutoClose
      <4> QED
        BY <4>1 DEF Blank
    <3>3. /\ UNCHANGED <<now, resolvedAt>>
          /\ resolvedAt + ConfirmWindow <= now
      BY <3>1 DEF StartAutoClose, tickVars
    <3> QED
      BY <1>0, <3>2, <3>3 DEF Earned
  <2>3. CASE v # w
    <3>1. pc'[v] = pc[v] /\ my'[v] = my[v]
      BY <1>1, <2>3, WorkerAlone DEF Alone
    <3> QED
      BY <1>0, <2>1, <3>1 DEF Earned, Stamped
  <2> QED
    BY <2>2, <2>3
<1>2. CASE Tick \/ Confirm \/ UNCHANGED vars
  <2>1. /\ pc' = pc /\ my' = my /\ resolvedAt' = resolvedAt
        /\ state' = state \/ state' = "CLOSED"
        /\ now' = now \/ now' = now + 1
    BY <1>2 DEF Tick, Confirm, vars, tickVars
  <2> QED
    BY <1>0, <2>1 DEF Earned
<1> QED
  BY <1>1, <1>2 DEF Next

(* However many handlers reopen and resolve the ticket meanwhile, the         *)
(* auto-close sweep cuts no confirmation window short that had begun when it *)
(* made its list (sweepResolutions).                                         *)
THEOREM AutoCloseEarnedHolds == Spec => AutoCloseEarned
<1> DEFINE Inv == \A w \in Workers : Earned(w)
<1>1. Init => Inv
  BY DEF Init, Earned
<1>2. IInv /\ Inv /\ [Next]_vars => IInv' /\ Inv'
  BY NextKeeps, NextEarned
<1>3. ASSUME IInv, Inv, [Next]_vars, NEW w \in Workers, ClosedBy(w)
      PROVE  resolvedAt + ConfirmWindow <= my[w].at \/ resolvedAt >= my[w].at
  <2>1. pc[w] = "autoClose" /\ pc'[w] # pc[w] /\ state' # state
    BY <1>3 DEF ClosedBy, At
  <2>2. ~(Tick \/ Confirm \/ UNCHANGED vars)
    BY <2>1 DEF Tick, Confirm, vars
  <2>3. ~\E v \in Workers \ {w} : Worker(v)
    BY <1>3, <2>1, WorkerAlone DEF Alone
  <2>4. Worker(w)
    BY <1>3, <2>2, <2>3 DEF Next
  <2>5. AutoClose(w) \/ Fail(w)
    BY <2>1, <2>4, OnlyCloses
  <2>6. state = "RESOLVED"
    BY <2>1, <2>5 DEF AutoClose, Fail, tickVars
  <2> QED
    BY <1>3, <2>1, <2>6 DEF Earned
<1>4. IInv /\ Inv /\ [Next]_vars =>
        [\A w \in Workers : ClosedBy(w) =>
           resolvedAt + ConfirmWindow <= my[w].at \/ resolvedAt >= my[w].at]_vars
  BY <1>3
<1> HIDE DEF Inv
<1> QED
  BY <1>1, <1>2, <1>4, InitInv, PTL DEF Spec, AutoCloseEarned
=============================================================================
