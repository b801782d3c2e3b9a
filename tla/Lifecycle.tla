------------------------------ MODULE Lifecycle ------------------------------
(***************************************************************************)
(* One ticket, its lifecycle and its SLA cycles: server/routes/tickets.js  *)
(* (applyStateChange, notes, PATCH), server/src/slaService.js, slaSweeper, *)
(* resolutionSweeper, the requester's confirmation and the requester's     *)
(* reply (services/ticketIntake.js).                                       *)
(*                                                                         *)
(* A handler is a sequence of awaited statements; between two of them any   *)
(* other handler may run.  Each statement that reads or writes the ticket,  *)
(* a cycle or an event is one action of the worker that runs the handler.   *)
(***************************************************************************)
EXTENDS Integers, FiniteSets, Sequences

CONSTANTS
  Workers,          \* how many handlers may be in flight at once
  MaxCycles,        \* bound: the TicketSlaCycle rows of the ticket
  MaxNow,           \* bound: the last instant of the clock
  ResponseTarget,   \* time to the first response
  ResolutionTargets,\* time to the resolution, one value per priority
  ConfirmWindow,    \* resolutionAutoCloseDays
  Enabled,          \* the handlers a run exercises
  FailAt            \* the statements that may fail or never run (a crash)

FailLabels == {"insertCycle", "syncTicket", "findOpen", "findLatest", "notice"}
Handlers   == {"create", "change", "close", "reply", "note", "patch", "sweep"}

ASSUME LifecycleAssumption ==
  /\ MaxCycles \in Nat /\ MaxNow \in Nat /\ ConfirmWindow \in Nat
  /\ ResponseTarget \in Nat
  /\ ResolutionTargets \subseteq Nat /\ ResolutionTargets # {}
  /\ Enabled \subseteq Handlers
  /\ FailAt \subseteq FailLabels

Times   == 0 .. MaxNow
Never   == -1                   \* a null timestamp
Cycles  == 1 .. MaxCycles
Clocks  == {"response", "resolution"}
Kinds   == {"approaching", "breach"}

(* "NONE": the ticket has not been created yet. *)
States  == {"NONE", "NEW", "IN_PROGRESS", "RESOLVED", "CLOSED"}
Working == {"NEW", "IN_PROGRESS"}
Moves   == {<<"NEW", "IN_PROGRESS">>, <<"IN_PROGRESS", "RESOLVED">>,
            <<"RESOLVED", "CLOSED">>, <<"RESOLVED", "IN_PROGRESS">>}

VARIABLES
  now,        \* the clock
  state,      \* Ticket.state
  resolvedAt, \* Ticket.resolvedAt
  target,     \* the resolution target of Ticket.priority
  mirror,     \* Ticket.dueAt, firstResponseAt # null, responseBreached
  n,          \* how many cycle rows there are; cycleNumber is 1 .. n
  row,        \* the TicketSlaCycle rows
  events,     \* how many TicketSlaEvent rows each cycle has of each sort
  fresh,      \* per cycle: the sweeps that hold its present updatedAt
  pc, my      \* per worker: the next statement, and the handler's locals

tickVars == <<state, resolvedAt, target>>
rowVars  == <<n, row, fresh>>
vars     == <<now, tickVars, mirror, rowVars, events, pc, my>>

(* Ticket.dueAt before any cycle sets it: the calendar estimate of           *)
(* computeDueAt, which is no instant of the working calendar.                *)
Estimate == Never
Due      == Nat \cup {Never}

(* A cycle row; `breached' holds the clocks whose breached flag is set.      *)
Row(start, d) ==
  [start |-> start, ended |-> FALSE, answered |-> Never, breached |-> {},
   due |-> [k \in Clocks |-> start + IF k = "response" THEN ResponseTarget ELSE d]]

Rows == [start : Times, ended : BOOLEAN, answered : Times \cup {Never},
         breached : SUBSET Clocks, due : [Clocks -> Nat]]

Nothing == Row(0, 0)

Sorts == Kinds \X Clocks

(* The four scans of a sweep, in order (scanDefinitions). *)
Passes == << <<"breach", "response">>, <<"approaching", "response">>,
             <<"breach", "resolution">>, <<"approaching", "resolution">> >>

-----------------------------------------------------------------------------
(* Handlers' control *)

RestartLabels == {"findLatest", "endDangling", "insertCycle"}
Labels ==
  RestartLabels \cup
  {"idle",
   "syncTicket",                                        \* startCycle
   "write",                                             \* applyStateChange
   "findOpen", "endCycle", "latchTicket",               \* finalizeOpenCycle
   "checkEvent", "recordEvent",                         \* hasBreachEvent
   "reopen",                                            \* requester's reply
   "readLatest", "answer", "mirrorAnswer",              \* recordFirstResponse
   "patch", "findTarget", "retarget", "mirrorDue",      \* onPriorityChanged
   "autoClose",                                         \* sweepResolutions
   "scan", "claim", "notice"}                           \* sweepSla

(* What a handler remembers: the states it judged, the instant it counts     *)
(* from, its target (a duration, later the instant it is due), its cycle,    *)
(* the breaches it has yet to record, whether the response was already late, *)
(* and for a sweep its scan and the candidates left.                         *)
Blank == [from |-> "NONE", to |-> "NONE", at |-> 0, target |-> 0, c |-> 0,
          late |-> {}, latched |-> FALSE, todo |-> {}, pass |-> 1]

Locals == [from : States, to : States, at : Times, target : Nat,
           c : 0 .. MaxCycles, late : SUBSET Clocks, latched : BOOLEAN,
           todo : SUBSET Cycles, pass : 1 .. Len(Passes)]

Become(w, label, locals) ==
  /\ pc' = [pc EXCEPT ![w] = label]
  /\ my' = [my EXCEPT ![w] = locals]

Goto(w, label) == Become(w, label, my[w])
Finish(w)      == Become(w, "idle", Blank)

At(w, label)    == pc[w] = label
Starts(w, name) == pc[w] = "idle" /\ name \in Enabled

(* The breaches a handler has yet to record: the response first.             *)
NextLate(w) == IF "response" \in my[w].late THEN "response" ELSE "resolution"
RecordBreaches(w, locals) ==
  IF locals.late = {} THEN Finish(w) ELSE Become(w, "checkEvent", locals)

(* A write of cycle row c: its updatedAt changes, and with it every version  *)
(* a sweep holds.                                                            *)
UpdateRow(c, new) ==
  /\ row' = [row EXCEPT ![c] = new]
  /\ fresh' = [fresh EXCEPT ![c] = {}]
  /\ UNCHANGED n

(* A handler that will insert a cycle row.  Reopening starts only while the  *)
(* bound leaves a row for it. *)
Restarting(w) ==
  \/ pc[w] \in RestartLabels
  \/ /\ pc[w] \in {"write", "reopen"}
     /\ my[w].from \in {"RESOLVED", "CLOSED"} /\ my[w].to = "IN_PROGRESS"
RoomForCycle == n + Cardinality({w \in Workers : Restarting(w)}) < MaxCycles

-----------------------------------------------------------------------------
(* Creation: POST /tickets or the intake's transaction, then startCycle *)

(* The ticket is committed first; its first cycle is a later statement. *)
Create(w, d) ==
  /\ Starts(w, "create")
  /\ state = "NONE"
  /\ state' = "NEW"
  /\ target' = d
  /\ mirror' = [mirror EXCEPT !.due = Estimate]
  /\ Become(w, "insertCycle", [Blank EXCEPT !.at = now, !.target = d])
  /\ UNCHANGED <<now, resolvedAt, rowVars, events>>

(* startCycle: (ticketId, cycleNumber) is unique, so a handler that lost a   *)
(* race for the number fails.  RoomForCycle keeps the bound out of the way.  *)
InsertCycle(w) ==
  /\ At(w, "insertCycle")
  /\ my[w].c < MaxCycles
  /\ LET c == my[w].c + 1
     IN IF n < c
        THEN /\ n' = c
             /\ row' = [row EXCEPT ![c] = Row(my[w].at, my[w].target)]
             /\ UNCHANGED fresh
             /\ Become(w, "syncTicket",
                       [Blank EXCEPT !.target = my[w].at + my[w].target])
        ELSE /\ Finish(w)
             /\ UNCHANGED rowVars
  /\ UNCHANGED <<now, tickVars, mirror, events>>

SyncTicket(w) ==
  /\ At(w, "syncTicket")
  /\ mirror' = [due |-> my[w].target, answered |-> FALSE,
                breached |-> FALSE]
  /\ Finish(w)
  /\ UNCHANGED <<now, tickVars, rowVars, events>>

-----------------------------------------------------------------------------
(* applyStateChange: start, resolve, close, rework *)

(* The route loads the ticket; every guard judges this snapshot. *)
StartChange(w, to) ==
  /\ Starts(w, "change")
  /\ <<state, to>> \in Moves
  /\ to = "IN_PROGRESS" /\ state = "RESOLVED" => RoomForCycle
  /\ Become(w, "write", [Blank EXCEPT !.from = state, !.to = to])
  /\ UNCHANGED <<now, tickVars, mirror, rowVars, events>>

(* A force close is a compare-and-set; every other change is not. *)
ForceClose(w) == my[w].to = "CLOSED"

(* What follows the write: a resolution ends the open cycle, a rework starts *)
(* the next one. *)
AfterWrite(w) ==
  CASE my[w].to = "RESOLVED" ->
         Become(w, "findOpen", [Blank EXCEPT !.at = now])
    [] my[w].to = "IN_PROGRESS" /\ my[w].from = "RESOLVED" ->
         Become(w, "findLatest", [Blank EXCEPT !.target = target])
    [] OTHER -> Finish(w)

(* Mutant: the force close loses its where clause. *)
WriteUnconditionally(w) ==
  /\ At(w, "write")
  /\ state' = my[w].to
  /\ resolvedAt' = CASE my[w].to = "RESOLVED" -> now
                     [] my[w].from = "RESOLVED" /\ my[w].to = "IN_PROGRESS" -> Never
                     [] OTHER -> resolvedAt
  /\ AfterWrite(w)
  /\ UNCHANGED <<now, target, mirror, rowVars, events>>

Write(w) ==
  /\ At(w, "write")
  /\ IF ForceClose(w) /\ state # "RESOLVED"
     THEN /\ Finish(w)
          /\ UNCHANGED <<state, resolvedAt>>
     ELSE /\ state' = my[w].to
          /\ resolvedAt' = CASE my[w].to = "RESOLVED" -> now
                             [] my[w].from = "RESOLVED" /\ my[w].to = "IN_PROGRESS" ->
                                  Never
                             [] OTHER -> resolvedAt
          /\ AfterWrite(w)
  /\ UNCHANGED <<now, target, mirror, rowVars, events>>

-----------------------------------------------------------------------------
(* finalizeOpenCycle, with the instant the ticket was resolved *)

OpenRows == {c \in 1 .. n : ~row[c].ended}
Latest(S) == CHOOSE c \in S : \A d \in S : d <= c

(* The clocks that had run out at that instant, by the row as it is read.    *)
RunOut(r, t) ==
  {k \in Clocks : t > r.due[k] /\ (k = "response" => r.answered = Never)}

FindOpen(w) ==
  /\ At(w, "findOpen")
  /\ IF OpenRows = {}
     THEN Finish(w)
     ELSE LET c == Latest(OpenRows)
          IN Become(w, "endCycle",
                    [Blank EXCEPT !.c = c, !.late = RunOut(row[c], my[w].at)])
  /\ UNCHANGED <<now, tickVars, mirror, rowVars, events>>

EndCycle(w) ==
  /\ At(w, "endCycle")
  /\ LET c == my[w].c
     IN UpdateRow(c, [row[c] EXCEPT !.ended = TRUE,
                        !.breached = (@ \ {"resolution"}) \cup my[w].late])
  /\ IF "response" \in my[w].late
     THEN Goto(w, "latchTicket")
     ELSE RecordBreaches(w, my[w])
  /\ UNCHANGED <<now, tickVars, mirror, events>>

LatchTicket(w) ==
  /\ At(w, "latchTicket")
  /\ mirror' = [mirror EXCEPT !.breached = TRUE]
  /\ RecordBreaches(w, my[w])
  /\ UNCHANGED <<now, tickVars, rowVars, events>>

(* Mutant: hasBreachEvent is not asked. *)
CheckNothing(w) ==
  /\ At(w, "checkEvent")
  /\ Goto(w, "recordEvent")
  /\ UNCHANGED <<now, tickVars, mirror, rowVars, events>>

(* hasBreachEvent, and the insert that follows it as a statement of its own. *)
CheckEvent(w) ==
  /\ At(w, "checkEvent")
  /\ IF events[my[w].c][<<"breach", NextLate(w)>>] = 0
     THEN Goto(w, "recordEvent")
     ELSE RecordBreaches(w, [my[w] EXCEPT !.late = @ \ {NextLate(w)}])
  /\ UNCHANGED <<now, tickVars, mirror, rowVars, events>>

RecordEvent(w) ==
  /\ At(w, "recordEvent")
  /\ events' = [events EXCEPT ![my[w].c][<<"breach", NextLate(w)>>] = @ + 1]
  /\ RecordBreaches(w, [my[w] EXCEPT !.late = @ \ {NextLate(w)}])
  /\ UNCHANGED <<now, tickVars, mirror, rowVars>>

-----------------------------------------------------------------------------
(* restartCycle *)

(* Mutant: a dangling open cycle is not ended. *)
FindLatestOnly(w) ==
  /\ At(w, "findLatest")
  /\ Become(w, "insertCycle", [my[w] EXCEPT !.c = n, !.at = now])
  /\ UNCHANGED <<now, tickVars, mirror, rowVars, events>>

FindLatest(w) ==
  /\ At(w, "findLatest")
  /\ LET open == n > 0 /\ ~row[n].ended
     IN Become(w, IF open THEN "endDangling" ELSE "insertCycle",
               [my[w] EXCEPT !.c = n, !.at = now])
  /\ UNCHANGED <<now, tickVars, mirror, rowVars, events>>

EndDangling(w) ==
  /\ At(w, "endDangling")
  /\ UpdateRow(my[w].c, [row[my[w].c] EXCEPT !.ended = TRUE])
  /\ Goto(w, "insertCycle")
  /\ UNCHANGED <<now, tickVars, mirror, events>>

-----------------------------------------------------------------------------
(* The requester's reply (intakeEmailMessage): the thread's ticket is read,   *)
(* the comment is inserted, and then the ticket is reopened.                  *)

StartReply(w) ==
  /\ Starts(w, "reply")
  /\ state \in {"RESOLVED", "CLOSED"}
  /\ RoomForCycle
  /\ Become(w, "reopen", [Blank EXCEPT !.from = state, !.to = "IN_PROGRESS"])
  /\ UNCHANGED <<now, tickVars, mirror, rowVars, events>>

(* Mutant: the reply reopens the ticket and starts no cycle. *)
ReopenOnly(w) ==
  /\ At(w, "reopen")
  /\ state' = "IN_PROGRESS"
  /\ resolvedAt' = Never
  /\ Finish(w)
  /\ UNCHANGED <<now, target, mirror, rowVars, events>>

Reopen(w) ==
  /\ At(w, "reopen")
  /\ state' = "IN_PROGRESS"
  /\ resolvedAt' = Never
  /\ Become(w, "findLatest", [Blank EXCEPT !.target = target])
  /\ UNCHANGED <<now, target, mirror, rowVars, events>>

-----------------------------------------------------------------------------
(* Closing from RESOLVED: the requester's confirmation and the auto-close *)

Confirm ==
  /\ \E w \in Workers : Starts(w, "close")
  /\ state = "RESOLVED"
  /\ state' = "CLOSED"
  /\ UNCHANGED <<now, resolvedAt, target, mirror, rowVars, events, pc, my>>

(* Mutant: the cutoff is left out of the scan. *)
StartAutoCloseAtOnce(w) ==
  /\ Starts(w, "close")
  /\ ConfirmWindow > 0
  /\ state = "RESOLVED"
  /\ Become(w, "autoClose", [Blank EXCEPT !.at = now])
  /\ UNCHANGED <<now, tickVars, mirror, rowVars, events>>

(* The auto-close sweep lists what was resolved before its cutoff; each of    *)
(* these it closes by a write of its own, which asks only for RESOLVED.      *)
StartAutoClose(w) ==
  /\ Starts(w, "close")
  /\ ConfirmWindow > 0                  \* zero days: never close automatically
  /\ state = "RESOLVED" /\ resolvedAt + ConfirmWindow <= now
  /\ Become(w, "autoClose", [Blank EXCEPT !.at = now])
  /\ UNCHANGED <<now, tickVars, mirror, rowVars, events>>

AutoClose(w) ==
  /\ At(w, "autoClose")
  /\ state' = IF state = "RESOLVED" THEN "CLOSED" ELSE state
  /\ Finish(w)
  /\ UNCHANGED <<now, resolvedAt, target, mirror, rowVars, events>>

-----------------------------------------------------------------------------
(* POST /tickets/:id/notes with a public note, and recordFirstResponse.  The  *)
(* response counts from the instant the comment was created.                  *)

StartNote(w) ==
  /\ Starts(w, "note")
  /\ state # "NONE"
  /\ Become(w, "readLatest", [Blank EXCEPT !.at = now])
  /\ UNCHANGED <<now, tickVars, mirror, rowVars, events>>

(* Whether it is too late is judged by the row as it is read; the update     *)
(* keeps a flag that was already set.                                        *)
ReadLatest(w) ==
  /\ At(w, "readLatest")
  /\ IF n > 0 /\ row[n].answered = Never
     THEN LET late == {"response"} \cap RunOut(row[n], my[w].at)
          IN Become(w, "answer",
                    [my[w] EXCEPT !.c = n, !.late = late,
                       !.latched = late # {} \/ "response" \in row[n].breached])
     ELSE Finish(w)
  /\ UNCHANGED <<now, tickVars, mirror, rowVars, events>>

Answer(w) ==
  /\ At(w, "answer")
  /\ LET c    == my[w].c
         flag == IF my[w].latched THEN {"response"} ELSE {}
     IN UpdateRow(c, [row[c] EXCEPT !.answered = my[w].at,
                        !.breached = (@ \ {"response"}) \cup flag])
  /\ Goto(w, "mirrorAnswer")
  /\ UNCHANGED <<now, tickVars, mirror, events>>

MirrorAnswer(w) ==
  /\ At(w, "mirrorAnswer")
  /\ mirror' = [mirror EXCEPT !.answered = TRUE, !.breached = my[w].latched]
  /\ RecordBreaches(w, my[w])
  /\ UNCHANGED <<now, tickVars, rowVars, events>>

-----------------------------------------------------------------------------
(* PATCH /tickets/:id with another priority, and onPriorityChanged *)

StartPatch(w, d) ==
  /\ Starts(w, "patch")
  /\ state # "NONE" /\ d # target
  /\ Become(w, "patch", [Blank EXCEPT !.target = d])
  /\ UNCHANGED <<now, tickVars, mirror, rowVars, events>>

(* The ticket's own row first gets the calendar estimate. *)
Patch(w) ==
  /\ At(w, "patch")
  /\ target' = my[w].target
  /\ mirror' = [mirror EXCEPT !.due = Estimate]
  /\ Goto(w, "findTarget")
  /\ UNCHANGED <<now, state, resolvedAt, rowVars, events>>

(* "recomputed from the cycle start, not from the change instant" *)
FindTarget(w) ==
  /\ At(w, "findTarget")
  /\ IF OpenRows = {}
     THEN Finish(w)
     ELSE LET c == Latest(OpenRows)
          IN Become(w, "retarget", [Blank EXCEPT !.c = c, !.at = now,
                                      !.target = row[c].start + my[w].target])
  /\ UNCHANGED <<now, tickVars, mirror, rowVars, events>>

Retarget(w) ==
  /\ At(w, "retarget")
  /\ LET c    == my[w].c
         flag == IF my[w].at > my[w].target THEN {"resolution"} ELSE {}
     IN UpdateRow(c, [row[c] EXCEPT !.due["resolution"] = my[w].target,
                        !.breached = (@ \ {"resolution"}) \cup flag])
  /\ Goto(w, "mirrorDue")
  /\ UNCHANGED <<now, tickVars, mirror, events>>

(* Mutant: the mirror keeps the calendar estimate. *)
MirrorNothing(w) ==
  /\ At(w, "mirrorDue")
  /\ Finish(w)
  /\ UNCHANGED <<now, tickVars, mirror, rowVars, events>>

MirrorDue(w) ==
  /\ At(w, "mirrorDue")
  /\ mirror' = [mirror EXCEPT !.due = my[w].target]
  /\ Finish(w)
  /\ UNCHANGED <<now, tickVars, rowVars, events>>

-----------------------------------------------------------------------------
(* sweepSla: four scans; each candidate's row is claimed by its updatedAt and *)
(* the event inserted afterwards.  The timer never overlaps two sweeps.       *)

SweepLabels == {"scan", "claim", "notice"}
Pass(w)     == Passes[my[w].pass]

(* The clock of row r is where scan s looks for it at instant t.  A quarter  *)
(* of the target is left in the last unit of time before it is due.          *)
Reached(r, s, t) ==
  IF s[1] = "breach" THEN r.due[s[2]] < t
                     ELSE r.due[s[2]] - 1 <= t /\ t < r.due[s[2]]

(* Mutant: the scan does not ask whether the response was given. *)
CandidatesAnswered(s, t) ==
  {c \in OpenRows : state \in Working /\ Reached(row[c], s, t) /\ events[c][s] = 0}

(* Mutant: the gate is the latch flag, not the absence of the event. *)
CandidatesUnlatched(s, t) ==
  {c \in OpenRows : /\ state \in Working /\ Reached(row[c], s, t)
                    /\ s[2] = "response" => row[c].answered = Never
                    /\ s[2] \notin row[c].breached /\ events[c][s] = 0}

Candidates(s, t) ==
  {c \in OpenRows : /\ state \in Working /\ Reached(row[c], s, t)
                    /\ s[2] = "response" => row[c].answered = Never
                    /\ events[c][s] = 0}

(* What comes after a candidate: the next one, the next scan, or the end.    *)
(* Mutant: one scan too many.                                                *)
ProceedPast(w, locals) ==
  CASE locals.todo # {}             -> Become(w, "claim", locals)
    [] locals.todo = {} /\ locals.pass <= Len(Passes) ->
         Become(w, "scan", [Blank EXCEPT !.at = locals.at, !.pass = locals.pass + 1])
    [] OTHER                        -> Finish(w)

Proceed(w, locals) ==
  CASE locals.todo # {}             -> Become(w, "claim", locals)
    [] locals.todo = {} /\ locals.pass < Len(Passes) ->
         Become(w, "scan", [Blank EXCEPT !.at = locals.at, !.pass = locals.pass + 1])
    [] OTHER                        -> Finish(w)

StartSweep(w) ==
  /\ Starts(w, "sweep")
  /\ \A v \in Workers : pc[v] \notin SweepLabels
  /\ Become(w, "scan", [Blank EXCEPT !.at = now])
  /\ UNCHANGED <<now, tickVars, mirror, rowVars, events>>

Scan(w) ==
  /\ At(w, "scan")
  /\ LET found == Candidates(Pass(w), my[w].at)
     IN /\ fresh' = [c \in Cycles |-> IF c \in found THEN fresh[c] \cup {w}
                                                     ELSE fresh[c] \ {w}]
        /\ Proceed(w, [my[w] EXCEPT !.todo = found])
  /\ UNCHANGED <<now, tickVars, mirror, n, row, events>>

(* updateMany where { id, updatedAt }: it latches the flag of a breach. *)
Latched(r, s) ==
  IF s[1] = "breach" THEN [r EXCEPT !.breached = @ \cup {s[2]}] ELSE r

Claim(w, c) ==
  /\ At(w, "claim") /\ c \in my[w].todo
  /\ LET rest == [my[w] EXCEPT !.todo = @ \ {c}]
     IN IF w \in fresh[c]
        THEN /\ UpdateRow(c, Latched(row[c], Pass(w)))
             /\ Become(w, "notice", [rest EXCEPT !.c = c])
        ELSE /\ Proceed(w, rest)
             /\ UNCHANGED rowVars
  /\ UNCHANGED <<now, tickVars, mirror, events>>

Notice(w) ==
  /\ At(w, "notice")
  /\ events' = [events EXCEPT ![my[w].c][Pass(w)] = @ + 1]
  /\ Proceed(w, [my[w] EXCEPT !.c = 0])
  /\ UNCHANGED <<now, tickVars, mirror, rowVars>>

-----------------------------------------------------------------------------
(* Time, and failure: what was written stays written, the rest is not run.   *)

Tick ==
  /\ now < MaxNow
  /\ now' = now + 1
  /\ UNCHANGED <<tickVars, mirror, rowVars, events, pc, my>>

Fail(w) ==
  /\ pc[w] \in FailAt \ {"idle"}
  /\ Finish(w)
  /\ UNCHANGED <<now, tickVars, mirror, rowVars, events>>

-----------------------------------------------------------------------------
Init ==
  /\ now = 0
  /\ state = "NONE"
  /\ resolvedAt = Never
  /\ target \in ResolutionTargets
  /\ mirror = [due |-> Estimate, answered |-> FALSE, breached |-> FALSE]
  /\ n = 0
  /\ row = [c \in Cycles |-> Nothing]
  /\ events = [c \in Cycles |-> [s \in Sorts |-> 0]]
  /\ fresh = [c \in Cycles |-> {}]
  /\ pc = [w \in Workers |-> "idle"]
  /\ my = [w \in Workers |-> Blank]

CreateStep(w)   == (\E d \in ResolutionTargets : Create(w, d)) \/ InsertCycle(w)
                     \/ SyncTicket(w)
ChangeStep(w)   == (\E to \in States : StartChange(w, to)) \/ Write(w)
FinalizeStep(w) == FindOpen(w) \/ EndCycle(w) \/ LatchTicket(w)
RecordStep(w)   == CheckEvent(w) \/ RecordEvent(w)
RestartStep(w)  == StartReply(w) \/ Reopen(w) \/ FindLatest(w) \/ EndDangling(w)
CloseStep(w)    == StartAutoClose(w) \/ AutoClose(w)
NoteStep(w)     == StartNote(w) \/ ReadLatest(w) \/ Answer(w) \/ MirrorAnswer(w)
PatchStep(w)    == \/ \E d \in ResolutionTargets : StartPatch(w, d)
                   \/ Patch(w) \/ FindTarget(w) \/ Retarget(w) \/ MirrorDue(w)
SweepStep(w)    == \/ StartSweep(w) \/ Scan(w) \/ Notice(w)
                   \/ \E c \in Cycles : Claim(w, c)

Worker(w) == \/ CreateStep(w) \/ ChangeStep(w) \/ FinalizeStep(w) \/ RecordStep(w)
             \/ RestartStep(w) \/ CloseStep(w) \/ NoteStep(w) \/ PatchStep(w)
             \/ SweepStep(w) \/ Fail(w)

Next == Tick \/ Confirm \/ \E w \in Workers : Worker(w)

Spec == Init /\ [][Next]_vars

(* Fairness.  A handler that has begun runs on; the sweep's timer fires for  *)
(* ever, whatever else occupies the worker; an insert that is tried again    *)
(* and again succeeds in the end.  Nothing makes a person act.               *)
Continues(w) ==
  \/ InsertCycle(w) \/ SyncTicket(w) \/ Write(w) \/ FinalizeStep(w) \/ RecordStep(w)
  \/ Reopen(w) \/ FindLatest(w) \/ EndDangling(w) \/ AutoClose(w)
  \/ ReadLatest(w) \/ Answer(w) \/ MirrorAnswer(w)
  \/ Patch(w) \/ FindTarget(w) \/ Retarget(w) \/ MirrorDue(w)
  \/ Scan(w) \/ Notice(w) \/ \E c \in Cycles : Claim(w, c)

Fairness == \A w \in Workers : /\ WF_vars(Continues(w))
                               /\ SF_vars(StartSweep(w)) /\ SF_vars(Notice(w))

FairSpec == Spec /\ Fairness

-----------------------------------------------------------------------------
(* Properties *)

(* Every variable has its type. *)
TypeOK ==
  /\ now \in Times
  /\ state \in States
  /\ resolvedAt \in Times \cup {Never}
  /\ target \in ResolutionTargets
  /\ mirror \in [due : Due, answered : BOOLEAN, breached : BOOLEAN]
  /\ n \in 0 .. MaxCycles
  /\ row \in [Cycles -> Rows]
  /\ events \in [Cycles -> [Sorts -> Nat]]
  /\ fresh \in [Cycles -> SUBSET Workers]
  /\ pc \in [Workers -> Labels]
  /\ my \in [Workers -> Locals]

Idle == \A w \in Workers : pc[w] = "idle"

(* "so history can never show two" (restartCycle): however handlers race,    *)
(* only the newest cycle of the ticket is ever open.                         *)
OnlyLatestOpen == \A c \in OpenRows : c = n

(* "the CAS decides" (force close, confirmation, auto-close): a ticket is    *)
(* closed from RESOLVED, never from a state a racing reply gave it.          *)
CloseFromResolved ==
  [][state' = "CLOSED" /\ state # "CLOSED" => state = "RESOLVED"]_vars

(* "endedAt ... null while this is the ticket's active cycle": a settled     *)
(* ticket has an open cycle exactly while it is being worked on.             *)
OpenIffWorking ==
  Idle => (OpenRows # {} <=> state \in Working)

(* "live mirrors of the current cycle": the columns that dashboards filter   *)
(* on agree with the cycle of a ticket that is being worked on.              *)
MirrorMatches ==
  Idle /\ state \in Working =>
    /\ mirror.due = row[n].due["resolution"]
    /\ mirror.answered <=> row[n].answered # Never
    /\ mirror.breached => "response" \in row[n].breached

(* A response that came in time is never reported as a breach, by the sweep, *)
(* by the note or by the end of the cycle.                                   *)
NoFalseBreach ==
  \A c \in 1 .. n :
    events[c][<<"breach", "response">>] > 0 =>
      row[c].answered = Never \/ row[c].answered > row[c].due["response"]

(* "records, at most once per clock per cycle" (slaSweeper). *)
RecordedOnce == \A c \in 1 .. n, s \in Sorts : events[c][s] <= 1

(* The auto-close sweep closes a ticket only when the requester had had the  *)
(* whole confirmation window by the instant the sweep made its list: the     *)
(* ticket may be reopened and resolved again before the sweep writes, and    *)
(* then only that new resolution, made since the list, is cut short.         *)
ClosedBy(w) == At(w, "autoClose") /\ pc'[w] = "idle" /\ state' # state

AutoCloseEarned ==
  [][\A w \in Workers : ClosedBy(w) =>
       resolvedAt + ConfirmWindow <= my[w].at \/ resolvedAt >= my[w].at]_vars

(* "Closes RESOLVED tickets once their confirmation window has passed"         *)
(* (resolutionSweeper): as AutoCloseEarned without that exception.           *)
WindowKept ==
  [][\A w \in Workers : ClosedBy(w) => resolvedAt + ConfirmWindow <= now]_vars

(* "CLOSED is final: no agent-driven transition leaves it" (states.js); the  *)
(* requester's reply alone reopens it.                                       *)
ClosedIsFinal ==
  [][state = "CLOSED" /\ state' # "CLOSED" =>
       \E w \in Workers : At(w, "reopen") /\ pc'[w] # "reopen"]_vars

(* "A cycle is closed out when its ticket reaches RESOLVED and its row is     *)
(* never rewritten afterwards" (TicketSlaCycle).                             *)
EndedRowFinal ==
  [][\A c \in 1 .. n : row[c].ended => row'[c] = row[c]]_vars

(* A clock that has run out on a ticket somebody should be working on. *)
RanOut(c, k) ==
  /\ c \in OpenRows /\ state \in Working /\ row[c].due[k] < now
  /\ k = "response" => row[c].answered = Never

(* "A crash between claim and insert self-heals": a clock that has run out   *)
(* is reported in the end, unless the ticket or its target changes first.    *)
BreachReported ==
  \A c \in Cycles, k \in Clocks :
    RanOut(c, k) ~> (~RanOut(c, k) \/ events[c][<<"breach", k>>] > 0)

=============================================================================
