--------------------------- MODULE HandoverProofs ---------------------------
(* Theorems about Handover, for any agents, tickets, workers and bounds.     *)
EXTENDS Handover, TLAPS

-----------------------------------------------------------------------------
(* Type correctness.  TypeOK is not inductive alone: a loop of promoteQueue  *)
(* must still have turns left for `tries' to stay a natural number, and a    *)
(* handler that loads a row must find a ticket in it.                        *)

Looking == {"find", "readTarget", "activate"}

TriesLeft == \A w \in Workers : pc[w] \in Looking => my[w].tries > 0

RowsHaveTickets == \A r \in Ids : status[r] # "NOROW" => ticketId[r] \in Tickets

TypeInv == TypeOK /\ TriesLeft /\ RowsHaveTickets

(* The part of it that speaks of the handlers. *)
LocalsOK ==
  /\ pc \in [Workers -> Labels]
  /\ my \in [Workers -> Locals]
  /\ TriesLeft

LEMMA LimitIsNat == Limits \subseteq Nat
BY HandoverAssumption

LEMMA BlankLocal == Blank \in Locals
BY DEF Blank, Locals, Owners, Callers

LEMMA CallersAreLabels == Callers \subseteq Labels /\ Callers \cap Looking = {}
BY DEF Callers, Labels, Looking

(* A step that hands well-formed locals on leaves them well-formed. *)
LEMMA BecomeType ==
  ASSUME TypeInv, NEW w \in Workers, NEW l \in Labels, NEW rec \in Locals,
         l \in Looking => rec.tries > 0, Become(w, l, rec)
  PROVE  LocalsOK'
BY DEF Become, TypeInv, TypeOK, TriesLeft, LocalsOK

LEMMA FinishType ==
  ASSUME TypeInv, NEW w \in Workers, Finish(w)
  PROVE  LocalsOK'
BY BecomeType, BlankLocal DEF Finish, Labels, Looking

LEMMA PromoteType ==
  ASSUME TypeInv, NEW w \in Workers, NEW rec \in Locals, NEW a \in Owners,
         NEW ret \in Callers, Promote(w, rec, a, ret)
  PROVE  LocalsOK'
<1>1. limit \in Nat
  BY LimitIsNat DEF TypeInv, TypeOK
<1>2. [rec EXCEPT !.to = a, !.back = ret, !.lim = limit, !.tries = limit] \in Locals
  BY <1>1 DEF Locals
<1>3. "count" \in Labels \ Looking
  BY DEF Labels, Looking
<1> QED
  BY <1>2, <1>3, BecomeType DEF Promote

LEMMA ReturnType ==
  ASSUME TypeInv, NEW w \in Workers, Return(w)
  PROVE  LocalsOK'
<1>1. my[w] \in Locals
  BY DEF TypeInv, TypeOK
<1>2. [my[w] EXCEPT !.to = Null, !.id = 0, !.full = FALSE,
                    !.lim = 0, !.tries = 0, !.back = "idle"] \in Locals
  BY <1>1 DEF Locals, Owners, Callers
<1>3. my[w].back \in Labels \ Looking
  BY <1>1, CallersAreLabels DEF Locals
<1> QED
  BY <1>2, <1>3, BecomeType, FinishType DEF Return

(* A step that touches no row, ticket, agent or setting. *)
LEMMA FrameType ==
  ASSUME TypeInv, UNCHANGED <<tickVars, agentVars, limit, rowVars>>, LocalsOK'
  PROVE  TypeInv'
BY DEF TypeInv, TypeOK, LocalsOK, RowsHaveTickets, tickVars, agentVars, rowVars

(* A step that changes only the status of one row that exists. *)
LEMMA StatusType ==
  ASSUME TypeInv, NEW r \in Ids \cup {0}, NEW s \in Statuses,
         NEW from \in SUBSET (Statuses \ {"NOROW"}),
         \/ status' = Swap(r, from, s)
         \/ status[r] # "NOROW" /\ status' = [status EXCEPT ![r] = s],
         UNCHANGED <<tickVars, agentVars, limit,
                     nextId, ticketId, requestedBy, target, clock>>,
         LocalsOK'
  PROVE  TypeInv'
BY DEF TypeInv, TypeOK, LocalsOK, RowsHaveTickets, tickVars, agentVars, Swap

LEMMA SnapType ==
  ASSUME TypeInv, NEW r \in Ids
  PROVE  Snap(r) \in Snaps /\ SnapWithClock(r) \in Snaps
BY DEF TypeInv, TypeOK, Snap, SnapWithClock, Snaps, Clocks

LEMMA CancelOneType ==
  ASSUME TypeInv, NEW w \in Workers, NEW e \in my[w].todo, NEW ret \in Callers,
         CancelOne(w, e, ret)
  PROVE  TypeInv'
<1> DEFINE rest == [my[w] EXCEPT !.todo = @ \ {e}]
<1>1. my[w] \in Locals /\ e \in Snaps
  BY DEF TypeInv, TypeOK, Locals
<1>2. rest \in Locals /\ e.to \in Owners /\ e.id \in Ids
  BY <1>1 DEF Locals, Snaps
<1>3. LocalsOK'
  BY <1>2, CallersAreLabels, BecomeType, PromoteType DEF CancelOne
<1> QED
  BY <1>2, <1>3, StatusType DEF CancelOne, Statuses, Active, Terminal

LEMMA CreateStepType ==
  ASSUME TypeInv, NEW w \in Workers, CreateStep(w)
  PROVE  TypeInv'
<1>0. my[w] \in Locals
  BY DEF TypeInv, TypeOK
<1>1. ASSUME NEW t \in Tickets, NEW a \in Agents, StartCreate(w, t, a)
      PROVE  TypeInv'
  <2>1. [Blank EXCEPT !.tkts = {t}, !.agent = owner[t], !.to = a] \in Locals
    BY <1>1, BlankLocal DEF Locals, Owners, TypeInv, TypeOK
  <2>2. LocalsOK'
    BY <1>1, <2>1, BecomeType DEF StartCreate, Labels, CreateLabels, Looking
  <2> QED
    BY <1>1, <2>2, FrameType DEF StartCreate
<1>2. CASE CheckTarget(w)
  <2>1. [my[w] EXCEPT !.away = Away(my[w].to)] \in Locals
    BY <1>0 DEF Locals, Away
  <2>2. LocalsOK'
    BY <1>2, <2>1, BecomeType, FinishType DEF CheckTarget, Labels, CreateLabels, Looking
  <2> QED
    BY <1>2, <2>2, FrameType DEF CheckTarget
<1>3. CASE CheckExisting(w)
  <2>1. LocalsOK'
    BY <1>0, <1>3, BecomeType, FinishType DEF CheckExisting, Labels, CreateLabels, Looking
  <2> QED
    BY <1>3, <2>1, FrameType DEF CheckExisting
<1>4. CASE CountSlots(w)
  <2> DEFINE full == Cardinality(Pending(my[w].to)) >= limit
  <2>0. full \in BOOLEAN
    OBVIOUS
  <2> HIDE DEF full
  <2>1. [my[w] EXCEPT !.full = full] \in Locals
    BY <1>0, <2>0 DEF Locals
  <2>2. LocalsOK'
    BY <1>4, <2>1, BecomeType DEF CountSlots, full, Labels, CreateLabels, Looking
  <2> QED
    BY <1>4, <2>2, FrameType DEF CountSlots
<1>5. CASE Insert(w)
  <2>1. LocalsOK'
    BY <1>5, FinishType DEF Insert
  <2>2. PICK t \in my[w].tkts : IF state[t] = "DELETED" THEN UNCHANGED rowVars
        ELSE /\ nextId' = nextId + 1
             /\ ticketId'    = [ticketId EXCEPT ![nextId] = t]
             /\ requestedBy' = [requestedBy EXCEPT ![nextId] = my[w].agent]
             /\ target'      = [target EXCEPT ![nextId] = my[w].to]
             /\ status' = [status EXCEPT ![nextId] =
                             IF my[w].full THEN "QUEUED" ELSE "PENDING"]
             /\ clock'  = [clock EXCEPT ![nextId] =
                             IF my[w].full THEN "none" ELSE StartClock(my[w].away)]
    BY <1>5 DEF Insert
  <2>3. t \in Tickets /\ my[w].to \in Owners /\ my[w].agent \in Owners
    BY <1>0 DEF Locals
  <2>4. UNCHANGED <<tickVars, agentVars, limit>>
    BY <1>5 DEF Insert
  <2>5. CASE state[t] = "DELETED"
    BY <2>1, <2>2, <2>4, <2>5, FrameType
  <2>6. CASE state[t] # "DELETED"
    <3>1. nextId' \in Nat /\ ticketId' \in [Ids -> Tickets \cup {Null}]
      BY <2>2, <2>3, <2>6 DEF TypeInv, TypeOK
    <3>2. requestedBy' \in [Ids -> Owners] /\ target' \in [Ids -> Owners]
      BY <2>2, <2>3, <2>6 DEF TypeInv, TypeOK
    <3>3. status' \in [Ids -> Statuses]
      BY <2>2, <2>6 DEF TypeInv, TypeOK, Statuses, Active
    <3>4. clock' \in [Ids -> Clocks]
      BY <2>2, <2>6 DEF TypeInv, TypeOK, Clocks, StartClock
    <3>5. RowsHaveTickets'
      BY <2>2, <2>3, <2>6 DEF TypeInv, TypeOK, RowsHaveTickets
    <3> QED
      BY <2>1, <2>4, <3>1, <3>2, <3>3, <3>4, <3>5
      DEF TypeInv, TypeOK, LocalsOK, tickVars, agentVars
  <2> QED
    BY <2>5, <2>6
<1> QED
  BY <1>1, <1>2, <1>3, <1>4, <1>5 DEF CreateStep


LEMMA AnswerStepType ==
  ASSUME TypeInv, NEW w \in Workers, AnswerStep(w)
  PROVE  TypeInv'
<1>0. my[w] \in Locals /\ my[w].to \in Owners /\ my[w].id \in Ids \cup {0}
  BY DEF TypeInv, TypeOK, Locals
<1>p. /\ {"PENDING"} \in SUBSET (Statuses \ {"NOROW"})
      /\ {"CANCELLED", "ACCEPTED", "DECLINED"} \subseteq Statuses
  BY DEF Statuses, Active, Terminal
<1>1. ASSUME NEW r \in Ids, StartAccept(w, r)
      PROVE  TypeInv'
  <2>1. [Blank EXCEPT !.id = r, !.tkts = {ticketId[r]},
                      !.agent = requestedBy[r], !.to = target[r]] \in Locals
    BY <1>1, BlankLocal
    DEF StartAccept, Locals, TypeInv, TypeOK, RowsHaveTickets
  <2>2. LocalsOK'
    BY <1>1, <2>1, BecomeType DEF StartAccept, Labels, Looking
  <2> QED
    BY <1>1, <2>2, FrameType DEF StartAccept
<1>2. ASSUME NEW r \in Ids, StartDecline(w, r)
      PROVE  TypeInv'
  <2>1. [Blank EXCEPT !.id = r, !.to = target[r]] \in Locals
    BY <1>2, BlankLocal DEF Locals, TypeInv, TypeOK
  <2>2. LocalsOK'
    BY <1>2, <2>1, BecomeType DEF StartDecline, Labels, Looking
  <2> QED
    BY <1>2, <2>2, FrameType DEF StartDecline
<1>3. CASE ReadTicket(w)
  <2>1. LocalsOK'
    BY <1>0, <1>3, BecomeType, FinishType DEF ReadTicket, Labels, Looking
  <2> QED
    BY <1>3, <2>1, FrameType DEF ReadTicket
<1>4. CASE ClaimStale(w)
  <2>1. LocalsOK'
    BY <1>0, <1>4, BlankLocal, PromoteType DEF ClaimStale, Labels, Callers, Looking
  <2> QED
    BY <1>0, <1>p, <1>4, <2>1, StatusType DEF ClaimStale
<1>5. CASE ClaimAccepted(w)
  <2>1. LocalsOK'
    BY <1>0, <1>5, BecomeType, FinishType DEF ClaimAccepted, Labels, Looking
  <2> QED
    BY <1>0, <1>p, <1>5, <2>1, StatusType DEF ClaimAccepted
<1>6. CASE Move(w)
  <2>1. LocalsOK'
    BY <1>0, <1>6, BlankLocal, BecomeType, PromoteType DEF Move, Labels, Callers, Looking
  <2> QED
    BY <1>0, <1>6, <2>1
    DEF Move, TypeInv, TypeOK, LocalsOK, RowsHaveTickets, agentVars, rowVars
<1>7. CASE Undo(w)
  <2>1. LocalsOK'
    BY <1>0, <1>7, BlankLocal, FinishType, PromoteType DEF Undo, Labels, Callers, Looking
  <2>2. CASE status[my[w].id] = "NOROW"
    BY <1>7, <2>1, <2>2, FrameType DEF Undo, rowVars
  <2>3. CASE status[my[w].id] # "NOROW"
    BY <1>0, <1>p, <1>7, <2>1, <2>3, StatusType DEF Undo
  <2> QED
    BY <2>2, <2>3
<1>8. CASE Decline(w)
  <2>1. LocalsOK'
    BY <1>0, <1>8, BlankLocal, FinishType, PromoteType DEF Decline, Labels, Callers, Looking
  <2> QED
    BY <1>0, <1>p, <1>8, <2>1, StatusType DEF Decline
<1> QED
  BY <1>1, <1>2, <1>3, <1>4, <1>5, <1>6, <1>7, <1>8 DEF AnswerStep


LEMMA CancelStepType ==
  ASSUME TypeInv, NEW w \in Workers, CancelStep(w)
  PROVE  TypeInv'
<1>0. my[w] \in Locals
  BY DEF TypeInv, TypeOK
<1>1. ASSUME NEW r \in Ids, StartCancel(w, r)
      PROVE  TypeInv'
  <2>1. [Blank EXCEPT !.todo = {Snap(r)}] \in Locals
    BY BlankLocal, SnapType DEF Locals
  <2>2. LocalsOK'
    BY <1>1, <2>1, BecomeType DEF StartCancel, Labels, Looking
  <2> QED
    BY <1>1, <2>2, FrameType DEF StartCancel
<1>2. ASSUME NEW t \in Tickets, StartFinish(w, t)
      PROVE  TypeInv'
  <2>1. [Blank EXCEPT !.tkts = {t}] \in Locals
    BY BlankLocal DEF Locals
  <2>2. LocalsOK'
    BY <1>2, <2>1, BecomeType DEF StartFinish, Labels, Looking
  <2> QED
    BY <1>2, <2>2
    DEF StartFinish, TypeInv, TypeOK, LocalsOK, RowsHaveTickets, States,
        agentVars, rowVars
<1>3. CASE Cancel(w)
  BY <1>3, CancelOneType DEF Cancel, Callers
<1>4. CASE ListOffers(w)
  <2>1. \A t : [Blank EXCEPT !.todo = {Snap(r) : r \in OffersFor(t)}] \in Locals
    BY BlankLocal, SnapType DEF Locals, OffersFor
  <2>2. LocalsOK'
    BY <1>4, <2>1, BecomeType DEF ListOffers, Labels, Looking
  <2> QED
    BY <1>4, <2>2, FrameType DEF ListOffers
<1>5. CASE CancelOffers(w)
  BY <1>5, CancelOneType DEF CancelOffers, Callers
<1>6. CASE CancelOffersEnd(w)
  BY <1>6, FinishType, FrameType DEF CancelOffersEnd
<1> QED
  BY <1>1, <1>2, <1>3, <1>4, <1>5, <1>6 DEF CancelStep

LEMMA PromoteStepType ==
  ASSUME TypeInv, NEW w \in Workers, PromoteStep(w)
  PROVE  TypeInv'
<1>0. my[w] \in Locals /\ my[w].tries \in Nat /\ my[w].id \in Ids \cup {0}
  BY DEF TypeInv, TypeOK, Locals
<1>1. CASE Count(w)
  <2>1. CASE Return(w)
    BY <1>1, <2>1, ReturnType, FrameType DEF Count
  <2>2. CASE my[w].tries # 0 /\ Become(w, "find", my[w])
    <3>1. "find" \in Labels /\ my[w].tries > 0
      BY <1>0, <2>2 DEF Labels
    <3>2. LocalsOK'
      BY <1>0, <2>2, <3>1, BecomeType
    <3> QED
      BY <1>1, <3>2, FrameType DEF Count
  <2> QED
    BY <1>1, <2>1, <2>2 DEF Count
<1>2. CASE Find(w)
  <2>1. CASE Return(w)
    BY <1>2, <2>1, ReturnType, FrameType DEF Find
  <2>2. ASSUME NEW r \in Queued(my[w].to),
               Become(w, "readTarget", [my[w] EXCEPT !.id = r])
        PROVE  LocalsOK'
    <3>1. [my[w] EXCEPT !.id = r] \in Locals
      BY <1>0 DEF Locals, Queued
    <3>2. [my[w] EXCEPT !.id = r].tries > 0
      BY <1>0, <1>2 DEF Find, At, TypeInv, TriesLeft, Looking, Locals
    <3> QED
      BY <2>2, <3>1, <3>2, BecomeType DEF Labels
  <2> QED
    BY <1>2, <2>1, <2>2, FrameType DEF Find
<1>3. CASE ReadTarget(w)
  <2>1. [my[w] EXCEPT !.away = Away(my[w].to)] \in Locals
    BY <1>0 DEF Locals, Away
  <2>2. [my[w] EXCEPT !.away = Away(my[w].to)].tries > 0
    BY <1>0, <1>3 DEF ReadTarget, At, TypeInv, TriesLeft, Looking, Locals
  <2> QED
    BY <1>3, <2>1, <2>2, BecomeType, FrameType DEF ReadTarget, Labels
<1>4. CASE Activate(w)
  <2>1. my[w].tries > 0
    BY <1>4 DEF Activate, At, TypeInv, TriesLeft, Looking
  <2>2. [my[w] EXCEPT !.id = 0, !.away = FALSE, !.tries = @ - 1] \in Locals
    <3>1. my[w].tries - 1 \in Nat
      BY <1>0, <2>1
    <3>2. [my[w] EXCEPT !.id = 0, !.away = FALSE, !.tries = my[w].tries - 1] \in Locals
      BY <1>0, <3>1 DEF Locals
    <3> QED
      BY <3>2
  <2>3. CASE status[my[w].id] = "QUEUED"
    <3>1. LocalsOK'
      BY <1>4, <2>2, <2>3, BecomeType DEF Activate, Labels, Looking
    <3>2. status' = [status EXCEPT ![my[w].id] = "PENDING"] /\
          clock' = [clock EXCEPT ![my[w].id] = StartClock(my[w].away)]
      BY <1>4, <2>3 DEF Activate
    <3>3. status' \in [Ids -> Statuses] /\ clock' \in [Ids -> Clocks]
      BY <3>2 DEF TypeInv, TypeOK, Statuses, Active, Clocks, StartClock
    <3>4. RowsHaveTickets'
      BY <1>0, <1>4, <2>3, <3>2 DEF Activate, TypeInv, TypeOK, RowsHaveTickets
    <3> QED
      BY <1>4, <3>1, <3>3, <3>4
      DEF Activate, TypeInv, TypeOK, LocalsOK, tickVars, agentVars
  <2>4. CASE status[my[w].id] # "QUEUED"
    <3>1. LocalsOK'
      BY <1>4, <2>4, ReturnType DEF Activate
    <3> QED
      BY <1>4, <2>4, <3>1, FrameType DEF Activate, rowVars
  <2> QED
    BY <2>3, <2>4
<1> QED
  BY <1>1, <1>2, <1>3, <1>4 DEF PromoteStep

(* A step that changes only the two columns of agents. *)
LEMMA AgentsType ==
  ASSUME TypeInv, active' \in [Agents -> BOOLEAN], available' \in [Agents -> BOOLEAN],
         UNCHANGED <<tickVars, limit, rowVars>>, LocalsOK'
  PROVE  TypeInv'
BY DEF TypeInv, TypeOK, LocalsOK, RowsHaveTickets, tickVars, rowVars

(* A step that changes only who holds which ticket. *)
LEMMA OwnerType ==
  ASSUME TypeInv, owner' \in [Tickets -> Owners],
         UNCHANGED <<state, agentVars, limit, rowVars>>, LocalsOK'
  PROVE  TypeInv'
BY DEF TypeInv, TypeOK, LocalsOK, RowsHaveTickets, agentVars, rowVars

(* A step that changes only clocks. *)
LEMMA ClockType ==
  ASSUME TypeInv, clock' \in [Ids -> Clocks],
         UNCHANGED <<tickVars, agentVars, limit,
                     nextId, ticketId, requestedBy, target, status>>, LocalsOK'
  PROVE  TypeInv'
BY DEF TypeInv, TypeOK, LocalsOK, RowsHaveTickets, tickVars, agentVars

LEMMA FlipType == \A c \in Clocks : Flip(c) \in Clocks
BY DEF Clocks, Flip

LEMMA PresenceStepType ==
  ASSUME TypeInv, NEW w \in Workers, PresenceStep(w)
  PROVE  TypeInv'
<1>0. my[w] \in Locals /\ Movers \subseteq Agents
  BY HandoverAssumption DEF TypeInv, TypeOK
<1>1. ASSUME NEW a \in Movers, NEW on \in BOOLEAN, NEW acc \in BOOLEAN,
             SetState(w, a, on, acc)
      PROVE  TypeInv'
  <2>1. [Blank EXCEPT !.agent = a, !.away = ~on] \in Locals
    BY <1>0, BlankLocal DEF Locals, Owners
  <2>2. LocalsOK'
    BY <1>1, <2>1, BecomeType DEF SetState, Labels, Looking
  <2>3. active' \in [Agents -> BOOLEAN] /\ available' \in [Agents -> BOOLEAN]
    BY <1>1 DEF SetState, TypeInv, TypeOK
  <2> QED
    BY <1>1, <2>2, <2>3, AgentsType DEF SetState
<1>2. ASSUME NEW a \in Movers, StartGoUnavailable(w, a)
      PROVE  TypeInv'
  <2>1. [Blank EXCEPT !.agent = a, !.tkts = OpenTicketsOf(a),
                      !.away = TRUE, !.back = "goUnavailable"] \in Locals
    BY <1>0, BlankLocal DEF Locals, Owners, OpenTicketsOf, Callers
  <2>2. LocalsOK'
    BY <1>2, <2>1, BecomeType DEF StartGoUnavailable, Labels, Looking
  <2> QED
    BY <1>2, <2>2, FrameType DEF StartGoUnavailable
<1>3. ASSUME NEW a \in Movers, PatchAvailable(w, a)
      PROVE  TypeInv'
  <2>1. [Blank EXCEPT !.agent = a, !.tkts = OpenTicketsOf(a),
                      !.away = TRUE, !.back = "listPending"] \in Locals
    BY <1>0, BlankLocal DEF Locals, Owners, OpenTicketsOf, Callers
  <2>2. [Blank EXCEPT !.agent = a] \in Locals
    BY <1>0, BlankLocal DEF Locals, Owners
  <2>3. LocalsOK'
    BY <1>3, <2>1, <2>2, BecomeType DEF PatchAvailable, Labels, Looking
  <2>4. active' \in [Agents -> BOOLEAN] /\ available' \in [Agents -> BOOLEAN]
    BY <1>0, <1>3 DEF PatchAvailable, TypeInv, TypeOK
  <2> QED
    BY <1>3, <2>3, <2>4, AgentsType DEF PatchAvailable
<1>4. ASSUME NEW a \in Movers, StartDeactivate(w, a)
      PROVE  TypeInv'
  <2>1. [Blank EXCEPT !.agent = a, !.tkts = OpenTicketsOf(a),
                      !.back = "listRaised"] \in Locals
    BY <1>0, BlankLocal DEF Locals, Owners, OpenTicketsOf, Callers
  <2>2. LocalsOK'
    BY <1>4, <2>1, BecomeType DEF StartDeactivate, Labels, Looking
  <2>3. active' \in [Agents -> BOOLEAN] /\ available' \in [Agents -> BOOLEAN]
    BY <1>4 DEF StartDeactivate, TypeInv, TypeOK
  <2> QED
    BY <1>4, <2>2, <2>3, AgentsType DEF StartDeactivate
<1>5. CASE GoUnavailable(w)
  <2>1. LocalsOK'
    BY <1>0, <1>5, BecomeType DEF GoUnavailable, Labels, Looking
  <2>2. active' \in [Agents -> BOOLEAN] /\ available' \in [Agents -> BOOLEAN]
    BY <1>5 DEF GoUnavailable, TypeInv, TypeOK
  <2> QED
    BY <1>5, <2>1, <2>2, AgentsType DEF GoUnavailable
<1>6. CASE Shed(w)
  <2>1. PICK t \in my[w].tkts, b \in (Eligible \ {my[w].agent}) \cup {Null} :
          /\ owner' = IF t \in OpenTicketsOf(my[w].agent)
                      THEN [owner EXCEPT ![t] = b] ELSE owner
          /\ Become(w, "shed", [my[w] EXCEPT !.tkts = @ \ {t}])
    BY <1>6 DEF Shed
  <2>2. [my[w] EXCEPT !.tkts = @ \ {t}] \in Locals
    BY <1>0 DEF Locals
  <2>3. LocalsOK'
    BY <2>1, <2>2, BecomeType DEF Labels, Looking
  <2>4. b \in Owners
    BY DEF Eligible, Owners
  <2>5. owner' \in [Tickets -> Owners]
    BY <2>1, <2>4 DEF TypeInv, TypeOK
  <2> QED
    BY <1>6, <2>3, <2>5, OwnerType DEF Shed
<1>7. CASE ShedEnd(w)
  BY <1>7, ReturnType, FrameType DEF ShedEnd
<1>8. CASE ListPending(w)
  <2>1. ASSUME NEW S \in SUBSET Ids
        PROVE  [my[w] EXCEPT !.todo = {SnapWithClock(r) : r \in S}] \in Locals
    BY <1>0, SnapType DEF Locals
  <2>2. {q \in Pending(my[w].agent) :
           clock[q] \in IF my[w].away THEN Ticking ELSE Paused} \in SUBSET Ids
    BY DEF Pending
  <2>3. LocalsOK'
    BY <1>8, <2>1, <2>2, BecomeType DEF ListPending, Labels, Looking
  <2> QED
    BY <1>8, <2>3, FrameType DEF ListPending
<1>9. CASE SetClocks(w)
  <2>1. PICK e \in my[w].todo :
          /\ clock' = IF /\ status[e.id] = "PENDING"
                         /\ clock[e.id] \in IF my[w].away THEN Ticking ELSE Paused
                      THEN [clock EXCEPT ![e.id] = Flip(e.clock)] ELSE clock
          /\ Become(w, "setClocks", [my[w] EXCEPT !.todo = @ \ {e}])
    BY <1>9 DEF SetClocks
  <2>2. [my[w] EXCEPT !.todo = @ \ {e}] \in Locals /\ e \in Snaps
    BY <1>0 DEF Locals
  <2>3. LocalsOK'
    BY <2>1, <2>2, BecomeType DEF Labels, Looking
  <2>4. Flip(e.clock) \in Clocks
    BY <2>2, FlipType DEF Snaps
  <2>5. clock' \in [Ids -> Clocks]
    BY <2>1, <2>4 DEF TypeInv, TypeOK
  <2> QED
    BY <1>9, <2>3, <2>5, ClockType DEF SetClocks
<1>10. CASE SetClocksEnd(w)
  BY <1>10, FinishType, FrameType DEF SetClocksEnd
<1> QED
  BY <1>1, <1>2, <1>3, <1>4, <1>5, <1>6, <1>7, <1>8, <1>9, <1>10
  DEF PresenceStep

LEMMA RerouteStepType ==
  ASSUME TypeInv, NEW w \in Workers, RerouteStep(w)
  PROVE  TypeInv'
<1>0. my[w] \in Locals /\ my[w].to \in Owners
  BY DEF TypeInv, TypeOK, Locals
<1>s. ASSUME NEW S \in SUBSET Ids
      PROVE  [my[w] EXCEPT !.todo = {Snap(r) : r \in S}] \in Locals
  BY <1>0, SnapType DEF Locals
<1>1. CASE ListRaised(w)
  <2>1. LocalsOK'
    BY <1>1, <1>s, BecomeType DEF ListRaised, Labels, Looking
  <2> QED
    BY <1>1, <2>1, FrameType DEF ListRaised
<1>2. CASE CancelRaised(w)
  BY <1>2, CancelOneType DEF CancelRaised, Callers
<1>3. CASE ListReceived(w)
  <2>1. Pending(my[w].agent) \cup Queued(my[w].agent) \in SUBSET Ids
    BY DEF Pending, Queued
  <2>2. LocalsOK'
    BY <1>3, <1>s, <2>1, BecomeType DEF ListReceived, Labels, Looking
  <2> QED
    BY <1>3, <2>2, FrameType DEF ListReceived
<1>4. CASE CancelReceived(w)
  BY <1>4, CancelOneType DEF CancelReceived, Callers
<1>5. CASE PickReplacement(w)
  <2>1. PICK e \in my[w].todo, b \in Eligible :
          Become(w, "countReplacement",
                 [my[w] EXCEPT !.id = e.id, !.to = b, !.todo = @ \ {e}])
    BY <1>5 DEF PickReplacement
  <2>2. e.id \in Ids /\ b \in Owners
    BY <1>0 DEF Locals, Snaps, Eligible, Owners
  <2>3. [my[w] EXCEPT !.id = e.id, !.to = b, !.todo = @ \ {e}] \in Locals
    BY <1>0, <2>2 DEF Locals
  <2>4. LocalsOK'
    BY <2>1, <2>3, BecomeType DEF Labels, Looking
  <2> QED
    BY <1>5, <2>4, FrameType DEF PickReplacement
<1>6. CASE CountReplacement(w)
  <2> DEFINE full == Cardinality(Pending(my[w].to)) >= limit
  <2>0. full \in BOOLEAN
    OBVIOUS
  <2> HIDE DEF full
  <2>1. [my[w] EXCEPT !.full = full] \in Locals
    BY <1>0, <2>0 DEF Locals
  <2>2. LocalsOK'
    BY <1>6, <2>1, BecomeType DEF CountReplacement, full, Labels, Looking
  <2> QED
    BY <1>6, <2>2, FrameType DEF CountReplacement
<1>7. CASE MoveOffer(w)
  <2>1. [my[w] EXCEPT !.id = 0, !.to = Null, !.full = FALSE] \in Locals
    BY <1>0 DEF Locals, Owners
  <2>2. LocalsOK'
    BY <1>7, <2>1, BecomeType DEF MoveOffer, Labels, Looking
  <2>3. target' \in [Ids -> Owners] /\ clock' \in [Ids -> Clocks]
    BY <1>0, <1>7 DEF MoveOffer, TypeInv, TypeOK, Clocks
  <2>4. status' \in [Ids -> Statuses] /\ RowsHaveTickets'
    BY <1>7 DEF MoveOffer, TypeInv, TypeOK, RowsHaveTickets, Statuses, Active, Terminal
  <2> QED
    BY <1>7, <2>2, <2>3, <2>4
    DEF MoveOffer, TypeInv, TypeOK, LocalsOK, tickVars, agentVars
<1>8. CASE RerouteEnd(w)
  BY <1>8, FinishType, FrameType DEF RerouteEnd
<1> QED
  BY <1>1, <1>2, <1>3, <1>4, <1>5, <1>6, <1>7, <1>8 DEF RerouteStep

LEMMA SweepStepType ==
  ASSUME TypeInv, NEW w \in Workers, SweepStep(w)
  PROVE  TypeInv'
<1>0. my[w] \in Locals
  BY DEF TypeInv, TypeOK
<1>1. CASE StartSweep(w)
  <2>1. ASSUME NEW S \in SUBSET Ids
        PROVE  [Blank EXCEPT !.todo = {Snap(r) : r \in S}] \in Locals
    BY BlankLocal, SnapType DEF Locals
  <2>2. LocalsOK'
    BY <1>1, <2>1, BecomeType DEF StartSweep, Labels, Looking
  <2> QED
    BY <1>1, <2>2, FrameType DEF StartSweep
<1>2. CASE Expire(w)
  <2>1. PICK e \in my[w].todo :
          /\ status' = Swap(e.id, {"PENDING"}, "EXPIRED")
          /\ IF status[e.id] = "PENDING"
             THEN Promote(w, [my[w] EXCEPT !.todo = @ \ {e}], e.to, "expire")
             ELSE Become(w, "expire", [my[w] EXCEPT !.todo = @ \ {e}])
    BY <1>2 DEF Expire
  <2>2. [my[w] EXCEPT !.todo = @ \ {e}] \in Locals /\ e.id \in Ids /\ e.to \in Owners
    BY <1>0 DEF Locals, Snaps
  <2>3. LocalsOK'
    BY <2>1, <2>2, BecomeType, PromoteType DEF Callers, Labels, Looking
  <2>4. {"PENDING"} \in SUBSET (Statuses \ {"NOROW"}) /\ "EXPIRED" \in Statuses
    BY DEF Statuses, Active, Terminal
  <2> QED
    BY <1>2, <2>1, <2>2, <2>3, <2>4, StatusType DEF Expire
<1>3. CASE ExpireEnd(w)
  BY <1>3, FinishType, FrameType DEF ExpireEnd
<1> QED
  BY <1>1, <1>2, <1>3 DEF SweepStep

LEMMA EnvironmentType ==
  ASSUME TypeInv, Environment
  PROVE  TypeInv'
<1>0. UNCHANGED <<pc, my>> => LocalsOK'
  BY DEF TypeInv, TypeOK, LocalsOK, TriesLeft
<1>1. ASSUME NEW t \in Tickets, Reopen(t) \/ AutoClose(t)
      PROVE  TypeInv'
  <2>1. state' \in [Tickets -> States]
    BY <1>1 DEF Reopen, AutoClose, TypeInv, TypeOK, States
  <2> QED
    BY <1>0, <1>1, <2>1
    DEF Reopen, AutoClose, TypeInv, TypeOK, LocalsOK, RowsHaveTickets, agentVars, rowVars
<1>2. ASSUME NEW t \in Tickets, DeleteTicket(t)
      PROVE  TypeInv'
  <2>1. state' \in [Tickets -> States] /\ owner' \in [Tickets -> Owners]
    BY <1>2 DEF DeleteTicket, TypeInv, TypeOK, States, Owners
  <2>2. status' \in [Ids -> Statuses] /\ RowsHaveTickets'
    BY <1>2 DEF DeleteTicket, TypeInv, TypeOK, RowsHaveTickets, Statuses
  <2> QED
    BY <1>0, <1>2, <2>1, <2>2 DEF DeleteTicket, TypeInv, TypeOK, LocalsOK, agentVars
<1>3. ASSUME NEW t \in Tickets, NEW b \in Owners, Reassign(t, b)
      PROVE  TypeInv'
  <2>1. owner' \in [Tickets -> Owners]
    BY <1>3 DEF Reassign, TypeInv, TypeOK
  <2> QED
    BY <1>0, <1>3, <2>1, OwnerType DEF Reassign
<1>4. ASSUME NEW a \in Movers, Reactivate(a)
      PROVE  TypeInv'
  <2>1. active' \in [Agents -> BOOLEAN] /\ available' \in [Agents -> BOOLEAN]
    BY <1>4 DEF Reactivate, TypeInv, TypeOK
  <2> QED
    BY <1>0, <1>4, <2>1, AgentsType DEF Reactivate
<1>5. ASSUME NEW n \in Limits, SetLimit(n)
      PROVE  TypeInv'
  BY <1>0, <1>5
  DEF SetLimit, TypeInv, TypeOK, LocalsOK, RowsHaveTickets, tickVars, agentVars, rowVars
<1>6. ASSUME NEW r \in Ids, Elapse(r)
      PROVE  TypeInv'
  <2>1. clock' \in [Ids -> Clocks]
    BY <1>6 DEF Elapse, TypeInv, TypeOK, Clocks
  <2> QED
    BY <1>0, <1>6, <2>1, ClockType DEF Elapse
<1> QED
  BY <1>1, <1>2, <1>3, <1>4, <1>5, <1>6 DEF Environment

LEMMA InitType == Init => TypeInv
<1> SUFFICES ASSUME Init PROVE TypeInv
  OBVIOUS
<1>1. limit \in Limits /\ nextId \in Nat
  BY DEF Init
<1>2. owner \in [Tickets -> Owners] /\ state \in [Tickets -> States]
  BY DEF Init, Owners, States
<1>3. /\ status \in [Ids -> Statuses] /\ clock \in [Ids -> Clocks]
      /\ ticketId \in [Ids -> Tickets \cup {Null}]
      /\ requestedBy \in [Ids -> Owners] /\ target \in [Ids -> Owners]
  BY DEF Init, Owners, Statuses, Clocks
<1>4. pc \in [Workers -> Labels] /\ my \in [Workers -> Locals]
  BY BlankLocal DEF Init, Labels
<1>5. TriesLeft /\ RowsHaveTickets
  BY DEF Init, TriesLeft, RowsHaveTickets, Looking
<1> QED
  BY <1>1, <1>2, <1>3, <1>4, <1>5 DEF Init, TypeInv, TypeOK

LEMMA StepType == TypeInv /\ [Next]_vars => TypeInv'
<1> SUFFICES ASSUME TypeInv, [Next]_vars PROVE TypeInv'
  OBVIOUS
<1>1. ASSUME NEW w \in Workers, Worker(w)
      PROVE  TypeInv'
  <2>1. CASE Fail(w)
    BY <2>1, FinishType, FrameType DEF Fail
  <2> QED
    BY <1>1, <2>1, CreateStepType, AnswerStepType, CancelStepType, PromoteStepType,
       PresenceStepType, RerouteStepType, SweepStepType DEF Worker
<1>2. CASE UNCHANGED vars
  BY <1>2 DEF vars, tickVars, agentVars, rowVars, TypeInv, TypeOK, TriesLeft, RowsHaveTickets
<1> QED
  BY <1>1, <1>2, EnvironmentType DEF Next

(* Whatever the handlers and the agents do, every variable keeps its type:   *)
(* in particular promoteQueue's turns never run below zero.                  *)
THEOREM TypeCorrect == Spec => []TypeOK
<1>1. TypeInv => TypeOK
  BY DEF TypeInv
<1> QED
  BY <1>1, InitType, StepType, PTL DEF Spec

(* The inductive invariant behind it, for the theorems that need more types. *)
THEOREM TypeInvariant == Spec => []TypeInv
BY InitType, StepType, PTL DEF Spec

-----------------------------------------------------------------------------
(* Each offer is answered once.  AnsweredOnce needs two facts more: ids are  *)
(* never used twice, so a row that a delete took away stays away; and a      *)
(* handler that answers an offer loaded a row that existed.                  *)

AnswerLabels == {"readTicket", "claimStale", "claimAccepted", "move", "undo"}

RowsBelow == \A r \in Ids : r >= nextId => status[r] = "NOROW"

AnswersKnown ==
  \A w \in Workers : pc[w] \in AnswerLabels => my[w].id \in Ids /\ my[w].id < nextId

ClaimInv == RowsBelow /\ AnswersKnown /\ AnsweredOnce

(* A step in which nobody comes to answer an offer. *)
Quiet == \A v \in Workers : pc'[v] \in AnswerLabels =>
                              pc'[v] = pc[v] /\ my'[v].id = my[v].id

(* A step that leaves a finished or deleted row as it is, or deletes it. *)
RowsFinal ==
  /\ nextId' \in Nat /\ nextId <= nextId'
  /\ RowsBelow'
  /\ \A r \in Ids :
       r < nextId /\ status[r] \in Terminal \cup {"NOROW"} =>
         status'[r] \in {status[r], "NOROW"}

LEMMA QuietClaim ==
  ASSUME TypeInv, ClaimInv, Quiet, RowsFinal
  PROVE  ClaimInv'
<1>0. nextId \in Nat
  BY DEF TypeInv, TypeOK
<1>1. AnswersKnown'
  BY <1>0 DEF ClaimInv, AnswersKnown, Quiet, RowsFinal, Ids
<1>2. ASSUME NEW w \in Workers, NEW r \in Ids, Settling(w, r)'
      PROVE  Settling(w, r) /\ r < nextId
  BY <1>2 DEF Settling, Quiet, AnswerLabels, ClaimInv, AnswersKnown
<1>3. AnsweredOnce'
  BY <1>2 DEF ClaimInv, AnsweredOnce, RowsFinal, Terminal
<1> QED
  BY <1>1, <1>3 DEF ClaimInv, RowsFinal

LEMMA BecomeQuiet ==
  ASSUME TypeInv, NEW w \in Workers, NEW l, NEW rec, Become(w, l, rec),
         l \notin AnswerLabels
  PROVE  Quiet
BY DEF Become, Quiet, TypeInv, TypeOK

LEMMA FinishQuiet ==
  ASSUME TypeInv, NEW w \in Workers, Finish(w)
  PROVE  Quiet
BY BecomeQuiet DEF Finish, AnswerLabels

LEMMA PromoteQuiet ==
  ASSUME TypeInv, NEW w \in Workers, NEW rec, NEW a, NEW ret, Promote(w, rec, a, ret)
  PROVE  Quiet
BY BecomeQuiet DEF Promote, AnswerLabels

LEMMA ReturnQuiet ==
  ASSUME TypeInv, NEW w \in Workers, Return(w)
  PROVE  Quiet
<1>1. my[w].back \notin AnswerLabels
  BY DEF TypeInv, TypeOK, Locals, Callers, AnswerLabels
<1> QED
  BY <1>1, BecomeQuiet, FinishQuiet DEF Return

LEMMA FrameFinal ==
  ASSUME TypeInv, RowsBelow, UNCHANGED <<nextId, status>>
  PROVE  RowsFinal
BY DEF TypeInv, TypeOK, RowsBelow, RowsFinal

(* A conditional update of a row that expects it to be active. *)
LEMMA SwapFinal ==
  ASSUME TypeInv, RowsBelow, NEW r, NEW s, NEW from \in SUBSET Active,
         status' = Swap(r, from, s), UNCHANGED nextId
  PROVE  RowsFinal
BY DEF TypeInv, TypeOK, RowsBelow, RowsFinal, Swap, Active, Terminal

LEMMA CancelOneFinal ==
  ASSUME TypeInv, RowsBelow, NEW w \in Workers, NEW e \in my[w].todo,
         NEW ret \in Callers, CancelOne(w, e, ret)
  PROVE  Quiet /\ RowsFinal
<1>1. Quiet
  BY BecomeQuiet, PromoteQuiet DEF CancelOne, Callers, AnswerLabels
<1>2. RowsFinal
  BY SwapFinal DEF CancelOne
<1> QED
  BY <1>1, <1>2

LEMMA CreateStepFinal ==
  ASSUME TypeInv, RowsBelow, NEW w \in Workers, CreateStep(w)
  PROVE  Quiet /\ RowsFinal
<1>1. CASE Insert(w)
  <2>1. Quiet
    BY <1>1, FinishQuiet DEF Insert
  <2>2. CASE UNCHANGED rowVars
    BY <2>1, <2>2, FrameFinal DEF rowVars
  <2>3. CASE /\ nextId \in Ids /\ nextId' = nextId + 1
             /\ status' = [status EXCEPT ![nextId] =
                             IF my[w].full THEN "QUEUED" ELSE "PENDING"]
    <3>1. nextId \in Nat /\ nextId' \in Nat /\ nextId <= nextId'
      BY <2>3 DEF TypeInv, TypeOK
    <3>2. \A r \in Ids : r # nextId => status'[r] = status[r]
      BY <2>3 DEF TypeInv, TypeOK
    <3>3. RowsBelow'
      BY <2>3, <3>1, <3>2 DEF RowsBelow, Ids
    <3> QED
      BY <2>1, <3>1, <3>2, <3>3 DEF RowsFinal, Ids
  <2> QED
    BY <1>1, <2>2, <2>3 DEF Insert
<1>2. CASE \E t \in Tickets, a \in Agents : StartCreate(w, t, a)
  <2>1. Quiet
    BY <1>2, BecomeQuiet DEF StartCreate, AnswerLabels
  <2> QED
    BY <1>2, <2>1, FrameFinal DEF StartCreate, rowVars
<1>3. CASE CheckTarget(w) \/ CheckExisting(w)
  <2>1. Quiet
    BY <1>3, BecomeQuiet, FinishQuiet DEF CheckTarget, CheckExisting, AnswerLabels
  <2> QED
    BY <1>3, <2>1, FrameFinal DEF CheckTarget, CheckExisting, rowVars
<1>4. CASE CountSlots(w)
  <2>1. Quiet
    BY <1>4, BecomeQuiet DEF CountSlots, AnswerLabels
  <2> QED
    BY <1>4, <2>1, FrameFinal DEF CountSlots, rowVars
<1> QED
  BY <1>1, <1>2, <1>3, <1>4 DEF CreateStep

LEMMA CancelStepFinal ==
  ASSUME TypeInv, RowsBelow, NEW w \in Workers, CancelStep(w)
  PROVE  Quiet /\ RowsFinal
<1>1. CASE Cancel(w) \/ CancelOffers(w)
  BY <1>1, CancelOneFinal DEF Cancel, CancelOffers, Callers
<1>2. CASE \/ \E r \in Ids : StartCancel(w, r)
           \/ \E t \in Tickets : StartFinish(w, t)
           \/ ListOffers(w) \/ CancelOffersEnd(w)
  <2>1. Quiet
    BY <1>2, BecomeQuiet, FinishQuiet
    DEF StartCancel, StartFinish, ListOffers, CancelOffersEnd, AnswerLabels
  <2> QED
    BY <1>2, <2>1, FrameFinal
    DEF StartCancel, StartFinish, ListOffers, CancelOffersEnd, rowVars
<1> QED
  BY <1>1, <1>2 DEF CancelStep

LEMMA PromoteStepFinal ==
  ASSUME TypeInv, RowsBelow, NEW w \in Workers, PromoteStep(w)
  PROVE  Quiet /\ RowsFinal
<1>1. CASE Count(w)
  BY <1>1, BecomeQuiet, ReturnQuiet, FrameFinal DEF Count, rowVars, AnswerLabels
<1>2. CASE Find(w)
  <2>1. Quiet
    BY <1>2, BecomeQuiet, ReturnQuiet DEF Find, AnswerLabels
  <2> QED
    BY <1>2, <2>1, FrameFinal DEF Find, rowVars
<1>3. CASE ReadTarget(w)
  BY <1>3, BecomeQuiet, FrameFinal DEF ReadTarget, rowVars, AnswerLabels
<1>4. CASE Activate(w)
  <2>1. Quiet
    BY <1>4, BecomeQuiet, ReturnQuiet DEF Activate, AnswerLabels
  <2>2. status' = Swap(my[w].id, {"QUEUED"}, "PENDING") /\ UNCHANGED nextId
    BY <1>4 DEF Activate, Swap
  <2> QED
    BY <2>1, <2>2, SwapFinal DEF Active
<1> QED
  BY <1>1, <1>2, <1>3, <1>4 DEF PromoteStep

LEMMA PresenceStepFinal ==
  ASSUME TypeInv, RowsBelow, NEW w \in Workers, PresenceStep(w)
  PROVE  Quiet /\ RowsFinal
<1>1. Quiet
  <2>1. ASSUME NEW a \in Movers, NEW on \in BOOLEAN, NEW acc \in BOOLEAN,
               SetState(w, a, on, acc)
        PROVE  Quiet
    BY <2>1, BecomeQuiet DEF SetState, AnswerLabels
  <2>2. ASSUME NEW a \in Movers, StartGoUnavailable(w, a) \/ StartDeactivate(w, a)
        PROVE  Quiet
    BY <2>2, BecomeQuiet DEF StartGoUnavailable, StartDeactivate, AnswerLabels
  <2>3. ASSUME NEW a \in Movers, PatchAvailable(w, a)
        PROVE  Quiet
    BY <2>3, BecomeQuiet DEF PatchAvailable, AnswerLabels
  <2>4. CASE GoUnavailable(w) \/ ListPending(w)
    BY <2>4, BecomeQuiet DEF GoUnavailable, ListPending, AnswerLabels
  <2>5. CASE Shed(w)
    BY <2>5, BecomeQuiet DEF Shed, AnswerLabels
  <2>6. CASE SetClocks(w)
    BY <2>6, BecomeQuiet DEF SetClocks, AnswerLabels
  <2>7. CASE ShedEnd(w) \/ SetClocksEnd(w)
    BY <2>7, FinishQuiet, ReturnQuiet DEF ShedEnd, SetClocksEnd
  <2> QED
    BY <2>1, <2>2, <2>3, <2>4, <2>5, <2>6, <2>7 DEF PresenceStep
<1>2. UNCHANGED <<nextId, status>>
  BY DEF PresenceStep, SetState, StartGoUnavailable, PatchAvailable, StartDeactivate,
         GoUnavailable, Shed, ShedEnd, ListPending, SetClocks, SetClocksEnd, rowVars
<1> QED
  BY <1>1, <1>2, FrameFinal

LEMMA RerouteStepFinal ==
  ASSUME TypeInv, RowsBelow, NEW w \in Workers, RerouteStep(w)
  PROVE  Quiet /\ RowsFinal
<1>1. CASE CancelRaised(w) \/ CancelReceived(w)
  BY <1>1, CancelOneFinal DEF CancelRaised, CancelReceived, Callers
<1>2. CASE MoveOffer(w)
  <2>1. Quiet
    BY <1>2, BecomeQuiet DEF MoveOffer, AnswerLabels
  <2> QED
    BY <1>2, <2>1
    DEF MoveOffer, TypeInv, TypeOK, RowsBelow, RowsFinal, Active, Terminal
<1>3. CASE \/ ListRaised(w) \/ ListReceived(w) \/ PickReplacement(w)
           \/ CountReplacement(w) \/ RerouteEnd(w)
  <2>1. ListRaised(w) \/ ListReceived(w) => Quiet
    BY BecomeQuiet DEF ListRaised, ListReceived, AnswerLabels
  <2>2. PickReplacement(w) => Quiet
    BY BecomeQuiet DEF PickReplacement, AnswerLabels
  <2>3. CountReplacement(w) => Quiet
    BY BecomeQuiet DEF CountReplacement, AnswerLabels
  <2>4. RerouteEnd(w) => Quiet
    BY FinishQuiet DEF RerouteEnd
  <2>5. Quiet
    BY <1>3, <2>1, <2>2, <2>3, <2>4
  <2> QED
    BY <1>3, <2>5, FrameFinal
    DEF ListRaised, ListReceived, PickReplacement, CountReplacement, RerouteEnd, rowVars
<1> QED
  BY <1>1, <1>2, <1>3 DEF RerouteStep

LEMMA SweepStepFinal ==
  ASSUME TypeInv, RowsBelow, NEW w \in Workers, SweepStep(w)
  PROVE  Quiet /\ RowsFinal
<1>1. CASE StartSweep(w)
  BY <1>1, BecomeQuiet, FrameFinal DEF StartSweep, rowVars, AnswerLabels
<1>2. CASE Expire(w)
  <2>1. Quiet
    BY <1>2, BecomeQuiet, PromoteQuiet DEF Expire, AnswerLabels
  <2> QED
    BY <1>2, <2>1, SwapFinal DEF Expire, Active
<1>3. CASE ExpireEnd(w)
  BY <1>3, FinishQuiet, FrameFinal DEF ExpireEnd, rowVars
<1> QED
  BY <1>1, <1>2, <1>3 DEF SweepStep

LEMMA EnvironmentFinal ==
  ASSUME TypeInv, RowsBelow, Environment
  PROVE  Quiet /\ RowsFinal
<1>1. Quiet
  BY DEF Environment, Reopen, AutoClose, DeleteTicket, Reassign, Reactivate, SetLimit,
         Elapse, Quiet
<1>2. ASSUME NEW t \in Tickets, DeleteTicket(t)
      PROVE  RowsFinal
  BY <1>2 DEF DeleteTicket, TypeInv, TypeOK, RowsBelow, RowsFinal
<1>3. UNCHANGED <<nextId, status>> => RowsFinal
  BY FrameFinal
<1> QED
  BY <1>1, <1>2, <1>3
  DEF Environment, Reopen, AutoClose, Reassign, Reactivate, SetLimit, Elapse, rowVars

(* The handlers that answer an offer: accept claims the row before it moves  *)
(* the ticket, decline claims it, and a stale accept claims it to cancel it. *)
LEMMA AnswerStepClaim ==
  ASSUME TypeInv, ClaimInv, NEW w \in Workers, AnswerStep(w)
  PROVE  ClaimInv' /\ (RowsFinal \/ Undo(w))
<1>0. /\ nextId \in Nat /\ status \in [Ids -> Statuses]
      /\ pc \in [Workers -> Labels] /\ my \in [Workers -> Locals]
      /\ RowsBelow /\ AnswersKnown /\ AnsweredOnce
  BY DEF TypeInv, TypeOK, ClaimInv
<1>1. ASSUME NEW r \in Ids, StartAccept(w, r)
      PROVE  ClaimInv' /\ RowsFinal
  <2>1. r < nextId
    BY <1>0, <1>1 DEF StartAccept, RowsBelow, Ids
  <2>2. AnswersKnown'
    BY <1>0, <1>1, <2>1 DEF StartAccept, Become, Blank, AnswersKnown, rowVars
  <2>3. AnsweredOnce'
    BY <1>0, <1>1 DEF StartAccept, Become, AnsweredOnce, Settling, rowVars
  <2>4. RowsFinal
    BY <1>0, <1>1, FrameFinal DEF StartAccept, rowVars
  <2> QED
    BY <2>2, <2>3, <2>4 DEF ClaimInv, RowsFinal
<1>2. ASSUME NEW r \in Ids, StartDecline(w, r)
      PROVE  ClaimInv' /\ RowsFinal
  <2>1. Quiet
    BY <1>2, BecomeQuiet DEF StartDecline, AnswerLabels
  <2> QED
    BY <1>0, <1>2, <2>1, FrameFinal, QuietClaim DEF StartDecline, rowVars
<1>3. CASE ReadTicket(w)
  <2>1. RowsFinal
    BY <1>0, <1>3, FrameFinal DEF ReadTicket, rowVars
  <2>2. Finish(w) => ClaimInv'
    BY <2>1, FinishQuiet, QuietClaim
  <2>3. ASSUME NEW l \in {"claimAccepted", "claimStale"}, Become(w, l, my[w])
        PROVE  ClaimInv'
    <3>1. AnswersKnown'
      BY <1>0, <1>3, <2>3
      DEF ReadTicket, At, Become, AnswersKnown, AnswerLabels, rowVars
    <3>2. AnsweredOnce'
      BY <1>0, <1>3, <2>3 DEF ReadTicket, Become, AnsweredOnce, Settling, rowVars
    <3> QED
      BY <2>1, <3>1, <3>2 DEF ClaimInv, RowsFinal
  <2> QED
    BY <1>3, <2>1, <2>2, <2>3 DEF ReadTicket
<1>4. CASE ClaimStale(w)
  <2>1. Quiet /\ RowsFinal
    BY <1>0, <1>4, PromoteQuiet, SwapFinal DEF ClaimStale, Active
  <2> QED
    BY <2>1, QuietClaim
<1>5. CASE ClaimAccepted(w)
  <2>1. RowsFinal
    BY <1>0, <1>5, SwapFinal DEF ClaimAccepted, Active
  <2>2. CASE status[my[w].id] = "PENDING"
    <3>1. Become(w, "move", my[w]) /\ my[w].id \in Ids /\ my[w].id < nextId
      BY <1>0, <1>5, <2>2 DEF ClaimAccepted, At, AnswersKnown, AnswerLabels
    <3>2. AnswersKnown'
      BY <1>0, <1>5, <3>1 DEF ClaimAccepted, Become, AnswersKnown
    <3>3. status' = [status EXCEPT ![my[w].id] = "ACCEPTED"]
      BY <1>5, <2>2 DEF ClaimAccepted, Swap
    <3>4. \A v \in Workers : ~Settling(v, my[w].id)
      BY <1>0, <2>2, <3>1 DEF AnsweredOnce
    <3>5. AnsweredOnce'
      BY <1>0, <3>1, <3>3, <3>4 DEF Become, AnsweredOnce, Settling
    <3> QED
      BY <2>1, <3>2, <3>5 DEF ClaimInv, RowsFinal
  <2>3. CASE status[my[w].id] # "PENDING"
    BY <1>5, <2>1, <2>3, FinishQuiet, QuietClaim DEF ClaimAccepted
  <2> QED
    BY <2>1, <2>2, <2>3
<1>6. CASE Move(w)
  <2>1. RowsFinal
    BY <1>0, <1>6, FrameFinal DEF Move, rowVars
  <2>2. CASE \E rec, a, ret : Promote(w, rec, a, ret)
    BY <2>1, <2>2, PromoteQuiet, QuietClaim
  <2>3. CASE Become(w, "undo", my[w])
    <3>1. AnswersKnown'
      BY <1>0, <1>6, <2>3 DEF Move, At, Become, AnswersKnown, AnswerLabels, rowVars
    <3>2. AnsweredOnce'
      BY <1>0, <1>6, <2>3 DEF Move, At, Become, AnsweredOnce, Settling, rowVars
    <3> QED
      BY <2>1, <3>1, <3>2 DEF ClaimInv, RowsFinal
  <2> QED
    BY <1>6, <2>2, <2>3 DEF Move
<1>7. CASE Undo(w)
  <2>1. Quiet
    BY <1>7, FinishQuiet, PromoteQuiet DEF Undo
  <2>2. CASE status[my[w].id] = "NOROW"
    BY <1>0, <1>7, <2>1, <2>2, FrameFinal, QuietClaim DEF Undo
  <2>3. CASE status[my[w].id] # "NOROW"
    <3>1. my[w].id \in Ids /\ my[w].id < nextId /\ Settling(w, my[w].id)
      BY <1>0, <1>7 DEF Undo, At, AnswersKnown, AnswerLabels, Settling
    <3>2. status' = [status EXCEPT ![my[w].id] = "CANCELLED"] /\ UNCHANGED nextId
      BY <1>7, <2>3 DEF Undo
    <3>3. RowsBelow'
      BY <1>0, <3>1, <3>2 DEF RowsBelow, Ids
    <3>4. AnswersKnown'
      BY <1>0, <2>1, <3>2 DEF AnswersKnown, Quiet
    <3>5. pc'[w] = "count" /\ \A v \in Workers \ {w} : pc'[v] = pc[v] /\ my'[v] = my[v]
      BY <1>0, <1>7, <2>3 DEF Undo, Promote, Become
    <3>6. AnsweredOnce'
      BY <1>0, <3>1, <3>2, <3>5 DEF AnsweredOnce, Settling
    <3> QED
      BY <1>7, <3>3, <3>4, <3>6 DEF ClaimInv
  <2> QED
    BY <2>2, <2>3
<1>8. CASE Decline(w)
  <2>1. Quiet
    BY <1>8, FinishQuiet, PromoteQuiet DEF Decline
  <2> QED
    BY <1>0, <1>8, <2>1, SwapFinal, QuietClaim DEF Decline, Active
<1> QED
  BY <1>1, <1>2, <1>3, <1>4, <1>5, <1>6, <1>7, <1>8 DEF AnswerStep

LEMMA InitClaim == Init => ClaimInv
BY DEF Init, ClaimInv, RowsBelow, AnswersKnown, AnswerLabels, AnsweredOnce, Settling

LEMMA StepClaim ==
  ASSUME TypeInv, ClaimInv, [Next]_vars
  PROVE  ClaimInv' /\ (RowsFinal \/ \E w \in Workers : Undo(w))
<1>0. RowsBelow
  BY DEF ClaimInv
<1>1. ASSUME NEW w \in Workers, Worker(w)
      PROVE  ClaimInv' /\ (RowsFinal \/ Undo(w))
  <2>1. CASE Fail(w)
    BY <1>0, <2>1, FinishQuiet, FrameFinal, QuietClaim DEF Fail, rowVars
  <2>2. CASE AnswerStep(w)
    BY <2>2, AnswerStepClaim
  <2> QED
    BY <1>0, <1>1, <2>1, <2>2, QuietClaim, CreateStepFinal, CancelStepFinal,
       PromoteStepFinal, PresenceStepFinal, RerouteStepFinal, SweepStepFinal DEF Worker
<1>2. CASE Environment
  BY <1>0, <1>2, EnvironmentFinal, QuietClaim
<1>3. CASE UNCHANGED vars
  <2>1. Quiet
    BY <1>3 DEF vars, Quiet
  <2> QED
    BY <1>0, <1>3, <2>1, FrameFinal, QuietClaim DEF vars, rowVars
<1> QED
  BY <1>1, <1>2, <1>3 DEF Next

(* However many handlers race for an offer, one claims it.                   *)
THEOREM AnsweredOnceHolds == Spec => []AnsweredOnce
<1>1. ClaimInv => AnsweredOnce
  BY DEF ClaimInv
<1>2. TypeInv /\ ClaimInv /\ [Next]_vars => ClaimInv'
  BY StepClaim
<1> QED
  BY <1>1, <1>2, InitClaim, TypeInvariant, PTL DEF Spec

(* No finished offer changes its outcome, except by the undo of the accept   *)
(* that claimed it.                                                          *)
THEOREM AnswersFinalHolds == Spec => AnswersFinal
<1>1. ASSUME TypeInv, ClaimInv, RowsFinal
      PROVE  KeepAnswers
  <2>1. \A r \in Ids : status[r] \in Terminal => r < nextId
    BY <1>1 DEF ClaimInv, RowsBelow, TypeInv, TypeOK, Terminal, Ids
  <2> QED
    BY <1>1, <2>1 DEF RowsFinal, KeepAnswers
<1>2. ASSUME TypeInv, ClaimInv, NEW w \in Workers, Undo(w)
      PROVE  KeepAnswers
  <2>1. /\ my[w].id \in Ids /\ Settling(w, my[w].id)
        /\ status[my[w].id] \in {"ACCEPTED", "NOROW"}
    BY <1>2 DEF Undo, At, ClaimInv, AnswersKnown, AnswerLabels, Settling, AnsweredOnce
  <2>2. pc[w] = "undo" /\ pc'[w] # "undo"
    BY <1>2 DEF Undo, At, Promote, Finish, Become, TypeInv, TypeOK
  <2>3. \/ UNCHANGED status
        \/ status' = [status EXCEPT ![my[w].id] = "CANCELLED"]
    BY <1>2 DEF Undo
  <2> QED
    BY <1>2, <2>1, <2>2, <2>3 DEF TypeInv, TypeOK, Terminal, KeepAnswers
<1>3. TypeInv /\ ClaimInv /\ [Next]_vars => ClaimInv' /\ [KeepAnswers]_vars
  BY <1>1, <1>2, StepClaim
<1> QED
  BY <1>3, InitClaim, TypeInvariant, PTL DEF Spec, AnswersFinal

=============================================================================
