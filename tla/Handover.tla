------------------------------ MODULE Handover ------------------------------
(***************************************************************************)
(* Agent-to-agent ticket handovers: server/src/services/handoverService.js *)
(* with the routes and services that call it.  A handover is an OFFER row: *)
(* its ticket changes owner only when the target accepts.  A recipient     *)
(* holds at most handoverPendingLimit PENDING offers; later ones are       *)
(* QUEUED and promoted oldest first as slots come free.                    *)
(*                                                                         *)
(* The server is one Node process.  Every `await prisma...` is one         *)
(* statement of the database and a point where other handlers run, so a    *)
(* handler is a sequence of atomic steps, one per statement, executed by a *)
(* worker that keeps in `my' what the handler has read so far.  With one   *)
(* worker handlers run one after the other; with two they interleave.      *)
(***************************************************************************)
EXTENDS Naturals, FiniteSets

CONSTANTS
  Agents,        \* helpdesk agents; staff, and in one assignment group
  Null,       \* the null of Ticket.assignedAgentId
  Tickets,       \* the tickets that offers may be raised for
  Workers,       \* how many handlers may be in flight at once
  MaxRequests,   \* bound: HandoverRequest rows created in a behaviour
  Limits,        \* values handoverPendingLimit takes
  Movers,        \* bound: the agents whose account or presence changes
  Enabled,       \* the handlers a run exercises
  MayFail        \* whether a handler may be abandoned between two awaits

Handlers == {"create", "answer", "cancel", "resolve", "reassign", "presence",
             "deactivate", "delete"}

ASSUME HandoverAssumption ==
  /\ Null \notin Agents \cup Tickets
  /\ MaxRequests \in Nat
  /\ Limits \subseteq Nat /\ Limits # {}
  /\ Movers \subseteq Agents
  /\ Enabled \subseteq Handlers
  /\ MayFail \in BOOLEAN

Ids      == 1 .. MaxRequests
Owners   == Agents \cup {Null}
Active   == {"PENDING", "QUEUED"}
Terminal == {"ACCEPTED", "DECLINED", "CANCELLED", "EXPIRED"}
Statuses == Active \cup Terminal \cup {"NOROW"}

(* "DELETED": an administrator removed the ticket, and its rows with it.    *)
States   == {"OPEN", "RESOLVED", "CLOSED", "DELETED"}

(* expiresAt / pausedAt / remainingMs of a row.  "running": expiresAt lies  *)
(* ahead; "due": it has passed; "frozen": paused with time left; "spent":   *)
(* paused with remainingMs = 0; "none": a QUEUED row has no clock.          *)
Clocks   == {"none", "running", "due", "frozen", "spent"}

VARIABLES
  owner,       \* Ticket.assignedAgentId
  state,       \* Ticket.state; "OPEN" stands for NEW and IN_PROGRESS
  active,      \* Agent.isActive
  available,   \* Agent.isAvailable
  limit,       \* the handoverPendingLimit setting
  nextId,      \* the id the next row gets
  status, ticketId, requestedBy, target, clock,  \* the HandoverRequest rows
  pc, my       \* per worker: the next statement, and the handler's locals

agentVars == <<active, available>>
rowVars   == <<nextId, status, ticketId, requestedBy, target, clock>>
tickVars  == <<owner, state>>
vars      == <<tickVars, agentVars, limit, rowVars, pc, my>>

-----------------------------------------------------------------------------
(* Queries *)

Pending(a)   == {r \in Ids : target[r] = a /\ status[r] = "PENDING"}
Queued(a)    == {r \in Ids : target[r] = a /\ status[r] = "QUEUED"}
OffersFor(t) == {r \in Ids : ticketId[r] = t /\ status[r] \in Active}
Away(a)      == ~(active[a] /\ available[a])
Eligible     == {a \in Agents : ~Away(a)}

(* The clock a row starts with when it becomes PENDING. *)
StartClock(away) == IF away THEN "frozen" ELSE "running"

(* What a findMany keeps of a row for the loop that follows it. *)
Snap(r) == [id |-> r, to |-> target[r], pending |-> status[r] = "PENDING",
            clock |-> "none"]
SnapWithClock(r) == [Snap(r) EXCEPT !.clock = clock[r]]
Snaps == [id : Ids, to : Owners, pending : BOOLEAN, clock : Clocks]

-----------------------------------------------------------------------------
(* Handlers' control *)

CreateLabels == {"checkTarget", "checkExisting", "countSlots", "insert"}
Labels ==
  CreateLabels \cup
  {"idle",
   "readTicket", "claimStale", "claimAccepted", "move", "undo",    \* accept
   "decline", "cancel",
   "count", "find", "readTarget", "activate",                      \* promoteQueue
   "listOffers", "cancelOffers",                                   \* cancelForTicket
   "shed", "goUnavailable", "listPending", "setClocks",            \* availability
   "listRaised", "cancelRaised", "reroute",       \* deactivation
   "countReplacement", "moveOffer",
   "expire"}                                                       \* sweepExpired

(* Where promoteQueue, or reassignOpenTicketsFor, goes on when it returns. *)
Callers == {"idle", "cancelOffers", "cancelRaised", "reroute", "expire",
            "goUnavailable", "listPending", "listRaised"}

Blank == [id |-> 0, tkts |-> {}, agent |-> Null, to |-> Null,
          full |-> FALSE, away |-> FALSE, lim |-> 0, tries |-> 0,
          todo |-> {}, back |-> "idle"]

Locals == [id : Ids \cup {0}, tkts : SUBSET Tickets, agent : Owners, to : Owners,
           full : BOOLEAN, away : BOOLEAN, lim : Nat, tries : Nat,
           todo : SUBSET Snaps, back : Callers]

Become(w, label, locals) ==
  /\ pc' = [pc EXCEPT ![w] = label]
  /\ my' = [my EXCEPT ![w] = locals]

Finish(w) == Become(w, "idle", Blank)

(* Call promoteQueue(a) and continue at `ret'. *)
Promote(w, locals, a, ret) ==
  Become(w, "count", [locals EXCEPT !.to = a, !.back = ret,
                                    !.lim = limit, !.tries = limit])

(* Return from promoteQueue, or from a loop, to the caller's next statement. *)
Return(w) ==
  IF my[w].back = "idle"
  THEN Finish(w)
  ELSE Become(w, my[w].back,
              [my[w] EXCEPT !.to = Null, !.id = 0, !.full = FALSE,
                            !.lim = 0, !.tries = 0, !.back = "idle"])

At(w, label)    == pc[w] = label
Starts(w, name) == pc[w] = "idle" /\ name \in Enabled

(* A handler of which only one statement matters here takes one step of a    *)
(* free worker. *)
Runs(name) == \E w \in Workers : Starts(w, name)

-----------------------------------------------------------------------------
(* POST /tickets/:id/handover and createRequest *)

(* The route loads the ticket; checkRequest judges this snapshot: an open   *)
(* ticket with an owner, offered to somebody else.                          *)
StartCreate(w, t, a) ==
  /\ Starts(w, "create")
  /\ nextId + Cardinality({v \in Workers : pc[v] \in CreateLabels}) \in Ids
  /\ state[t] = "OPEN" /\ owner[t] \in Agents /\ a # owner[t]
  /\ Become(w, "checkTarget",
            [Blank EXCEPT !.tkts = {t}, !.agent = owner[t], !.to = a])
  /\ UNCHANGED <<tickVars, agentVars, limit, rowVars>>

(* checkTarget: the target must be active; only an administrator may choose *)
(* one who is unavailable, and then the clock will start paused.            *)
CheckTarget(w) ==
  /\ At(w, "checkTarget")
  /\ IF active[my[w].to]
     THEN Become(w, "checkExisting",
                 [my[w] EXCEPT !.away = Away(my[w].to)])
     ELSE Finish(w)
  /\ UNCHANGED <<tickVars, agentVars, limit, rowVars>>

(* Mutant: findFirst looks for PENDING offers only. *)
CheckExistingPendingOnly(w) ==
  /\ At(w, "checkExisting")
  /\ IF \A t \in my[w].tkts : \A r \in OffersFor(t) : status[r] # "PENDING"
     THEN Become(w, "countSlots", my[w])
     ELSE Finish(w)
  /\ UNCHANGED <<tickVars, agentVars, limit, rowVars>>

CheckExisting(w) ==
  /\ At(w, "checkExisting")
  /\ IF \A t \in my[w].tkts : OffersFor(t) = {}
     THEN Become(w, "countSlots", my[w])
     ELSE Finish(w)
  /\ UNCHANGED <<tickVars, agentVars, limit, rowVars>>

CountSlots(w) ==
  /\ At(w, "countSlots")
  /\ Become(w, "insert",
            [my[w] EXCEPT !.full = Cardinality(Pending(my[w].to)) >= limit])
  /\ UNCHANGED <<tickVars, agentVars, limit, rowVars>>

(* The transaction of createRequest runs at the database's default          *)
(* isolation, so the count above and this insert are two statements.  A     *)
(* ticket deleted meanwhile breaks the foreign key.                         *)
Insert(w) ==
  /\ At(w, "insert")
  /\ nextId \in Ids
  /\ Finish(w)
  /\ \E t \in my[w].tkts :
       IF state[t] = "DELETED"
       THEN UNCHANGED rowVars
       ELSE /\ nextId' = nextId + 1
            /\ ticketId'    = [ticketId EXCEPT ![nextId] = t]
            /\ requestedBy' = [requestedBy EXCEPT ![nextId] = my[w].agent]
            /\ target'      = [target EXCEPT ![nextId] = my[w].to]
            /\ status' = [status EXCEPT ![nextId] =
                            IF my[w].full THEN "QUEUED" ELSE "PENDING"]
            /\ clock'  = [clock EXCEPT ![nextId] =
                            IF my[w].full THEN "none" ELSE StartClock(my[w].away)]
  /\ UNCHANGED <<tickVars, agentVars, limit>>

-----------------------------------------------------------------------------
(* Conditional updates of a row: `updateMany where id, status in from'. *)

Swap(r, from, to) ==
  IF status[r] \in from THEN [status EXCEPT ![r] = to] ELSE status

(* cancel() of the offer read as `e', then on to `ret'.  Slots are refilled *)
(* only if the offer was PENDING when it was read.                          *)
CancelOne(w, e, ret) ==
  LET rest == [my[w] EXCEPT !.todo = @ \ {e}]
  IN  /\ status' = Swap(e.id, Active, "CANCELLED")
      /\ IF status[e.id] \in Active /\ e.pending
         THEN Promote(w, rest, e.to, ret)
         ELSE Become(w, ret, rest)
      /\ UNCHANGED <<tickVars, agentVars, limit,
                     nextId, ticketId, requestedBy, target, clock>>

-----------------------------------------------------------------------------
(* POST /handovers/:id/accept and /override *)

(* loadFor: the route keeps the row it authorised the caller against. *)
StartAccept(w, r) ==
  /\ Starts(w, "answer")
  /\ status[r] = "PENDING"
  /\ Become(w, "readTicket",
            [Blank EXCEPT !.id = r, !.tkts = {ticketId[r]},
                          !.agent = requestedBy[r], !.to = target[r]])
  /\ UNCHANGED <<tickVars, agentVars, limit, rowVars>>

(* The offer stands while the requester still owns an open ticket. *)
ReadTicket(w) ==
  /\ At(w, "readTicket")
  /\ \E t \in my[w].tkts :
       CASE state[t] = "DELETED" -> Finish(w)
         [] state[t] = "OPEN" /\ owner[t] = my[w].agent ->
              Become(w, "claimAccepted", my[w])
         [] OTHER -> Become(w, "claimStale", my[w])
  /\ UNCHANGED <<tickVars, agentVars, limit, rowVars>>

(* The result of this claim is ignored. *)
ClaimStale(w) ==
  /\ At(w, "claimStale")
  /\ status' = Swap(my[w].id, {"PENDING"}, "CANCELLED")
  /\ Promote(w, Blank, my[w].to, "idle")
  /\ UNCHANGED <<tickVars, agentVars, limit,
                 nextId, ticketId, requestedBy, target, clock>>

(* Mutant: the accept's update expects nothing of the row's status. *)
ClaimAcceptedBlindly(w) ==
  /\ At(w, "claimAccepted")
  /\ status' = [status EXCEPT ![my[w].id] = "ACCEPTED"]
  /\ Become(w, "move", my[w])
  /\ UNCHANGED <<tickVars, agentVars, limit,
                 nextId, ticketId, requestedBy, target, clock>>

ClaimAccepted(w) ==
  /\ At(w, "claimAccepted")
  /\ status' = Swap(my[w].id, {"PENDING"}, "ACCEPTED")
  /\ IF status[my[w].id] = "PENDING" THEN Become(w, "move", my[w]) ELSE Finish(w)
  /\ UNCHANGED <<tickVars, agentVars, limit,
                 nextId, ticketId, requestedBy, target, clock>>

(* Mutant: accept does not look at what moveTicket returns. *)
MoveUnchecked(w) ==
  /\ At(w, "move")
  /\ \E t \in my[w].tkts :
       owner' = IF state[t] = "OPEN" /\ owner[t] = my[w].agent
                THEN [owner EXCEPT ![t] = my[w].to] ELSE owner
  /\ Promote(w, Blank, my[w].to, "idle")
  /\ UNCHANGED <<state, agentVars, limit, rowVars>>

(* moveTicket: only if the ticket is still open and with the requester.  It *)
(* goes to the target the route loaded.                                     *)
Move(w) ==
  /\ At(w, "move")
  /\ \E t \in my[w].tkts :
       IF state[t] = "OPEN" /\ owner[t] = my[w].agent
       THEN /\ owner' = [owner EXCEPT ![t] = my[w].to]
            /\ Promote(w, Blank, my[w].to, "idle")
       ELSE /\ Become(w, "undo", my[w])
            /\ UNCHANGED owner
  /\ UNCHANGED <<state, agentVars, limit, rowVars>>

(* handoverRequest.update by id alone; it throws when the row is gone. *)
Undo(w) ==
  /\ At(w, "undo")
  /\ IF status[my[w].id] = "NOROW"
     THEN Finish(w) /\ UNCHANGED status
     ELSE /\ status' = [status EXCEPT ![my[w].id] = "CANCELLED"]
          /\ Promote(w, Blank, my[w].to, "idle")
  /\ UNCHANGED <<tickVars, agentVars, limit,
                 nextId, ticketId, requestedBy, target, clock>>

-----------------------------------------------------------------------------
(* POST /handovers/:id/decline, /suggest and /cancel *)

StartDecline(w, r) ==
  /\ Starts(w, "answer")
  /\ status[r] = "PENDING"
  /\ Become(w, "decline", [Blank EXCEPT !.id = r, !.to = target[r]])
  /\ UNCHANGED <<tickVars, agentVars, limit, rowVars>>

(* Mutant: a declined offer's slot is not refilled. *)
DeclineOnly(w) ==
  /\ At(w, "decline")
  /\ status' = Swap(my[w].id, {"PENDING"}, "DECLINED")
  /\ Finish(w)
  /\ UNCHANGED <<tickVars, agentVars, limit,
                 nextId, ticketId, requestedBy, target, clock>>

Decline(w) ==
  /\ At(w, "decline")
  /\ status' = Swap(my[w].id, {"PENDING"}, "DECLINED")
  /\ IF status[my[w].id] = "PENDING"
     THEN Promote(w, Blank, my[w].to, "idle")
     ELSE Finish(w)
  /\ UNCHANGED <<tickVars, agentVars, limit,
                 nextId, ticketId, requestedBy, target, clock>>

StartCancel(w, r) ==
  /\ Starts(w, "cancel")
  /\ status[r] \in Active
  /\ Become(w, "cancel", [Blank EXCEPT !.todo = {Snap(r)}])
  /\ UNCHANGED <<tickVars, agentVars, limit, rowVars>>

Cancel(w) ==
  /\ At(w, "cancel")
  /\ \E e \in my[w].todo : CancelOne(w, e, "idle")

-----------------------------------------------------------------------------
(* promoteQueue and activate *)

(* Mutant: promoteQueue counts no slots and is not bounded by the limit. *)
CountNothing(w) ==
  /\ At(w, "count")
  /\ Become(w, "find", my[w])
  /\ UNCHANGED <<tickVars, agentVars, limit, rowVars>>

Count(w) ==
  /\ At(w, "count")
  /\ IF my[w].tries = 0 \/ Cardinality(Pending(my[w].to)) >= my[w].lim
     THEN Return(w)
     ELSE Become(w, "find", my[w])
  /\ UNCHANGED <<tickVars, agentVars, limit, rowVars>>

(* Mutant: orderBy id desc. *)
FindNewest(w) ==
  /\ At(w, "find")
  /\ IF Queued(my[w].to) = {}
     THEN Return(w)
     ELSE \E r \in Queued(my[w].to) :
            /\ \A q \in Queued(my[w].to) : r >= q
            /\ Become(w, "readTarget", [my[w] EXCEPT !.id = r])
  /\ UNCHANGED <<tickVars, agentVars, limit, rowVars>>

(* The oldest queued row. *)
Find(w) ==
  /\ At(w, "find")
  /\ IF Queued(my[w].to) = {}
     THEN Return(w)
     ELSE \E r \in Queued(my[w].to) :
            /\ \A q \in Queued(my[w].to) : r <= q
            /\ Become(w, "readTarget", [my[w] EXCEPT !.id = r])
  /\ UNCHANGED <<tickVars, agentVars, limit, rowVars>>

(* Mutant: activate starts every clock running. *)
ReadTargetAlwaysThere(w) ==
  /\ At(w, "readTarget")
  /\ Become(w, "activate", [my[w] EXCEPT !.away = FALSE])
  /\ UNCHANGED <<tickVars, agentVars, limit, rowVars>>

ReadTarget(w) ==
  /\ At(w, "readTarget")
  /\ Become(w, "activate", [my[w] EXCEPT !.away = Away(my[w].to)])
  /\ UNCHANGED <<tickVars, agentVars, limit, rowVars>>

Activate(w) ==
  /\ At(w, "activate")
  /\ LET r == my[w].id
     IN  IF status[r] = "QUEUED"
         THEN /\ status' = [status EXCEPT ![r] = "PENDING"]
              /\ clock'  = [clock EXCEPT ![r] = StartClock(my[w].away)]
              /\ Become(w, "count", [my[w] EXCEPT !.id = 0, !.away = FALSE,
                                                  !.tries = @ - 1])
         ELSE Return(w) /\ UNCHANGED <<status, clock>>
  /\ UNCHANGED <<tickVars, agentVars, limit, nextId, ticketId, requestedBy, target>>

-----------------------------------------------------------------------------
(* applyStateChange to RESOLVED or (forced) CLOSED, and cancelForTicket *)

StartFinish(w, t) ==
  /\ Starts(w, "resolve")
  /\ state[t] \in {"OPEN", "RESOLVED"}
  /\ state' = [state EXCEPT ![t] = IF @ = "OPEN" THEN "RESOLVED" ELSE "CLOSED"]
  /\ Become(w, "listOffers", [Blank EXCEPT !.tkts = {t}])
  /\ UNCHANGED <<owner, agentVars, limit, rowVars>>

(* Mutant: cancelForTicket looks for PENDING offers only. *)
ListPendingOffers(w) ==
  /\ At(w, "listOffers")
  /\ \E t \in my[w].tkts :
       Become(w, "cancelOffers",
              [Blank EXCEPT !.todo =
                 {Snap(r) : r \in {q \in OffersFor(t) : status[q] = "PENDING"}}])
  /\ UNCHANGED <<tickVars, agentVars, limit, rowVars>>

ListOffers(w) ==
  /\ At(w, "listOffers")
  /\ \E t \in my[w].tkts :
       Become(w, "cancelOffers",
              [Blank EXCEPT !.todo = {Snap(r) : r \in OffersFor(t)}])
  /\ UNCHANGED <<tickVars, agentVars, limit, rowVars>>

CancelOffers(w) ==
  /\ At(w, "cancelOffers")
  /\ \E e \in my[w].todo : CancelOne(w, e, "cancelOffers")

CancelOffersEnd(w) ==
  /\ At(w, "cancelOffers")
  /\ my[w].todo = {}
  /\ Finish(w)
  /\ UNCHANGED <<tickVars, agentVars, limit, rowVars>>

(* Rework or the requester's reply reopens; the resolution sweep and the    *)
(* requester's confirmation close.  Neither looks at handovers.             *)
Reopen(t) ==
  /\ Runs("resolve")
  /\ state[t] = "RESOLVED"
  /\ state' = [state EXCEPT ![t] = "OPEN"]
  /\ UNCHANGED <<owner, agentVars, limit, rowVars, pc, my>>

AutoClose(t) ==
  /\ Runs("resolve")
  /\ state[t] = "RESOLVED"
  /\ state' = [state EXCEPT ![t] = "CLOSED"]
  /\ UNCHANGED <<owner, agentVars, limit, rowVars, pc, my>>

-----------------------------------------------------------------------------
(* Presence: POST /workload/availability, PATCH /agents/:id isAvailable, and *)
(* onAvailabilityChanged.  `away' keeps which way the clocks are to go.      *)

OpenTicketsOf(a) == {t \in Tickets : owner[t] = a /\ state[t] = "OPEN"}

(* applyAvailabilityState, by the agent or by an administrator: online       *)
(* {T,T}, unavailable {T,F} or offline {F,F}.                                *)
SetState(w, a, on, acc) ==
  /\ Starts(w, "presence")
  /\ on => acc
  /\ active'    = [active EXCEPT ![a] = acc]
  /\ available' = [available EXCEPT ![a] = on]
  /\ Become(w, "listPending", [Blank EXCEPT !.agent = a, !.away = ~on])
  /\ UNCHANGED <<tickVars, limit, rowVars>>

(* An agent who goes unavailable hands on open tickets before the columns    *)
(* change.                                                                   *)
StartGoUnavailable(w, a) ==
  /\ Starts(w, "presence")
  /\ active[a]
  /\ Become(w, "shed", [Blank EXCEPT !.agent = a, !.tkts = OpenTicketsOf(a),
                                     !.away = TRUE, !.back = "goUnavailable"])
  /\ UNCHANGED <<tickVars, agentVars, limit, rowVars>>

GoUnavailable(w) ==
  /\ At(w, "goUnavailable")
  /\ active'    = [active EXCEPT ![my[w].agent] = TRUE]
  /\ available' = [available EXCEPT ![my[w].agent] = FALSE]
  /\ Become(w, "listPending", my[w])
  /\ UNCHANGED <<tickVars, limit, rowVars>>

(* An administrator's PATCH writes the column first. *)
PatchAvailable(w, a) ==
  /\ Starts(w, "presence")
  /\ available' = [available EXCEPT ![a] = ~@]
  /\ IF available[a]
     THEN Become(w, "shed", [Blank EXCEPT !.agent = a, !.tkts = OpenTicketsOf(a),
                                          !.away = TRUE, !.back = "listPending"])
     ELSE Become(w, "listPending", [Blank EXCEPT !.agent = a])
  /\ UNCHANGED <<tickVars, active, limit, rowVars>>

(* reassignOpenTicketsFor: one compare-and-set per ticket, to an eligible    *)
(* agent or, when the engine finds none, to nobody.                          *)
Shed(w) ==
  /\ At(w, "shed")
  /\ \E t \in my[w].tkts :
       /\ \E b \in (Eligible \ {my[w].agent}) \cup {Null} :
            owner' = IF t \in OpenTicketsOf(my[w].agent)
                     THEN [owner EXCEPT ![t] = b] ELSE owner
       /\ Become(w, "shed", [my[w] EXCEPT !.tkts = @ \ {t}])
  /\ UNCHANGED <<state, agentVars, limit, rowVars>>

ShedEnd(w) ==
  /\ At(w, "shed")
  /\ my[w].tkts = {}
  /\ Return(w)
  /\ UNCHANGED <<tickVars, agentVars, limit, rowVars>>

(* Only the rows whose clock must change matter to the loop; `now' is read   *)
(* here, once.                                                               *)
Ticking == {"running", "due"}
Paused  == {"frozen", "spent"}

ListPending(w) ==
  /\ At(w, "listPending")
  /\ Become(w, "setClocks",
            [my[w] EXCEPT !.todo =
               {SnapWithClock(r) : r \in
                  {q \in Pending(my[w].agent) :
                     clock[q] \in IF my[w].away THEN Ticking ELSE Paused}}])
  /\ UNCHANGED <<tickVars, agentVars, limit, rowVars>>

(* Mutant: resuming clears pausedAt and leaves expiresAt null. *)
FlipToNothing(c) == CASE c = "running" -> "frozen" [] c = "due" -> "spent"
                      [] OTHER -> "none"

(* A row pauses with the time it had at `now', and resumes with the time it  *)
(* was paused with; each update expects the clock to be as it was read.      *)
Flip(c) == CASE c = "running" -> "frozen" [] c = "due"   -> "spent"
             [] c = "frozen" -> "running" [] c = "spent" -> "due"
             [] OTHER -> c

SetClocks(w) ==
  /\ At(w, "setClocks")
  /\ \E e \in my[w].todo :
       /\ clock' = IF /\ status[e.id] = "PENDING"
                      /\ clock[e.id] \in IF my[w].away THEN Ticking ELSE Paused
                   THEN [clock EXCEPT ![e.id] = Flip(e.clock)] ELSE clock
       /\ Become(w, "setClocks", [my[w] EXCEPT !.todo = @ \ {e}])
  /\ UNCHANGED <<tickVars, agentVars, limit,
                 nextId, ticketId, requestedBy, target, status>>

SetClocksEnd(w) ==
  /\ At(w, "setClocks")
  /\ my[w].todo = {}
  /\ Finish(w)
  /\ UNCHANGED <<tickVars, agentVars, limit, rowVars>>

-----------------------------------------------------------------------------
(* PATCH /agents/:id isActive: reassignOpenTicketsFor, then                  *)
(* onAgentDeactivated.  isAvailable is left as it is.                        *)

StartDeactivate(w, a) ==
  /\ Starts(w, "deactivate")
  /\ active[a]
  /\ active' = [active EXCEPT ![a] = FALSE]
  /\ Become(w, "shed", [Blank EXCEPT !.agent = a, !.tkts = OpenTicketsOf(a),
                                     !.back = "listRaised"])
  /\ UNCHANGED <<tickVars, available, limit, rowVars>>

Reactivate(a) ==
  /\ Runs("deactivate")
  /\ ~active[a]
  /\ active' = [active EXCEPT ![a] = TRUE]
  /\ UNCHANGED <<tickVars, available, limit, rowVars, pc, my>>

ListRaised(w) ==
  /\ At(w, "listRaised")
  /\ Become(w, "cancelRaised",
            [my[w] EXCEPT !.todo =
               {Snap(r) : r \in {q \in Ids : /\ requestedBy[q] = my[w].agent
                                             /\ status[q] \in Active}}])
  /\ UNCHANGED <<tickVars, agentVars, limit, rowVars>>

CancelRaised(w) ==
  /\ At(w, "cancelRaised")
  /\ \E e \in my[w].todo : CancelOne(w, e, "cancelRaised")

ListReceived(w) ==
  /\ At(w, "cancelRaised")
  /\ my[w].todo = {}
  /\ Become(w, "reroute",
            [my[w] EXCEPT !.todo =
               {Snap(r) : r \in Pending(my[w].agent) \cup Queued(my[w].agent)}])
  /\ UNCHANGED <<tickVars, agentVars, limit, rowVars>>

(* The ticket is finished, or the engine finds nobody suitable. *)
CancelReceived(w) ==
  /\ At(w, "reroute")
  /\ \E e \in my[w].todo : CancelOne(w, e, "reroute")

(* assignmentEngine.assign picks among the active, available agents, without *)
(* the deactivated one and the one who still owns the ticket.                *)
PickReplacement(w) ==
  /\ At(w, "reroute")
  /\ \E e \in my[w].todo, b \in Eligible :
       /\ state[ticketId[e.id]] = "OPEN"
       /\ b \notin {my[w].agent, requestedBy[e.id]}
       /\ Become(w, "countReplacement",
                 [my[w] EXCEPT !.id = e.id, !.to = b, !.todo = @ \ {e}])
  /\ UNCHANGED <<tickVars, agentVars, limit, rowVars>>

CountReplacement(w) ==
  /\ At(w, "countReplacement")
  /\ Become(w, "moveOffer",
            [my[w] EXCEPT !.full = Cardinality(Pending(my[w].to)) >= limit])
  /\ UNCHANGED <<tickVars, agentVars, limit, rowVars>>

(* Mutant: a rerouted offer is always made live. *)
MoveOfferLive(w) ==
  /\ At(w, "moveOffer")
  /\ LET r == my[w].id
     IN  IF status[r] \in Active /\ target[r] = my[w].agent
         THEN /\ target' = [target EXCEPT ![r] = my[w].to]
              /\ status' = [status EXCEPT ![r] = "PENDING"]
              /\ clock'  = [clock EXCEPT ![r] = "running"]
         ELSE UNCHANGED <<target, status, clock>>
  /\ Become(w, "reroute", [my[w] EXCEPT !.id = 0, !.to = Null, !.full = FALSE])
  /\ UNCHANGED <<tickVars, agentVars, limit, nextId, ticketId, requestedBy>>

(* The replacement was available when it was picked, so its clock runs. *)
MoveOffer(w) ==
  /\ At(w, "moveOffer")
  /\ LET r == my[w].id
     IN  IF status[r] \in Active /\ target[r] = my[w].agent
         THEN /\ target' = [target EXCEPT ![r] = my[w].to]
              /\ status' = [status EXCEPT ![r] = IF my[w].full THEN "QUEUED"
                                                               ELSE "PENDING"]
              /\ clock'  = [clock EXCEPT ![r] = IF my[w].full THEN "none"
                                                              ELSE "running"]
         ELSE UNCHANGED <<target, status, clock>>
  /\ Become(w, "reroute", [my[w] EXCEPT !.id = 0, !.to = Null, !.full = FALSE])
  /\ UNCHANGED <<tickVars, agentVars, limit, nextId, ticketId, requestedBy>>

RerouteEnd(w) ==
  /\ At(w, "reroute")
  /\ my[w].todo = {}
  /\ Finish(w)
  /\ UNCHANGED <<tickVars, agentVars, limit, rowVars>>

-----------------------------------------------------------------------------
(* sweepExpired, from the timer or from POST /handovers/sweep *)

StartSweep(w) ==
  /\ pc[w] = "idle"
  /\ LET due == {r \in Ids : status[r] = "PENDING" /\ clock[r] = "due"}
     IN  /\ due # {}
         /\ Become(w, "expire", [Blank EXCEPT !.todo = {Snap(r) : r \in due}])
  /\ UNCHANGED <<tickVars, agentVars, limit, rowVars>>

(* Mutant: the sweep's update expects nothing of the row's status. *)
ExpireBlindly(w) ==
  /\ At(w, "expire")
  /\ \E e \in my[w].todo :
       /\ status' = [status EXCEPT ![e.id] = "EXPIRED"]
       /\ Promote(w, [my[w] EXCEPT !.todo = @ \ {e}], e.to, "expire")
  /\ UNCHANGED <<tickVars, agentVars, limit,
                 nextId, ticketId, requestedBy, target, clock>>

(* Mutant: an expired offer's slot is not refilled. *)
ExpireOnly(w) ==
  /\ At(w, "expire")
  /\ \E e \in my[w].todo :
       /\ status' = Swap(e.id, {"PENDING"}, "EXPIRED")
       /\ Become(w, "expire", [my[w] EXCEPT !.todo = @ \ {e}])
  /\ UNCHANGED <<tickVars, agentVars, limit,
                 nextId, ticketId, requestedBy, target, clock>>

(* The update expects the status alone, not the clock. *)
Expire(w) ==
  /\ At(w, "expire")
  /\ \E e \in my[w].todo :
       LET rest == [my[w] EXCEPT !.todo = @ \ {e}]
       IN  /\ status' = Swap(e.id, {"PENDING"}, "EXPIRED")
           /\ IF status[e.id] = "PENDING"
              THEN Promote(w, rest, e.to, "expire")
              ELSE Become(w, "expire", rest)
  /\ UNCHANGED <<tickVars, agentVars, limit,
                 nextId, ticketId, requestedBy, target, clock>>

ExpireEnd(w) ==
  /\ At(w, "expire")
  /\ my[w].todo = {}
  /\ Finish(w)
  /\ UNCHANGED <<tickVars, agentVars, limit, rowVars>>

-----------------------------------------------------------------------------
(* Single statements of other handlers, and time *)

(* PATCH /tickets/:id/assign, /reassign, a claim, the rebalancer. *)
Reassign(t, b) ==
  /\ Runs("reassign")
  /\ state[t] = "OPEN" /\ b # owner[t]
  /\ owner' = [owner EXCEPT ![t] = b]
  /\ UNCHANGED <<state, agentVars, limit, rowVars, pc, my>>

(* DELETE /tickets/:id; the foreign key cascades to the offers. *)
DeleteTicket(t) ==
  /\ Runs("delete")
  /\ state[t] # "DELETED"
  /\ state' = [state EXCEPT ![t] = "DELETED"]
  /\ owner' = [owner EXCEPT ![t] = Null]
  /\ status' = [r \in Ids |-> IF status[r] # "NOROW" /\ ticketId[r] = t
                              THEN "NOROW" ELSE status[r]]
  /\ UNCHANGED <<agentVars, limit, nextId, ticketId, requestedBy, target, clock,
                 pc, my>>

(* PATCH /handovers/settings *)
SetLimit(n) ==
  /\ \E w \in Workers : pc[w] = "idle"
  /\ n # limit
  /\ limit' = n
  /\ UNCHANGED <<tickVars, agentVars, rowVars, pc, my>>

(* expiresAt passes. *)
Elapse(r) ==
  /\ status[r] = "PENDING" /\ clock[r] = "running"
  /\ clock' = [clock EXCEPT ![r] = "due"]
  /\ UNCHANGED <<tickVars, agentVars, limit,
                 nextId, ticketId, requestedBy, target, status, pc, my>>

(* A statement fails, or the process dies: what was written stays written.   *)
Fail(w) ==
  /\ MayFail
  /\ pc[w] # "idle"
  /\ Finish(w)
  /\ UNCHANGED <<tickVars, agentVars, limit, rowVars>>

-----------------------------------------------------------------------------
Init ==
  /\ owner \in [Tickets -> Agents]
  /\ state = [t \in Tickets |-> "OPEN"]
  /\ active = [a \in Agents |-> TRUE]
  /\ available = [a \in Agents |-> TRUE]
  /\ limit \in Limits
  /\ nextId = 1
  /\ status = [r \in Ids |-> "NOROW"]
  /\ ticketId = [r \in Ids |-> Null]
  /\ requestedBy = [r \in Ids |-> Null]
  /\ target = [r \in Ids |-> Null]
  /\ clock = [r \in Ids |-> "none"]
  /\ pc = [w \in Workers |-> "idle"]
  /\ my = [w \in Workers |-> Blank]

CreateStep(w)  == \/ \E t \in Tickets, a \in Agents : StartCreate(w, t, a)
                  \/ CheckTarget(w) \/ CheckExisting(w)
                  \/ CountSlots(w) \/ Insert(w)
AnswerStep(w)  == \/ \E r \in Ids : StartAccept(w, r) \/ StartDecline(w, r)
                  \/ ReadTicket(w) \/ ClaimStale(w) \/ ClaimAccepted(w)
                  \/ Move(w) \/ Undo(w) \/ Decline(w)
CancelStep(w)  == \/ \E r \in Ids : StartCancel(w, r)
                  \/ \E t \in Tickets : StartFinish(w, t)
                  \/ Cancel(w) \/ ListOffers(w)
                  \/ CancelOffers(w) \/ CancelOffersEnd(w)
PromoteStep(w) == Count(w) \/ Find(w) \/ ReadTarget(w) \/ Activate(w)
PresenceStep(w) ==
  \/ \E a \in Movers : \/ \E on, acc \in BOOLEAN : SetState(w, a, on, acc)
                       \/ StartGoUnavailable(w, a) \/ PatchAvailable(w, a)
                       \/ StartDeactivate(w, a)
  \/ GoUnavailable(w) \/ Shed(w) \/ ShedEnd(w)
  \/ ListPending(w) \/ SetClocks(w) \/ SetClocksEnd(w)
RerouteStep(w) == \/ ListRaised(w) \/ CancelRaised(w) \/ ListReceived(w)
                  \/ CancelReceived(w) \/ PickReplacement(w)
                  \/ CountReplacement(w) \/ MoveOffer(w) \/ RerouteEnd(w)
SweepStep(w)   == StartSweep(w) \/ Expire(w) \/ ExpireEnd(w)

Worker(w) == \/ CreateStep(w) \/ AnswerStep(w) \/ CancelStep(w) \/ PromoteStep(w)
             \/ PresenceStep(w) \/ RerouteStep(w) \/ SweepStep(w) \/ Fail(w)

Environment ==
  \/ \E t \in Tickets : \/ Reopen(t) \/ AutoClose(t) \/ DeleteTicket(t)
                        \/ \E b \in Owners : Reassign(t, b)
  \/ \E a \in Movers : Reactivate(a)
  \/ \E n \in Limits : SetLimit(n)
  \/ \E r \in Ids : Elapse(r)

Next == Environment \/ \E w \in Workers : Worker(w)

Spec == Init /\ [][Next]_vars

-----------------------------------------------------------------------------
(* Properties *)

(* Every variable has its type. *)
TypeOK ==
  /\ owner \in [Tickets -> Owners]
  /\ state \in [Tickets -> States]
  /\ active \in [Agents -> BOOLEAN]
  /\ available \in [Agents -> BOOLEAN]
  /\ limit \in Limits
  /\ nextId \in Nat
  /\ status \in [Ids -> Statuses]
  /\ ticketId \in [Ids -> Tickets \cup {Null}]
  /\ requestedBy \in [Ids -> Owners]
  /\ target \in [Ids -> Owners]
  /\ clock \in [Ids -> Clocks]
  /\ pc \in [Workers -> Labels]
  /\ my \in [Workers -> Locals]

(* No handler is under way. *)
Idle == \A w \in Workers : pc[w] = "idle"

(* The accept handler `w' has claimed offer r and not yet settled it. *)
Settling(w, r) == pc[w] \in {"move", "undo"} /\ my[w].id = r

(* "exactly one caller can move it out of PENDING" (claim): of several       *)
(* handlers answering one offer at most one is ever past its claim, and      *)
(* while it is, the row says ACCEPTED unless its ticket was deleted.         *)
AnsweredOnce ==
  \A w \in Workers, r \in Ids :
    Settling(w, r) =>
      /\ status[r] \in {"ACCEPTED", "NOROW"}
      /\ \A v \in Workers \ {w} : ~Settling(v, r)

KeepAnswers ==
  \A r \in Ids :
    status[r] \in Terminal =>
      \/ status'[r] \in {status[r], "NOROW"}
      \/ /\ status[r] = "ACCEPTED" /\ status'[r] = "CANCELLED"
         /\ \E w \in Workers : Settling(w, r) /\ pc[w] = "undo" /\ pc'[w] # "undo"

(* An answer is final: whatever handlers race, a finished offer keeps its    *)
(* outcome, except that the very accept that won the claim and then lost the *)
(* ticket turns it into CANCELLED (accept, !outcome.moved).                  *)
AnswersFinal == [][KeepAnswers]_vars

(* "Never more than handoverPendingLimit": no step raises a recipient's      *)
(* PENDING offers above the limit (createRequest, promoteQueue, reroute).    *)
SlotLimit ==
  [][\A a \in Agents :
       Cardinality(Pending(a)') > Cardinality(Pending(a))
         => Cardinality(Pending(a)') <= limit]_vars

(* "One offer at a time per ticket" (createRequest). *)
OneOffer == \A t \in Tickets : Cardinality(OffersFor(t)) <= 1

(* FIFO (promoteQueue): an offer leaves the queue for a slot only when no    *)
(* older offer waits for the same recipient.                                 *)
FifoPromotion ==
  [][\A r \in Ids :
       /\ status[r] = "QUEUED" /\ status'[r] = "PENDING"
       /\ target'[r] = target[r]
       => \A q \in Queued(target[r]) : r <= q]_vars

(* "A slot has opened, so this request is now waiting for your answer": once *)
(* handlers are done nobody waits in a queue while the recipient has a slot. *)
NoStrandedQueue ==
  Idle => \A a \in Agents : Queued(a) # {} => Cardinality(Pending(a)) >= limit

(* "Requirement 4: the expiry timer pauses while the recipient is            *)
(* unavailable and resumes when they are back".                              *)
PausedWhileAway ==
  Idle => \A r \in Ids :
    status[r] = "PENDING" =>
      /\ ~available[target[r]] => clock[r] \in Paused
      /\ ~Away(target[r]) => clock[r] \in Ticking

(* "a ticket that reaches RESOLVED or CLOSED cancels any handover still      *)
(* awaiting an answer" (cancelForTicket).                                    *)
NoOfferOnFinished ==
  Idle => \A t \in Tickets : state[t] # "OPEN" => OffersFor(t) = {}

-----------------------------------------------------------------------------
(* The abstract offer.  A claimed offer is open until its accept settles it. *)

InHand(r) == \/ status[r] \in Active
             \/ status[r] = "ACCEPTED" /\ \E w \in Workers : Settling(w, r)

OfferFate ==
  [r \in Ids |->
     IF status[r] = "NOROW" THEN IF r < nextId THEN "deleted" ELSE "none"
     ELSE IF InHand(r) THEN "open"
     ELSE IF status[r] = "ACCEPTED" THEN "transferred" ELSE "closed"]

Offer == INSTANCE HandoverOffer
           WITH Offers <- Ids, fate <- OfferFate, about <- ticketId,
                from <- requestedBy

(* Handlers, whatever their interleaving, keep the promise of an offer: it   *)
(* ends once, and it moves the ticket exactly when it ends ACCEPTED, from    *)
(* the agent who offered it.                                                 *)
OfferKept == Offer!Spec

-----------------------------------------------------------------------------
(* Fairness.  A handler that has begun runs on: the event loop resumes it    *)
(* after each statement.  The sweep timer fires for ever, and time passes.   *)
(* Nothing makes a person create, answer, cancel or change presence.         *)
Continues(w) ==
  \/ CheckTarget(w) \/ CheckExisting(w) \/ CountSlots(w) \/ Insert(w)
  \/ ReadTicket(w) \/ ClaimStale(w) \/ ClaimAccepted(w) \/ Move(w) \/ Undo(w)
  \/ Decline(w) \/ Cancel(w) \/ ListOffers(w) \/ CancelOffers(w)
  \/ CancelOffersEnd(w) \/ PromoteStep(w) \/ GoUnavailable(w) \/ Shed(w)
  \/ ShedEnd(w) \/ ListPending(w) \/ SetClocks(w) \/ SetClocksEnd(w)
  \/ RerouteStep(w) \/ Expire(w) \/ ExpireEnd(w)

Fairness ==
  /\ \A w \in Workers : WF_vars(Continues(w)) /\ SF_vars(StartSweep(w))
  /\ \A r \in Ids : WF_vars(Elapse(r))

FairSpec == Spec /\ Fairness

(* No offer waits for ever on a recipient who is there: it is answered,      *)
(* withdrawn or expires, or its recipient goes away and its clock stops.     *)
PendingEnds ==
  \A r \in Ids : (status[r] = "PENDING") ~> (status[r] # "PENDING" \/ clock[r] \in Paused)

(* The queue moves: a queued offer leaves the queue unless the slots of its  *)
(* recipient are held by offers whose clock is paused.                       *)
QueueMoves ==
  \A r \in Ids :
    (status[r] = "QUEUED") ~>
      \/ status[r] # "QUEUED"
      \/ \E q \in Pending(target[r]) : clock[q] \in Paused

=============================================================================
