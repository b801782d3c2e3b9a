------------------------- MODULE HandoverRefinement -------------------------
(* Handover implements HandoverOffer, for any agents, tickets, workers and   *)
(* bounds, as long as no handler is abandoned half way (~MayFail): an accept *)
(* that stops after its claim leaves an ACCEPTED offer whose ticket has not  *)
(* moved.                                                                    *)
EXTENDS HandoverProofs

(* Labels at which a handler is bound to what it has loaded. *)
RerouteLabels == {"countReplacement", "moveOffer"}
Settles == {"move", "undo"}
Holding == AnswerLabels \cup CreateLabels \cup RerouteLabels

(* A row that was ever created names a ticket and a recipient, who is not    *)
(* the requester.                                                            *)
RowsNamed ==
  \A r \in Ids :
    IF r < nextId
    THEN ticketId[r] \in Tickets /\ target[r] \in Agents \ {requestedBy[r]}
    ELSE ticketId[r] = Null

(* What a handler holds while it is at such a label. *)
Loaded ==
  \A w \in Workers :
    /\ pc[w] \in CreateLabels => /\ my[w].agent \in Agents
                                 /\ my[w].to \in Agents \ {my[w].agent}
    /\ pc[w] \in RerouteLabels => /\ my[w].id \in Ids /\ my[w].id < nextId
                                  /\ my[w].to \in Agents \ {requestedBy[my[w].id]}
    /\ pc[w] \in AnswerLabels => /\ my[w].tkts = {ticketId[my[w].id]}
                                 /\ my[w].agent = requestedBy[my[w].id]
                                 /\ my[w].to \in Agents \ {my[w].agent}

(* A loop goes over rows that were created. *)
TodoKnown == \A w \in Workers : \A e \in my[w].todo : e.id \in Ids /\ e.id < nextId

RefInv == TypeInv /\ ClaimInv /\ RowsNamed /\ Loaded /\ TodoKnown

(* A step of the abstract offer, or a stutter. *)
Faithful == [Offer!Next]_(Offer!vars)

(* Nobody comes to one of those labels, or leaves an accept half way. *)
Calm == \A v \in Workers : pc[v] \in Settles \/ pc'[v] \in Holding =>
                             pc'[v] = pc[v] /\ my'[v] = my[v]

SettlesKept == \A v \in Workers, r \in Ids : Settling(v, r)' <=> Settling(v, r)

RowsKept == UNCHANGED <<nextId, ticketId, requestedBy, target>>

-----------------------------------------------------------------------------
(* Loops: a handler adds to its list only rows that are there. *)

TodoGrows ==
  \A v \in Workers : \A e \in my'[v].todo :
    e \in my[v].todo \/ (e.id \in Ids /\ status[e.id] # "NOROW")

LEMMA BecomeTodo ==
  ASSUME TypeInv, NEW w \in Workers, NEW l, NEW rec, Become(w, l, rec),
         \A e \in rec.todo :
           e \in my[w].todo \/ (e.id \in Ids /\ status[e.id] # "NOROW")
  PROVE  TodoGrows
BY DEF Become, TodoGrows, TypeInv, TypeOK

LEMMA FinishTodo ==
  ASSUME TypeInv, NEW w \in Workers, Finish(w)
  PROVE  TodoGrows
BY BecomeTodo DEF Finish, Blank

LEMMA PromoteTodo ==
  ASSUME TypeInv, NEW w \in Workers, NEW rec \in Locals, NEW a, NEW ret,
         Promote(w, rec, a, ret), rec.todo \subseteq my[w].todo
  PROVE  TodoGrows
<1>1. [rec EXCEPT !.to = a, !.back = ret, !.lim = limit, !.tries = limit].todo = rec.todo
  BY DEF Locals
<1> QED
  BY <1>1, BecomeTodo DEF Promote

LEMMA ReturnTodo ==
  ASSUME TypeInv, NEW w \in Workers, Return(w)
  PROVE  TodoGrows
<1>1. [my[w] EXCEPT !.to = Null, !.id = 0, !.full = FALSE,
                    !.lim = 0, !.tries = 0, !.back = "idle"].todo = my[w].todo
  BY DEF TypeInv, TypeOK, Locals
<1> QED
  BY <1>1, BecomeTodo, FinishTodo DEF Return

LEMMA CancelOneTodo ==
  ASSUME TypeInv, NEW w \in Workers, NEW e \in my[w].todo, NEW ret, CancelOne(w, e, ret)
  PROVE  TodoGrows
<1> DEFINE rest == [my[w] EXCEPT !.todo = @ \ {e}]
<1>1. rest \in Locals /\ rest.todo \subseteq my[w].todo
  BY DEF TypeInv, TypeOK, Locals
<1> QED
  BY <1>1, BecomeTodo, PromoteTodo DEF CancelOne

LEMMA ListTodo ==
  ASSUME TypeInv, NEW w \in Workers, NEW l, NEW T,
         \/ Become(w, l, [my[w] EXCEPT !.todo = T])
         \/ Become(w, l, [Blank EXCEPT !.todo = T]),
         \A e \in T : e.id \in Ids /\ status[e.id] \in Active
  PROVE  TodoGrows
<1>1. [my[w] EXCEPT !.todo = T].todo = T /\ [Blank EXCEPT !.todo = T].todo = T
  BY DEF TypeInv, TypeOK, Locals, Blank
<1>2. \A e \in T : status[e.id] # "NOROW"
  BY DEF Active
<1> QED
  BY <1>1, <1>2, BecomeTodo

(* The steps that list. *)
LEMMA ListStepsTodo ==
  ASSUME TypeInv, NEW w \in Workers,
         \/ \E r \in Ids : StartCancel(w, r)
         \/ ListOffers(w) \/ ListPending(w) \/ ListRaised(w) \/ ListReceived(w)
         \/ StartSweep(w)
  PROVE  TodoGrows
<1>1. \A r \in Ids : Snap(r).id = r /\ SnapWithClock(r).id = r
  BY DEF Snap, SnapWithClock
<1>2. ASSUME NEW r \in Ids, StartCancel(w, r)
      PROVE  TodoGrows
  <2>1. \A e \in {Snap(r)} : e.id \in Ids /\ status[e.id] \in Active
    BY <1>1, <1>2 DEF StartCancel
  <2> QED
    BY <1>2, <2>1, ListTodo DEF StartCancel
<1>3. ASSUME NEW t, Become(w, "cancelOffers",
                           [Blank EXCEPT !.todo = {Snap(r) : r \in OffersFor(t)}])
      PROVE  TodoGrows
  <2> DEFINE T == {Snap(r) : r \in OffersFor(t)}
  <2>1. \A e \in T : e.id \in Ids /\ status[e.id] \in Active
    BY <1>1 DEF OffersFor
  <2>2. Become(w, "cancelOffers", [Blank EXCEPT !.todo = T])
    BY <1>3
  <2> HIDE DEF T
  <2> QED
    BY <2>1, <2>2, ListTodo
<1>4. CASE ListPending(w)
  <2> DEFINE T == {SnapWithClock(r) : r \in
                     {q \in Pending(my[w].agent) :
                        clock[q] \in IF my[w].away THEN Ticking ELSE Paused}}
  <2>1. \A e \in T : e.id \in Ids /\ status[e.id] \in Active
    BY <1>1 DEF Pending, Active
  <2>2. Become(w, "setClocks", [my[w] EXCEPT !.todo = T])
    BY <1>4 DEF ListPending
  <2> HIDE DEF T
  <2> QED
    BY <2>1, <2>2, ListTodo
<1>5. CASE ListRaised(w)
  <2> DEFINE T == {Snap(r) : r \in {q \in Ids : /\ requestedBy[q] = my[w].agent
                                               /\ status[q] \in Active}}
  <2>1. \A e \in T : e.id \in Ids /\ status[e.id] \in Active
    BY <1>1
  <2>2. Become(w, "cancelRaised", [my[w] EXCEPT !.todo = T])
    BY <1>5 DEF ListRaised
  <2> HIDE DEF T
  <2> QED
    BY <2>1, <2>2, ListTodo
<1>6. CASE ListReceived(w)
  <2> DEFINE T == {Snap(r) : r \in Pending(my[w].agent) \cup Queued(my[w].agent)}
  <2>1. \A e \in T : e.id \in Ids /\ status[e.id] \in Active
    BY <1>1 DEF Pending, Queued, Active
  <2>2. Become(w, "reroute", [my[w] EXCEPT !.todo = T])
    BY <1>6 DEF ListReceived
  <2> HIDE DEF T
  <2> QED
    BY <2>1, <2>2, ListTodo
<1>7. CASE StartSweep(w)
  <2> DEFINE T == {Snap(r) : r \in {q \in Ids : status[q] = "PENDING" /\ clock[q] = "due"}}
  <2>1. \A e \in T : e.id \in Ids /\ status[e.id] \in Active
    BY <1>1 DEF Active
  <2>2. Become(w, "expire", [Blank EXCEPT !.todo = T])
    BY <1>7 DEF StartSweep
  <2> HIDE DEF T
  <2> QED
    BY <2>1, <2>2, ListTodo
<1>8. CASE ListOffers(w)
  BY <1>3, <1>8 DEF ListOffers
<1> QED
  BY <1>2, <1>4, <1>5, <1>6, <1>7, <1>8

LEMMA CreateAnswerTodo ==
  ASSUME TypeInv, NEW w \in Workers, CreateStep(w) \/ AnswerStep(w)
  PROVE  TodoGrows
<1>0. my[w] \in Locals /\ Blank \in Locals /\ Blank.todo = {}
  BY BlankLocal DEF TypeInv, TypeOK, Blank
<1>1. ASSUME NEW t \in Tickets, NEW a \in Agents, StartCreate(w, t, a)
      PROVE  TodoGrows
  BY <1>1, BecomeTodo DEF StartCreate, Blank
<1>2. CASE CheckTarget(w) \/ CheckExisting(w) \/ CountSlots(w)
  <2>1. ASSUME NEW x
        PROVE  /\ [my[w] EXCEPT !.away = x].todo = my[w].todo
               /\ [my[w] EXCEPT !.full = x].todo = my[w].todo
    BY <1>0 DEF Locals
  <2> QED
    BY <1>2, <2>1, BecomeTodo, FinishTodo DEF CheckTarget, CheckExisting, CountSlots
<1>3. CASE Insert(w)
  BY <1>3, FinishTodo DEF Insert
<1>4. ASSUME NEW r \in Ids, StartAccept(w, r) \/ StartDecline(w, r)
      PROVE  TodoGrows
  BY <1>4, BecomeTodo DEF StartAccept, StartDecline, Blank
<1>5. CASE ReadTicket(w)
  BY <1>5, BecomeTodo, FinishTodo DEF ReadTicket
<1>6. CASE ClaimStale(w) \/ ClaimAccepted(w) \/ Move(w) \/ Undo(w) \/ Decline(w)
  BY <1>0, <1>6, BecomeTodo, FinishTodo, PromoteTodo
  DEF ClaimStale, ClaimAccepted, Move, Undo, Decline
<1> QED
  BY <1>1, <1>2, <1>3, <1>4, <1>5, <1>6 DEF CreateStep, AnswerStep

LEMMA OtherStepsTodo ==
  ASSUME TypeInv, NEW w \in Workers,
         \/ CancelStep(w) \/ PromoteStep(w) \/ PresenceStep(w)
         \/ RerouteStep(w) \/ SweepStep(w) \/ Fail(w)
  PROVE  TodoGrows
<1>0. my[w] \in Locals
  BY DEF TypeInv, TypeOK
<1>1. CASE CancelStep(w)
  <2>1. ASSUME NEW t \in Tickets, StartFinish(w, t) PROVE TodoGrows
    BY <2>1, BecomeTodo DEF StartFinish, Blank
  <2>2. CASE Cancel(w) \/ CancelOffers(w)
    BY <2>2, CancelOneTodo DEF Cancel, CancelOffers
  <2>3. CASE CancelOffersEnd(w)
    BY <2>3, FinishTodo DEF CancelOffersEnd
  <2> QED
    BY <1>1, <2>1, <2>2, <2>3, ListStepsTodo DEF CancelStep
<1>2. CASE PromoteStep(w)
  <2>1. ASSUME NEW x
        PROVE  /\ [my[w] EXCEPT !.id = x].todo = my[w].todo
               /\ [my[w] EXCEPT !.away = x].todo = my[w].todo
               /\ [my[w] EXCEPT !.id = 0, !.away = FALSE, !.tries = @ - 1].todo = my[w].todo
    BY <1>0 DEF Locals
  <2>2. CASE Count(w)
    BY <2>2, BecomeTodo, ReturnTodo DEF Count
  <2>3. CASE Find(w)
    BY <2>1, <2>3, BecomeTodo, ReturnTodo DEF Find
  <2>4. CASE ReadTarget(w)
    BY <2>1, <2>4, BecomeTodo DEF ReadTarget
  <2>5. CASE Activate(w)
    BY <2>1, <2>5, BecomeTodo, ReturnTodo DEF Activate
  <2> QED
    BY <1>2, <2>2, <2>3, <2>4, <2>5 DEF PromoteStep
<1>3. CASE PresenceStep(w)
  <2>1. ASSUME NEW a \in Movers, NEW on \in BOOLEAN, NEW acc \in BOOLEAN,
               SetState(w, a, on, acc)
        PROVE  TodoGrows
    BY <2>1, BecomeTodo DEF SetState, Blank
  <2>2. ASSUME NEW a \in Movers, StartGoUnavailable(w, a) \/ StartDeactivate(w, a)
        PROVE  TodoGrows
    BY <2>2, BecomeTodo DEF StartGoUnavailable, StartDeactivate, Blank
  <2>3. ASSUME NEW a \in Movers, PatchAvailable(w, a)
        PROVE  TodoGrows
    BY <2>3, BecomeTodo DEF PatchAvailable, Blank
  <2>4. CASE GoUnavailable(w)
    BY <2>4, BecomeTodo DEF GoUnavailable
  <2>5. CASE Shed(w)
    <3>1. PICK t \in my[w].tkts : Become(w, "shed", [my[w] EXCEPT !.tkts = @ \ {t}])
      BY <2>5 DEF Shed
    <3>2. [my[w] EXCEPT !.tkts = @ \ {t}].todo = my[w].todo
      BY <1>0 DEF Locals
    <3> QED
      BY <3>1, <3>2, BecomeTodo
  <2>6. CASE SetClocks(w)
    <3>1. PICK e \in my[w].todo : Become(w, "setClocks", [my[w] EXCEPT !.todo = @ \ {e}])
      BY <2>6 DEF SetClocks
    <3>2. [my[w] EXCEPT !.todo = @ \ {e}].todo \subseteq my[w].todo
      BY <1>0 DEF Locals
    <3> QED
      BY <3>1, <3>2, BecomeTodo
  <2>7. CASE ShedEnd(w) \/ SetClocksEnd(w)
    BY <2>7, FinishTodo, ReturnTodo DEF ShedEnd, SetClocksEnd
  <2> QED
    BY <1>3, <2>1, <2>2, <2>3, <2>4, <2>5, <2>6, <2>7, ListStepsTodo DEF PresenceStep
<1>4. CASE RerouteStep(w)
  <2>1. CASE CancelRaised(w) \/ CancelReceived(w)
    BY <2>1, CancelOneTodo DEF CancelRaised, CancelReceived
  <2>2. CASE PickReplacement(w)
    <3>1. PICK e \in my[w].todo, b \in Eligible :
            Become(w, "countReplacement",
                   [my[w] EXCEPT !.id = e.id, !.to = b, !.todo = @ \ {e}])
      BY <2>2 DEF PickReplacement
    <3>2. [my[w] EXCEPT !.id = e.id, !.to = b, !.todo = @ \ {e}].todo \subseteq my[w].todo
      BY <1>0 DEF Locals
    <3> QED
      BY <3>1, <3>2, BecomeTodo
  <2>3. CASE CountReplacement(w)
    <3>1. ASSUME NEW x PROVE [my[w] EXCEPT !.full = x].todo = my[w].todo
      BY <1>0 DEF Locals
    <3> QED
      BY <2>3, <3>1, BecomeTodo DEF CountReplacement
  <2>4. CASE MoveOffer(w)
    <3>1. [my[w] EXCEPT !.id = 0, !.to = Null, !.full = FALSE].todo = my[w].todo
      BY <1>0 DEF Locals
    <3> QED
      BY <2>4, <3>1, BecomeTodo DEF MoveOffer
  <2>5. CASE RerouteEnd(w)
    BY <2>5, FinishTodo DEF RerouteEnd
  <2> QED
    BY <1>4, <2>1, <2>2, <2>3, <2>4, <2>5, ListStepsTodo DEF RerouteStep
<1>5. CASE SweepStep(w)
  <2>1. CASE Expire(w)
    <3>1. PICK e \in my[w].todo :
            \/ Promote(w, [my[w] EXCEPT !.todo = @ \ {e}], e.to, "expire")
            \/ Become(w, "expire", [my[w] EXCEPT !.todo = @ \ {e}])
      BY <2>1 DEF Expire
    <3>2. /\ [my[w] EXCEPT !.todo = @ \ {e}] \in Locals
          /\ [my[w] EXCEPT !.todo = @ \ {e}].todo \subseteq my[w].todo
      BY <1>0 DEF Locals
    <3> QED
      BY <3>1, <3>2, BecomeTodo, PromoteTodo
  <2>2. CASE ExpireEnd(w)
    BY <2>2, FinishTodo DEF ExpireEnd
  <2> QED
    BY <1>5, <2>1, <2>2, ListStepsTodo DEF SweepStep
<1>6. CASE Fail(w)
  BY <1>6, FinishTodo DEF Fail
<1> QED
  BY <1>1, <1>2, <1>3, <1>4, <1>5, <1>6

LEMMA StepTodo ==
  ASSUME RefInv, [Next]_vars
  PROVE  TodoKnown'
<1>0. TypeInv /\ ClaimInv /\ TypeInv'
  BY StepType DEF RefInv
<1>1. ASSUME NEW w \in Workers, Worker(w)
      PROVE  TodoGrows
  BY <1>0, <1>1, CreateAnswerTodo, OtherStepsTodo DEF Worker
<1>2. UNCHANGED my => TodoGrows
  BY DEF TodoGrows
<1>3. TodoGrows
  BY <1>1, <1>2
  DEF Next, Environment, Reopen, AutoClose, DeleteTicket, Reassign, Reactivate, SetLimit,
      Elapse, vars
<1>4. nextId \in Nat /\ nextId' \in Nat /\ nextId <= nextId'
  BY <1>0, StepClaim DEF RowsFinal, Undo, TypeInv, TypeOK
<1>5. \A r \in Ids : status[r] # "NOROW" => r < nextId
  BY <1>0, <1>4 DEF ClaimInv, RowsBelow, Ids
<1> QED
  BY <1>3, <1>4, <1>5 DEF RefInv, TodoKnown, TodoGrows, Ids

-----------------------------------------------------------------------------
LEMMA CalmSettles == Calm => SettlesKept
BY DEF Calm, SettlesKept, Settling, Settles, Holding, AnswerLabels

LEMMA BecomeCalm ==
  ASSUME TypeInv, NEW w \in Workers, NEW l, NEW rec, Become(w, l, rec),
         l \notin Holding, pc[w] \notin Settles
  PROVE  Calm
BY DEF Become, Calm, TypeInv, TypeOK

LEMMA FinishCalm ==
  ASSUME TypeInv, NEW w \in Workers, Finish(w), pc[w] \notin Settles
  PROVE  Calm
BY BecomeCalm DEF Finish, Holding, AnswerLabels, CreateLabels, RerouteLabels

LEMMA PromoteCalm ==
  ASSUME TypeInv, NEW w \in Workers, NEW rec, NEW a, NEW ret,
         Promote(w, rec, a, ret), pc[w] \notin Settles
  PROVE  Calm
BY BecomeCalm DEF Promote, Holding, AnswerLabels, CreateLabels, RerouteLabels

LEMMA ReturnCalm ==
  ASSUME TypeInv, NEW w \in Workers, Return(w), pc[w] \notin Settles
  PROVE  Calm
<1>1. my[w].back \notin Holding
  BY DEF TypeInv, TypeOK, Locals, Callers, Holding, AnswerLabels, CreateLabels,
         RerouteLabels
<1> QED
  BY <1>1, BecomeCalm, FinishCalm DEF Return

LEMMA CalmLoaded ==
  ASSUME RefInv, Calm, UNCHANGED <<nextId, ticketId, requestedBy>>
  PROVE  Loaded'
<1>1. \A w \in Workers : pc[w] \in AnswerLabels => my[w].id \in Ids
  BY DEF RefInv, ClaimInv, AnswersKnown
<1> QED
  BY <1>1 DEF RefInv, Loaded, Calm, Holding

LEMMA RowsNamedKept == RefInv /\ RowsKept => RowsNamed'
BY DEF RefInv, RowsNamed, RowsKept

(* The fate of an offer that no status and no accept moves. *)
LEMMA FateSame ==
  ASSUME NEW r \in Ids, nextId' = nextId, status'[r] = status[r],
         \/ status[r] # "ACCEPTED"
         \/ \A w \in Workers : Settling(w, r)' <=> Settling(w, r)
  PROVE  OfferFate'[r] = OfferFate[r]
<1>1. InHand(r)' <=> InHand(r)
  BY DEF InHand
<1> QED
  BY <1>1 DEF OfferFate

LEMMA FatesSame ==
  ASSUME SettlesKept, UNCHANGED <<nextId, status>>
  PROVE  OfferFate' = OfferFate
<1>1. \A r \in Ids : OfferFate'[r] = OfferFate[r]
  BY FateSame DEF SettlesKept
<1>2. OfferFate = [r \in Ids |-> OfferFate[r]] /\ OfferFate' = [r \in Ids |-> OfferFate'[r]]
  BY DEF OfferFate
<1> QED
  BY <1>1, <1>2

(* A step that touches no row: tickets may change hands. *)
LEMMA FrameFaithful ==
  ASSUME SettlesKept, UNCHANGED <<nextId, status, ticketId, requestedBy>>,
         \/ UNCHANGED owner
         \/ \E t \in Tickets, b \in Owners : owner' = [owner EXCEPT ![t] = b]
  PROVE  Faithful
<1>1. OfferFate' = OfferFate
  BY FatesSame
<1>2. CASE UNCHANGED owner
  BY <1>1, <1>2 DEF Faithful, Offer!vars
<1>3. CASE \E t \in Tickets, b \in Owners : owner' = [owner EXCEPT ![t] = b]
  <2>1. \E t \in Tickets : Offer!HandOn(t)
    BY <1>1, <1>3 DEF Offer!HandOn, Owners
  <2> QED
    BY <2>1 DEF Faithful, Offer!Next
<1> QED
  BY <1>2, <1>3

(* A conditional update of an active row keeps the offer open or closes it. *)
LEMMA SwapFaithful ==
  ASSUME RefInv, SettlesKept, UNCHANGED <<owner, nextId, ticketId, requestedBy>>,
         NEW r, NEW from \in SUBSET Active,
         NEW s \in Active \cup {"DECLINED", "CANCELLED", "EXPIRED"},
         status' = Swap(r, from, s)
  PROVE  Faithful
<1>0. status \in [Ids -> Statuses]
  BY DEF RefInv, TypeInv, TypeOK
<1>1. CASE r \notin Ids \/ status[r] \notin from
  BY <1>0, <1>1, FrameFaithful DEF Swap
<1>2. CASE r \in Ids /\ status[r] \in from
  <2>1. status'[r] = s /\ \A q \in Ids \ {r} : status'[q] = status[q]
    BY <1>0, <1>2 DEF Swap
  <2>2. \A q \in Ids \ {r} : OfferFate'[q] = OfferFate[q]
    BY <2>1, FateSame DEF SettlesKept
  <2>3. OfferFate[r] = "open"
    BY <1>2 DEF OfferFate, InHand, Active
  <2>4. CASE s \in Active
    <3>1. OfferFate'[r] = "open"
      BY <1>2, <2>1, <2>4 DEF OfferFate, InHand, Active
    <3>2. OfferFate' = OfferFate
      BY <2>2, <2>3, <3>1 DEF OfferFate
    <3> QED
      BY <3>2 DEF Faithful, Offer!vars
  <2>5. CASE s \notin Active
    <3>1. OfferFate'[r] = "closed"
      BY <1>2, <2>1, <2>5 DEF OfferFate, InHand, Active
    <3>2. OfferFate' = [OfferFate EXCEPT ![r] = "closed"]
      BY <2>2, <3>1 DEF OfferFate
    <3>3. Offer!Close(r)
      BY <2>3, <3>2 DEF Offer!Close
    <3> QED
      BY <1>2, <3>3 DEF Faithful, Offer!Next
  <2> QED
    BY <2>4, <2>5
<1> QED
  BY <1>1, <1>2

(* The two together, for the steps that come to no label of Holding. *)
Kept == RowsNamed' /\ Loaded' /\ Faithful

LEMMA FrameKept ==
  ASSUME RefInv, Calm, RowsKept, UNCHANGED status,
         \/ UNCHANGED owner
         \/ \E t \in Tickets, b \in Owners : owner' = [owner EXCEPT ![t] = b]
  PROVE  Kept
BY CalmSettles, CalmLoaded, RowsNamedKept, FrameFaithful DEF Kept, RowsKept

LEMMA SwapKept ==
  ASSUME RefInv, Calm, RowsKept, UNCHANGED owner, NEW r,
         NEW from \in SUBSET Active,
         NEW s \in Active \cup {"DECLINED", "CANCELLED", "EXPIRED"},
         status' = Swap(r, from, s)
  PROVE  Kept
BY CalmSettles, CalmLoaded, RowsNamedKept, SwapFaithful DEF Kept, RowsKept

LEMMA CancelOneKept ==
  ASSUME RefInv, NEW w \in Workers, NEW e \in my[w].todo, NEW ret \in Callers,
         CancelOne(w, e, ret), pc[w] \notin Settles
  PROVE  Kept
<1>1. Calm
  BY BecomeCalm, PromoteCalm
  DEF CancelOne, Callers, Holding, AnswerLabels, CreateLabels, RerouteLabels, RefInv
<1> QED
  BY <1>1, SwapKept DEF CancelOne, RowsKept, tickVars

-----------------------------------------------------------------------------
(* Handlers that neither raise, accept nor reroute an offer. *)

LEMMA CancelStepKept ==
  ASSUME RefInv, NEW w \in Workers, CancelStep(w)
  PROVE  Kept
<1>0. TypeInv
  BY DEF RefInv
<1>1. CASE Cancel(w) \/ CancelOffers(w)
  <2>1. pc[w] \notin Settles
    BY <1>1 DEF Cancel, CancelOffers, At, Settles
  <2> QED
    BY <1>1, <2>1, CancelOneKept DEF Cancel, CancelOffers, Callers
<1>2. CASE \/ \E r \in Ids : StartCancel(w, r)
           \/ \E t \in Tickets : StartFinish(w, t)
           \/ ListOffers(w) \/ CancelOffersEnd(w)
  <2>1. pc[w] \notin Settles
    BY <1>2 DEF StartCancel, StartFinish, ListOffers, CancelOffersEnd, Starts, At, Settles
  <2>2. Calm
    BY <1>0, <1>2, <2>1, BecomeCalm, FinishCalm
    DEF StartCancel, StartFinish, ListOffers, CancelOffersEnd, Holding, AnswerLabels,
        CreateLabels, RerouteLabels
  <2> QED
    BY <1>2, <2>2, FrameKept
    DEF StartCancel, StartFinish, ListOffers, CancelOffersEnd, rowVars, tickVars, RowsKept
<1> QED
  BY <1>1, <1>2 DEF CancelStep

LEMMA PromoteStepKept ==
  ASSUME RefInv, NEW w \in Workers, PromoteStep(w)
  PROVE  Kept
<1>0. TypeInv
  BY DEF RefInv
<1>1. pc[w] \notin Settles
  BY DEF PromoteStep, Count, Find, ReadTarget, Activate, At, Settles
<1>2. {"count", "find", "readTarget", "activate"} \cap Holding = {}
  BY DEF Holding, AnswerLabels, CreateLabels, RerouteLabels
<1>3. Calm
  <2>1. Count(w) => Calm
    BY <1>0, <1>1, <1>2, BecomeCalm, ReturnCalm DEF Count
  <2>2. Find(w) => Calm
    BY <1>0, <1>1, <1>2, BecomeCalm, ReturnCalm DEF Find
  <2>3. ReadTarget(w) => Calm
    BY <1>0, <1>1, <1>2, BecomeCalm DEF ReadTarget
  <2>4. Activate(w) => Calm
    BY <1>0, <1>1, <1>2, BecomeCalm, ReturnCalm DEF Activate
  <2> QED
    BY <2>1, <2>2, <2>3, <2>4 DEF PromoteStep
<1>4. CASE Count(w) \/ Find(w) \/ ReadTarget(w)
  BY <1>3, <1>4, FrameKept DEF Count, Find, ReadTarget, rowVars, tickVars, RowsKept
<1>5. CASE Activate(w)
  <2>1. status' = Swap(my[w].id, {"QUEUED"}, "PENDING")
    BY <1>5 DEF Activate, Swap
  <2> QED
    BY <1>3, <1>5, <2>1, SwapKept DEF Activate, tickVars, RowsKept, Active
<1> QED
  BY <1>4, <1>5 DEF PromoteStep

LEMMA PresenceStepKept ==
  ASSUME RefInv, NEW w \in Workers, PresenceStep(w)
  PROVE  Kept
<1>0. TypeInv
  BY DEF RefInv
<1>1. pc[w] \notin Settles
  BY DEF PresenceStep, SetState, StartGoUnavailable, PatchAvailable, StartDeactivate,
         GoUnavailable, Shed, ShedEnd, ListPending, SetClocks, SetClocksEnd, Starts, At,
         Settles
<1>2. {"shed", "listPending", "setClocks"} \cap Holding = {}
  BY DEF Holding, AnswerLabels, CreateLabels, RerouteLabels
<1>3. Calm
  <2>1. ASSUME NEW a \in Movers, NEW on \in BOOLEAN, NEW acc \in BOOLEAN,
               SetState(w, a, on, acc)
        PROVE  Calm
    BY <1>0, <1>1, <1>2, <2>1, BecomeCalm DEF SetState
  <2>2. ASSUME NEW a \in Movers, StartGoUnavailable(w, a) \/ StartDeactivate(w, a)
        PROVE  Calm
    BY <1>0, <1>1, <1>2, <2>2, BecomeCalm DEF StartGoUnavailable, StartDeactivate
  <2>3. ASSUME NEW a \in Movers, PatchAvailable(w, a)
        PROVE  Calm
    BY <1>0, <1>1, <1>2, <2>3, BecomeCalm DEF PatchAvailable
  <2>4. CASE GoUnavailable(w) \/ ListPending(w)
    BY <1>0, <1>1, <1>2, <2>4, BecomeCalm DEF GoUnavailable, ListPending
  <2>5. CASE Shed(w)
    BY <1>0, <1>1, <1>2, <2>5, BecomeCalm DEF Shed
  <2>6. CASE SetClocks(w)
    BY <1>0, <1>1, <1>2, <2>6, BecomeCalm DEF SetClocks
  <2>7. CASE ShedEnd(w) \/ SetClocksEnd(w)
    BY <1>0, <1>1, <2>7, FinishCalm, ReturnCalm DEF ShedEnd, SetClocksEnd
  <2> QED
    BY <2>1, <2>2, <2>3, <2>4, <2>5, <2>6, <2>7 DEF PresenceStep
<1>4. RowsKept /\ UNCHANGED status
  BY DEF PresenceStep, SetState, StartGoUnavailable, PatchAvailable, StartDeactivate,
         GoUnavailable, Shed, ShedEnd, ListPending, SetClocks, SetClocksEnd, rowVars,
         RowsKept
<1>5. CASE Shed(w)
  <2>1. my[w].tkts \subseteq Tickets /\ Eligible \cup {Null} \subseteq Owners
    BY <1>0 DEF TypeInv, TypeOK, Locals, Eligible, Owners
  <2>2. \/ UNCHANGED owner
        \/ \E t \in Tickets, b \in Owners : owner' = [owner EXCEPT ![t] = b]
    BY <1>5, <2>1 DEF Shed
  <2> QED
    BY <1>3, <1>4, <2>2, FrameKept
<1>6. CASE ~Shed(w)
  <2>1. UNCHANGED owner
    BY <1>6
    DEF PresenceStep, SetState, StartGoUnavailable, PatchAvailable, StartDeactivate,
        GoUnavailable, ShedEnd, ListPending, SetClocks, SetClocksEnd, tickVars
  <2> QED
    BY <1>3, <1>4, <2>1, FrameKept
<1> QED
  BY <1>5, <1>6

LEMMA SweepStepKept ==
  ASSUME RefInv, NEW w \in Workers, SweepStep(w)
  PROVE  Kept
<1>0. TypeInv
  BY DEF RefInv
<1>1. pc[w] \notin Settles
  BY DEF SweepStep, StartSweep, Expire, ExpireEnd, At, Settles
<1>2. "expire" \notin Holding
  BY DEF Holding, AnswerLabels, CreateLabels, RerouteLabels
<1>3. CASE Expire(w)
  <2>1. Calm
    BY <1>0, <1>1, <1>2, <1>3, BecomeCalm, PromoteCalm DEF Expire
  <2> QED
    BY <1>3, <2>1, SwapKept DEF Expire, Active, tickVars, RowsKept
<1>4. CASE StartSweep(w) \/ ExpireEnd(w)
  <2>1. Calm
    BY <1>0, <1>1, <1>2, <1>4, BecomeCalm, FinishCalm DEF StartSweep, ExpireEnd
  <2> QED
    BY <1>4, <2>1, FrameKept DEF StartSweep, ExpireEnd, rowVars, tickVars, RowsKept
<1> QED
  BY <1>3, <1>4 DEF SweepStep

LEMMA EnvironmentKept ==
  ASSUME RefInv, Environment
  PROVE  Kept
<1>0. TypeInv /\ RowsNamed
  BY DEF RefInv
<1>1. Calm /\ RowsKept
  BY DEF Environment, Reopen, AutoClose, DeleteTicket, Reassign, Reactivate, SetLimit,
         Elapse, Calm, RowsKept, rowVars
<1>2. ASSUME NEW t \in Tickets, DeleteTicket(t)
      PROVE  Kept
  <2>1. \A r \in Ids : OfferFate'[r] = IF ticketId[r] = t THEN "deleted"
                                                         ELSE OfferFate[r]
    <3> SUFFICES ASSUME NEW r \in Ids
                 PROVE  OfferFate'[r] = IF ticketId[r] = t THEN "deleted"
                                                           ELSE OfferFate[r]
      OBVIOUS
    <3>1. CASE ticketId[r] = t
      <4>1. r < nextId
        BY <1>0, <3>1, HandoverAssumption DEF RowsNamed
      <4>2. status'[r] = "NOROW" /\ nextId' = nextId
        BY <1>2, <3>1 DEF DeleteTicket
      <4> QED
        BY <3>1, <4>1, <4>2 DEF OfferFate
    <3>2. CASE ticketId[r] # t
      <4>1. status'[r] = status[r] /\ nextId' = nextId
        BY <1>2, <3>2 DEF DeleteTicket
      <4> QED
        BY <1>1, <3>2, <4>1, CalmSettles, FateSame DEF SettlesKept
    <3> QED
      BY <3>1, <3>2
  <2>2. OfferFate' = [r \in Ids |-> IF ticketId[r] = t THEN "deleted" ELSE OfferFate[r]]
    BY <2>1 DEF OfferFate
  <2>3. Offer!Delete(t)
    BY <1>2, <2>2 DEF DeleteTicket, Offer!Delete
  <2> QED
    BY <1>1, <2>3, CalmLoaded, RowsNamedKept DEF Kept, RowsKept, Faithful, Offer!Next
<1>3. ASSUME NEW t \in Tickets, NEW b \in Owners, Reassign(t, b)
      PROVE  Kept
  BY <1>1, <1>3, FrameKept DEF RefInv, Reassign, rowVars
<1>4. UNCHANGED <<owner, status>> => Kept
  BY <1>1, FrameKept DEF RefInv
<1> QED
  BY <1>2, <1>3, <1>4
  DEF Environment, Reopen, AutoClose, Reactivate, SetLimit, Elapse, tickVars, rowVars

-----------------------------------------------------------------------------
(* Raising and rerouting. *)

(* A handler steps on with what it has loaded. *)
LEMMA BecomeLoaded ==
  ASSUME RefInv, NEW w \in Workers, NEW l \in CreateLabels \cup RerouteLabels, NEW rec,
         Become(w, l, rec), pc[w] \notin Settles,
         l \in CreateLabels => rec.agent \in Agents /\ rec.to \in Agents \ {rec.agent},
         l \in RerouteLabels => /\ rec.id \in Ids /\ rec.id < nextId
                               /\ rec.to \in Agents \ {requestedBy[rec.id]},
         UNCHANGED <<nextId, ticketId, requestedBy>>
  PROVE  Loaded' /\ SettlesKept
<1>1. /\ pc'[w] = l /\ my'[w] = rec
      /\ \A v \in Workers \ {w} : pc'[v] = pc[v] /\ my'[v] = my[v]
  BY DEF RefInv, TypeInv, TypeOK, Become
<1>2. l \notin AnswerLabels /\ l \notin Settles
  BY DEF CreateLabels, RerouteLabels, AnswerLabels, Settles
<1>3. Loaded'
  <2>0. \A v \in Workers : pc[v] \in AnswerLabels => my[v].id \in Ids
    BY DEF RefInv, ClaimInv, AnswersKnown
  <2>1. CreateLabels \cap RerouteLabels = {}
    BY DEF CreateLabels, RerouteLabels
  <2> QED
    BY <1>1, <1>2, <2>0, <2>1 DEF RefInv, Loaded
<1>4. SettlesKept
  BY <1>1, <1>2 DEF SettlesKept, Settling, Settles
<1> QED
  BY <1>3, <1>4

LEMMA CreateStepKept ==
  ASSUME RefInv, NEW w \in Workers, CreateStep(w)
  PROVE  Kept
<1>0. /\ TypeInv /\ ClaimInv /\ RowsNamed /\ Loaded
      /\ my[w] \in Locals /\ nextId \in Nat
      /\ ticketId \in [Ids -> Tickets \cup {Null}] /\ requestedBy \in [Ids -> Owners]
      /\ target \in [Ids -> Owners] /\ status \in [Ids -> Statuses]
  BY DEF RefInv, TypeInv, TypeOK
<1>1. pc[w] \notin Settles
  BY DEF CreateStep, StartCreate, CheckTarget, CheckExisting, CountSlots, Insert, Starts,
         At, Settles
<1>2. ASSUME NEW t \in Tickets, NEW a \in Agents, StartCreate(w, t, a)
      PROVE  Kept
  <2>1. Loaded' /\ SettlesKept
    BY <1>1, <1>2, BecomeLoaded DEF StartCreate, Blank, CreateLabels, RerouteLabels, rowVars
  <2> QED
    BY <1>2, <2>1, RowsNamedKept, FrameFaithful
    DEF StartCreate, Kept, RowsKept, rowVars, tickVars
<1>3. CASE CheckTarget(w) \/ CheckExisting(w) \/ CountSlots(w)
  <2>1. my[w].agent \in Agents /\ my[w].to \in Agents \ {my[w].agent}
    BY <1>0, <1>3 DEF CheckTarget, CheckExisting, CountSlots, At, CreateLabels, Loaded
  <2>2. UNCHANGED <<tickVars, agentVars, limit, rowVars>>
    BY <1>3 DEF CheckTarget, CheckExisting, CountSlots
  <2>3. Finish(w) => Kept
    BY <1>0, <1>1, <2>2, FinishCalm, FrameKept DEF RowsKept, rowVars, tickVars
  <2>4. ASSUME NEW l \in CreateLabels, NEW rec \in Locals, Become(w, l, rec),
               rec.agent = my[w].agent, rec.to = my[w].to
        PROVE  Kept
    <3>1. Loaded' /\ SettlesKept
      BY <1>1, <2>1, <2>2, <2>4, BecomeLoaded DEF rowVars, CreateLabels, RerouteLabels
    <3> QED
      BY <2>2, <3>1, RowsNamedKept, FrameFaithful DEF Kept, RowsKept, rowVars, tickVars
  <2>5. ASSUME NEW x \in BOOLEAN
        PROVE  /\ [my[w] EXCEPT !.away = x] \in Locals
               /\ [my[w] EXCEPT !.away = x].agent = my[w].agent
               /\ [my[w] EXCEPT !.away = x].to = my[w].to
               /\ [my[w] EXCEPT !.full = x] \in Locals
               /\ [my[w] EXCEPT !.full = x].agent = my[w].agent
               /\ [my[w] EXCEPT !.full = x].to = my[w].to
    BY <1>0 DEF Locals
  <2>6. CheckTarget(w) => Kept
    <3>1. Away(my[w].to) \in BOOLEAN /\ "checkExisting" \in CreateLabels
      BY DEF Away, CreateLabels
    <3> QED
      BY <2>3, <2>4, <2>5, <3>1 DEF CheckTarget
  <2>7. CheckExisting(w) => Kept
    BY <1>0, <2>3, <2>4 DEF CheckExisting, CreateLabels
  <2>8. CountSlots(w) => Kept
    <3>1. (Cardinality(Pending(my[w].to)) >= limit) \in BOOLEAN /\ "insert" \in CreateLabels
      BY DEF CreateLabels
    <3> QED
      BY <2>4, <2>5, <3>1 DEF CountSlots
  <2> QED
    BY <1>3, <2>6, <2>7, <2>8
<1>4. CASE Insert(w)
  <2>1. Calm
    BY <1>0, <1>1, <1>4, FinishCalm DEF Insert
  <2>2. nextId \in Ids /\ UNCHANGED owner
    BY <1>4 DEF Insert, tickVars
  <2>3. CASE UNCHANGED rowVars
    BY <2>1, <2>2, <2>3, FrameKept DEF RowsKept, rowVars
  <2>4. ASSUME NEW t \in Tickets, nextId' = nextId + 1,
               ticketId' = [ticketId EXCEPT ![nextId] = t],
               requestedBy' = [requestedBy EXCEPT ![nextId] = my[w].agent],
               target' = [target EXCEPT ![nextId] = my[w].to],
               NEW s \in Active, status' = [status EXCEPT ![nextId] = s]
        PROVE  Kept
    <3>1. my[w].agent \in Agents /\ my[w].to \in Agents \ {my[w].agent}
      BY <1>0, <1>4 DEF Insert, At, CreateLabels, Loaded
    <3>2. \A v \in Workers : pc[v] \in AnswerLabels => my[v].id \in Ids /\ my[v].id # nextId
      BY <1>0, <2>2 DEF ClaimInv, AnswersKnown, Ids
    <3>3. Loaded'
      <4>1. \A v \in Workers : pc[v] \in AnswerLabels =>
               ticketId'[my[v].id] = ticketId[my[v].id]
               /\ requestedBy'[my[v].id] = requestedBy[my[v].id]
        BY <1>0, <2>4, <3>2
      <4>2. \A q \in Ids : q < nextId => q < nextId' /\ requestedBy'[q] = requestedBy[q]
        BY <1>0, <2>4 DEF Ids
      <4> QED
        BY <1>0, <2>1, <4>1, <4>2 DEF Loaded, Calm, Holding
    <3>4. RowsNamed'
      <4>1. \A q \in Ids \ {nextId} :
              /\ ticketId'[q] = ticketId[q] /\ requestedBy'[q] = requestedBy[q]
              /\ target'[q] = target[q] /\ (q < nextId' <=> q < nextId)
        BY <1>0, <2>4 DEF Ids
      <4>2. /\ ticketId'[nextId] = t /\ requestedBy'[nextId] = my[w].agent
            /\ target'[nextId] = my[w].to /\ nextId < nextId'
        BY <1>0, <2>2, <2>4
      <4> QED
        BY <1>0, <2>2, <3>1, <4>1, <4>2 DEF RowsNamed
    <3>5. status[nextId] = "NOROW"
      BY <1>0, <2>2 DEF ClaimInv, RowsBelow
    <3>6. OfferFate[nextId] = "none" /\ OfferFate'[nextId] = "open"
      BY <1>0, <2>2, <2>4, <3>5 DEF OfferFate, InHand, Active
    <3>7. \A r \in Ids \ {nextId} : OfferFate'[r] = OfferFate[r]
      <4> SUFFICES ASSUME NEW r \in Ids, r # nextId PROVE OfferFate'[r] = OfferFate[r]
        OBVIOUS
      <4>1. status'[r] = status[r] /\ (r < nextId' <=> r < nextId)
        BY <1>0, <2>4 DEF Ids
      <4>2. InHand(r)' <=> InHand(r)
        BY <2>1, <4>1, CalmSettles DEF InHand, SettlesKept
      <4> QED
        BY <4>1, <4>2 DEF OfferFate
    <3>8. OfferFate' = [OfferFate EXCEPT ![nextId] = "open"]
      BY <3>6, <3>7 DEF OfferFate
    <3>9. Offer!Raise(nextId)
      BY <2>2, <2>4, <3>1, <3>6, <3>8 DEF Offer!Raise
    <3> QED
      BY <2>2, <3>3, <3>4, <3>9 DEF Kept, Faithful, Offer!Next
  <2>5. my[w].tkts \subseteq Tickets
    BY <1>0 DEF Locals
  <2> QED
    BY <1>4, <2>3, <2>4, <2>5 DEF Insert, Active
<1> QED
  BY <1>2, <1>3, <1>4 DEF CreateStep

LEMMA RerouteStepKept ==
  ASSUME RefInv, NEW w \in Workers, RerouteStep(w)
  PROVE  Kept
<1>0. TypeInv /\ RowsNamed /\ Loaded /\ TodoKnown /\ my[w] \in Locals
  BY DEF RefInv, TypeInv, TypeOK
<1>1. pc[w] \notin Settles
  BY DEF RerouteStep, ListRaised, CancelRaised, ListReceived, CancelReceived,
         PickReplacement, CountReplacement, MoveOffer, RerouteEnd, At, Settles
<1>2. {"cancelRaised", "reroute"} \cap Holding = {}
  BY DEF Holding, AnswerLabels, CreateLabels, RerouteLabels
<1>3. CASE CancelRaised(w) \/ CancelReceived(w)
  BY <1>1, <1>3, CancelOneKept DEF CancelRaised, CancelReceived, Callers
<1>4. CASE ListRaised(w) \/ ListReceived(w) \/ RerouteEnd(w)
  <2>1. Calm
    BY <1>0, <1>1, <1>2, <1>4, BecomeCalm, FinishCalm
    DEF ListRaised, ListReceived, RerouteEnd
  <2> QED
    BY <1>4, <2>1, FrameKept
    DEF ListRaised, ListReceived, RerouteEnd, RowsKept, rowVars, tickVars
<1>5. CASE PickReplacement(w)
  <2>1. PICK e \in my[w].todo, b \in Eligible :
          /\ b # requestedBy[e.id]
          /\ Become(w, "countReplacement",
                    [my[w] EXCEPT !.id = e.id, !.to = b, !.todo = @ \ {e}])
    BY <1>5 DEF PickReplacement
  <2>2. b \in Agents /\ e.id \in Ids /\ e.id < nextId
    BY <1>0 DEF Eligible, TodoKnown
  <2>3. /\ [my[w] EXCEPT !.id = e.id, !.to = b, !.todo = @ \ {e}].to = b
        /\ [my[w] EXCEPT !.id = e.id, !.to = b, !.todo = @ \ {e}].id = e.id
    BY <1>0 DEF Locals
  <2>4. Loaded' /\ SettlesKept
    BY <1>1, <1>5, <2>1, <2>2, <2>3, BecomeLoaded
    DEF PickReplacement, RerouteLabels, CreateLabels, rowVars
  <2> QED
    BY <1>5, <2>4, RowsNamedKept, FrameFaithful
    DEF PickReplacement, Kept, RowsKept, rowVars, tickVars
<1>6. CASE CountReplacement(w)
  <2>1. /\ my[w].id \in Ids /\ my[w].id < nextId
        /\ my[w].to \in Agents \ {requestedBy[my[w].id]}
    BY <1>0, <1>6 DEF CountReplacement, At, Loaded, RerouteLabels
  <2>2. ASSUME NEW x
        PROVE  /\ [my[w] EXCEPT !.full = x].to = my[w].to
               /\ [my[w] EXCEPT !.full = x].id = my[w].id
    BY <1>0 DEF Locals
  <2>3. Loaded' /\ SettlesKept
    BY <1>1, <1>6, <2>1, <2>2, BecomeLoaded
    DEF CountReplacement, RerouteLabels, CreateLabels, rowVars
  <2> QED
    BY <1>6, <2>3, RowsNamedKept, FrameFaithful
    DEF CountReplacement, Kept, RowsKept, rowVars, tickVars
<1>7. CASE MoveOffer(w)
  <2>1. Calm
    BY <1>0, <1>1, <1>2, <1>7, BecomeCalm DEF MoveOffer
  <2>2. my[w].id \in Ids /\ my[w].to \in Agents \ {requestedBy[my[w].id]}
    BY <1>0, <1>7 DEF MoveOffer, At, Loaded, RerouteLabels
  <2>3. RowsNamed'
    BY <1>0, <1>7, <2>2 DEF MoveOffer, RowsNamed, TypeInv, TypeOK
  <2>4. \E from \in SUBSET Active, s \in Active : status' = Swap(my[w].id, from, s)
    <3>1. CASE status[my[w].id] \in Active /\ target[my[w].id] = my[w].agent
      <4> DEFINE s == IF my[w].full THEN "QUEUED" ELSE "PENDING"
      <4>1. s \in Active /\ status' = Swap(my[w].id, Active, s)
        BY <1>7, <3>1 DEF MoveOffer, Swap, Active
      <4> QED
        BY <4>1
    <3>2. CASE ~(status[my[w].id] \in Active /\ target[my[w].id] = my[w].agent)
      <4>1. status' = Swap(my[w].id, {}, "PENDING")
        BY <1>7, <3>2 DEF MoveOffer, Swap
      <4> QED
        BY <4>1 DEF Active
    <3> QED
      BY <3>1, <3>2
  <2>5. Faithful
    BY <1>7, <2>1, <2>4, CalmSettles, SwapFaithful DEF MoveOffer, tickVars
  <2> QED
    BY <1>7, <2>1, <2>3, <2>5, CalmLoaded DEF MoveOffer, Kept
<1> QED
  BY <1>3, <1>4, <1>5, <1>6, <1>7 DEF RerouteStep

-----------------------------------------------------------------------------
(* Answering: the claim leaves the offer open, the move of the ticket ends   *)
(* it as transferred, the undo as closed.                                    *)

LEMMA AcceptKept ==
  ASSUME RefInv, NEW w \in Workers, ClaimAccepted(w) \/ Move(w) \/ Undo(w)
  PROVE  Kept
<1>0. /\ TypeInv /\ ClaimInv /\ RowsNamed /\ Loaded
      /\ status \in [Ids -> Statuses] /\ my[w] \in Locals
      /\ pc \in [Workers -> Labels] /\ my \in [Workers -> Locals]
  BY DEF RefInv, TypeInv, TypeOK
<1> PICK r \in Ids : r = my[w].id
  BY <1>0 DEF ClaimAccepted, Move, Undo, At, AnswerLabels, ClaimInv, AnswersKnown
<1>1. /\ pc[w] \in AnswerLabels /\ r \in Ids /\ r < nextId
      /\ my[w].tkts = {ticketId[r]} /\ my[w].agent = requestedBy[r]
      /\ my[w].to \in Agents \ {requestedBy[r]}
  BY <1>0 DEF ClaimAccepted, Move, Undo, At, AnswerLabels, ClaimInv, AnswersKnown, Loaded
<1>2. RowsKept /\ RowsNamed'
  BY RowsNamedKept DEF ClaimAccepted, Move, Undo, RowsKept, rowVars
<1>3. \A v \in Workers \ {w} : pc'[v] = pc[v] /\ my'[v] = my[v]
  BY <1>0 DEF ClaimAccepted, Move, Undo, Finish, Promote, Become
<1>4. /\ pc[w] \in Settles => Settling(w, r) /\ status[r] \in {"ACCEPTED", "NOROW"}
      /\ \A q \in Ids : Settling(w, q) => q = r
  BY <1>0, <1>1 DEF Settling, Settles, ClaimInv, AnsweredOnce
<1>5. Loaded'
  <2>1. CASE pc'[w] \notin Holding
    BY <1>0, <1>1, <1>2, <1>3, <2>1
    DEF Loaded, Holding, RowsKept, ClaimInv, AnswersKnown
  <2>2. CASE pc'[w] \in AnswerLabels /\ my'[w] = my[w]
    BY <1>0, <1>1, <1>2, <1>3, <2>2
    DEF Loaded, AnswerLabels, CreateLabels, RerouteLabels, RowsKept
  <2>3. \/ pc'[w] \notin Holding
        \/ pc'[w] \in AnswerLabels /\ my'[w] = my[w]
    BY <1>0 DEF ClaimAccepted, Move, Undo, Finish, Promote, Become, Holding, AnswerLabels,
                CreateLabels, RerouteLabels
  <2> QED
    BY <2>1, <2>2, <2>3
<1>6. ASSUME NEW q \in Ids \ {r}, status'[q] = status[q]
      PROVE  OfferFate'[q] = OfferFate[q]
  <2>1. r = my'[w].id \/ pc'[w] \notin Settles
    BY <1>0 DEF ClaimAccepted, Move, Undo, Finish, Promote, Become, Settles
  <2>2. \A v \in Workers : Settling(v, q)' <=> Settling(v, q)
    BY <1>3, <1>4, <1>6, <2>1 DEF Settling, Settles
  <2> QED
    BY <1>2, <1>6, <2>2, FateSame DEF RowsKept
<1>7. CASE ClaimAccepted(w)
  <2>1. UNCHANGED owner
    BY <1>7 DEF ClaimAccepted, tickVars
  <2>2. CASE status[r] = "PENDING"
    <3>1. status' = [status EXCEPT ![r] = "ACCEPTED"] /\ Become(w, "move", my[w])
      BY <1>7, <2>2 DEF ClaimAccepted, Swap
    <3>2. Settling(w, r)'
      BY <1>0, <3>1 DEF Become, Settling
    <3>3. OfferFate[r] = "open" /\ OfferFate'[r] = "open"
      BY <1>0, <1>1, <2>2, <3>1, <3>2 DEF OfferFate, InHand, Active
    <3>4. \A q \in Ids \ {r} : OfferFate'[q] = OfferFate[q]
      BY <1>0, <1>6, <3>1
    <3>5. OfferFate' = OfferFate
      BY <3>3, <3>4 DEF OfferFate
    <3>6. Faithful
      BY <1>2, <2>1, <3>5 DEF Faithful, Offer!vars, RowsKept
    <3> QED
      BY <1>2, <1>5, <3>6 DEF Kept
  <2>3. CASE status[r] # "PENDING"
    <3>1. Finish(w) /\ UNCHANGED status
      BY <1>7, <2>3 DEF ClaimAccepted, Swap
    <3>2. pc[w] \notin Settles
      BY <1>7 DEF ClaimAccepted, At, Settles
    <3> QED
      BY <1>0, <1>2, <2>1, <3>1, <3>2, FinishCalm, FrameKept
  <2> QED
    BY <2>2, <2>3
<1>8. CASE Move(w)
  <2>1. UNCHANGED status /\ pc[w] = "move"
    BY <1>8 DEF Move, At, rowVars
  <2>2. \A q \in Ids \ {r} : OfferFate'[q] = OfferFate[q]
    BY <1>6, <2>1
  <2>3. \E t \in {ticketId[r]} :
           IF state[t] = "OPEN" /\ owner[t] = requestedBy[r]
           THEN /\ owner' = [owner EXCEPT ![t] = my[w].to]
                /\ Promote(w, Blank, my[w].to, "idle")
           ELSE Become(w, "undo", my[w]) /\ UNCHANGED owner
    BY <1>1, <1>8 DEF Move
  <2>4. CASE Become(w, "undo", my[w]) /\ UNCHANGED owner
    <3>1. Settling(w, r) /\ Settling(w, r)'
      BY <1>0, <2>1, <2>4 DEF Become, Settling
    <3>2. \A v \in Workers : Settling(v, r)' <=> Settling(v, r)
      BY <1>3, <3>1 DEF Settling
    <3>3. OfferFate'[r] = OfferFate[r]
      BY <1>1, <1>2, <2>1, <3>2, FateSame DEF RowsKept
    <3>4. OfferFate' = OfferFate
      BY <2>2, <3>3 DEF OfferFate
    <3>5. Faithful
      BY <1>2, <2>4, <3>4 DEF Faithful, Offer!vars, RowsKept
    <3> QED
      BY <1>2, <1>5, <3>5 DEF Kept
  <2>5. CASE /\ owner[ticketId[r]] = requestedBy[r]
             /\ owner' = [owner EXCEPT ![ticketId[r]] = my[w].to]
             /\ Promote(w, Blank, my[w].to, "idle")
    <3>1. \A v \in Workers : ~Settling(v, r)'
      <4>1. ~Settling(w, r)'
        BY <1>0, <2>5 DEF Promote, Become, Settling
      <4>2. \A v \in Workers \ {w} : ~Settling(v, r)
        BY <1>0, <1>1, <1>4, <2>1 DEF ClaimInv, AnsweredOnce, Settles
      <4> QED
        BY <1>3, <4>1, <4>2 DEF Settling
    <3>2. Settling(w, r) /\ ticketId[r] \in Tickets
      BY <1>0, <1>1, <1>4, <2>1 DEF Settles, RowsNamed
    <3>3. CASE status[r] = "ACCEPTED"
      <4>1. OfferFate[r] = "open" /\ OfferFate'[r] = "transferred"
        BY <1>1, <2>1, <3>1, <3>2, <3>3 DEF OfferFate, InHand, Active
      <4>2. OfferFate' = [OfferFate EXCEPT ![r] = "transferred"]
        BY <2>2, <4>1 DEF OfferFate
      <4>3. Offer!Transfer(r)
        BY <1>1, <1>2, <2>5, <4>1, <4>2 DEF Offer!Transfer, RowsKept
      <4> QED
        BY <1>1, <1>2, <1>5, <4>3 DEF Kept, Faithful, Offer!Next
    <3>4. CASE status[r] = "NOROW"
      <4>1. OfferFate'[r] = OfferFate[r]
        BY <1>1, <1>2, <2>1, <3>4, FateSame DEF RowsKept
      <4>2. OfferFate' = OfferFate
        BY <2>2, <4>1 DEF OfferFate
      <4>3. Offer!HandOn(ticketId[r])
        BY <1>1, <1>2, <2>5, <4>2 DEF Offer!HandOn, RowsKept
      <4> QED
        BY <1>2, <1>5, <3>2, <4>3 DEF Kept, Faithful, Offer!Next
    <3> QED
      BY <1>4, <2>1, <3>3, <3>4 DEF Settles
  <2> QED
    BY <2>3, <2>4, <2>5
<1>9. CASE Undo(w)
  <2>1. UNCHANGED owner /\ pc[w] = "undo"
    BY <1>9 DEF Undo, At, tickVars
  <2>2. CASE status[r] = "NOROW"
    <3>1. UNCHANGED status
      BY <1>9, <2>2 DEF Undo
    <3>2. \A q \in Ids : OfferFate'[q] = OfferFate[q]
      BY <1>1, <1>2, <1>6, <2>2, <3>1, FateSame DEF RowsKept
    <3>3. OfferFate' = OfferFate
      BY <3>2 DEF OfferFate
    <3>4. Faithful
      BY <1>2, <2>1, <3>3 DEF Faithful, Offer!vars, RowsKept
    <3> QED
      BY <1>2, <1>5, <3>4 DEF Kept
  <2>3. CASE status[r] # "NOROW"
    <3>1. status' = [status EXCEPT ![r] = "CANCELLED"]
      BY <1>9, <2>3 DEF Undo
    <3>2. status[r] = "ACCEPTED" /\ Settling(w, r)
      BY <1>4, <2>1, <2>3 DEF Settles
    <3>3. OfferFate[r] = "open" /\ OfferFate'[r] = "closed"
      BY <1>0, <1>1, <3>1, <3>2 DEF OfferFate, InHand, Active
    <3>4. \A q \in Ids \ {r} : OfferFate'[q] = OfferFate[q]
      BY <1>0, <1>6, <3>1
    <3>5. OfferFate' = [OfferFate EXCEPT ![r] = "closed"]
      BY <3>3, <3>4 DEF OfferFate
    <3>6. Offer!Close(r)
      BY <1>2, <2>1, <3>3, <3>5 DEF Offer!Close, RowsKept
    <3> QED
      BY <1>1, <1>2, <1>5, <3>6 DEF Kept, Faithful, Offer!Next
  <2> QED
    BY <2>2, <2>3
<1> QED
  BY <1>7, <1>8, <1>9

LEMMA AnswerStepKept ==
  ASSUME RefInv, NEW w \in Workers, AnswerStep(w)
  PROVE  Kept
<1>0. /\ TypeInv /\ ClaimInv /\ RowsNamed /\ Loaded
      /\ pc \in [Workers -> Labels] /\ my \in [Workers -> Locals] /\ nextId \in Nat
  BY DEF RefInv, TypeInv, TypeOK
<1>1. {"decline", "idle"} \cap (Holding \cup Settles) = {}
  BY DEF Holding, AnswerLabels, CreateLabels, RerouteLabels, Settles
<1>2. ASSUME NEW r \in Ids, StartAccept(w, r)
      PROVE  Kept
  <2>1. target[r] \in Agents \ {requestedBy[r]}
    BY <1>0, <1>2 DEF StartAccept, ClaimInv, RowsBelow, RowsNamed, Ids
  <2>2. /\ pc'[w] = "readTicket" /\ my'[w].id = r /\ my'[w].tkts = {ticketId[r]}
        /\ my'[w].agent = requestedBy[r] /\ my'[w].to = target[r]
        /\ \A v \in Workers \ {w} : pc'[v] = pc[v] /\ my'[v] = my[v]
    BY <1>0, <1>2 DEF StartAccept, Become, Blank
  <2>3. RowsKept /\ UNCHANGED <<owner, status>> /\ pc[w] = "idle"
    BY <1>2 DEF StartAccept, Starts, RowsKept, rowVars, tickVars
  <2>4. Loaded'
    BY <1>0, <2>1, <2>2, <2>3
    DEF Loaded, AnswerLabels, CreateLabels, RerouteLabels, RowsKept
  <2>5. SettlesKept
    BY <2>2, <2>3 DEF SettlesKept, Settling
  <2> QED
    BY <2>3, <2>4, <2>5, RowsNamedKept, FrameFaithful DEF Kept, RowsKept
<1>3. ASSUME NEW r \in Ids, StartDecline(w, r)
      PROVE  Kept
  <2>1. Calm
    BY <1>0, <1>1, <1>3, BecomeCalm DEF StartDecline, Starts
  <2> QED
    BY <1>3, <2>1, FrameKept DEF StartDecline, RowsKept, rowVars, tickVars
<1>4. CASE ReadTicket(w)
  <2>1. pc[w] = "readTicket" /\ RowsKept /\ UNCHANGED <<owner, status>>
    BY <1>4 DEF ReadTicket, At, RowsKept, rowVars, tickVars
  <2>2. CASE Finish(w)
    BY <1>0, <2>1, <2>2, FinishCalm, FrameKept DEF Settles
  <2>3. ASSUME NEW l \in {"claimAccepted", "claimStale"}, Become(w, l, my[w])
        PROVE  Kept
    <3>1. /\ pc'[w] = l /\ my'[w] = my[w]
          /\ \A v \in Workers \ {w} : pc'[v] = pc[v] /\ my'[v] = my[v]
      BY <1>0, <2>3 DEF Become
    <3>2. Loaded'
      BY <1>0, <2>1, <3>1
      DEF Loaded, AnswerLabels, CreateLabels, RerouteLabels, RowsKept
    <3>3. SettlesKept
      BY <2>1, <3>1 DEF SettlesKept, Settling
    <3> QED
      BY <2>1, <3>2, <3>3, RowsNamedKept, FrameFaithful DEF Kept, RowsKept
  <2> QED
    BY <1>4, <2>2, <2>3 DEF ReadTicket
<1>5. CASE ClaimStale(w) \/ Decline(w)
  <2>1. pc[w] \notin Settles
    BY <1>5 DEF ClaimStale, Decline, At, Settles
  <2>2. Calm
    BY <1>0, <1>5, <2>1, PromoteCalm, FinishCalm DEF ClaimStale, Decline
  <2> QED
    BY <1>5, <2>2, SwapKept DEF ClaimStale, Decline, RowsKept, tickVars, Active
<1> QED
  BY <1>2, <1>3, <1>4, <1>5, AcceptKept DEF AnswerStep

-----------------------------------------------------------------------------
LEMMA InitRef == Init => RefInv /\ Offer!Init
<1> SUFFICES ASSUME Init PROVE RefInv /\ Offer!Init
  OBVIOUS
<1>1. RowsNamed /\ Loaded /\ TodoKnown
  BY DEF Init, RowsNamed, Loaded, TodoKnown, Blank, Ids, CreateLabels, RerouteLabels,
         AnswerLabels
<1>2. OfferFate = [r \in Ids |-> "none"]
  BY DEF Init, OfferFate, Ids
<1>3. Offer!Init
  BY <1>2 DEF Init, Offer!Init
<1> QED
  BY <1>1, <1>3, InitType, InitClaim DEF RefInv

LEMMA StepRef ==
  ASSUME MayFail = FALSE, RefInv, [Next]_vars
  PROVE  RefInv' /\ Faithful
<1>0. TypeInv' /\ ClaimInv' /\ TodoKnown'
  BY StepType, StepClaim, StepTodo DEF RefInv
<1>1. ASSUME NEW w \in Workers, Worker(w)
      PROVE  Kept
  BY <1>1, CreateStepKept, AnswerStepKept, CancelStepKept, PromoteStepKept,
     PresenceStepKept, RerouteStepKept, SweepStepKept DEF Worker, Fail
<1>2. CASE UNCHANGED vars
  <2>1. Calm /\ RowsKept /\ UNCHANGED <<owner, status>>
    BY <1>2 DEF vars, tickVars, rowVars, Calm, RowsKept
  <2> QED
    BY <1>0, <2>1, FrameKept DEF Kept, RefInv
<1>3. CASE Next
  BY <1>0, <1>1, <1>3, EnvironmentKept DEF Next, Kept, RefInv
<1> QED
  BY <1>2, <1>3

(* Whatever handlers race, as long as each that has begun runs to its end,   *)
(* an offer ends once, and moves its ticket exactly when it ends ACCEPTED.   *)
THEOREM OfferKeptHolds == ASSUME MayFail = FALSE PROVE Spec => OfferKept
<1>1. RefInv /\ [Next]_vars => RefInv' /\ Faithful
  BY StepRef
<1> QED
  BY <1>1, InitRef, PTL DEF Spec, OfferKept, Offer!Spec, Faithful
=============================================================================
