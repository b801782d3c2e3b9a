----------------------- MODULE HandoverSerialProofs ------------------------
(* Theorems about Handover when handlers run one after the other, for any    *)
(* agents, tickets, offers and limits.  What a handler has read is then      *)
(* still so when it writes; where a theorem needs more, because a handler    *)
(* abandoned half way or another service's write breaks what it states, its  *)
(* assumptions say so.                                                       *)
EXTENDS HandoverProofs, FiniteSetTheorems

Serial == \A v, w \in Workers : v = w

Promoting == {"count"} \cup Looking

-----------------------------------------------------------------------------
(* Which statement comes when                                                *)

Begins(w) ==
  \/ \E t \in Tickets : \/ \E a \in Agents : StartCreate(w, t, a)
                        \/ StartFinish(w, t)
  \/ \E r \in Ids : StartAccept(w, r) \/ StartDecline(w, r) \/ StartCancel(w, r)
  \/ \E a \in Movers : \/ \E on, acc \in BOOLEAN : SetState(w, a, on, acc)
                       \/ StartGoUnavailable(w, a) \/ PatchAvailable(w, a)
                       \/ StartDeactivate(w, a)
  \/ StartSweep(w)

LEMMA BeginsIdle ==
  ASSUME NEW w \in Workers, Begins(w)
  PROVE  pc[w] = "idle"
BY DEF Begins, StartCreate, StartFinish, StartAccept, StartDecline, StartCancel, SetState,
       StartGoUnavailable, PatchAvailable, StartDeactivate, StartSweep, Starts

(* The step a worker takes is the one its label names. *)
LEMMA StepAt ==
  ASSUME NEW w \in Workers, Worker(w)
  PROVE  \/ Begins(w)
         \/ pc[w] = "checkTarget" /\ CheckTarget(w)
         \/ pc[w] = "checkExisting" /\ CheckExisting(w)
         \/ pc[w] = "countSlots" /\ CountSlots(w)
         \/ pc[w] = "insert" /\ Insert(w)
         \/ pc[w] = "readTicket" /\ ReadTicket(w)
         \/ pc[w] = "claimStale" /\ ClaimStale(w)
         \/ pc[w] = "claimAccepted" /\ ClaimAccepted(w)
         \/ pc[w] = "move" /\ Move(w)
         \/ pc[w] = "undo" /\ Undo(w)
         \/ pc[w] = "decline" /\ Decline(w)
         \/ pc[w] = "cancel" /\ Cancel(w)
         \/ pc[w] = "count" /\ Count(w)
         \/ pc[w] = "find" /\ Find(w)
         \/ pc[w] = "readTarget" /\ ReadTarget(w)
         \/ pc[w] = "activate" /\ Activate(w)
         \/ pc[w] = "listOffers" /\ ListOffers(w)
         \/ pc[w] = "cancelOffers" /\ (CancelOffers(w) \/ CancelOffersEnd(w))
         \/ pc[w] = "shed" /\ (Shed(w) \/ ShedEnd(w))
         \/ pc[w] = "goUnavailable" /\ GoUnavailable(w)
         \/ pc[w] = "listPending" /\ ListPending(w)
         \/ pc[w] = "setClocks" /\ (SetClocks(w) \/ SetClocksEnd(w))
         \/ pc[w] = "listRaised" /\ ListRaised(w)
         \/ pc[w] = "cancelRaised" /\ (CancelRaised(w) \/ ListReceived(w))
         \/ pc[w] = "reroute" /\ (CancelReceived(w) \/ PickReplacement(w) \/ RerouteEnd(w))
         \/ pc[w] = "countReplacement" /\ CountReplacement(w)
         \/ pc[w] = "moveOffer" /\ MoveOffer(w)
         \/ pc[w] = "expire" /\ (Expire(w) \/ ExpireEnd(w))
         \/ Fail(w)
<1>1. CreateStep(w) \/ AnswerStep(w) \/ CancelStep(w) \/ PromoteStep(w)
        \/ PresenceStep(w) \/ RerouteStep(w) \/ SweepStep(w) \/ Fail(w)
  BY DEF Worker
<1>2. CASE CreateStep(w)
  BY <1>2 DEF CreateStep, Begins, CheckTarget, CheckExisting, CountSlots, Insert, At
<1>3. CASE AnswerStep(w)
  BY <1>3 DEF AnswerStep, Begins, ReadTicket, ClaimStale, ClaimAccepted, Move, Undo,
              Decline, At
<1>4. CASE CancelStep(w)
  BY <1>4 DEF CancelStep, Begins, Cancel, ListOffers, CancelOffers, CancelOffersEnd, At
<1>5. CASE PromoteStep(w)
  BY <1>5 DEF PromoteStep, Count, Find, ReadTarget, Activate, At
<1>6. CASE PresenceStep(w)
  BY <1>6 DEF PresenceStep, Begins, GoUnavailable, Shed, ShedEnd, ListPending, SetClocks,
              SetClocksEnd, At
<1>7. CASE RerouteStep(w)
  BY <1>7 DEF RerouteStep, ListRaised, CancelRaised, ListReceived, CancelReceived,
              PickReplacement, CountReplacement, MoveOffer, RerouteEnd, At
<1>8. CASE SweepStep(w)
  BY <1>8 DEF SweepStep, Begins, Expire, ExpireEnd, At
<1> QED
  BY <1>1, <1>2, <1>3, <1>4, <1>5, <1>6, <1>7, <1>8

(* Where a step leaves its worker. *)
LEMMA Becomes ==
  ASSUME TypeInv, NEW w \in Workers, NEW l, NEW rec, Become(w, l, rec)
  PROVE  pc'[w] = l /\ my'[w] = rec
BY DEF Become, TypeInv, TypeOK

LEMMA Finishes ==
  ASSUME TypeInv, NEW w \in Workers, Finish(w)
  PROVE  pc'[w] = "idle" /\ my'[w] = Blank
BY Becomes DEF Finish

LEMMA Promotes ==
  ASSUME TypeInv, NEW w \in Workers, NEW rec \in Locals, NEW a, NEW ret, Promote(w, rec, a, ret)
  PROVE  /\ pc'[w] = "count"
         /\ my'[w].to = a /\ my'[w].back = ret /\ my'[w].todo = rec.todo
         /\ my'[w].lim = limit /\ my'[w].tries = limit
<1> DEFINE new == [rec EXCEPT !.to = a, !.back = ret, !.lim = limit, !.tries = limit]
<1>1. Become(w, "count", new)
  BY DEF Promote
<1>2. /\ new.to = a /\ new.back = ret /\ new.todo = rec.todo
      /\ new.lim = limit /\ new.tries = limit
  BY DEF Locals
<1> HIDE DEF new
<1> QED
  BY <1>1, <1>2, Becomes

LEMMA Returns ==
  ASSUME TypeInv, NEW w \in Workers, Return(w)
  PROVE  /\ pc'[w] = my[w].back
         /\ my'[w].back = "idle"
         /\ my[w].back # "idle" =>
              /\ my'[w].todo = my[w].todo /\ my'[w].agent = my[w].agent
              /\ my'[w].away = my[w].away /\ my'[w].tkts = my[w].tkts
<1>1. CASE my[w].back = "idle"
  BY <1>1, Finishes DEF Return, Blank
<1>2. CASE my[w].back # "idle"
  <2> DEFINE new == [my[w] EXCEPT !.to = Null, !.id = 0, !.full = FALSE,
                                  !.lim = 0, !.tries = 0, !.back = "idle"]
  <2>1. Become(w, my[w].back, new)
    BY <1>2 DEF Return
  <2>2. /\ new.back = "idle" /\ new.todo = my[w].todo /\ new.agent = my[w].agent
        /\ new.away = my[w].away /\ new.tkts = my[w].tkts
    BY DEF TypeInv, TypeOK, Locals
  <2> HIDE DEF new
  <2> QED
    BY <2>1, <2>2, Becomes
<1> QED
  BY <1>1, <1>2

LEMMA CancelsOne ==
  ASSUME TypeInv, NEW w \in Workers, NEW e \in my[w].todo, NEW ret, CancelOne(w, e, ret)
  PROVE  /\ pc'[w] \in {"count", ret}
         /\ my'[w].todo = my[w].todo \ {e}
         /\ pc'[w] # "count" => my'[w].back = my[w].back /\ my'[w].agent = my[w].agent
         /\ pc'[w] = "count" =>
              \/ ret = "count"
              \/ /\ my'[w].to = e.to /\ my'[w].back = ret
                 /\ my'[w].lim = limit /\ my'[w].tries = limit
         /\ status[e.id] \in Active /\ e.pending => pc'[w] = "count"
<1> DEFINE rest == [my[w] EXCEPT !.todo = @ \ {e}]
<1>1. rest \in Locals /\ rest.todo = my[w].todo \ {e} /\ rest.back = my[w].back
        /\ rest.agent = my[w].agent
  BY DEF TypeInv, TypeOK, Locals
<1>2. \/ Promote(w, rest, e.to, ret)
      \/ ~(status[e.id] \in Active /\ e.pending) /\ Become(w, ret, rest)
  BY DEF CancelOne
<1> HIDE DEF rest
<1>3. CASE Promote(w, rest, e.to, ret)
  BY <1>1, <1>3, Promotes
<1>4. CASE ~(status[e.id] \in Active /\ e.pending) /\ Become(w, ret, rest)
  BY <1>1, <1>4, Becomes
<1> QED
  BY <1>2, <1>3, <1>4

(* The steps that lead to a label, for those on which something rests. *)
LEMMA BeginLabels ==
  ASSUME TypeInv, NEW w \in Workers, Begins(w)
  PROVE  /\ pc'[w] \in {"checkTarget", "listOffers", "readTicket", "decline", "cancel",
                        "listPending", "shed", "expire"}
         /\ pc'[w] = "checkTarget" => \E t \in Tickets, a \in Agents : StartCreate(w, t, a)
         /\ pc'[w] = "listOffers" => \E t \in Tickets : StartFinish(w, t)
<1>1. ASSUME NEW t \in Tickets, NEW a \in Agents, StartCreate(w, t, a)
      PROVE  pc'[w] = "checkTarget"
  BY <1>1, Becomes DEF StartCreate
<1>2. ASSUME NEW t \in Tickets, StartFinish(w, t)
      PROVE  pc'[w] = "listOffers"
  BY <1>2, Becomes DEF StartFinish
<1>3. ASSUME NEW r \in Ids, StartAccept(w, r) \/ StartDecline(w, r) \/ StartCancel(w, r)
      PROVE  pc'[w] \in {"readTicket", "decline", "cancel"}
  BY <1>3, Becomes DEF StartAccept, StartDecline, StartCancel
<1>4. ASSUME NEW a \in Movers, NEW on \in BOOLEAN, NEW acc \in BOOLEAN, SetState(w, a, on, acc)
      PROVE  pc'[w] = "listPending"
  BY <1>4, Becomes DEF SetState
<1>5. ASSUME NEW a \in Movers,
             StartGoUnavailable(w, a) \/ PatchAvailable(w, a) \/ StartDeactivate(w, a)
      PROVE  pc'[w] \in {"shed", "listPending"}
  BY <1>5, Becomes DEF StartGoUnavailable, PatchAvailable, StartDeactivate
<1>6. CASE StartSweep(w)
  BY <1>6, Becomes DEF StartSweep
<1> QED
  BY <1>1, <1>2, <1>3, <1>4, <1>5, <1>6 DEF Begins

LEMMA Enters ==
  ASSUME TypeInv, NEW w \in Workers, Worker(w)
  PROVE  /\ pc'[w] = "checkTarget" => \E t \in Tickets, a \in Agents : StartCreate(w, t, a)
         /\ pc'[w] = "checkExisting" => CheckTarget(w)
         /\ pc'[w] = "countSlots" => CheckExisting(w) /\ my'[w] = my[w]
         /\ pc'[w] = "insert" => CountSlots(w)
         /\ pc'[w] = "find" => Count(w) /\ my'[w] = my[w]
         /\ pc'[w] = "readTarget" => Find(w)
         /\ pc'[w] = "activate" => ReadTarget(w)
         /\ pc'[w] = "countReplacement" => PickReplacement(w)
         /\ pc'[w] = "moveOffer" => CountReplacement(w)
         /\ pc'[w] = "listOffers" => \E t \in Tickets : StartFinish(w, t)
<1>0. Return(w) => pc'[w] \notin {"listOffers", "checkTarget", "checkExisting", "countSlots", "insert",
                                  "find", "readTarget", "activate", "countReplacement",
                                  "moveOffer"}
  <2>1. my[w].back \in Callers
    BY DEF TypeInv, TypeOK, Locals
  <2> QED
    BY <2>1, Returns DEF Callers
<1>1. CASE Begins(w) \/ Fail(w)
  BY <1>1, BeginLabels, Finishes DEF Fail
<1>2. CASE CheckTarget(w) \/ CheckExisting(w) \/ Insert(w)
  BY <1>2, Becomes, Finishes DEF CheckTarget, CheckExisting, Insert
<1>3. CASE CountSlots(w)
  BY <1>3, Becomes DEF CountSlots
<1>4. CASE ReadTicket(w) \/ ClaimStale(w) \/ ClaimAccepted(w)
  BY <1>4, Becomes, Finishes, Promotes, BlankLocal DEF ReadTicket, ClaimStale, ClaimAccepted
<1>5. CASE Move(w) \/ Undo(w) \/ Decline(w)
  BY <1>5, Becomes, Finishes, Promotes, BlankLocal DEF Move, Undo, Decline
<1>6. CASE Cancel(w) \/ CancelOffers(w) \/ CancelRaised(w) \/ CancelReceived(w)
  BY <1>6, CancelsOne DEF Cancel, CancelOffers, CancelRaised, CancelReceived
<1>7. CASE Count(w)
  <2>1. Return(w) \/ Become(w, "find", my[w])
    BY <1>7 DEF Count
  <2>2. CASE Return(w)
    BY <1>0, <2>2
  <2>3. CASE Become(w, "find", my[w])
    <3>1. pc'[w] = "find" /\ my'[w] = my[w]
      BY <2>3, Becomes
    <3> QED
      BY <1>7, <3>1
  <2> QED
    BY <2>1, <2>2, <2>3
<1>8. CASE Find(w)
  <2>1. Return(w) \/ \E rec : Become(w, "readTarget", rec)
    BY <1>8 DEF Find
  <2> QED
    BY <1>0, <1>8, <2>1, Becomes
<1>9. CASE ReadTarget(w)
  BY <1>9, Becomes DEF ReadTarget
<1>10. CASE Activate(w)
  <2>1. Return(w) \/ \E rec : Become(w, "count", rec)
    BY <1>10 DEF Activate
  <2> QED
    BY <1>0, <2>1, Becomes
<1>11. CASE ListOffers(w) \/ CancelOffersEnd(w)
  <2>1. Finish(w) \/ \E rec : Become(w, "cancelOffers", rec)
    BY <1>11 DEF ListOffers, CancelOffersEnd
  <2> QED
    BY <2>1, Becomes, Finishes
<1>12. CASE Shed(w) \/ ShedEnd(w) \/ GoUnavailable(w)
  <2>1. Shed(w) => \E rec : Become(w, "shed", rec)
    BY DEF Shed
  <2>2. ShedEnd(w) => Return(w)
    BY DEF ShedEnd
  <2>3. GoUnavailable(w) => \E rec : Become(w, "listPending", rec)
    BY DEF GoUnavailable
  <2> QED
    BY <1>0, <1>12, <2>1, <2>2, <2>3, Becomes
<1>13. CASE ListPending(w) \/ SetClocks(w) \/ SetClocksEnd(w)
  <2>1. Finish(w) \/ \E rec : Become(w, "setClocks", rec)
    BY <1>13 DEF ListPending, SetClocks, SetClocksEnd
  <2> QED
    BY <2>1, Becomes, Finishes
<1>14. CASE ListRaised(w) \/ ListReceived(w) \/ RerouteEnd(w)
  <2>1. ListRaised(w) => \E rec : Become(w, "cancelRaised", rec)
    BY DEF ListRaised
  <2>2. ListReceived(w) => \E rec : Become(w, "reroute", rec)
    BY DEF ListReceived
  <2>3. RerouteEnd(w) => Finish(w)
    BY DEF RerouteEnd
  <2> QED
    BY <1>14, <2>1, <2>2, <2>3, Becomes, Finishes
<1>15. CASE PickReplacement(w)
  <2>1. \E rec : Become(w, "countReplacement", rec)
    BY <1>15 DEF PickReplacement
  <2> QED
    BY <1>15, <2>1, Becomes
<1>16. CASE CountReplacement(w)
  BY <1>16, Becomes DEF CountReplacement
<1>17. CASE MoveOffer(w)
  BY <1>17, Becomes DEF MoveOffer
<1>18. CASE Expire(w)
  <2>1. PICK e \in my[w].todo :
          \/ Promote(w, [my[w] EXCEPT !.todo = @ \ {e}], e.to, "expire")
          \/ Become(w, "expire", [my[w] EXCEPT !.todo = @ \ {e}])
    BY <1>18 DEF Expire
  <2>2. [my[w] EXCEPT !.todo = @ \ {e}] \in Locals
    BY DEF TypeInv, TypeOK, Locals
  <2> QED
    BY <2>1, <2>2, Becomes, Promotes
<1>19. CASE ExpireEnd(w)
  BY <1>19, Finishes DEF ExpireEnd
<1> QED
  BY StepAt, <1>1, <1>2, <1>3, <1>4, <1>5, <1>6, <1>7, <1>8, <1>9, <1>10, <1>11, <1>12,
     <1>13, <1>14, <1>15, <1>16, <1>17, <1>18, <1>19

-----------------------------------------------------------------------------
(* Sets of offers                                                            *)

LEMMA IdSets ==
  ASSUME NEW S \in SUBSET Ids
  PROVE  IsFiniteSet(S) /\ Cardinality(S) \in Nat
<1>1. IsFiniteSet(1 .. MaxRequests)
  BY FS_Interval, HandoverAssumption
<1> QED
  BY <1>1, FS_Subset, FS_CardinalityType DEF Ids

LEMMA FewerIds ==
  ASSUME NEW T \in SUBSET Ids, NEW S \in SUBSET T
  PROVE  Cardinality(S) <= Cardinality(T)
BY IdSets, FS_Subset

LEMMA OneMoreId ==
  ASSUME NEW S \in SUBSET Ids, NEW r \in Ids
  PROVE  Cardinality(S \cup {r}) = IF r \in S THEN Cardinality(S) ELSE Cardinality(S) + 1
BY IdSets, FS_AddElement

(* A step that gives no offer a slot, a place in the queue, a ticket or a    *)
(* recipient: it may only end offers. *)
Ebb ==
  /\ UNCHANGED <<ticketId, target>>
  /\ \A r \in Ids : status'[r] = status[r] \/ status'[r] \notin Active

LEMMA SwapEbbs ==
  ASSUME TypeInv, NEW r, NEW from, NEW to, to \notin Active,
         status' = Swap(r, from, to), UNCHANGED <<ticketId, target>>
  PROVE  Ebb
BY DEF Swap, Ebb, TypeInv, TypeOK

LEMMA EbbSets ==
  ASSUME Ebb
  PROVE  /\ \A a : Pending(a)' \subseteq Pending(a) /\ Queued(a)' \subseteq Queued(a)
         /\ \A t : OffersFor(t)' \subseteq OffersFor(t)
BY DEF Ebb, Pending, Queued, OffersFor, Active

(* Only three statements do more. *)
LEMMA StepEbbs ==
  ASSUME TypeInv, [Next]_vars
  PROVE  Ebb \/ \E w \in Workers : Insert(w) \/ Activate(w) \/ MoveOffer(w)
<1>1. UNCHANGED rowVars \/ UNCHANGED <<status, target, ticketId>> => Ebb
  BY DEF rowVars, Ebb
<1>p. {"CANCELLED", "ACCEPTED", "DECLINED", "EXPIRED", "NOROW"} \cap Active = {}
  BY DEF Active
<1>2. CASE UNCHANGED vars
  BY <1>1, <1>2 DEF vars
<1>3. CASE Environment
  <2>1. ASSUME NEW t \in Tickets, DeleteTicket(t)
        PROVE  Ebb
    BY <1>p, <2>1 DEF DeleteTicket, Ebb
  <2> QED
    BY <1>1, <1>3, <2>1 DEF Environment, Reopen, AutoClose, Reassign, Reactivate, SetLimit,
       Elapse
<1>4. ASSUME NEW w \in Workers, Worker(w), ~Insert(w), ~Activate(w), ~MoveOffer(w)
      PROVE  Ebb
  <2>1. CASE Begins(w) \/ Fail(w)
    BY <1>1, <2>1 DEF Begins, Fail, StartCreate, StartFinish, StartAccept, StartDecline,
       StartCancel, SetState, StartGoUnavailable, PatchAvailable, StartDeactivate, StartSweep
  <2>2. CASE CheckTarget(w) \/ CheckExisting(w) \/ CountSlots(w) \/ ReadTicket(w) \/ Move(w)
             \/ Count(w) \/ Find(w) \/ ReadTarget(w)
    BY <1>1, <2>2 DEF CheckTarget, CheckExisting, CountSlots, ReadTicket, Move, Count, Find,
       ReadTarget
  <2>3. CASE ListOffers(w) \/ CancelOffersEnd(w) \/ Shed(w) \/ ShedEnd(w) \/ GoUnavailable(w)
             \/ ListPending(w) \/ SetClocks(w) \/ SetClocksEnd(w)
    BY <1>1, <2>3 DEF ListOffers, CancelOffersEnd, Shed, ShedEnd, GoUnavailable, ListPending,
       SetClocks, SetClocksEnd
  <2>4. CASE ListRaised(w) \/ ListReceived(w) \/ PickReplacement(w) \/ RerouteEnd(w)
             \/ CountReplacement(w) \/ ExpireEnd(w)
    BY <1>1, <2>4 DEF ListRaised, ListReceived, PickReplacement, RerouteEnd, CountReplacement,
       ExpireEnd
  <2>5. CASE ClaimStale(w) \/ ClaimAccepted(w) \/ Decline(w)
    BY <1>p, <2>5, SwapEbbs DEF ClaimStale, ClaimAccepted, Decline
  <2>6. CASE Cancel(w) \/ CancelOffers(w) \/ CancelRaised(w) \/ CancelReceived(w)
    BY <1>p, <2>6, SwapEbbs DEF Cancel, CancelOffers, CancelRaised, CancelReceived, CancelOne
  <2>7. CASE Expire(w)
    BY <1>p, <2>7, SwapEbbs DEF Expire
  <2>8. CASE Undo(w)
    BY <1>p, <2>8 DEF Undo, Ebb, TypeInv, TypeOK
  <2> QED
    BY StepAt, <1>4, <2>1, <2>2, <2>3, <2>4, <2>5, <2>6, <2>7, <2>8
<1> QED
  BY <1>2, <1>3, <1>4 DEF Next

LEMMA EntersCount ==
  ASSUME TypeInv, NEW w \in Workers, Worker(w), pc'[w] = "count"
  PROVE  \/ Activate(w)
         \/ my'[w].lim = limit /\ my'[w].tries = limit
<1>1. CASE Begins(w) \/ Fail(w)
  BY <1>1, BeginLabels, Finishes DEF Fail
<1>2. CASE CheckTarget(w) \/ CheckExisting(w) \/ Insert(w)
  BY <1>2, Becomes, Finishes DEF CheckTarget, CheckExisting, Insert
<1>3. CASE CountSlots(w) \/ ReadTarget(w) \/ ListOffers(w) \/ CancelOffersEnd(w)
  <2>1. \/ Finish(w)
        \/ \E l \in {"insert", "activate", "cancelOffers"} : \E rec : Become(w, l, rec)
    BY <1>3 DEF CountSlots, ReadTarget, ListOffers, CancelOffersEnd
  <2> QED
    BY <2>1, Becomes, Finishes
<1>4. CASE ReadTicket(w) \/ ClaimStale(w) \/ ClaimAccepted(w)
  BY <1>4, Becomes, Finishes, Promotes, BlankLocal DEF ReadTicket, ClaimStale, ClaimAccepted
<1>5. CASE Move(w) \/ Undo(w) \/ Decline(w)
  BY <1>5, Becomes, Finishes, Promotes, BlankLocal DEF Move, Undo, Decline
<1>6. CASE Cancel(w) \/ CancelOffers(w) \/ CancelRaised(w) \/ CancelReceived(w)
  BY <1>6, CancelsOne DEF Cancel, CancelOffers, CancelRaised, CancelReceived
<1>7. CASE Return(w)
  <2>1. my[w].back \in Callers
    BY DEF TypeInv, TypeOK, Locals
  <2> QED
    BY <1>7, <2>1, Returns DEF Callers
<1>8. CASE Count(w) /\ ~Return(w)
  BY <1>8, Becomes DEF Count
<1>9. CASE Find(w) /\ ~Return(w)
  <2>1. \E rec : Become(w, "readTarget", rec)
    BY <1>9 DEF Find
  <2> QED
    BY <2>1, Becomes
<1>10. CASE Shed(w) \/ ShedEnd(w) \/ GoUnavailable(w) \/ ListPending(w)
  <2>1. \/ Return(w)
        \/ \E rec : \/ Become(w, "shed", rec)
                    \/ Become(w, "listPending", rec)
                    \/ Become(w, "setClocks", rec)
    BY <1>10 DEF Shed, ShedEnd, GoUnavailable, ListPending
  <2> QED
    BY <1>7, <2>1, Becomes
<1>11. CASE SetClocks(w) \/ SetClocksEnd(w) \/ RerouteEnd(w) \/ ExpireEnd(w)
  <2>1. Finish(w) \/ \E rec : Become(w, "setClocks", rec)
    BY <1>11 DEF SetClocks, SetClocksEnd, RerouteEnd, ExpireEnd
  <2> QED
    BY <2>1, Becomes, Finishes
<1>12. CASE ListRaised(w) \/ ListReceived(w) \/ PickReplacement(w)
  <2>1. \E rec : \/ Become(w, "cancelRaised", rec)
                 \/ Become(w, "reroute", rec)
                 \/ Become(w, "countReplacement", rec)
    BY <1>12 DEF ListRaised, ListReceived, PickReplacement
  <2> QED
    BY <2>1, Becomes
<1>13. CASE CountReplacement(w) \/ MoveOffer(w)
  <2>1. \E rec : Become(w, "moveOffer", rec) \/ Become(w, "reroute", rec)
    BY <1>13 DEF CountReplacement, MoveOffer
  <2> QED
    BY <2>1, Becomes
<1>14. CASE Expire(w)
  <2>1. PICK e \in my[w].todo :
          \/ Promote(w, [my[w] EXCEPT !.todo = @ \ {e}], e.to, "expire")
          \/ Become(w, "expire", [my[w] EXCEPT !.todo = @ \ {e}])
    BY <1>14 DEF Expire
  <2>2. [my[w] EXCEPT !.todo = @ \ {e}] \in Locals
    BY DEF TypeInv, TypeOK, Locals
  <2> QED
    BY <2>1, <2>2, Becomes, Promotes
<1> QED
  BY StepAt, <1>1, <1>2, <1>3, <1>4, <1>5, <1>6, <1>7, <1>8, <1>9, <1>10, <1>11, <1>12,
     <1>13, <1>14

LEMMA WorkerFrame ==
  ASSUME NEW w \in Workers, Worker(w)
  PROVE  UNCHANGED limit
BY DEF Worker, CreateStep, AnswerStep, CancelStep, PromoteStep, PresenceStep, RerouteStep,
       SweepStep, Fail, StartCreate, CheckTarget, CheckExisting, CountSlots, Insert,
       StartAccept, StartDecline, ReadTicket, ClaimStale, ClaimAccepted, Move, Undo, Decline,
       StartCancel, StartFinish, Cancel, ListOffers, CancelOffers, CancelOne, CancelOffersEnd,
       Count, Find, ReadTarget, Activate, SetState, StartGoUnavailable, PatchAvailable,
       StartDeactivate, GoUnavailable, Shed, ShedEnd, ListPending, SetClocks, SetClocksEnd,
       ListRaised, CancelRaised, ListReceived, CancelReceived, PickReplacement,
       CountReplacement, MoveOffer, RerouteEnd, StartSweep, Expire, ExpireEnd

(* What happens besides the one handler happens while there is none, except  *)
(* that time passes.                                                         *)
LEMMA Between ==
  ASSUME Serial, TypeInv, [Next]_vars, ~\E w \in Workers : Worker(w)
  PROVE  \/ UNCHANGED vars
         \/ \E r \in Ids : Elapse(r)
         \/ Idle /\ Environment
BY DEF Next, Environment, Reopen, AutoClose, DeleteTicket, Reassign, Reactivate, SetLimit,
       Runs, Starts, Serial, Idle

-----------------------------------------------------------------------------
(* What a handler has read is still so when it comes to use it: nobody else  *)
(* wrote a row, the setting or a ticket in between.                          *)

Reading(w) ==
  /\ pc[w] \in CreateLabels => my[w].to \in Agents
  /\ pc[w] \in {"countSlots", "insert"} => \A t \in my[w].tkts : OffersFor(t) = {}
  /\ pc[w] \in {"insert", "moveOffer"} =>
       IF my[w].full THEN Cardinality(Pending(my[w].to)) >= limit
                     ELSE Cardinality(Pending(my[w].to)) < limit
  /\ pc[w] \in Promoting => my[w].lim = limit
  /\ pc[w] \in Looking => Cardinality(Pending(my[w].to)) < limit
  /\ pc[w] \in {"readTarget", "activate"} =>
       /\ my[w].id \in Queued(my[w].to)
       /\ \A q \in Queued(my[w].to) : my[w].id <= q
  /\ pc[w] \in {"countReplacement", "moveOffer"} => my[w].to \in Agents \ {my[w].agent}

(* A ticket has one live offer at most; OneOffer says so by counting. *)
OneEach ==
  \A q, r \in Ids :
    status[q] \in Active /\ status[r] \in Active /\ ticketId[q] = ticketId[r] => q = r

SerialInv == TypeInv /\ ClaimInv /\ OneEach /\ \A w \in Workers : Reading(w)

LEMMA StepReading ==
  ASSUME TypeInv, NEW w \in Workers, Reading(w), Worker(w)
  PROVE  Reading(w)'
<1>0. /\ my[w] \in Locals /\ pc[w] \in Labels /\ limit \in Nat
      /\ UNCHANGED limit /\ \A a : Cardinality(Pending(a)) \in Nat
  BY WorkerFrame, LimitIsNat, IdSets DEF TypeInv, TypeOK, Pending
<1>1. CASE pc'[w] = "checkTarget"
  <2>1. PICK t \in Tickets, a \in Agents : StartCreate(w, t, a)
    BY <1>1, Enters
  <2>2. my'[w] = [Blank EXCEPT !.tkts = {t}, !.agent = owner[t], !.to = a]
    BY <2>1, Becomes DEF StartCreate
  <2> QED
    BY <1>1, <2>2 DEF Reading, Promoting, Looking, Blank
<1>2. CASE pc'[w] = "checkExisting"
  <2>1. CheckTarget(w) /\ my'[w] = [my[w] EXCEPT !.away = Away(my[w].to)]
    BY <1>2, Enters, Becomes, Finishes DEF CheckTarget
  <2>2. my'[w].to = my[w].to
    BY <1>0, <2>1 DEF Locals
  <2> QED
    BY <1>2, <2>1, <2>2 DEF Reading, Promoting, Looking, CheckTarget, At, CreateLabels
<1>3. CASE pc'[w] = "countSlots"
  <2>1. CheckExisting(w) /\ my'[w] = my[w]
    BY <1>3, Enters
  <2>2. \A t \in my[w].tkts : OffersFor(t) = {}
    BY <1>3, <2>1, Finishes DEF CheckExisting
  <2> QED
    BY <1>3, <2>1, <2>2
    DEF Reading, Promoting, Looking, CheckExisting, At, CreateLabels, OffersFor, rowVars
<1>4. CASE pc'[w] = "insert"
  <2> DEFINE full == Cardinality(Pending(my[w].to)) >= limit
  <2>1. CountSlots(w) /\ my'[w] = [my[w] EXCEPT !.full = full]
    BY <1>4, Enters, Becomes DEF CountSlots
  <2>2. my'[w].to = my[w].to /\ my'[w].tkts = my[w].tkts /\ my'[w].full = full
    BY <1>0, <2>1 DEF Locals
  <2>3. Pending(my[w].to)' = Pending(my[w].to) /\ \A t : OffersFor(t)' = OffersFor(t)
    BY <2>1, <2>2 DEF CountSlots, rowVars, Pending, OffersFor
  <2>4. UNCHANGED limit /\ pc[w] = "countSlots"
    BY <2>1 DEF CountSlots, At
  <2>5. IF my'[w].full THEN Cardinality(Pending(my[w].to)) >= limit
                       ELSE Cardinality(Pending(my[w].to)) < limit
    <3>1. full \/ Cardinality(Pending(my[w].to)) < limit
      BY <1>0
    <3> QED
      BY <2>2, <3>1
  <2> HIDE DEF full
  <2> QED
    BY <1>4, <2>2, <2>3, <2>4, <2>5
    DEF Reading, Promoting, Looking, CreateLabels, OffersFor
<1>5. CASE pc'[w] = "count"
  <2>1. CASE Activate(w)
    <3>1. pc[w] = "activate"
      BY <2>1 DEF Activate, At
    <3>2. my'[w].lim = my[w].lim
      <4>1. my[w].back # "count"
        BY <1>0 DEF Locals, Callers
      <4>2. ~Return(w)
        BY <1>5, <4>1, Returns
      <4> DEFINE rec == [my[w] EXCEPT !.id = 0, !.away = FALSE, !.tries = @ - 1]
      <4>3. Become(w, "count", rec)
        BY <2>1, <4>2 DEF Activate
      <4>4. rec.lim = my[w].lim
        BY <1>0 DEF Locals
      <4> HIDE DEF rec
      <4> QED
        BY <4>3, <4>4, Becomes
    <3> QED
      BY <1>0, <1>5, <3>1, <3>2 DEF Reading, Promoting, Looking, CreateLabels
  <2>2. CASE my'[w].lim = limit
    BY <1>0, <1>5, <2>2 DEF Reading, Promoting, Looking, CreateLabels
  <2> QED
    BY <1>5, <2>1, <2>2, EntersCount
<1>6. CASE pc'[w] = "find"
  <2>1. Count(w) /\ my'[w] = my[w]
    BY <1>6, Enters
  <2>2. Cardinality(Pending(my[w].to)) < my[w].lim
    <3>1. ~Return(w)
      <4>1. my[w].back # "find"
        BY <1>0 DEF Locals, Callers
      <4> QED
        BY <1>6, <4>1, Returns
    <3>2. my[w].lim \in Nat
      BY <1>0 DEF Locals
    <3> QED
      BY <1>0, <2>1, <3>1, <3>2 DEF Count
  <2>3. Pending(my[w].to)' = Pending(my[w].to)
    BY <2>1 DEF Count, rowVars, Pending
  <2> QED
    BY <1>0, <1>6, <2>1, <2>2, <2>3 DEF Reading, Promoting, Looking, Count, At, CreateLabels
<1>7. CASE pc'[w] = "readTarget"
  <2>1. Find(w)
    BY <1>7, Enters
  <2>2. ~Return(w)
    <3>1. my[w].back # "readTarget"
      BY <1>0 DEF Locals, Callers
    <3> QED
      BY <1>7, <3>1, Returns
  <2>3. PICK r \in Queued(my[w].to) :
          /\ \A q \in Queued(my[w].to) : r <= q
          /\ Become(w, "readTarget", [my[w] EXCEPT !.id = r])
    BY <2>1, <2>2 DEF Find
  <2>4. my'[w] = [my[w] EXCEPT !.id = r]
    BY <2>3, Becomes
  <2>5. my'[w].id = r /\ my'[w].to = my[w].to /\ my'[w].lim = my[w].lim
    BY <1>0, <2>4 DEF Locals
  <2>6. Pending(my[w].to)' = Pending(my[w].to) /\ Queued(my[w].to)' = Queued(my[w].to)
    BY <2>1, <2>5 DEF Find, rowVars, Pending, Queued
  <2> QED
    BY <1>0, <1>7, <2>1, <2>3, <2>5, <2>6
    DEF Reading, Promoting, Looking, Find, At, CreateLabels
<1>8. CASE pc'[w] = "activate"
  <2>1. ReadTarget(w) /\ my'[w] = [my[w] EXCEPT !.away = Away(my[w].to)]
    BY <1>8, Enters, Becomes DEF ReadTarget
  <2>2. my'[w].id = my[w].id /\ my'[w].to = my[w].to /\ my'[w].lim = my[w].lim
    BY <1>0, <2>1 DEF Locals
  <2>3. Pending(my[w].to)' = Pending(my[w].to) /\ Queued(my[w].to)' = Queued(my[w].to)
    BY <2>1, <2>2 DEF ReadTarget, rowVars, Pending, Queued
  <2> QED
    BY <1>0, <1>8, <2>1, <2>2, <2>3
    DEF Reading, Promoting, Looking, ReadTarget, At, CreateLabels
<1>9. CASE pc'[w] = "countReplacement"
  <2>1. PICK e \in my[w].todo, b \in Eligible :
          /\ b \notin {my[w].agent, requestedBy[e.id]}
          /\ Become(w, "countReplacement",
                    [my[w] EXCEPT !.id = e.id, !.to = b, !.todo = @ \ {e}])
    BY <1>9, Enters DEF PickReplacement
  <2>2. my'[w] = [my[w] EXCEPT !.id = e.id, !.to = b, !.todo = @ \ {e}]
    BY <2>1, Becomes
  <2>3. my'[w].to = b /\ my'[w].agent = my[w].agent
    BY <1>0, <2>2 DEF Locals
  <2> QED
    BY <1>9, <2>1, <2>3 DEF Reading, Promoting, Looking, CreateLabels, Eligible
<1>10. CASE pc'[w] = "moveOffer"
  <2> DEFINE full == Cardinality(Pending(my[w].to)) >= limit
  <2>1. CountReplacement(w) /\ my'[w] = [my[w] EXCEPT !.full = full]
    BY <1>10, Enters, Becomes DEF CountReplacement
  <2>2. my'[w].to = my[w].to /\ my'[w].agent = my[w].agent /\ my'[w].full = full
    BY <1>0, <2>1 DEF Locals
  <2>3. Pending(my[w].to)' = Pending(my[w].to)
    BY <2>1, <2>2 DEF CountReplacement, rowVars, Pending
  <2>4. UNCHANGED limit /\ pc[w] = "countReplacement"
    BY <2>1 DEF CountReplacement, At
  <2>5. IF my'[w].full THEN Cardinality(Pending(my[w].to)) >= limit
                       ELSE Cardinality(Pending(my[w].to)) < limit
    <3>1. full \/ Cardinality(Pending(my[w].to)) < limit
      BY <1>0
    <3> QED
      BY <2>2, <3>1
  <2> HIDE DEF full
  <2> QED
    BY <1>10, <2>2, <2>3, <2>4, <2>5
    DEF Reading, Promoting, Looking, CreateLabels
<1> QED
  BY <1>1, <1>2, <1>3, <1>4, <1>5, <1>6, <1>7, <1>8, <1>9, <1>10
  DEF Reading, Promoting, Looking, CreateLabels

LEMMA StepOneEach ==
  ASSUME TypeInv, ClaimInv, OneEach, \A w \in Workers : Reading(w), [Next]_vars
  PROVE  OneEach'
<1>1. CASE Ebb
  BY <1>1 DEF Ebb, OneEach
<1>2. ASSUME NEW w \in Workers, Insert(w)
      PROVE  OneEach'
  <2>1. PICK t \in my[w].tkts :
          \/ UNCHANGED rowVars
          \/ /\ ticketId' = [ticketId EXCEPT ![nextId] = t]
             /\ status' = [status EXCEPT ![nextId] =
                             IF my[w].full THEN "QUEUED" ELSE "PENDING"]
    BY <1>2 DEF Insert
  <2>2. nextId \in Ids /\ status[nextId] = "NOROW" /\ OffersFor(t) = {}
    BY <1>2 DEF Insert, At, Reading, ClaimInv, RowsBelow, TypeInv, TypeOK
  <2>3. CASE UNCHANGED rowVars
    BY <2>3 DEF rowVars, OneEach
  <2>4. CASE /\ ticketId' = [ticketId EXCEPT ![nextId] = t]
             /\ status' = [status EXCEPT ![nextId] =
                             IF my[w].full THEN "QUEUED" ELSE "PENDING"]
    <3>1. \A r \in Ids \ {nextId} : status'[r] = status[r] /\ ticketId'[r] = ticketId[r]
      BY <2>4 DEF TypeInv, TypeOK
    <3>2. \A r \in Ids : status[r] \in Active => ticketId[r] # t
      BY <2>2 DEF OffersFor
    <3>3. ticketId'[nextId] = t
      BY <2>2, <2>4 DEF TypeInv, TypeOK
    <3> QED
      BY <3>1, <3>2, <3>3 DEF OneEach
  <2> QED
    BY <2>1, <2>3, <2>4
<1>3. ASSUME NEW w \in Workers, Activate(w) \/ MoveOffer(w)
      PROVE  OneEach'
  <2>1. UNCHANGED ticketId /\ \A r \in Ids : status'[r] \in Active => status[r] \in Active
    BY <1>3 DEF Activate, MoveOffer, TypeInv, TypeOK, Active
  <2> QED
    BY <2>1 DEF OneEach
<1> QED
  BY <1>1, <1>2, <1>3, StepEbbs

LEMMA InitSerial == Init => SerialInv
<1>1. Init => OneEach /\ \A w \in Workers : Reading(w)
  BY DEF Init, OneEach, Reading, Promoting, Looking, CreateLabels, Active
<1> QED
  BY <1>1, InitType, InitClaim DEF SerialInv

LEMMA StepSerial ==
  ASSUME Serial, SerialInv, [Next]_vars
  PROVE  SerialInv'
<1>1. ASSUME NEW w \in Workers
      PROVE  Reading(w)'
  <2>1. CASE \E v \in Workers : Worker(v)
    BY <2>1, StepReading DEF SerialInv, Serial
  <2>2. CASE UNCHANGED vars \/ \E r \in Ids : Elapse(r)
    <3>1. UNCHANGED <<pc, my, limit, status, target, ticketId>>
      BY <2>2 DEF vars, rowVars, Elapse
    <3>2. Pending(my[w].to)' = Pending(my[w].to) /\ Queued(my[w].to)' = Queued(my[w].to)
            /\ \A t : OffersFor(t)' = OffersFor(t)
      BY <3>1 DEF Pending, Queued, OffersFor
    <3> QED
      BY <3>1, <3>2 DEF SerialInv, Reading, OffersFor
  <2>3. CASE Idle /\ Environment
    <3>1. pc'[w] = "idle"
      BY <2>3 DEF Idle, Environment, Reopen, AutoClose, DeleteTicket, Reassign, Reactivate,
                  SetLimit, Elapse
    <3> QED
      BY <3>1 DEF Reading, Promoting, Looking, CreateLabels
  <2> QED
    BY <2>1, <2>2, <2>3, Between DEF SerialInv
<1> QED
  BY <1>1, StepType, StepClaim, StepOneEach DEF SerialInv

(* When handlers run one at a time no ticket ever has two live offers        *)
(* (createRequest, checkExisting), whatever fails half way.                  *)
THEOREM OneOfferHolds ==
  ASSUME Serial
  PROVE  Spec => []OneOffer
<1>1. ASSUME SerialInv, NEW t \in Tickets
      PROVE  Cardinality(OffersFor(t)) <= 1
  <2>1. CASE OffersFor(t) = {}
    BY <2>1, FS_EmptySet
  <2>2. ASSUME NEW r \in OffersFor(t)
        PROVE  Cardinality(OffersFor(t)) <= 1
    <3>1. OffersFor(t) = {r}
      BY <1>1, <2>2 DEF SerialInv, OneEach, OffersFor
    <3> QED
      BY <3>1, FS_Singleton
  <2> QED
    BY <2>1, <2>2
<1>2. SerialInv => OneOffer
  BY <1>1 DEF OneOffer
<1>3. SerialInv /\ [Next]_vars => SerialInv'
  BY StepSerial
<1> QED
  BY <1>2, <1>3, InitSerial, PTL DEF Spec


(* A step gives a recipient one slot at most, and only one that is free. *)
LEMMA StepSlots ==
  ASSUME SerialInv, [Next]_vars, NEW a
  PROVE  \/ Pending(a)' \subseteq Pending(a)
         \/ /\ Cardinality(Pending(a)) < limit
            /\ \E r \in Ids : Pending(a)' \subseteq Pending(a) \cup {r}
<1>0. /\ TypeInv /\ ClaimInv /\ (\A w \in Workers : Reading(w)) /\ limit \in Nat
      /\ \A b : Cardinality(Pending(b)) \in Nat
  BY LimitIsNat, IdSets DEF SerialInv, TypeInv, TypeOK, Pending
<1>1. ASSUME NEW w \in Workers, Insert(w), ~UNCHANGED rowVars
      PROVE  \/ Pending(a)' \subseteq Pending(a)
             \/ /\ Cardinality(Pending(a)) < limit
                /\ \E r \in Ids : Pending(a)' \subseteq Pending(a) \cup {r}
  <2>1. /\ nextId \in Ids
        /\ target' = [target EXCEPT ![nextId] = my[w].to]
        /\ status' = [status EXCEPT ![nextId] = IF my[w].full THEN "QUEUED" ELSE "PENDING"]
    BY <1>1 DEF Insert
  <2>2. ~my[w].full => Cardinality(Pending(my[w].to)) < limit
    BY <1>0, <1>1 DEF Insert, At, Reading
  <2>3. Pending(a)' \subseteq Pending(a) \cup {nextId}
    BY <1>0, <2>1 DEF Pending, TypeInv, TypeOK
  <2>4. nextId \in Pending(a)' => a = my[w].to /\ ~my[w].full
    BY <1>0, <2>1 DEF Pending, TypeInv, TypeOK
  <2> QED
    BY <2>1, <2>2, <2>3, <2>4
<1>2. ASSUME NEW w \in Workers, Activate(w), ~UNCHANGED status
      PROVE  \/ Pending(a)' \subseteq Pending(a)
             \/ /\ Cardinality(Pending(a)) < limit
                /\ \E r \in Ids : Pending(a)' \subseteq Pending(a) \cup {r}
  <2>1. UNCHANGED target /\ status' = [status EXCEPT ![my[w].id] = "PENDING"]
    BY <1>2 DEF Activate
  <2>2. my[w].id \in Ids /\ my[w].id \in Queued(my[w].to) /\ Cardinality(Pending(my[w].to)) < limit
    BY <1>0, <1>2 DEF Activate, At, Reading, Looking, Queued
  <2>3. Pending(a)' \subseteq Pending(a) \cup {my[w].id}
    BY <1>0, <2>1 DEF Pending, TypeInv, TypeOK
  <2>4. my[w].id \in Pending(a)' => a = my[w].to
    BY <1>0, <2>1, <2>2 DEF Pending, Queued
  <2> QED
    BY <2>2, <2>3, <2>4
<1>3. ASSUME NEW w \in Workers, MoveOffer(w), ~UNCHANGED <<status, target>>
      PROVE  \/ Pending(a)' \subseteq Pending(a)
             \/ /\ Cardinality(Pending(a)) < limit
                /\ \E r \in Ids : Pending(a)' \subseteq Pending(a) \cup {r}
  <2>1. /\ target' = [target EXCEPT ![my[w].id] = my[w].to]
        /\ status' = [status EXCEPT ![my[w].id] = IF my[w].full THEN "QUEUED"
                                                                 ELSE "PENDING"]
        /\ status[my[w].id] \in Active /\ my[w].id \in Ids
    BY <1>3, <1>0 DEF MoveOffer, At, TypeInv, TypeOK, Locals, Active
  <2>2. ~my[w].full => Cardinality(Pending(my[w].to)) < limit
    BY <1>0, <1>3 DEF MoveOffer, At, Reading
  <2>3. Pending(a)' \subseteq Pending(a) \cup {my[w].id}
    BY <1>0, <2>1 DEF Pending, TypeInv, TypeOK
  <2>4. my[w].id \in Pending(a)' => a = my[w].to /\ ~my[w].full
    BY <1>0, <2>1 DEF Pending, TypeInv, TypeOK
  <2> QED
    BY <2>1, <2>2, <2>3, <2>4
<1>4. UNCHANGED <<status, target>> => Pending(a)' \subseteq Pending(a)
  BY DEF Pending
<1>5. \A w \in Workers : Activate(w) => UNCHANGED target
  BY DEF Activate
<1> QED
  BY <1>0, <1>1, <1>2, <1>3, <1>4, <1>5, StepEbbs, EbbSets DEF rowVars

(* When handlers run one at a time no statement, of whichever service, takes *)
(* a recipient over the limit: the count createRequest, promoteQueue and the *)
(* rerouting act on is still right when they write.                          *)
THEOREM SlotLimitHolds ==
  ASSUME Serial
  PROVE  Spec => SlotLimit
<1>1. ASSUME SerialInv, [Next]_vars, NEW a \in Agents,
             Cardinality(Pending(a)') > Cardinality(Pending(a))
      PROVE  Cardinality(Pending(a)') <= limit
  <2>0. limit \in Nat /\ Pending(a) \in SUBSET Ids /\ Pending(a)' \in SUBSET Ids
          /\ Cardinality(Pending(a)) \in Nat /\ Cardinality(Pending(a)') \in Nat
    <3>1. Pending(a) \in SUBSET Ids /\ Pending(a)' \in SUBSET Ids
      BY DEF Pending
    <3> QED
      BY <1>1, <3>1, IdSets, LimitIsNat DEF SerialInv, TypeInv, TypeOK
  <2>1. CASE Pending(a)' \subseteq Pending(a)
    <3>1. Cardinality(Pending(a)') <= Cardinality(Pending(a))
      BY <2>0, <2>1, FewerIds
    <3> QED
      BY <1>1, <2>0, <3>1
  <2>2. ASSUME Cardinality(Pending(a)) < limit,
               NEW r \in Ids, Pending(a)' \subseteq Pending(a) \cup {r}
        PROVE  Cardinality(Pending(a)') <= limit
    <3>1. Pending(a) \cup {r} \in SUBSET Ids
      BY <2>0
    <3>2. Cardinality(Pending(a)') <= Cardinality(Pending(a) \cup {r})
      BY <2>2, <3>1, FewerIds
    <3>3. Cardinality(Pending(a) \cup {r}) <= Cardinality(Pending(a)) + 1
      BY <2>0, OneMoreId
    <3>4. Cardinality(Pending(a) \cup {r}) \in Nat
      BY <3>1, IdSets
    <3> QED
      BY <2>0, <2>2, <3>2, <3>3, <3>4
  <2> QED
    BY <1>1, <2>1, <2>2, StepSlots
<1>2. SerialInv /\ [Next]_vars =>
        SerialInv' /\ [\A a \in Agents :
                         Cardinality(Pending(a)') > Cardinality(Pending(a))
                           => Cardinality(Pending(a)') <= limit]_vars
  BY <1>1, StepSerial
<1> QED
  BY <1>2, InitSerial, PTL DEF Spec, SlotLimit

(* When handlers run one at a time the queue is first in, first out: between *)
(* promoteQueue's find and its activate no older offer appears.              *)
THEOREM FifoPromotionHolds ==
  ASSUME Serial
  PROVE  Spec => FifoPromotion
<1> DEFINE InTurn == \A r \in Ids :
              /\ status[r] = "QUEUED" /\ status'[r] = "PENDING"
              /\ target'[r] = target[r]
              => \A q \in Queued(target[r]) : r <= q
<1>1. ASSUME SerialInv, [Next]_vars
      PROVE  InTurn
  <2>0. TypeInv /\ ClaimInv /\ \A w \in Workers : Reading(w)
    BY <1>1 DEF SerialInv
  <2>1. CASE Ebb
    BY <2>1 DEF Ebb, Active
  <2>2. ASSUME NEW w \in Workers, Insert(w)
        PROVE  InTurn
    <3>1. status[nextId] = "NOROW"
      BY <2>0, <2>2 DEF Insert, ClaimInv, RowsBelow, TypeInv, TypeOK
    <3>2. \A r \in Ids : r # nextId => status'[r] = status[r]
      BY <2>0, <2>2 DEF Insert, TypeInv, TypeOK, rowVars
    <3> QED
      BY <3>1, <3>2
  <2>3. ASSUME NEW w \in Workers, Activate(w)
        PROVE  InTurn
    <3>1. /\ my[w].id \in Queued(my[w].to)
          /\ \A q \in Queued(my[w].to) : my[w].id <= q
      BY <2>0, <2>3 DEF Activate, At, Reading
    <3>2. \A r \in Ids : r # my[w].id => status'[r] = status[r]
      BY <2>0, <2>3 DEF Activate, TypeInv, TypeOK
    <3> QED
      BY <3>1, <3>2 DEF Queued
  <2>4. ASSUME NEW w \in Workers, MoveOffer(w)
        PROVE  InTurn
    <3>1. my[w].to # my[w].agent
      BY <2>0, <2>4 DEF MoveOffer, At, Reading
    <3>2. \A r \in Ids : status'[r] # status[r] =>
                           target[r] = my[w].agent /\ target'[r] = my[w].to
      BY <2>0, <2>4 DEF MoveOffer, TypeInv, TypeOK
    <3> QED
      BY <3>1, <3>2
  <2> QED
    BY <2>0, <1>1, <2>1, <2>2, <2>3, <2>4, StepEbbs
<1>2. SerialInv /\ [Next]_vars => SerialInv' /\ [InTurn]_vars
  BY <1>1, StepSerial
<1> QED
  BY <1>2, InitSerial, PTL DEF Spec, FifoPromotion


-----------------------------------------------------------------------------
(* Withdrawing the offers of a finished ticket                               *)

(* promoteQueue keeps to its recipient and its caller until it returns, and  *)
(* leaves the caller's list as it is.                                        *)
LEMMA PromoteKeeps ==
  ASSUME TypeInv, NEW w \in Workers, PromoteStep(w)
  PROVE  \/ /\ pc[w] \in Promoting /\ pc'[w] \in Promoting
            /\ my'[w].back = my[w].back /\ my'[w].to = my[w].to
            /\ my'[w].todo = my[w].todo
         \/ pc[w] \in Promoting /\ Return(w)
<1>0. my[w] \in Locals
  BY DEF TypeInv, TypeOK
<1>1. ASSUME NEW l \in Promoting, NEW rec, Become(w, l, rec), pc[w] \in Promoting,
             rec.back = my[w].back, rec.to = my[w].to, rec.todo = my[w].todo
      PROVE  /\ pc[w] \in Promoting /\ pc'[w] \in Promoting
             /\ my'[w].back = my[w].back /\ my'[w].to = my[w].to
             /\ my'[w].todo = my[w].todo
  BY <1>1, Becomes
<1>2. CASE Count(w)
  BY <1>1, <1>2 DEF Count, At, Promoting, Looking
<1>3. CASE Find(w)
  <2>1. ASSUME NEW r
        PROVE  /\ [my[w] EXCEPT !.id = r].back = my[w].back
               /\ [my[w] EXCEPT !.id = r].to = my[w].to
               /\ [my[w] EXCEPT !.id = r].todo = my[w].todo
    BY <1>0 DEF Locals
  <2>2. Return(w) \/ \E r : Become(w, "readTarget", [my[w] EXCEPT !.id = r])
    BY <1>3 DEF Find
  <2>3. pc[w] \in Promoting /\ "readTarget" \in Promoting
    BY <1>3 DEF Find, At, Promoting, Looking
  <2> QED
    BY <1>1, <2>1, <2>2, <2>3
<1>4. CASE ReadTarget(w)
  <2> DEFINE rec == [my[w] EXCEPT !.away = Away(my[w].to)]
  <2>1. rec.back = my[w].back /\ rec.to = my[w].to /\ rec.todo = my[w].todo
    BY <1>0 DEF Locals
  <2>2. Become(w, "activate", rec)
    BY <1>4 DEF ReadTarget
  <2>3. pc[w] \in Promoting /\ "activate" \in Promoting
    BY <1>4 DEF ReadTarget, At, Promoting, Looking
  <2> HIDE DEF rec
  <2> QED
    BY <1>1, <2>1, <2>2, <2>3
<1>5. CASE Activate(w)
  <2> DEFINE rec == [my[w] EXCEPT !.id = 0, !.away = FALSE, !.tries = @ - 1]
  <2>1. rec.back = my[w].back /\ rec.to = my[w].to /\ rec.todo = my[w].todo
    BY <1>0 DEF Locals
  <2>2. Return(w) \/ Become(w, "count", rec)
    BY <1>5 DEF Activate
  <2>3. pc[w] \in Promoting /\ "count" \in Promoting
    BY <1>5 DEF Activate, At, Promoting, Looking
  <2> HIDE DEF rec
  <2> QED
    BY <1>1, <2>1, <2>2, <2>3
<1> QED
  BY <1>2, <1>3, <1>4, <1>5 DEF PromoteStep

(* Offer r is on the list of the handler that finished its ticket. *)
Cleaning(w, r) ==
  \/ pc[w] = "listOffers" /\ ticketId[r] \in my[w].tkts
  \/ /\ \/ pc[w] = "cancelOffers"
        \/ pc[w] \in Promoting /\ my[w].back = "cancelOffers"
     /\ \E e \in my[w].todo : e.id = r

FinishedCleared ==
  \A r \in Ids : status[r] \in Active /\ state[ticketId[r]] # "OPEN" =>
                   \E w \in Workers : Cleaning(w, r)

CreatesForOpen ==
  \A w \in Workers : pc[w] \in CreateLabels => \A t \in my[w].tkts : state[t] = "OPEN"

FinishesOne == \A w \in Workers : pc[w] = "listOffers" => \E t : my[w].tkts = {t}

FinishedInv == FinishedCleared /\ CreatesForOpen /\ FinishesOne

LEMMA WorkerStates ==
  ASSUME NEW w \in Workers, Worker(w)
  PROVE  UNCHANGED state \/ \E t \in Tickets : StartFinish(w, t)
BY DEF Worker, CreateStep, AnswerStep, CancelStep, PromoteStep, PresenceStep, RerouteStep,
       SweepStep, Fail, StartCreate, CheckTarget, CheckExisting, CountSlots, Insert,
       StartAccept, StartDecline, ReadTicket, ClaimStale, ClaimAccepted, Move, Undo, Decline,
       StartCancel, Cancel, ListOffers, CancelOffers, CancelOne, CancelOffersEnd,
       Count, Find, ReadTarget, Activate, SetState, StartGoUnavailable, PatchAvailable,
       StartDeactivate, GoUnavailable, Shed, ShedEnd, ListPending, SetClocks, SetClocksEnd,
       ListRaised, CancelRaised, ListReceived, CancelReceived, PickReplacement,
       CountReplacement, MoveOffer, RerouteEnd, StartSweep, Expire, ExpireEnd, tickVars

(* Only a created offer is live and was not before. *)
LEMMA StepLive ==
  ASSUME SerialInv, [Next]_vars, NEW r \in Ids, status'[r] \in Active
  PROVE  \/ status[r] \in Active /\ ticketId'[r] = ticketId[r]
         \/ \E w \in Workers : Insert(w) /\ ticketId'[r] \in my[w].tkts
<1>0. TypeInv
  BY DEF SerialInv
<1>1. CASE Ebb
  BY <1>1 DEF Ebb
<1>2. ASSUME NEW w \in Workers, Insert(w)
      PROVE  \/ status[r] \in Active /\ ticketId'[r] = ticketId[r]
             \/ ticketId'[r] \in my[w].tkts
  <2>1. PICK t \in my[w].tkts :
          \/ UNCHANGED rowVars
          \/ /\ ticketId' = [ticketId EXCEPT ![nextId] = t]
             /\ status' = [status EXCEPT ![nextId] =
                             IF my[w].full THEN "QUEUED" ELSE "PENDING"]
    BY <1>2 DEF Insert
  <2> QED
    BY <1>0, <2>1 DEF rowVars, TypeInv, TypeOK
<1>3. ASSUME NEW w \in Workers, Activate(w) \/ MoveOffer(w)
      PROVE  status[r] \in Active /\ ticketId'[r] = ticketId[r]
  BY <1>0, <1>3 DEF Activate, MoveOffer, TypeInv, TypeOK, Active
<1> QED
  BY <1>0, <1>1, <1>2, <1>3, StepEbbs

LEMMA CleaningGoesOn ==
  ASSUME ~MayFail, SerialInv, NEW w \in Workers, Worker(w), FinishesOne, NEW r \in Ids,
         Cleaning(w, r), status[r] \in Active, status'[r] \in Active,
         ticketId'[r] = ticketId[r]
  PROVE  Cleaning(w, r)'
<1>0. TypeInv /\ ~Fail(w) /\ pc[w] # "idle"
  BY DEF SerialInv, Fail, Cleaning, Promoting, Looking
<1>1. CASE ListOffers(w)
  <2>1. PICK t \in my[w].tkts :
          Become(w, "cancelOffers", [Blank EXCEPT !.todo = {Snap(q) : q \in OffersFor(t)}])
    BY <1>1 DEF ListOffers
  <2>2. ticketId[r] = t
    BY <1>1, <2>1 DEF ListOffers, At, Cleaning, Promoting, Looking, FinishesOne
  <2>3. pc'[w] = "cancelOffers" /\ my'[w].todo = {Snap(q) : q \in OffersFor(t)}
    BY <1>0, <2>1, Becomes DEF Blank
  <2>4. r \in OffersFor(t) /\ Snap(r).id = r
    BY <2>2 DEF OffersFor, Snap
  <2>5. \E e \in my'[w].todo : e.id = r
    BY <2>3, <2>4
  <2> QED
    BY <2>3, <2>5 DEF Cleaning
<1>2. CASE CancelOffers(w)
  <2>1. PICK e \in my[w].todo : CancelOne(w, e, "cancelOffers")
    BY <1>2 DEF CancelOffers
  <2>2. e.id # r
    BY <1>0, <2>1 DEF CancelOne, Swap, Active, TypeInv, TypeOK
  <2>3. \E d \in my[w].todo \ {e} : d.id = r
    BY <1>2, <2>2 DEF CancelOffers, At, Cleaning
  <2>4. /\ pc'[w] \in {"count", "cancelOffers"} /\ my'[w].todo = my[w].todo \ {e}
        /\ pc'[w] = "count" => my'[w].back = "cancelOffers"
    BY <1>0, <2>1, CancelsOne
  <2>5. \E d \in my'[w].todo : d.id = r
    BY <2>3, <2>4
  <2> QED
    BY <2>4, <2>5 DEF Cleaning, Promoting
<1>3. CASE CancelOffersEnd(w)
  BY <1>3 DEF CancelOffersEnd, At, Cleaning
<1>4. CASE PromoteStep(w) /\ pc[w] \in Promoting
  <2>1. my[w].back = "cancelOffers" /\ \E e \in my[w].todo : e.id = r
    BY <1>4 DEF Cleaning, Promoting, Looking
  <2>2. my'[w].todo = my[w].todo
    BY <1>0, <1>4, <2>1, PromoteKeeps, Returns
  <2>3. \E e \in my'[w].todo : e.id = r
    BY <2>1, <2>2
  <2>4. \/ pc'[w] = "cancelOffers"
        \/ pc'[w] \in Promoting /\ my'[w].back = "cancelOffers"
    BY <1>0, <1>4, <2>1, PromoteKeeps, Returns
  <2> QED
    BY <2>3, <2>4 DEF Cleaning
<1> QED
  BY <1>0, <1>1, <1>2, <1>3, <1>4, StepAt, BeginsIdle
  DEF Cleaning, Promoting, Looking, PromoteStep

LEMMA StepFinished ==
  ASSUME Serial, ~MayFail, SerialInv, FinishedInv, [Next]_vars
  PROVE  FinishedInv'
<1>0. TypeInv /\ FinishedCleared /\ CreatesForOpen /\ FinishesOne
  BY DEF SerialInv, FinishedInv
<1>1. ASSUME NEW w \in Workers, Worker(w)
      PROVE  FinishedInv'
  <2>0. Workers = {w} /\ my[w] \in Locals
    BY <1>0 DEF Serial, TypeInv, TypeOK
  <2>1. ASSUME NEW t \in Tickets, StartFinish(w, t)
        PROVE  FinishedInv'
    <3>1. pc'[w] = "listOffers" /\ my'[w].tkts = {t}
      BY <1>0, <2>1, Becomes DEF StartFinish, Blank
    <3>2. UNCHANGED rowVars /\ \A u \in Tickets \ {t} : state'[u] = state[u]
      BY <1>0, <2>1 DEF StartFinish, TypeInv, TypeOK
    <3>3. \A r \in Ids : ~Cleaning(w, r)
      BY <2>1 DEF StartFinish, Starts, Cleaning, Promoting, Looking
    <3>4. FinishedCleared'
      <4> SUFFICES ASSUME NEW r \in Ids, status'[r] \in Active, state'[ticketId'[r]] # "OPEN"
                   PROVE  Cleaning(w, r)'
        BY DEF FinishedCleared
      <4>1. status[r] \in Active /\ ticketId'[r] = ticketId[r] /\ ticketId[r] \in Tickets
        BY <1>0, <3>2 DEF rowVars, TypeInv, RowsHaveTickets, Active
      <4>2. state[ticketId[r]] = "OPEN"
        BY <1>0, <2>0, <3>3, <4>1 DEF FinishedCleared
      <4>3. ticketId'[r] = t
        BY <3>2, <4>1, <4>2
      <4> QED
        BY <3>1, <4>3 DEF Cleaning
    <3> QED
      BY <2>0, <3>1, <3>4 DEF FinishedInv, CreatesForOpen, FinishesOne, CreateLabels
  <2>2. CASE UNCHANGED state
    <3>1. FinishedCleared'
      <4> SUFFICES ASSUME NEW r \in Ids, status'[r] \in Active, state'[ticketId'[r]] # "OPEN"
                   PROVE  Cleaning(w, r)'
        BY DEF FinishedCleared
      <4>1. ~\E v \in Workers : Insert(v) /\ ticketId'[r] \in my[v].tkts
        BY <1>0, <2>2 DEF Insert, At, CreatesForOpen, CreateLabels
      <4>2. status[r] \in Active /\ ticketId'[r] = ticketId[r]
        BY <4>1, StepLive
      <4>3. Cleaning(w, r)
        BY <1>0, <2>0, <2>2, <4>2 DEF FinishedCleared
      <4> QED
        BY <1>0, <1>1, <4>2, <4>3, CleaningGoesOn
    <3>2. pc'[w] \in CreateLabels => \A t \in my'[w].tkts : state'[t] = "OPEN"
      <4>1. ASSUME NEW t \in Tickets, NEW a \in Agents, StartCreate(w, t, a)
            PROVE  \A u \in my'[w].tkts : state[u] = "OPEN"
        <5>1. my'[w] = [Blank EXCEPT !.tkts = {t}, !.agent = owner[t], !.to = a]
          BY <1>0, <4>1, Becomes DEF StartCreate
        <5> QED
          BY <4>1, <5>1 DEF StartCreate, Blank
      <4>2. CASE CheckTarget(w) \/ CheckExisting(w) \/ CountSlots(w)
        <5>1. Finish(w) \/ my'[w].tkts = my[w].tkts
          <6>1. \/ Finish(w) \/ my'[w] = my[w]
                \/ \E b : my'[w] = [my[w] EXCEPT !.away = b]
                \/ \E b : my'[w] = [my[w] EXCEPT !.full = b]
            BY <1>0, <4>2, Becomes DEF CheckTarget, CheckExisting, CountSlots
          <6> QED
            BY <2>0, <6>1 DEF Locals
        <5>2. pc[w] \in CreateLabels
          BY <4>2 DEF CheckTarget, CheckExisting, CountSlots, At, CreateLabels
        <5> QED
          BY <1>0, <2>2, <5>1, <5>2, Finishes DEF CreatesForOpen, CreateLabels
      <4> QED
        BY <1>0, <1>1, <2>2, <4>1, <4>2, Enters DEF CreateLabels
    <3>3. pc'[w] = "listOffers" => \E t \in Tickets : StartFinish(w, t)
      BY <1>0, <1>1, Enters
    <3> QED
      BY <2>0, <2>1, <3>1, <3>2, <3>3 DEF FinishedInv, CreatesForOpen, FinishesOne
  <2> QED
    BY <1>1, <2>1, <2>2, WorkerStates
<1>2. CASE UNCHANGED vars \/ \E r \in Ids : Elapse(r)
  <2>1. UNCHANGED <<pc, my, status, ticketId, state>>
    BY <1>2 DEF vars, rowVars, tickVars, Elapse
  <2> QED
    BY <1>0, <2>1 DEF FinishedInv, FinishedCleared, CreatesForOpen, FinishesOne, Cleaning
<1>3. CASE Idle /\ Environment
  <2>1. UNCHANGED <<pc, my, ticketId>>
    BY <1>3 DEF Environment, Reopen, AutoClose, DeleteTicket, Reassign, Reactivate, SetLimit,
                Elapse, rowVars
  <2>2. CreatesForOpen' /\ FinishesOne'
    BY <1>3, <2>1 DEF Idle, CreatesForOpen, FinishesOne, CreateLabels
  <2>3. \A r \in Ids : status[r] \in Active => state[ticketId[r]] = "OPEN"
    BY <1>0, <1>3 DEF FinishedCleared, Cleaning, Idle, Promoting, Looking
  <2>4. \A r \in Ids : status'[r] \in Active => state'[ticketId[r]] = "OPEN"
    <3>1. CASE \E t \in Tickets : Reopen(t) \/ AutoClose(t)
      BY <1>0, <2>3, <3>1
      DEF Reopen, AutoClose, rowVars, TypeInv, TypeOK, RowsHaveTickets, Active
    <3>2. CASE \E t \in Tickets : DeleteTicket(t)
      BY <1>0, <2>3, <3>2 DEF DeleteTicket, TypeInv, TypeOK, Active
    <3>3. CASE UNCHANGED <<status, state>>
      BY <2>3, <3>3
    <3> QED
      BY <1>3, <3>1, <3>2, <3>3
      DEF Environment, Reassign, Reactivate, SetLimit, Elapse, rowVars, tickVars
  <2> QED
    BY <2>1, <2>2, <2>4 DEF FinishedInv, FinishedCleared
<1> QED
  BY <1>0, <1>1, <1>2, <1>3, Between

(* When handlers run one at a time and none is abandoned, a ticket that has  *)
(* reached RESOLVED or CLOSED is left with no live offer: cancelForTicket    *)
(* misses none, and its promoteQueue calls revive none.                      *)
THEOREM NoOfferOnFinishedHolds ==
  ASSUME Serial, ~MayFail
  PROVE  Spec => []NoOfferOnFinished
<1>1. Init => FinishedInv
  BY DEF Init, FinishedInv, FinishedCleared, CreatesForOpen, FinishesOne, CreateLabels, Active
<1>2. FinishedInv => NoOfferOnFinished
  BY DEF FinishedInv, FinishedCleared, Cleaning, NoOfferOnFinished, Idle, OffersFor,
         Promoting, Looking
<1>3. SerialInv /\ FinishedInv /\ [Next]_vars => SerialInv' /\ FinishedInv'
  BY StepSerial, StepFinished
<1> QED
  BY <1>1, <1>2, <1>3, InitSerial, PTL DEF Spec


-----------------------------------------------------------------------------
(* Presence and the clocks.  An account that is deactivated while it is      *)
(* marked available and reactivated later has had its queue promoted with    *)
(* paused clocks that nothing starts again, so the theorem leaves            *)
(* deactivation out.                                                         *)

Rerouting == {"listRaised", "cancelRaised", "reroute", "countReplacement", "moveOffer"}
Presence  == {"shed", "goUnavailable", "listPending", "setClocks"}

(* Who calls what, when nobody is deactivated. *)
Calls(w) ==
  /\ pc[w] \notin Rerouting
  /\ pc[w] \in Promoting => my[w].back \in {"idle", "cancelOffers", "expire"}
  /\ pc[w] = "shed" => my[w].back \in {"goUnavailable", "listPending"}
  /\ pc[w] \notin Promoting \cup {"shed"} => my[w].back = "idle"

LEMMA GoesOn ==
  ASSUME TypeInv, NEW w \in Workers, NEW l, NEW rec, Become(w, l, rec),
         l \notin Promoting \cup Rerouting \cup {"shed"}, rec.back = "idle"
  PROVE  Calls(w)'
BY Becomes DEF Calls

LEMMA CallsPromote ==
  ASSUME TypeInv, NEW w \in Workers, NEW rec \in Locals, NEW a,
         NEW ret \in {"idle", "cancelOffers", "expire"}, Promote(w, rec, a, ret)
  PROVE  Calls(w)' /\ pc'[w] = "count"
BY Promotes DEF Calls, Promoting, Looking, Rerouting

LEMMA FinishCalls ==
  ASSUME TypeInv, NEW w \in Workers, Finish(w)
  PROVE  Calls(w)' /\ pc'[w] = "idle"
BY Finishes DEF Calls, Promoting, Looking, Rerouting, Blank

LEMMA BeginCalls ==
  ASSUME "deactivate" \notin Enabled, TypeInv, NEW w \in Workers, Begins(w)
  PROVE  Calls(w)' /\ (PresenceStep(w) \/ pc'[w] \notin Presence)
<1>b. Blank.back = "idle" /\ Blank \in Locals
  BY BlankLocal DEF Blank
<1>1. ASSUME NEW t \in Tickets, NEW a \in Agents, StartCreate(w, t, a)
      PROVE  Calls(w)' /\ pc'[w] = "checkTarget"
  <2> DEFINE rec == [Blank EXCEPT !.tkts = {t}, !.agent = owner[t], !.to = a]
  <2>1. Become(w, "checkTarget", rec) /\ rec.back = "idle"
    BY <1>1, <1>b DEF StartCreate, Locals
  <2> HIDE DEF rec
  <2> QED
    BY <2>1, GoesOn, Becomes DEF Promoting, Looking, Rerouting
<1>2. ASSUME NEW t \in Tickets, StartFinish(w, t)
      PROVE  Calls(w)' /\ pc'[w] = "listOffers"
  <2>1. Become(w, "listOffers", [Blank EXCEPT !.tkts = {t}])
          /\ [Blank EXCEPT !.tkts = {t}].back = "idle"
    BY <1>2, <1>b DEF StartFinish, Locals
  <2> QED
    BY <2>1, GoesOn, Becomes DEF Promoting, Looking, Rerouting
<1>3. ASSUME NEW r \in Ids, StartAccept(w, r)
      PROVE  Calls(w)' /\ pc'[w] = "readTicket"
  <2> DEFINE rec == [Blank EXCEPT !.id = r, !.tkts = {ticketId[r]},
                                  !.agent = requestedBy[r], !.to = target[r]]
  <2>1. Become(w, "readTicket", rec) /\ rec.back = "idle"
    BY <1>3, <1>b DEF StartAccept, Locals
  <2> HIDE DEF rec
  <2> QED
    BY <2>1, GoesOn, Becomes DEF Promoting, Looking, Rerouting
<1>4. ASSUME NEW r \in Ids, StartDecline(w, r)
      PROVE  Calls(w)' /\ pc'[w] = "decline"
  <2>1. Become(w, "decline", [Blank EXCEPT !.id = r, !.to = target[r]])
          /\ [Blank EXCEPT !.id = r, !.to = target[r]].back = "idle"
    BY <1>4, <1>b DEF StartDecline, Locals
  <2> QED
    BY <2>1, GoesOn, Becomes DEF Promoting, Looking, Rerouting
<1>5. ASSUME NEW r \in Ids, StartCancel(w, r)
      PROVE  Calls(w)' /\ pc'[w] = "cancel"
  <2>1. Become(w, "cancel", [Blank EXCEPT !.todo = {Snap(r)}])
          /\ [Blank EXCEPT !.todo = {Snap(r)}].back = "idle"
    BY <1>5, <1>b DEF StartCancel, Locals
  <2> QED
    BY <2>1, GoesOn, Becomes DEF Promoting, Looking, Rerouting
<1>6. ASSUME NEW a \in Movers, NEW on \in BOOLEAN, NEW acc \in BOOLEAN, SetState(w, a, on, acc)
      PROVE  Calls(w)'
  <2> DEFINE rec == [Blank EXCEPT !.agent = a, !.away = ~on]
  <2>1. Become(w, "listPending", rec) /\ rec.back = "idle"
    BY <1>6, <1>b DEF SetState, Locals
  <2> HIDE DEF rec
  <2> QED
    BY <2>1, GoesOn DEF Promoting, Looking, Rerouting
<1>7. ASSUME NEW a \in Movers, NEW ret \in {"goUnavailable", "listPending"},
             Become(w, "shed", [Blank EXCEPT !.agent = a, !.tkts = OpenTicketsOf(a),
                                             !.away = TRUE, !.back = ret])
      PROVE  Calls(w)'
  <2> DEFINE rec == [Blank EXCEPT !.agent = a, !.tkts = OpenTicketsOf(a),
                                  !.away = TRUE, !.back = ret]
  <2>1. Become(w, "shed", rec) /\ rec.back = ret
    BY <1>7, <1>b DEF Locals
  <2> HIDE DEF rec
  <2> QED
    BY <2>1, Becomes DEF Calls, Promoting, Looking, Rerouting
<1>8. ASSUME NEW a \in Movers, StartGoUnavailable(w, a) \/ PatchAvailable(w, a)
      PROVE  Calls(w)'
  <2>1. CASE Become(w, "listPending", [Blank EXCEPT !.agent = a])
    <3>1. [Blank EXCEPT !.agent = a].back = "idle"
      BY <1>b DEF Locals
    <3> QED
      BY <2>1, <3>1, GoesOn DEF Promoting, Looking, Rerouting
  <2> QED
    BY <1>7, <1>8, <2>1 DEF StartGoUnavailable, PatchAvailable
<1>9. CASE StartSweep(w)
  <2>1. PICK todo : Become(w, "expire", [Blank EXCEPT !.todo = todo])
    BY <1>9 DEF StartSweep
  <2>2. [Blank EXCEPT !.todo = todo].back = "idle"
    BY <1>b DEF Locals
  <2>3. Calls(w)' /\ pc'[w] = "expire"
    BY <2>1, <2>2, GoesOn, Becomes DEF Promoting, Looking, Rerouting
  <2> QED
    BY <2>3 DEF Presence
<1>10. \A a \in Movers : ~StartDeactivate(w, a)
  BY DEF StartDeactivate, Starts
<1>11. \A a \in Movers : /\ \A on, acc \in BOOLEAN : SetState(w, a, on, acc) => PresenceStep(w)
                         /\ StartGoUnavailable(w, a) \/ PatchAvailable(w, a) => PresenceStep(w)
  BY DEF PresenceStep
<1> QED
  BY <1>1, <1>2, <1>3, <1>4, <1>5, <1>6, <1>8, <1>9, <1>10, <1>11 DEF Begins, Presence

LEMMA StepCalls ==
  ASSUME "deactivate" \notin Enabled, TypeInv, NEW w \in Workers, Calls(w), Worker(w)
  PROVE  Calls(w)' /\ (PresenceStep(w) \/ pc'[w] \notin Presence)
<1>0. my[w] \in Locals /\ Blank \in Locals /\ Blank.back = "idle"
  BY BlankLocal DEF TypeInv, TypeOK, Blank
<1>h. ASSUME NEW l, NEW rec, Become(w, l, rec),
             l \notin Promoting \cup Rerouting \cup {"shed"}, rec.back = "idle"
      PROVE  Calls(w)' /\ pc'[w] = l
  BY <1>h, GoesOn, Becomes
<1>n. pc[w] \notin Promoting \cup {"shed"} => my[w].back = "idle"
  BY DEF Calls
<1>1. CASE CheckTarget(w) \/ CheckExisting(w) \/ CountSlots(w) \/ Insert(w)
  <2>1. my[w].back = "idle"
    BY <1>1, <1>n DEF CheckTarget, CheckExisting, CountSlots, Insert, At, Promoting, Looking
  <2>2. \A b : [my[w] EXCEPT !.away = b].back = "idle" /\ [my[w] EXCEPT !.full = b].back = "idle"
    BY <1>0, <2>1 DEF Locals
  <2>3. \/ Finish(w)
        \/ \E b : Become(w, "checkExisting", [my[w] EXCEPT !.away = b])
        \/ Become(w, "countSlots", my[w])
        \/ \E b : Become(w, "insert", [my[w] EXCEPT !.full = b])
    BY <1>1 DEF CheckTarget, CheckExisting, CountSlots, Insert
  <2>4. \/ Finish(w)
        \/ \E rec : \E l \in CreateLabels : Become(w, l, rec) /\ rec.back = "idle"
    BY <2>1, <2>2, <2>3 DEF CreateLabels
  <2> QED
    BY <1>h, <2>4, FinishCalls DEF CreateLabels, Promoting, Looking, Rerouting, Presence
<1>2. CASE AnswerStep(w) /\ ~Begins(w)
  <2>1. pc[w] \notin Promoting \cup {"shed"}
    BY <1>2 DEF AnswerStep, Begins, ReadTicket, ClaimStale, ClaimAccepted, Move, Undo, Decline,
                At, Promoting, Looking
  <2>2. \/ Finish(w)
        \/ Promote(w, Blank, my[w].to, "idle")
        \/ \E l \in {"claimStale", "claimAccepted", "move", "undo"} : Become(w, l, my[w])
    BY <1>2 DEF AnswerStep, Begins, ReadTicket, ClaimStale, ClaimAccepted, Move, Undo, Decline
  <2> QED
    BY <1>0, <1>h, <1>n, <2>1, <2>2, FinishCalls, CallsPromote
    DEF Promoting, Looking, Rerouting, Presence
<1>3. ASSUME NEW e \in my[w].todo, NEW ret \in {"idle", "cancelOffers"}, CancelOne(w, e, ret),
             pc[w] \notin Promoting \cup {"shed"}
      PROVE  Calls(w)' /\ pc'[w] \notin Presence
  <2>1. pc'[w] \in {"count", ret}
          /\ (pc'[w] # "count" => my'[w].back = "idle")
          /\ (pc'[w] = "count" => my'[w].back = ret)
    BY <1>3, <1>n, CancelsOne
  <2> QED
    BY <2>1 DEF Calls, Promoting, Looking, Rerouting, Presence
<1>4. CASE Cancel(w) \/ CancelOffers(w)
  BY <1>3, <1>4 DEF Cancel, CancelOffers, At, Promoting, Looking
<1>5. CASE PromoteStep(w)
  <2>1. my[w].back \in {"idle", "cancelOffers", "expire"}
    BY <1>5, PromoteKeeps DEF Calls
  <2>2. CASE Return(w)
    BY <2>1, <2>2, Returns DEF Calls, Promoting, Looking, Rerouting, Presence
  <2>3. CASE pc'[w] \in Promoting /\ my'[w].back = my[w].back
    BY <2>1, <2>3 DEF Calls, Promoting, Looking, Rerouting, Presence
  <2> QED
    BY <1>5, <2>2, <2>3, PromoteKeeps
<1>6. CASE ListOffers(w) \/ CancelOffersEnd(w)
  <2>1. \A t : [Blank EXCEPT !.todo = t].back = "idle"
    BY <1>0 DEF Locals
  <2>2. Finish(w) \/ \E t : Become(w, "cancelOffers", [Blank EXCEPT !.todo = t])
    BY <1>6 DEF ListOffers, CancelOffersEnd
  <2>3. Finish(w) \/ \E rec : Become(w, "cancelOffers", rec) /\ rec.back = "idle"
    BY <2>1, <2>2
  <2> QED
    BY <1>h, <2>3, FinishCalls DEF Promoting, Looking, Rerouting, Presence
<1>7. CASE Shed(w) \/ ShedEnd(w)
  <2>1. pc[w] = "shed" /\ my[w].back \in {"goUnavailable", "listPending"}
    BY <1>7 DEF Shed, ShedEnd, At, Calls
  <2>2. PresenceStep(w)
    BY <1>7 DEF PresenceStep
  <2>3. CASE \E T : Become(w, "shed", [my[w] EXCEPT !.tkts = T])
    <3>1. \A T : [my[w] EXCEPT !.tkts = T].back = my[w].back
      BY <1>0 DEF Locals
    <3>2. pc'[w] = "shed" /\ my'[w].back = my[w].back
      BY <2>3, <3>1, Becomes
    <3> QED
      BY <2>1, <2>2, <3>2 DEF Calls, Promoting, Looking, Rerouting
  <2>4. CASE Return(w)
    BY <2>1, <2>4, <2>2, Returns DEF Calls, Promoting, Looking, Rerouting
  <2> QED
    BY <1>7, <2>3, <2>4, <2>2 DEF Shed, ShedEnd
<1>8. CASE GoUnavailable(w) \/ ListPending(w) \/ SetClocks(w) \/ SetClocksEnd(w)
  <2>1. my[w].back = "idle"
    BY <1>8, <1>n DEF GoUnavailable, ListPending, SetClocks, SetClocksEnd, At, Promoting, Looking
  <2>2. \A t : [my[w] EXCEPT !.todo = t].back = "idle"
    BY <1>0, <2>1 DEF Locals
  <2>3. \/ Finish(w) \/ Become(w, "listPending", my[w])
        \/ \E t : Become(w, "setClocks", [my[w] EXCEPT !.todo = t])
    BY <1>8 DEF GoUnavailable, ListPending, SetClocks, SetClocksEnd
  <2>4. PresenceStep(w)
    BY <1>8 DEF PresenceStep
  <2> QED
    BY <1>h, <2>1, <2>2, <2>3, <2>4, FinishCalls DEF Promoting, Looking, Rerouting
<1>9. CASE RerouteStep(w)
  BY <1>9 DEF RerouteStep, ListRaised, CancelRaised, ListReceived, CancelReceived,
              PickReplacement, CountReplacement, MoveOffer, RerouteEnd, At, Calls, Rerouting
<1>10. CASE Expire(w)
  <2>1. my[w].back = "idle"
    BY <1>10, <1>n DEF Expire, At, Promoting, Looking
  <2>2. PICK e \in my[w].todo :
          \/ Promote(w, [my[w] EXCEPT !.todo = @ \ {e}], e.to, "expire")
          \/ Become(w, "expire", [my[w] EXCEPT !.todo = @ \ {e}])
    BY <1>10 DEF Expire
  <2>3. [my[w] EXCEPT !.todo = @ \ {e}] \in Locals
          /\ [my[w] EXCEPT !.todo = @ \ {e}].back = "idle"
    BY <1>0, <2>1 DEF Locals
  <2>4. CASE Promote(w, [my[w] EXCEPT !.todo = @ \ {e}], e.to, "expire")
    <3>1. Calls(w)' /\ pc'[w] = "count"
      BY <2>3, <2>4, CallsPromote
    <3> QED
      BY <3>1 DEF Presence
  <2>5. CASE Become(w, "expire", [my[w] EXCEPT !.todo = @ \ {e}])
    <3>1. Calls(w)' /\ pc'[w] = "expire"
      BY <1>h, <2>3, <2>5 DEF Promoting, Looking, Rerouting
    <3> QED
      BY <3>1 DEF Presence
  <2> QED
    BY <2>2, <2>4, <2>5
<1>11. CASE ExpireEnd(w) \/ Fail(w)
  BY <1>11, FinishCalls DEF ExpireEnd, Fail, Presence
<1>12. CASE Begins(w)
  BY <1>12, BeginCalls
<1> QED
  BY <1>1, <1>2, <1>4, <1>5, <1>6, <1>7, <1>8, <1>9, <1>10, <1>11, <1>12, StepAt
  DEF AnswerStep, RerouteStep, PromoteStep

(* A live offer is addressed to an agent. *)
Addressed == \A r \in Ids : status[r] \in Active => target[r] \in Agents

LEMMA StepAddressed ==
  ASSUME SerialInv, Addressed, [Next]_vars
  PROVE  Addressed'
<1>0. TypeInv /\ ClaimInv /\ \A w \in Workers : Reading(w)
  BY DEF SerialInv
<1>1. CASE Ebb
  BY <1>1 DEF Ebb, Addressed
<1>2. ASSUME NEW w \in Workers, Insert(w)
      PROVE  Addressed'
  <2>1. my[w].to \in Agents /\ nextId \in Ids
    BY <1>0, <1>2 DEF Insert, At, Reading, CreateLabels
  <2>2. \/ UNCHANGED rowVars
        \/ /\ target' = [target EXCEPT ![nextId] = my[w].to]
           /\ status' = [status EXCEPT ![nextId] = IF my[w].full THEN "QUEUED" ELSE "PENDING"]
    BY <1>2 DEF Insert
  <2> QED
    BY <1>0, <2>1, <2>2 DEF rowVars, Addressed, TypeInv, TypeOK
<1>3. ASSUME NEW w \in Workers, Activate(w) \/ MoveOffer(w)
      PROVE  Addressed'
  <2>1. MoveOffer(w) => my[w].to \in Agents
    BY <1>0 DEF MoveOffer, At, Reading
  <2>2. \A r \in Ids : status'[r] \in Active => status[r] \in Active
    BY <1>0, <1>3 DEF Activate, MoveOffer, Active, TypeInv, TypeOK
  <2>3. \A r \in Ids : target'[r] = target[r] \/ target'[r] \in Agents
    BY <1>0, <1>3, <2>1 DEF Activate, MoveOffer, TypeInv, TypeOK
  <2> QED
    BY <2>2, <2>3 DEF Addressed
<1> QED
  BY <1>0, <1>1, <1>2, <1>3, StepEbbs

Wrong(away) == IF away THEN Ticking ELSE Paused

(* Handler w is about to set the clocks of agent a's offers. *)
Adjusting(w, a) ==
  /\ my[w].agent = a
  /\ \/ pc[w] \in {"listPending", "setClocks"}
     \/ pc[w] = "shed" /\ my[w].back = "listPending"

Knows(w) ==
  /\ pc[w] \in {"checkExisting", "countSlots", "insert", "activate"} =>
       (my[w].away <=> Away(my[w].to))
  /\ pc[w] \in Presence => my[w].agent \in Agents
  /\ Adjusting(w, my[w].agent) => (my[w].away <=> ~available[my[w].agent])
  /\ pc[w] = "goUnavailable" \/ (pc[w] = "shed" /\ my[w].back = "goUnavailable") =>
       my[w].away
  /\ pc[w] = "setClocks" =>
       /\ \A e \in my[w].todo : target[e.id] = my[w].agent /\ e.clock \in Wrong(my[w].away)
       /\ \A r \in Pending(my[w].agent) :
            clock[r] \in Wrong(my[w].away) => \E e \in my[w].todo : e.id = r

ClockFits(r) ==
  /\ ~available[target[r]] => clock[r] \in Paused
  /\ ~Away(target[r]) => clock[r] \in Ticking

RightClocks ==
  \A r \in Ids : status[r] = "PENDING" =>
    /\ clock[r] \in Ticking \cup Paused
    /\ ClockFits(r) \/ \E w \in Workers : Adjusting(w, target[r])

AwayInv == /\ Addressed /\ RightClocks
           /\ \A w \in Workers : Calls(w) /\ Knows(w)

(* A handler outside the presence steps reads the columns that decide a      *)
(* clock, and they stay until it writes the clock.                           *)
LEMMA StepReadsAway ==
  ASSUME TypeInv, NEW w \in Workers, Worker(w), Knows(w),
         pc'[w] \in {"checkExisting", "countSlots", "insert", "activate"}
  PROVE  my'[w].away <=> Away(my[w].to)'
<1>0. my[w] \in Locals
  BY DEF TypeInv, TypeOK
<1>a. ASSUME UNCHANGED agentVars, my'[w].to = my[w].to
      PROVE  Away(my[w].to)' <=> Away(my[w].to)
  BY <1>a DEF agentVars, Away
<1>1. CASE pc'[w] = "checkExisting"
  <2>1. CheckTarget(w) /\ my'[w] = [my[w] EXCEPT !.away = Away(my[w].to)]
    BY <1>1, Enters, Becomes, Finishes DEF CheckTarget
  <2>2. (my'[w].away <=> Away(my[w].to)) /\ my'[w].to = my[w].to
    BY <1>0, <2>1 DEF Locals
  <2> QED
    BY <1>a, <2>1, <2>2 DEF CheckTarget
<1>2. CASE pc'[w] = "countSlots"
  <2>1. CheckExisting(w) /\ my'[w] = my[w]
    BY <1>2, Enters
  <2> QED
    BY <1>a, <2>1 DEF CheckExisting, At, Knows
<1>3. CASE pc'[w] = "insert"
  <2>1. CountSlots(w)
    BY <1>3, Enters
  <2>2. \E b : my'[w] = [my[w] EXCEPT !.full = b]
    BY <2>1, Becomes DEF CountSlots
  <2>3. my'[w].away = my[w].away /\ my'[w].to = my[w].to
    BY <1>0, <2>2 DEF Locals
  <2> QED
    BY <1>a, <2>1, <2>3 DEF CountSlots, At, Knows
<1>4. CASE pc'[w] = "activate"
  <2>1. ReadTarget(w) /\ my'[w] = [my[w] EXCEPT !.away = Away(my[w].to)]
    BY <1>4, Enters, Becomes DEF ReadTarget
  <2>2. (my'[w].away <=> Away(my[w].to)) /\ my'[w].to = my[w].to
    BY <1>0, <2>1 DEF Locals
  <2> QED
    BY <1>a, <2>1, <2>2 DEF ReadTarget
<1> QED
  BY <1>1, <1>2, <1>3, <1>4

LEMMA StepKnows ==
  ASSUME "deactivate" \notin Enabled, TypeInv, NEW w \in Workers, Calls(w), Knows(w), Worker(w)
  PROVE  Knows(w)'
<1>0. my[w] \in Locals /\ Blank \in Locals /\ Movers \subseteq Agents
  BY BlankLocal, HandoverAssumption DEF TypeInv, TypeOK
<1>1. CASE pc'[w] \notin Presence
  BY <1>1, StepReadsAway DEF Knows, Adjusting, Presence
<1> SUFFICES ASSUME PresenceStep(w), pc'[w] \in Presence
             PROVE  Knows(w)'
  BY <1>1, StepCalls
<1>2. ASSUME NEW a \in Movers, NEW on \in BOOLEAN, NEW acc \in BOOLEAN, SetState(w, a, on, acc)
      PROVE  Knows(w)'
  <2>1. pc'[w] = "listPending" /\ my'[w] = [Blank EXCEPT !.agent = a, !.away = ~on]
    BY <1>2, Becomes DEF SetState
  <2>2. my'[w].agent = a /\ (my'[w].away <=> ~on)
    BY <1>0, <2>1 DEF Locals
  <2>3. available'[a] = on
    BY <1>0, <1>2 DEF SetState, TypeInv, TypeOK
  <2> QED
    BY <1>0, <2>1, <2>2, <2>3 DEF Knows
<1>3. ASSUME NEW a \in Movers, StartGoUnavailable(w, a)
      PROVE  Knows(w)'
  <2> DEFINE rec == [Blank EXCEPT !.agent = a, !.tkts = OpenTicketsOf(a),
                                  !.away = TRUE, !.back = "goUnavailable"]
  <2>1. pc'[w] = "shed" /\ my'[w] = rec
    BY <1>3, Becomes DEF StartGoUnavailable
  <2>2. rec.agent = a /\ rec.away = TRUE /\ rec.back = "goUnavailable"
    BY <1>0 DEF Locals
  <2> HIDE DEF rec
  <2> QED
    BY <1>0, <2>1, <2>2 DEF Knows, Adjusting
<1>4. ASSUME NEW a \in Movers, PatchAvailable(w, a)
      PROVE  Knows(w)'
  <2> DEFINE rec == [Blank EXCEPT !.agent = a, !.tkts = OpenTicketsOf(a),
                                  !.away = TRUE, !.back = "listPending"]
  <2>0. available'[a] <=> ~available[a]
    BY <1>0, <1>4 DEF PatchAvailable, TypeInv, TypeOK
  <2>1. CASE available[a]
    <3>1. pc'[w] = "shed" /\ my'[w] = rec
      BY <1>4, <2>1, Becomes DEF PatchAvailable
    <3>2. rec.agent = a /\ rec.away = TRUE /\ rec.back = "listPending"
      BY <1>0 DEF Locals
    <3> HIDE DEF rec
    <3> QED
      BY <1>0, <2>0, <2>1, <3>1, <3>2 DEF Knows, Adjusting
  <2>2. CASE ~available[a]
    <3>1. pc'[w] = "listPending" /\ my'[w] = [Blank EXCEPT !.agent = a]
      BY <1>4, <2>2, Becomes DEF PatchAvailable
    <3>2. my'[w].agent = a /\ my'[w].away = FALSE
      BY <3>1 DEF Blank
    <3> QED
      BY <1>0, <2>0, <2>2, <3>1, <3>2 DEF Knows, Adjusting
  <2> QED
    BY <2>1, <2>2
<1>5. CASE GoUnavailable(w)
  <2>1. pc'[w] = "listPending" /\ my'[w] = my[w] /\ pc[w] = "goUnavailable"
    BY <1>5, Becomes DEF GoUnavailable, At
  <2>2. my[w].agent \in Agents /\ my[w].away
    BY <2>1 DEF Knows, Presence
  <2>3. ~available'[my[w].agent]
    BY <1>5, <2>2 DEF GoUnavailable, TypeInv, TypeOK
  <2> QED
    BY <2>1, <2>2, <2>3 DEF Knows, Adjusting
<1>6. CASE Shed(w)
  <2>1. PICK T : Become(w, "shed", [my[w] EXCEPT !.tkts = T])
    BY <1>6 DEF Shed
  <2>2. pc'[w] = "shed" /\ my'[w] = [my[w] EXCEPT !.tkts = T]
    BY <2>1, Becomes
  <2>3. my'[w].agent = my[w].agent /\ my'[w].away = my[w].away /\ my'[w].back = my[w].back
    BY <1>0, <2>2 DEF Locals
  <2>4. pc[w] = "shed" /\ UNCHANGED available
    BY <1>6 DEF Shed, At, agentVars
  <2> QED
    BY <2>2, <2>3, <2>4 DEF Knows, Adjusting, Presence
<1>7. CASE ShedEnd(w)
  <2>1. Return(w) /\ pc[w] = "shed" /\ UNCHANGED available
    BY <1>7 DEF ShedEnd, At, agentVars
  <2>2. my[w].back \in {"goUnavailable", "listPending"}
    BY <2>1 DEF Calls
  <2>3. pc'[w] = my[w].back /\ my'[w].agent = my[w].agent /\ my'[w].away = my[w].away
    BY <2>1, <2>2, Returns
  <2> QED
    BY <2>1, <2>2, <2>3 DEF Knows, Adjusting, Presence
<1>8. CASE ListPending(w)
  <2> DEFINE wrong == {q \in Pending(my[w].agent) : clock[q] \in Wrong(my[w].away)}
             found == {SnapWithClock(r) : r \in wrong}
  <2>1. pc'[w] = "setClocks" /\ my'[w] = [my[w] EXCEPT !.todo = found]
    BY <1>8, Becomes DEF ListPending, Wrong
  <2>2. my'[w].agent = my[w].agent /\ my'[w].away = my[w].away /\ my'[w].todo = found
    BY <1>0, <2>1 DEF Locals
  <2>3. pc[w] = "listPending" /\ UNCHANGED <<available, target, clock, status>>
    BY <1>8 DEF ListPending, At, agentVars, rowVars
  <2>4. \A r \in wrong : /\ SnapWithClock(r).id = r /\ SnapWithClock(r).clock = clock[r]
                         /\ target[r] = my[w].agent /\ clock[r] \in Wrong(my[w].away)
    BY DEF SnapWithClock, Snap, Pending
  <2>5. \A e \in found : target[e.id] = my[w].agent /\ e.clock \in Wrong(my[w].away)
    BY <2>4
  <2>6. \A r \in Pending(my[w].agent) :
          clock[r] \in Wrong(my[w].away) => \E e \in found : e.id = r
    BY <2>4
  <2>7. Pending(my[w].agent)' = Pending(my[w].agent)
    BY <2>2, <2>3 DEF Pending
  <2> HIDE DEF found, wrong
  <2>8. \A e \in my'[w].todo : target'[e.id] = my'[w].agent /\ e.clock \in Wrong(my'[w].away)
    BY <2>2, <2>3, <2>5
  <2>9. \A r \in Pending(my[w].agent)' :
          clock'[r] \in Wrong(my'[w].away) => \E e \in my'[w].todo : e.id = r
    BY <2>2, <2>3, <2>6, <2>7
  <2>10. /\ my[w].agent \in Agents
         /\ my[w].away <=> ~available[my[w].agent]
    BY <2>3 DEF Knows, Adjusting, Presence
  <2> QED
    BY <2>1, <2>2, <2>3, <2>8, <2>9, <2>10 DEF Knows, Wrong
<1>9. CASE SetClocks(w)
  <2>1. PICK e \in my[w].todo :
          /\ clock' = IF /\ status[e.id] = "PENDING"
                         /\ clock[e.id] \in Wrong(my[w].away)
                      THEN [clock EXCEPT ![e.id] = Flip(e.clock)] ELSE clock
          /\ Become(w, "setClocks", [my[w] EXCEPT !.todo = @ \ {e}])
    BY <1>9 DEF SetClocks, Wrong
  <2>2. pc'[w] = "setClocks" /\ my'[w] = [my[w] EXCEPT !.todo = @ \ {e}]
    BY <2>1, Becomes
  <2>3. my'[w].agent = my[w].agent /\ my'[w].away = my[w].away /\ my'[w].todo = my[w].todo \ {e}
    BY <1>0, <2>2 DEF Locals
  <2>4. pc[w] = "setClocks" /\ UNCHANGED <<available, target, status>>
    BY <1>9 DEF SetClocks, At, agentVars
  <2>5. /\ \A d \in my[w].todo : target[d.id] = my[w].agent /\ d.clock \in Wrong(my[w].away)
        /\ \A r \in Pending(my[w].agent) :
             clock[r] \in Wrong(my[w].away) => \E d \in my[w].todo : d.id = r
        /\ my[w].agent \in Agents /\ (my[w].away <=> ~available[my[w].agent])
    BY <2>4 DEF Knows, Adjusting, Presence
  <2>6. Flip(e.clock) \notin Wrong(my[w].away)
    BY <2>5 DEF Flip, Wrong, Ticking, Paused
  <2>7. \A r \in Pending(my[w].agent) : clock'[r] \in Wrong(my[w].away) =>
          r # e.id /\ clock[r] \in Wrong(my[w].away)
    BY <2>1, <2>6 DEF Pending, TypeInv, TypeOK
  <2>8. Pending(my[w].agent)' = Pending(my[w].agent)
    BY <2>3, <2>4 DEF Pending
  <2>9. \A r \in Pending(my[w].agent)' :
          clock'[r] \in Wrong(my'[w].away) => \E d \in my'[w].todo : d.id = r
    BY <2>3, <2>5, <2>7, <2>8
  <2>10. \A d \in my'[w].todo : target'[d.id] = my'[w].agent /\ d.clock \in Wrong(my'[w].away)
    BY <2>3, <2>4, <2>5
  <2> QED
    BY <2>2, <2>3, <2>4, <2>5, <2>9, <2>10 DEF Knows, Wrong
<1>10. CASE SetClocksEnd(w)
  BY <1>10, Finishes DEF SetClocksEnd, Presence
<1> QED
  BY <1>2, <1>3, <1>4, <1>5, <1>6, <1>7, <1>8, <1>9, <1>10
  DEF PresenceStep, StartDeactivate, Starts

LEMMA WorkerClocks ==
  ASSUME NEW w \in Workers, Worker(w)
  PROVE  /\ \/ UNCHANGED clock
            \/ Insert(w) \/ Activate(w) \/ MoveOffer(w) \/ SetClocks(w)
         /\ \/ UNCHANGED <<active, available>>
            \/ \E a \in Movers : \/ \E on, acc \in BOOLEAN : SetState(w, a, on, acc)
                                 \/ PatchAvailable(w, a) \/ StartDeactivate(w, a)
            \/ GoUnavailable(w)
BY DEF Worker, CreateStep, AnswerStep, CancelStep, PromoteStep, PresenceStep, RerouteStep,
       SweepStep, Fail, StartCreate, CheckTarget, CheckExisting, CountSlots,
       StartAccept, StartDecline, ReadTicket, ClaimStale, ClaimAccepted, Move, Undo, Decline,
       StartCancel, StartFinish, Cancel, ListOffers, CancelOffers, CancelOne, CancelOffersEnd,
       Count, Find, ReadTarget, SetState, StartGoUnavailable, PatchAvailable, Insert, Activate,
       MoveOffer, SetClocks,
       StartDeactivate, GoUnavailable, Shed, ShedEnd, ListPending, SetClocksEnd,
       ListRaised, CancelRaised, ListReceived, CancelReceived, PickReplacement,
       CountReplacement, RerouteEnd, StartSweep, Expire, ExpireEnd, agentVars, rowVars

(* A step that starts no clock, makes no offer PENDING and writes no column. *)
LEMMA ClocksStand ==
  ASSUME Serial, Addressed, RightClocks, NEW w \in Workers, Ebb,
         UNCHANGED <<active, available, clock>>,
         \A a \in Agents : Adjusting(w, a) => Adjusting(w, a)'
  PROVE  RightClocks'
<1> SUFFICES ASSUME NEW r \in Ids, status'[r] = "PENDING"
             PROVE  /\ clock'[r] \in Ticking \cup Paused
                    /\ ClockFits(r)' \/ \E v \in Workers : Adjusting(v, target[r])'
  BY DEF RightClocks
<1>1. status[r] = "PENDING" /\ UNCHANGED target
  BY DEF Ebb, Active
<1>2. target[r] \in Agents
  BY <1>1 DEF Addressed, Active
<1>3. ClockFits(r) => ClockFits(r)'
  BY <1>1 DEF ClockFits, Away
<1>4. Adjusting(w, target[r]) => Adjusting(w, target[r])'
  BY <1>1, <1>2 DEF Adjusting
<1>5. \A v \in Workers : v = w
  BY DEF Serial
<1>6. ClockFits(r) \/ Adjusting(w, target[r])
  BY <1>1, <1>5 DEF RightClocks
<1> QED
  BY <1>1, <1>3, <1>4, <1>6 DEF RightClocks

(* A step that writes the columns of an agent, whose offers come next. *)
LEMMA ColumnsWritten ==
  ASSUME Addressed, RightClocks, NEW w \in Workers, NEW a \in Agents,
         UNCHANGED <<status, target, clock>>,
         \A b \in Agents \ {a} : active'[b] = active[b] /\ available'[b] = available[b],
         \A v \in Workers, b \in Agents : ~Adjusting(v, b),
         Adjusting(w, a)'
  PROVE  RightClocks'
<1> SUFFICES ASSUME NEW r \in Ids, status'[r] = "PENDING"
             PROVE  /\ clock'[r] \in Ticking \cup Paused
                    /\ ClockFits(r)' \/ \E v \in Workers : Adjusting(v, target[r])'
  BY DEF RightClocks
<1>1. status[r] = "PENDING" /\ UNCHANGED target /\ target[r] \in Agents
  BY DEF Addressed, Active
<1>2. clock[r] \in Ticking \cup Paused /\ ClockFits(r)
  BY <1>1 DEF RightClocks
<1>3. CASE target[r] = a
  BY <1>1, <1>2, <1>3 DEF Adjusting
<1>4. CASE target[r] # a
  <2>1. ClockFits(r)'
    BY <1>1, <1>2, <1>4 DEF ClockFits, Away
  <2> QED
    BY <1>2, <2>1
<1> QED
  BY <1>3, <1>4

(* A step that makes one offer PENDING, with the clock its recipient's       *)
(* columns ask for.                                                          *)
LEMMA ClockStarted ==
  ASSUME RightClocks, NEW w \in Workers, NEW q \in Ids, NEW a \in Agents, NEW away \in BOOLEAN,
         UNCHANGED <<active, available>>,
         \A r \in Ids \ {q} : /\ status'[r] = status[r] /\ target'[r] = target[r]
                              /\ clock'[r] = clock[r],
         target'[q] = a, away <=> Away(a),
         status'[q] = "PENDING" => clock'[q] = StartClock(away),
         \A v \in Workers, b \in Owners : ~Adjusting(v, b),
         TypeInv
  PROVE  RightClocks'
<1> SUFFICES ASSUME NEW r \in Ids, status'[r] = "PENDING"
             PROVE  clock'[r] \in Ticking \cup Paused /\ ClockFits(r)'
  BY DEF RightClocks
<1>1. CASE r = q
  <2>1. clock'[r] = StartClock(away) /\ target'[r] = a
    BY <1>1
  <2>2. Away(target[r])' <=> away
    BY <2>1 DEF Away
  <2>3. clock'[r] \in Ticking \cup Paused
    BY <2>1 DEF StartClock, Ticking, Paused
  <2>4. ClockFits(r)'
    BY <2>1, <2>2 DEF ClockFits, Away, StartClock, Ticking, Paused
  <2> QED
    BY <2>3, <2>4
<1>2. CASE r # q
  <2>1. status[r] = "PENDING" /\ clock'[r] = clock[r] /\ target'[r] = target[r]
          /\ target[r] \in Owners
    BY <1>2 DEF TypeInv, TypeOK
  <2>2. clock[r] \in Ticking \cup Paused /\ ClockFits(r)
    BY <2>1 DEF RightClocks
  <2>3. ClockFits(r)'
    BY <2>1, <2>2 DEF ClockFits, Away
  <2> QED
    BY <2>1, <2>2, <2>3
<1> QED
  BY <1>1, <1>2

LEMMA StepRightClocks ==
  ASSUME Serial, ~MayFail, "deactivate" \notin Enabled, SerialInv, AwayInv, NEW w \in Workers, Worker(w)
  PROVE  RightClocks'
<1>0. /\ TypeInv /\ ClaimInv /\ Addressed /\ RightClocks
      /\ Reading(w) /\ Calls(w) /\ Knows(w) /\ my[w] \in Locals
      /\ \A v \in Workers : v = w
  BY DEF SerialInv, AwayInv, TypeInv, TypeOK, Serial
<1>q. pc[w] \notin Presence => \A v \in Workers, b \in Owners : ~Adjusting(v, b)
  BY <1>0 DEF Adjusting, Presence
<1>1. ASSUME NEW a \in Movers, NEW on \in BOOLEAN, NEW acc \in BOOLEAN, SetState(w, a, on, acc)
      PROVE  RightClocks'
  <2>1. pc'[w] = "listPending" /\ my'[w] = [Blank EXCEPT !.agent = a, !.away = ~on]
    BY <1>0, <1>1, Becomes DEF SetState
  <2>2. my'[w].agent = a /\ a \in Agents
    BY <2>1, BlankLocal, HandoverAssumption DEF Locals
  <2>3. pc[w] \notin Presence /\ UNCHANGED <<status, target, clock>>
    BY <1>1 DEF SetState, Starts, Presence, rowVars
  <2>4. \A b \in Agents \ {a} : active'[b] = active[b] /\ available'[b] = available[b]
    BY <1>0, <1>1 DEF SetState, TypeInv, TypeOK
  <2>5. Adjusting(w, a)'
    BY <2>1, <2>2 DEF Adjusting
  <2> QED
    BY <1>0, <1>q, <2>2, <2>3, <2>4, <2>5, ColumnsWritten DEF Owners
<1>2. ASSUME NEW a \in Movers, PatchAvailable(w, a)
      PROVE  RightClocks'
  <2>1. \/ pc'[w] = "listPending" /\ my'[w] = [Blank EXCEPT !.agent = a]
        \/ /\ pc'[w] = "shed"
           /\ my'[w] = [Blank EXCEPT !.agent = a, !.tkts = OpenTicketsOf(a),
                                     !.away = TRUE, !.back = "listPending"]
    BY <1>0, <1>2, Becomes DEF PatchAvailable
  <2>2. my'[w].agent = a /\ a \in Agents /\ (pc'[w] = "shed" => my'[w].back = "listPending")
    BY <2>1, BlankLocal, HandoverAssumption DEF Locals
  <2>3. pc[w] \notin Presence /\ UNCHANGED <<status, target, clock>>
    BY <1>2 DEF PatchAvailable, Starts, Presence, rowVars
  <2>4. \A b \in Agents \ {a} : active'[b] = active[b] /\ available'[b] = available[b]
    BY <1>0, <1>2 DEF PatchAvailable, TypeInv, TypeOK
  <2>5. Adjusting(w, a)'
    BY <2>1, <2>2 DEF Adjusting
  <2> QED
    BY <1>0, <1>q, <2>2, <2>3, <2>4, <2>5, ColumnsWritten DEF Owners
<1>3. CASE GoUnavailable(w)
  <2>1. pc'[w] = "listPending" /\ my'[w] = my[w] /\ pc[w] = "goUnavailable"
    BY <1>0, <1>3, Becomes DEF GoUnavailable, At
  <2>2. PICK a \in Agents : a = my[w].agent
    BY <1>0, <2>1 DEF Knows, Presence
  <2>3. \A v \in Workers, b \in Agents : ~Adjusting(v, b)
    BY <1>0, <2>1 DEF Adjusting
  <2>4. \A b \in Agents \ {a} : active'[b] = active[b] /\ available'[b] = available[b]
    BY <1>0, <1>3, <2>2 DEF GoUnavailable, TypeInv, TypeOK
  <2>5. Adjusting(w, a)' /\ UNCHANGED <<status, target, clock>>
    BY <1>3, <2>1, <2>2 DEF Adjusting, GoUnavailable, rowVars
  <2> QED
    BY <1>0, <2>3, <2>4, <2>5, ColumnsWritten
<1>4. CASE Insert(w) /\ ~UNCHANGED rowVars
  <2>1. pc[w] = "insert" /\ nextId \in Ids /\ my[w].to \in Agents
          /\ (my[w].away <=> Away(my[w].to)) /\ my[w].away \in BOOLEAN
    BY <1>0, <1>4 DEF Insert, At, Reading, CreateLabels, Knows, Locals
  <2>2. /\ target' = [target EXCEPT ![nextId] = my[w].to]
        /\ status' = [status EXCEPT ![nextId] = IF my[w].full THEN "QUEUED" ELSE "PENDING"]
        /\ clock'  = [clock EXCEPT ![nextId] =
                        IF my[w].full THEN "none" ELSE StartClock(my[w].away)]
        /\ UNCHANGED <<active, available>>
    BY <1>4 DEF Insert, agentVars
  <2>3. \A r \in Ids \ {nextId} : /\ status'[r] = status[r] /\ target'[r] = target[r]
                                  /\ clock'[r] = clock[r]
    BY <1>0, <2>2 DEF TypeInv, TypeOK
  <2>4. target'[nextId] = my[w].to
          /\ (status'[nextId] = "PENDING" => clock'[nextId] = StartClock(my[w].away))
    BY <1>0, <2>1, <2>2 DEF TypeInv, TypeOK
  <2>5. \A v \in Workers, b \in Owners : ~Adjusting(v, b)
    BY <1>q, <2>1 DEF Presence
  <2> QED
    BY <1>0, <2>1, <2>2, <2>3, <2>4, <2>5, ClockStarted
<1>5. CASE Activate(w) /\ status[my[w].id] = "QUEUED"
  <2>1. pc[w] = "activate" /\ my[w].id \in Ids /\ target[my[w].id] = my[w].to
          /\ my[w].to \in Agents
          /\ (my[w].away <=> Away(my[w].to)) /\ my[w].away \in BOOLEAN
    BY <1>0, <1>5 DEF Activate, At, Reading, Queued, Knows, Locals, Addressed, Active
  <2>2. /\ status' = [status EXCEPT ![my[w].id] = "PENDING"]
        /\ clock'  = [clock EXCEPT ![my[w].id] = StartClock(my[w].away)]
        /\ UNCHANGED <<active, available, target>>
    BY <1>5 DEF Activate, agentVars
  <2>3. \A r \in Ids \ {my[w].id} : /\ status'[r] = status[r] /\ target'[r] = target[r]
                                    /\ clock'[r] = clock[r]
    BY <1>0, <2>2 DEF TypeInv, TypeOK
  <2>4. target'[my[w].id] = my[w].to /\ clock'[my[w].id] = StartClock(my[w].away)
    BY <1>0, <2>1, <2>2 DEF TypeInv, TypeOK
  <2>5. \A v \in Workers, b \in Owners : ~Adjusting(v, b)
    BY <1>q, <2>1 DEF Presence
  <2> QED
    BY <1>0, <2>1, <2>2, <2>3, <2>4, <2>5, ClockStarted
<1>6. CASE SetClocks(w)
  <2>1. PICK e \in my[w].todo :
          /\ clock' = IF /\ status[e.id] = "PENDING"
                         /\ clock[e.id] \in Wrong(my[w].away)
                      THEN [clock EXCEPT ![e.id] = Flip(e.clock)] ELSE clock
          /\ Become(w, "setClocks", [my[w] EXCEPT !.todo = @ \ {e}])
    BY <1>6 DEF SetClocks, Wrong
  <2>2. pc'[w] = "setClocks" /\ my'[w] = [my[w] EXCEPT !.todo = @ \ {e}]
    BY <1>0, <2>1, Becomes
  <2>3. my'[w].agent = my[w].agent
    BY <1>0, <2>2 DEF Locals
  <2>4. pc[w] = "setClocks" /\ UNCHANGED <<active, available, target, status>>
    BY <1>6 DEF SetClocks, At, agentVars
  <2>5. target[e.id] = my[w].agent /\ e.clock \in Wrong(my[w].away)
    BY <1>0, <2>4 DEF Knows
  <2>6. Flip(e.clock) \in Ticking \cup Paused
    BY <2>5 DEF Flip, Wrong, Ticking, Paused
  <2> SUFFICES ASSUME NEW r \in Ids, status'[r] = "PENDING"
               PROVE  /\ clock'[r] \in Ticking \cup Paused
                      /\ ClockFits(r)' \/ Adjusting(w, target[r])'
    BY DEF RightClocks
  <2>7. clock[r] \in Ticking \cup Paused /\ (ClockFits(r) \/ Adjusting(w, target[r]))
    BY <1>0, <2>4 DEF RightClocks
  <2>8. clock'[r] \in Ticking \cup Paused
    BY <1>0, <2>1, <2>6, <2>7 DEF TypeInv, TypeOK
  <2>9. CASE target[r] = my[w].agent
    BY <2>2, <2>3, <2>4, <2>8, <2>9 DEF Adjusting
  <2>10. CASE target[r] # my[w].agent
    <3>1. clock'[r] = clock[r]
      BY <1>0, <2>1, <2>5, <2>10 DEF TypeInv, TypeOK
    <3>2. ClockFits(r)'
      BY <2>4, <2>7, <2>10, <3>1 DEF ClockFits, Away, Adjusting
    <3> QED
      BY <2>8, <3>2
  <2> QED
    BY <2>9, <2>10
<1>7. CASE SetClocksEnd(w)
  <2>1. /\ pc[w] = "setClocks" /\ my[w].todo = {}
        /\ UNCHANGED <<active, available, target, status, clock>>
    BY <1>7 DEF SetClocksEnd, At, agentVars, rowVars
  <2>2. /\ my[w].agent \in Agents /\ (my[w].away <=> ~available[my[w].agent])
        /\ \A r \in Pending(my[w].agent) : clock[r] \notin Wrong(my[w].away)
    BY <1>0, <2>1 DEF Knows, Adjusting, Presence
  <2>3. ASSUME NEW r \in Ids, status[r] = "PENDING"
        PROVE  clock[r] \in Ticking \cup Paused /\ ClockFits(r)
    <3>1. clock[r] \in Ticking \cup Paused /\ (ClockFits(r) \/ Adjusting(w, target[r]))
      BY <1>0, <2>3 DEF RightClocks
    <3>2. CASE Adjusting(w, target[r])
      <4>1. target[r] = my[w].agent /\ clock[r] \notin Wrong(my[w].away)
        BY <2>2, <2>3, <3>2 DEF Adjusting, Pending
      <4> QED
        BY <2>2, <3>1, <4>1 DEF ClockFits, Wrong, Away
    <3> QED
      BY <3>1, <3>2
  <2>4. \A r \in Ids : ClockFits(r) => ClockFits(r)'
    BY <2>1 DEF ClockFits, Away
  <2> QED
    BY <2>1, <2>3, <2>4 DEF RightClocks
<1>8. CASE Shed(w) \/ ShedEnd(w) \/ ListPending(w)
  <2>1. Ebb /\ UNCHANGED <<active, available, clock>>
    BY <1>8 DEF Shed, ShedEnd, ListPending, agentVars, rowVars, Ebb
  <2>2. ASSUME NEW a \in Agents, Adjusting(w, a)
        PROVE  Adjusting(w, a)'
    <3>1. CASE Shed(w)
      <4>1. PICK T : Become(w, "shed", [my[w] EXCEPT !.tkts = T])
        BY <3>1 DEF Shed
      <4>2. pc'[w] = "shed" /\ my'[w] = [my[w] EXCEPT !.tkts = T] /\ pc[w] = "shed"
        BY <1>0, <3>1, <4>1, Becomes DEF Shed, At
      <4>3. my'[w].agent = my[w].agent /\ my'[w].back = my[w].back
        BY <1>0, <4>2 DEF Locals
      <4> QED
        BY <2>2, <4>2, <4>3 DEF Adjusting
    <3>2. CASE ShedEnd(w)
      <4>1. Return(w) /\ pc[w] = "shed" /\ my[w].back = "listPending"
        BY <2>2, <3>2 DEF ShedEnd, At, Adjusting
      <4>2. pc'[w] = "listPending" /\ my'[w].agent = my[w].agent
        BY <1>0, <4>1, Returns
      <4> QED
        BY <2>2, <4>2 DEF Adjusting
    <3>3. CASE ListPending(w)
      <4>1. PICK T : Become(w, "setClocks", [my[w] EXCEPT !.todo = T])
        BY <3>3 DEF ListPending
      <4>2. pc'[w] = "setClocks" /\ my'[w] = [my[w] EXCEPT !.todo = T]
        BY <1>0, <4>1, Becomes
      <4>3. my'[w].agent = my[w].agent
        BY <1>0, <4>2 DEF Locals
      <4> QED
        BY <2>2, <4>2, <4>3 DEF Adjusting
    <3> QED
      BY <1>8, <3>1, <3>2, <3>3
  <2> QED
    BY <1>0, <2>1, <2>2, ClocksStand
<1>9. CASE pc[w] \notin Presence /\ ~Insert(w) /\ ~Activate(w)
             /\ UNCHANGED <<active, available>>
  <2>1. ~MoveOffer(w) /\ ~SetClocks(w)
    BY <1>0, <1>9 DEF MoveOffer, SetClocks, At, Calls, Rerouting, Presence
  <2>2. UNCHANGED clock
    BY <1>9, <2>1, WorkerClocks
  <2>3. Ebb
    BY <1>0, <1>9, <2>1, StepEbbs DEF Next
  <2> QED
    BY <1>0, <1>9, <1>q, <2>2, <2>3, ClocksStand DEF Owners
<1>10. CASE Insert(w) /\ UNCHANGED rowVars
  BY <1>0, <1>10, <1>q, ClocksStand
  DEF Insert, At, Presence, Owners, Ebb, rowVars, agentVars
<1>11. CASE Activate(w) /\ status[my[w].id] # "QUEUED"
  BY <1>0, <1>11, <1>q, ClocksStand DEF Activate, At, Presence, Owners, Ebb, agentVars
<1>12. \A a \in Movers : ~StartDeactivate(w, a)
  BY DEF StartDeactivate, Starts
<1>13. CASE pc[w] \in Presence
  <2>1. GoUnavailable(w) \/ SetClocks(w) \/ SetClocksEnd(w) \/ Shed(w) \/ ShedEnd(w)
          \/ ListPending(w)
    BY <1>0, <1>13, StepAt, BeginsIdle DEF Presence, Fail
  <2> QED
    BY <1>3, <1>6, <1>7, <1>8, <2>1
<1> QED
  BY <1>1, <1>2, <1>3, <1>4, <1>5, <1>9, <1>10, <1>11, <1>12, <1>13, WorkerClocks

LEMMA StepAwayInv ==
  ASSUME Serial, ~MayFail, "deactivate" \notin Enabled, SerialInv, AwayInv, [Next]_vars
  PROVE  AwayInv'
<1>0. /\ TypeInv /\ Addressed /\ RightClocks
      /\ \A w \in Workers : Calls(w) /\ Knows(w)
  BY DEF SerialInv, AwayInv
<1>1. Addressed'
  BY <1>0, StepAddressed
<1>2. ASSUME NEW w \in Workers, Worker(w)
      PROVE  RightClocks' /\ \A v \in Workers : Calls(v)' /\ Knows(v)'
  <2>1. RightClocks' /\ Calls(w)' /\ Knows(w)'
    BY <1>0, <1>2, StepRightClocks, StepCalls, StepKnows
  <2> QED
    BY <2>1 DEF Serial
<1>3. CASE UNCHANGED vars
  <2>1. \A w \in Workers : Calls(w)' /\ Knows(w)'
    BY <1>0, <1>3 DEF vars, agentVars, rowVars, Calls, Knows, Adjusting, Away, Pending
  <2>2. RightClocks'
    BY <1>0, <1>3 DEF vars, agentVars, rowVars, RightClocks, Adjusting, ClockFits, Away
  <2> QED
    BY <1>1, <2>1, <2>2 DEF AwayInv
<1>4. ASSUME NEW q \in Ids, Elapse(q)
      PROVE  AwayInv'
  <2>1. /\ UNCHANGED <<pc, my, active, available, status, target>>
        /\ \A r \in Ids :
             clock'[r] # clock[r] => clock[r] \in Ticking /\ clock'[r] \in Ticking
    <3>1. clock' = [clock EXCEPT ![q] = "due"] /\ clock[q] = "running"
      BY <1>4 DEF Elapse
    <3>2. UNCHANGED <<pc, my, active, available, status, target>>
      BY <1>4 DEF Elapse, agentVars
    <3> QED
      BY <1>0, <3>1, <3>2 DEF Ticking, TypeInv, TypeOK
  <2>2. Ticking \cap Paused = {}
    BY DEF Ticking, Paused
  <2>3. \A r \in Ids : \A away : clock'[r] \in Wrong(away) => clock[r] \in Wrong(away)
    BY <2>1, <2>2 DEF Wrong
  <2>4. \A w \in Workers : Calls(w)' /\ Knows(w)'
    <3> SUFFICES ASSUME NEW w \in Workers PROVE Calls(w)' /\ Knows(w)'
      OBVIOUS
    <3>1. Pending(my[w].agent)' = Pending(my[w].agent) /\ Pending(my[w].agent) \subseteq Ids
      BY <2>1 DEF Pending
    <3> QED
      BY <1>0, <2>1, <2>3, <3>1 DEF Calls, Knows, Adjusting, Away, Wrong
  <2>5. \A r \in Ids : clock[r] \in Ticking \cup Paused /\ ClockFits(r) =>
                         clock'[r] \in Ticking \cup Paused /\ ClockFits(r)'
    BY <2>1, <2>2 DEF ClockFits, Away
  <2>6. RightClocks'
    BY <1>0, <2>1, <2>5 DEF RightClocks, Adjusting
  <2> QED
    BY <1>1, <2>4, <2>6 DEF AwayInv
<1>5. CASE Idle /\ Environment /\ ~\E r \in Ids : Elapse(r)
  <2>1. /\ UNCHANGED <<pc, my, active, available, target, clock>>
        /\ \A r \in Ids : status'[r] = "PENDING" => status[r] = "PENDING"
    BY <1>5 DEF Environment, Reopen, AutoClose, DeleteTicket, Reassign, Reactivate, Runs,
       Starts, SetLimit, agentVars, rowVars
  <2>2. \A w \in Workers : Calls(w)' /\ Knows(w)'
    BY <1>0, <1>5, <2>1 DEF Idle, Calls, Knows, Adjusting, Presence
  <2>3. \A w \in Workers : \A a : ~Adjusting(w, a)
    BY <1>5 DEF Idle, Adjusting
  <2>4. RightClocks'
    BY <1>0, <2>1, <2>3 DEF RightClocks, ClockFits, Away
  <2> QED
    BY <1>1, <2>2, <2>4 DEF AwayInv
<1> QED
  BY <1>0, <1>1, <1>2, <1>3, <1>4, <1>5, Between DEF AwayInv

(* When handlers run one at a time, none is abandoned and no account is      *)
(* deactivated, the clock of every offer waiting for an answer is paused     *)
(* while its recipient is away and runs while the recipient is there, whoever *)
(* goes or comes in whichever of the four ways, and however the queue moves. *)
THEOREM PausedWhileAwayHolds ==
  ASSUME Serial, ~MayFail, "deactivate" \notin Enabled
  PROVE  Spec => []PausedWhileAway
<1>1. Init => AwayInv
  BY DEF Init, AwayInv, Addressed, RightClocks, Calls, Knows, Adjusting, Active, Blank,
         Promoting, Looking, Presence, Rerouting
<1>2. AwayInv => PausedWhileAway
  BY DEF AwayInv, RightClocks, ClockFits, Adjusting, PausedWhileAway, Idle
<1>3. SerialInv /\ AwayInv /\ [Next]_vars => SerialInv' /\ AwayInv'
  BY StepSerial, StepAwayInv
<1> QED
  BY <1>1, <1>2, <1>3, InitSerial, PTL DEF Spec


-----------------------------------------------------------------------------
(* Slots that come free are refilled.  A raised limit, a deleted ticket and  *)
(* a deactivated recipient's queue are not promoted by anybody, so the       *)
(* theorem leaves them out.                                                  *)

Served(a) == Queued(a) # {} => Cardinality(Pending(a)) >= limit

(* Handler w will call promoteQueue for agent a, or is in it. *)
Owed(w, a) == pc[w] \in Promoting \cup {"move", "undo"} /\ my[w].to = a

NoneStranded == \A a \in Agents : Served(a) \/ \E w \in Workers : Owed(w, a)

(* What the loop has read of the offer is still so. *)
Accurate(e) == target[e.id] = e.to /\ (e.pending <=> status[e.id] = "PENDING")

Inside(w, label) == pc[w] = label \/ (pc[w] \in Promoting /\ my[w].back = label)

Serving(w) ==
  /\ pc[w] \in AnswerLabels \cup {"decline"} => target[my[w].id] = my[w].to
  /\ pc[w] \in {"move", "undo"} => status[my[w].id] = "ACCEPTED"
  /\ pc[w] \in Promoting => Cardinality(Pending(my[w].to)) + my[w].tries >= limit
  /\ pc[w] \in {"cancel", "cancelOffers"} => \A e \in my[w].todo : Accurate(e)
  /\ Inside(w, "cancelOffers") => \A d, e \in my[w].todo : d = e
  /\ pc[w] \in Promoting /\ my[w].back = "cancelOffers" => my[w].todo = {}
  /\ Inside(w, "expire") => \A e \in my[w].todo : target[e.id] = e.to

ServedInv == NoneStranded /\ \A w \in Workers : Calls(w) /\ Serving(w)

(* Only a label among these rests on anything. *)
Settled == Promoting \cup AnswerLabels \cup {"decline", "cancel", "cancelOffers", "expire"}

LEMMA ServingElsewhere ==
  ASSUME NEW w \in Workers, pc'[w] \notin Settled
  PROVE  Serving(w)'
BY DEF Serving, Inside, Settled, AnswerLabels

LEMMA FinishServes ==
  ASSUME TypeInv, NEW w \in Workers, Finish(w)
  PROVE  Serving(w)' /\ pc'[w] = "idle"
BY Finishes, ServingElsewhere DEF Settled, Promoting, Looking, AnswerLabels

(* A call of promoteQueue starts with as many turns as there are slots. *)
LEMMA PromoteServes ==
  ASSUME TypeInv, NEW w \in Workers, UNCHANGED limit, pc'[w] = "count",
         my'[w].tries = limit,
         my'[w].back = "cancelOffers" => my'[w].todo = {},
         my'[w].back = "expire" => \A e \in my'[w].todo : target'[e.id] = e.to
  PROVE  Serving(w)'
<1>1. limit \in Nat /\ Cardinality(Pending(my[w].to)') \in Nat
  <2>1. Pending(my[w].to)' \in SUBSET Ids
    BY DEF Pending
  <2> QED
    BY <2>1, IdSets, LimitIsNat DEF TypeInv, TypeOK
<1>2. Cardinality(Pending(my[w].to)') + my'[w].tries >= limit'
  BY <1>1
<1> QED
  BY <1>2 DEF Serving, Inside, Promoting, AnswerLabels

LEMMA PresenceStays ==
  ASSUME TypeInv, NEW w \in Workers, Calls(w), PresenceStep(w)
  PROVE  pc'[w] \in Presence \cup {"idle"}
<1>1. CASE ShedEnd(w)
  BY <1>1, Returns DEF ShedEnd, At, Calls, Presence
<1>2. SetClocksEnd(w) => Finish(w)
  BY DEF SetClocksEnd
<1>3. ASSUME NEW a \in Movers, NEW on \in BOOLEAN, NEW acc \in BOOLEAN, SetState(w, a, on, acc)
      PROVE  \E rec : Become(w, "listPending", rec)
  BY <1>3 DEF SetState
<1>4. ASSUME NEW a \in Movers,
             StartGoUnavailable(w, a) \/ PatchAvailable(w, a) \/ StartDeactivate(w, a)
      PROVE  \E rec : Become(w, "shed", rec) \/ Become(w, "listPending", rec)
  BY <1>4 DEF StartGoUnavailable, PatchAvailable, StartDeactivate
<1>5. GoUnavailable(w) => \E rec : Become(w, "listPending", rec)
  BY DEF GoUnavailable
<1>6. Shed(w) => \E rec : Become(w, "shed", rec)
  BY DEF Shed
<1>7. ListPending(w) \/ SetClocks(w) => \E rec : Become(w, "setClocks", rec)
  BY DEF ListPending, SetClocks
<1>8. \/ ShedEnd(w) \/ Finish(w)
      \/ \E rec : \/ Become(w, "shed", rec) \/ Become(w, "listPending", rec)
                  \/ Become(w, "setClocks", rec)
  BY <1>2, <1>3, <1>4, <1>5, <1>6, <1>7 DEF PresenceStep
<1> QED
  BY <1>1, <1>8, Becomes, Finishes DEF Presence

LEMMA BeginServes ==
  ASSUME TypeInv, NEW w \in Workers, Begins(w)
  PROVE  Serving(w)'
<1>b. Blank \in Locals
  BY BlankLocal
<1>1. ASSUME NEW t \in Tickets, NEW a \in Agents, StartCreate(w, t, a)
      PROVE  Serving(w)'
  <2>1. pc'[w] = "checkTarget"
    BY <1>1, Becomes DEF StartCreate
  <2> QED
    BY <2>1, ServingElsewhere DEF Settled, Promoting, Looking, AnswerLabels
<1>2. ASSUME NEW t \in Tickets, StartFinish(w, t)
      PROVE  Serving(w)'
  <2>1. pc'[w] = "listOffers"
    BY <1>2, Becomes DEF StartFinish
  <2> QED
    BY <2>1, ServingElsewhere DEF Settled, Promoting, Looking, AnswerLabels
<1>3. ASSUME NEW r \in Ids, StartAccept(w, r) \/ StartDecline(w, r)
      PROVE  Serving(w)'
  <2> DEFINE rec == [Blank EXCEPT !.id = r, !.tkts = {ticketId[r]},
                                  !.agent = requestedBy[r], !.to = target[r]]
  <2>1. \/ pc'[w] = "readTicket" /\ my'[w] = rec
        \/ pc'[w] = "decline" /\ my'[w] = [Blank EXCEPT !.id = r, !.to = target[r]]
    BY <1>3, Becomes DEF StartAccept, StartDecline
  <2>2. rec.id = r /\ rec.to = target[r]
    BY <1>b DEF Locals
  <2> HIDE DEF rec
  <2>3. my'[w].id = r /\ my'[w].to = target[r]
    BY <1>b, <2>1, <2>2 DEF Locals
  <2>4. UNCHANGED target
    BY <1>3 DEF StartAccept, StartDecline, rowVars
  <2> QED
    BY <2>1, <2>3, <2>4 DEF Serving, Inside, Promoting, Looking, AnswerLabels
<1>4. ASSUME NEW r \in Ids, StartCancel(w, r)
      PROVE  Serving(w)'
  <2>1. pc'[w] = "cancel" /\ my'[w].todo = {Snap(r)} /\ UNCHANGED <<status, target>>
    BY <1>4, <1>b, Becomes DEF StartCancel, Locals, rowVars
  <2>2. Snap(r).id = r /\ Snap(r).to = target[r] /\ (Snap(r).pending <=> status[r] = "PENDING")
    BY DEF Snap
  <2>3. \A e \in my'[w].todo : Accurate(e)'
    BY <2>1, <2>2 DEF Accurate
  <2> QED
    BY <2>1, <2>3 DEF Serving, Inside, Promoting, Looking, AnswerLabels
<1>5. CASE StartSweep(w)
  <2> DEFINE due == {r \in Ids : status[r] = "PENDING" /\ clock[r] = "due"}
             list == {Snap(r) : r \in due}
  <2>1. pc'[w] = "expire" /\ my'[w] = [Blank EXCEPT !.todo = list]
    BY <1>5, Becomes DEF StartSweep
  <2>2. my'[w].todo = list /\ my'[w].back = "idle" /\ UNCHANGED target
    BY <1>5, <2>1 DEF Blank, StartSweep, rowVars
  <2>3. \A e \in list : target[e.id] = e.to
    BY DEF Snap
  <2> HIDE DEF list
  <2> QED
    BY <2>1, <2>2, <2>3 DEF Serving, Inside, Promoting, Looking, AnswerLabels
<1>6. ASSUME NEW a \in Movers, NEW on \in BOOLEAN, NEW acc \in BOOLEAN, SetState(w, a, on, acc)
      PROVE  Serving(w)'
  <2>1. pc'[w] = "listPending"
    BY <1>6, Becomes DEF SetState
  <2> QED
    BY <2>1, ServingElsewhere DEF Settled, Promoting, Looking, AnswerLabels
<1>7. ASSUME NEW a \in Movers,
             StartGoUnavailable(w, a) \/ PatchAvailable(w, a) \/ StartDeactivate(w, a)
      PROVE  Serving(w)'
  <2>1. pc'[w] \in {"listPending", "shed"}
    BY <1>7, Becomes DEF StartGoUnavailable, PatchAvailable, StartDeactivate
  <2> QED
    BY <2>1, ServingElsewhere DEF Settled, Promoting, Looking, AnswerLabels
<1> QED
  BY <1>1, <1>2, <1>3, <1>4, <1>5, <1>6, <1>7 DEF Begins

LEMMA StepServing ==
  ASSUME "deactivate" \notin Enabled, SerialInv, NEW w \in Workers, Calls(w), Serving(w),
         Worker(w)
  PROVE  Serving(w)'
<1>0. /\ TypeInv /\ ClaimInv /\ OneEach /\ Reading(w) /\ my[w] \in Locals
      /\ UNCHANGED limit /\ limit \in Nat /\ Blank \in Locals
  BY WorkerFrame, LimitIsNat, BlankLocal DEF SerialInv, TypeInv, TypeOK
<1>c. \A a : Cardinality(Pending(a)) \in Nat
  BY IdSets DEF Pending
<1>p. ASSUME Promote(w, Blank, my[w].to, "idle")
      PROVE  Serving(w)'
  BY <1>0, <1>p, Promotes, PromoteServes
<1>1. CASE CheckTarget(w) \/ CheckExisting(w) \/ CountSlots(w) \/ Insert(w)
  <2>1. \/ Finish(w)
        \/ \E rec : \/ Become(w, "checkExisting", rec)
                    \/ Become(w, "countSlots", rec)
                    \/ Become(w, "insert", rec)
    BY <1>1 DEF CheckTarget, CheckExisting, CountSlots, Insert
  <2>2. pc'[w] \in {"idle", "checkExisting", "countSlots", "insert"}
    BY <1>0, <2>1, Becomes, Finishes
  <2> QED
    BY <2>2, ServingElsewhere DEF Settled, Promoting, Looking, AnswerLabels
<1>2. CASE ReadTicket(w)
  <2>1. Finish(w) \/ (pc'[w] \in {"claimStale", "claimAccepted"} /\ my'[w] = my[w])
    BY <1>0, <1>2, Becomes DEF ReadTicket
  <2>2. pc[w] = "readTicket" /\ UNCHANGED target
    BY <1>2 DEF ReadTicket, At, rowVars
  <2> QED
    BY <1>0, <2>1, <2>2, FinishServes DEF Serving, Inside, Promoting, Looking, AnswerLabels
<1>3. CASE ClaimStale(w) \/ Decline(w)
  BY <1>0, <1>p, <1>3, FinishServes DEF ClaimStale, Decline
<1>4. CASE ClaimAccepted(w)
  <2>1. CASE Finish(w)
    BY <1>0, <2>1, FinishServes
  <2>2. CASE status[my[w].id] = "PENDING" /\ Become(w, "move", my[w])
    <3>1. pc'[w] = "move" /\ my'[w] = my[w] /\ pc[w] = "claimAccepted" /\ my[w].id \in Ids
      BY <1>0, <1>4, <2>2, Becomes
      DEF ClaimAccepted, At, ClaimInv, AnswersKnown, AnswerLabels
    <3>2. status'[my[w].id] = "ACCEPTED" /\ UNCHANGED target
      BY <1>0, <1>4, <2>2, <3>1 DEF ClaimAccepted, Swap, TypeInv, TypeOK
    <3> QED
      BY <3>1, <3>2 DEF Serving, Inside, Promoting, Looking, AnswerLabels
  <2> QED
    BY <1>4, <2>1, <2>2 DEF ClaimAccepted
<1>5. CASE Move(w)
  <2>1. CASE Become(w, "undo", my[w])
    <3>1. pc'[w] = "undo" /\ my'[w] = my[w] /\ pc[w] = "move"
            /\ UNCHANGED <<status, target>>
      BY <1>0, <1>5, <2>1, Becomes DEF Move, At, rowVars
    <3> QED
      BY <3>1 DEF Serving, Inside, Promoting, Looking, AnswerLabels
  <2> QED
    BY <1>p, <1>5, <2>1 DEF Move
<1>6. CASE Undo(w)
  BY <1>0, <1>p, <1>6, FinishServes DEF Undo
<1>7. CASE Cancel(w)
  <2>1. PICK e \in my[w].todo : CancelOne(w, e, "idle")
    BY <1>7 DEF Cancel
  <2>2. \/ pc'[w] = "idle"
        \/ pc'[w] = "count" /\ my'[w].tries = limit /\ my'[w].back = "idle"
    BY <1>0, <2>1, CancelsOne
  <2>3. CASE pc'[w] = "idle"
    BY <2>3, ServingElsewhere DEF Settled, Promoting, Looking, AnswerLabels
  <2> QED
    BY <1>0, <2>2, <2>3, PromoteServes
<1>8. CASE ListOffers(w)
  <2>1. PICK t \in my[w].tkts :
          Become(w, "cancelOffers", [Blank EXCEPT !.todo = {Snap(r) : r \in OffersFor(t)}])
    BY <1>8 DEF ListOffers
  <2> DEFINE list == {Snap(r) : r \in OffersFor(t)}
  <2>2. pc'[w] = "cancelOffers" /\ my'[w].todo = list
    BY <1>0, <2>1, Becomes DEF Blank
  <2>3. UNCHANGED <<status, target>>
    BY <1>8 DEF ListOffers, rowVars
  <2>4. \A d, e \in list : d = e
    BY <1>0 DEF OneEach, OffersFor
  <2>r. \A r : Snap(r).id = r /\ Snap(r).to = target[r]
               /\ (Snap(r).pending <=> status[r] = "PENDING")
    BY DEF Snap
  <2>5. \A e \in list : target[e.id] = e.to /\ (e.pending <=> status[e.id] = "PENDING")
    BY <2>r
  <2> HIDE DEF list
  <2>6. \A e \in my'[w].todo : Accurate(e)'
    BY <2>2, <2>3, <2>5 DEF Accurate
  <2> QED
    BY <2>2, <2>4, <2>6 DEF Serving, Inside, Promoting, Looking, AnswerLabels
<1>9. CASE CancelOffers(w)
  <2>1. PICK e \in my[w].todo : CancelOne(w, e, "cancelOffers")
    BY <1>9 DEF CancelOffers
  <2>2. \A d \in my[w].todo : d = e
    BY <1>9, <2>1 DEF CancelOffers, At, Serving, Inside
  <2>3. /\ pc'[w] \in {"count", "cancelOffers"} /\ my'[w].todo = my[w].todo \ {e}
        /\ pc'[w] = "count" => my'[w].tries = limit /\ my'[w].back = "cancelOffers"
    BY <1>0, <2>1, CancelsOne
  <2>4. my'[w].todo = {}
    BY <2>2, <2>3
  <2>5. CASE pc'[w] = "count"
    BY <1>0, <2>3, <2>4, <2>5, PromoteServes
  <2>6. CASE pc'[w] = "cancelOffers"
    BY <2>4, <2>6 DEF Serving, Inside, Promoting, Looking, AnswerLabels
  <2> QED
    BY <2>3, <2>5, <2>6
<1>10. CASE PromoteStep(w)
  <2>1. pc[w] \in Promoting /\ my[w].back \in {"idle", "cancelOffers", "expire"}
    BY <1>0, <1>10, PromoteKeeps DEF Calls
  <2>2. UNCHANGED target
    BY <1>10 DEF PromoteStep, Count, Find, ReadTarget, Activate, rowVars
  <2>3. /\ my[w].back = "cancelOffers" => my[w].todo = {}
        /\ my[w].back = "expire" => \A e \in my[w].todo : target[e.id] = e.to
    BY <2>1 DEF Serving, Inside
  <2>4. CASE Return(w)
    <3>1. CASE my[w].back = "idle"
      BY <1>0, <2>4, <3>1, FinishServes DEF Return
    <3>2. CASE my[w].back # "idle"
      <4>1. pc'[w] = my[w].back /\ my'[w].todo = my[w].todo
        BY <1>0, <2>4, <3>2, Returns
      <4> QED
        BY <2>1, <2>2, <2>3, <3>2, <4>1 DEF Serving, Inside, Promoting, Looking, AnswerLabels
    <3> QED
      BY <3>1, <3>2
  <2>5. CASE ~Return(w)
    <3>1. /\ pc'[w] \in Promoting /\ my'[w].back = my[w].back
          /\ my'[w].to = my[w].to /\ my'[w].todo = my[w].todo
      BY <1>0, <1>10, <2>5, PromoteKeeps
    <3>2. Cardinality(Pending(my[w].to)') + my'[w].tries >= limit
      <4>0. /\ Cardinality(Pending(my[w].to)) + my[w].tries >= limit
            /\ my[w].tries \in Nat
        BY <1>0, <2>1 DEF Serving, Locals
      <4>1. CASE Count(w) \/ Find(w) \/ ReadTarget(w)
        <5>1. my'[w].tries = my[w].tries
          <6>1. \/ my'[w] = my[w]
                \/ \E r : my'[w] = [my[w] EXCEPT !.id = r]
                \/ \E b : my'[w] = [my[w] EXCEPT !.away = b]
            BY <1>0, <2>5, <4>1, Becomes DEF Count, Find, ReadTarget
          <6> QED
            BY <1>0, <6>1 DEF Locals
        <5>2. UNCHANGED <<status, target>>
          BY <4>1 DEF Count, Find, ReadTarget, rowVars
        <5>3. Pending(my[w].to)' = Pending(my[w].to)
          BY <3>1, <5>2 DEF Pending
        <5> QED
          BY <4>0, <5>1, <5>3
      <4>2. CASE Activate(w)
        <5>1. /\ my[w].id \in Queued(my[w].to) /\ my[w].tries > 0
              /\ status[my[w].id] = "QUEUED"
          BY <1>0, <2>5, <4>2
          DEF Activate, At, Reading, TypeInv, TriesLeft, Looking
        <5> DEFINE rec == [my[w] EXCEPT !.id = 0, !.away = FALSE, !.tries = @ - 1]
        <5>2. Become(w, "count", rec) /\ status' = [status EXCEPT ![my[w].id] = "PENDING"]
          BY <4>2, <5>1 DEF Activate
        <5>3. rec.tries = my[w].tries - 1
          BY <1>0 DEF Locals
        <5> HIDE DEF rec
        <5>4. my'[w].tries = my[w].tries - 1
          BY <1>0, <5>2, <5>3, Becomes
        <5>5. Pending(my[w].to)' = Pending(my[w].to) \cup {my[w].id}
          BY <1>0, <2>2, <3>1, <5>1, <5>2 DEF Pending, Queued, TypeInv, TypeOK
        <5>6. Cardinality(Pending(my[w].to)') = Cardinality(Pending(my[w].to)) + 1
          <6>1. my[w].id \in Ids \ Pending(my[w].to)
            BY <5>1 DEF Pending, Queued
          <6> QED
            BY <5>5, <6>1, OneMoreId DEF Pending
        <5> QED
          BY <1>0, <1>c, <4>0, <5>1, <5>4, <5>6
      <4> QED
        BY <1>10, <4>1, <4>2 DEF PromoteStep
    <3>3. Cardinality(Pending(my[w].to)') + my'[w].tries >= limit'
      BY <1>0, <3>2
    <3> QED
      BY <2>1, <2>2, <2>3, <3>1, <3>3 DEF Serving, Inside, Promoting, Looking, AnswerLabels
  <2> QED
    BY <2>4, <2>5
<1>11. CASE PresenceStep(w)
  BY <1>0, <1>11, PresenceStays, ServingElsewhere
  DEF Settled, Promoting, Looking, AnswerLabels, Presence
<1>12. CASE RerouteStep(w)
  BY <1>12 DEF RerouteStep, ListRaised, CancelRaised, ListReceived, CancelReceived,
              PickReplacement, CountReplacement, MoveOffer, RerouteEnd, At, Calls, Rerouting
<1>13. CASE Expire(w)
  <2>1. PICK e \in my[w].todo :
          \/ Promote(w, [my[w] EXCEPT !.todo = @ \ {e}], e.to, "expire")
          \/ Become(w, "expire", [my[w] EXCEPT !.todo = @ \ {e}])
    BY <1>13 DEF Expire
  <2> DEFINE rest == [my[w] EXCEPT !.todo = @ \ {e}]
  <2>2. rest \in Locals /\ rest.todo = my[w].todo \ {e}
    BY <1>0 DEF Locals
  <2>3. UNCHANGED target /\ \A d \in my[w].todo \ {e} : target[d.id] = d.to
    BY <1>13 DEF Expire, At, Serving, Inside
  <2>4. Promote(w, rest, e.to, "expire") \/ Become(w, "expire", rest)
    BY <2>1
  <2> HIDE DEF rest
  <2>5. CASE Promote(w, rest, e.to, "expire")
    <3>1. /\ pc'[w] = "count" /\ my'[w].tries = limit /\ my'[w].back = "expire"
          /\ my'[w].todo = my[w].todo \ {e}
      BY <1>0, <2>2, <2>5, Promotes
    <3> QED
      BY <1>0, <2>3, <3>1, PromoteServes
  <2>6. CASE Become(w, "expire", rest)
    <3>1. pc'[w] = "expire" /\ my'[w].todo = my[w].todo \ {e}
      BY <1>0, <2>2, <2>6, Becomes
    <3> QED
      BY <2>3, <3>1 DEF Serving, Inside, Promoting, Looking, AnswerLabels
  <2> QED
    BY <2>4, <2>5, <2>6
<1>14. CASE ExpireEnd(w) \/ CancelOffersEnd(w) \/ Fail(w)
  BY <1>0, <1>14, FinishServes DEF ExpireEnd, CancelOffersEnd, Fail
<1>15. CASE Begins(w)
  BY <1>0, <1>15, BeginServes
<1> QED
  BY <1>0, <1>1, <1>2, <1>3, <1>4, <1>5, <1>6, <1>7, <1>8, <1>9, <1>10, <1>11, <1>12, <1>13,
     <1>14, <1>15, StepAt DEF PromoteStep, PresenceStep, RerouteStep

(* Agent a's queue stays served when a loses no live offer and gains no      *)
(* queued one.                                                               *)
LEMMA ServedKept ==
  ASSUME TypeInv, UNCHANGED limit, NEW a, Served(a),
         Pending(a) \subseteq Pending(a)', Queued(a)' \subseteq Queued(a)
  PROVE  Served(a)'
<1>1. Pending(a) \in SUBSET Ids /\ Pending(a)' \in SUBSET Ids
  BY DEF Pending
<1>2. /\ Cardinality(Pending(a)) <= Cardinality(Pending(a)')
      /\ Cardinality(Pending(a)) \in Nat /\ Cardinality(Pending(a)') \in Nat /\ limit \in Nat
  <2> DEFINE before == Pending(a)
             after == Pending(a)'
  <2>1. before \in SUBSET Ids /\ after \in SUBSET Ids /\ before \in SUBSET after
    BY <1>1
  <2> HIDE DEF before, after
  <2>2. Cardinality(before) <= Cardinality(after)
    BY <2>1, FewerIds
  <2>3. Cardinality(before) \in Nat /\ Cardinality(after) \in Nat
    BY <2>1, IdSets
  <2>4. limit \in Nat
    BY LimitIsNat DEF TypeInv, TypeOK
  <2> QED
    BY <2>2, <2>3, <2>4 DEF before, after
<1> QED
  BY <1>2 DEF Served

LEMMA ServedStands ==
  ASSUME TypeInv, UNCHANGED <<limit, status, target>>, NEW a, Served(a)
  PROVE  Served(a)'
BY DEF Served, Pending, Queued

(* An update that ends an offer takes a slot only from its recipient. *)
LEMMA Frees ==
  ASSUME TypeInv, NEW r, NEW from, NEW to, to \notin Active,
         status' = Swap(r, from, to), UNCHANGED <<limit, target>>, NEW a, Served(a),
         target[r] # a \/ status[r] # "PENDING" \/ "PENDING" \notin from
  PROVE  Served(a)'
<1>1. \A q \in Ids : status'[q] = status[q] \/ (q = r /\ status[q] \in from /\ status'[q] = to)
  BY DEF Swap, TypeInv, TypeOK
<1>2. Pending(a) \subseteq Pending(a)' /\ Queued(a)' \subseteq Queued(a)
  BY <1>1 DEF Pending, Queued, Active
<1> QED
  BY <1>2, ServedKept

LEMMA InsertServes ==
  ASSUME SerialInv, NEW w \in Workers, Insert(w), NEW a \in Agents, Served(a)
  PROVE  Served(a)'
<1>0. TypeInv /\ ClaimInv /\ Reading(w) /\ UNCHANGED limit /\ pc[w] = "insert"
  BY DEF SerialInv, Insert, At
<1>1. CASE UNCHANGED rowVars
  BY <1>0, <1>1, ServedStands DEF rowVars
<1>2. CASE ~UNCHANGED rowVars
  <2>1. /\ nextId \in Ids /\ status[nextId] = "NOROW"
        /\ target' = [target EXCEPT ![nextId] = my[w].to]
        /\ status' = [status EXCEPT ![nextId] = IF my[w].full THEN "QUEUED" ELSE "PENDING"]
    BY <1>0, <1>2 DEF Insert, ClaimInv, RowsBelow, Ids, TypeInv, TypeOK
  <2>2. /\ Pending(a) \subseteq Pending(a)'
        /\ \A q \in Queued(a)' : q \in Queued(a) \/ (q = nextId /\ my[w].full /\ my[w].to = a)
    BY <1>0, <2>1 DEF Pending, Queued, TypeInv, TypeOK
  <2>3. CASE my[w].full /\ my[w].to = a
    <3>1. Cardinality(Pending(a)) >= limit
      BY <1>0, <2>3 DEF Reading
    <3>2. Pending(a) \in SUBSET Ids /\ Pending(a)' \in SUBSET Ids
      BY DEF Pending
    <3>3. Cardinality(Pending(a)') >= limit
      <4> DEFINE before == Pending(a)
                 after == Pending(a)'
      <4>1. before \in SUBSET Ids /\ after \in SUBSET Ids /\ before \in SUBSET after
              /\ Cardinality(before) >= limit
        BY <2>2, <3>1, <3>2
      <4> HIDE DEF before, after
      <4>2. Cardinality(before) <= Cardinality(after)
        BY <4>1, FewerIds
      <4>3. Cardinality(before) \in Nat /\ Cardinality(after) \in Nat
        BY <4>1, IdSets
      <4>4. limit \in Nat
        BY <1>0, LimitIsNat DEF TypeInv, TypeOK
      <4>5. Cardinality(after) >= limit
        BY <4>1, <4>2, <4>3, <4>4
      <4> QED
        BY <4>5 DEF after
    <3> QED
      BY <1>0, <3>3 DEF Served
  <2>4. CASE ~(my[w].full /\ my[w].to = a)
    BY <1>0, <2>2, <2>4, ServedKept
  <2> QED
    BY <2>3, <2>4
<1> QED
  BY <1>1, <1>2

(* promoteQueue returns with the slots full or the queue empty. *)
LEMMA PromoteStepServes ==
  ASSUME SerialInv, NEW w \in Workers, Serving(w), PromoteStep(w),
         NEW a \in Agents, Served(a) \/ Owed(w, a)
  PROVE  Served(a)' \/ Owed(w, a)'
<1>0. /\ TypeInv /\ Reading(w) /\ my[w] \in Locals /\ limit \in Nat
      /\ UNCHANGED <<limit, target>>
  BY LimitIsNat DEF SerialInv, TypeInv, TypeOK, PromoteStep, Count, Find, ReadTarget,
     Activate, rowVars
<1>1. pc[w] \in Promoting
  BY DEF PromoteStep, Count, Find, ReadTarget, Activate, At, Promoting, Looking
<1>2. CASE ~Return(w)
  <2>1. pc'[w] \in Promoting /\ my'[w].to = my[w].to
    BY <1>0, <1>2, PromoteKeeps
  <2>2. CASE my[w].to = a
    BY <2>1, <2>2 DEF Owed
  <2>3. CASE my[w].to # a
    <3>1. Served(a)
      BY <2>3 DEF Owed
    <3>2. CASE UNCHANGED <<status, target>>
      BY <1>0, <3>1, <3>2, ServedStands
    <3>3. CASE Activate(w)
      <4>1. status' = [status EXCEPT ![my[w].id] = "PENDING"] /\ my[w].id \in Queued(my[w].to)
        BY <1>0, <1>2, <3>3 DEF Activate, At, Reading
      <4>2. Pending(a) \subseteq Pending(a)' /\ Queued(a)' \subseteq Queued(a)
        BY <1>0, <2>3, <4>1 DEF Pending, Queued, TypeInv, TypeOK
      <4> QED
        BY <1>0, <3>1, <4>2, ServedKept
    <3> QED
      BY <3>2, <3>3 DEF PromoteStep, Count, Find, ReadTarget, rowVars
  <2> QED
    BY <2>2, <2>3
<1>3. CASE Return(w)
  <2>0. pc'[w] \notin {"count", "readTarget", "activate"}
    <3>1. my[w].back \in Callers
      BY <1>0 DEF Locals
    <3> QED
      BY <1>0, <1>3, <3>1, Returns DEF Callers
  <2>a. ReadTarget(w) => \E rec : Become(w, "activate", rec)
    BY DEF ReadTarget
  <2>b. Activate(w) => \E rec : Become(w, "count", rec)
    BY <1>0 DEF Activate, Reading, At, Queued
  <2>c. Count(w) \/ Find(w)
    BY <1>0, <2>0, <2>a, <2>b, Becomes DEF PromoteStep
  <2>1. UNCHANGED <<status, target>>
    BY <2>c DEF Count, Find, rowVars
  <2>2. CASE my[w].to # a
    BY <1>0, <2>1, <2>2, ServedStands DEF Owed
  <2>3. CASE my[w].to = a
    <3>1. Cardinality(Pending(a)) \in Nat
      BY IdSets DEF Pending
    <3>2. CASE Count(w)
      <4>1. pc[w] = "count" /\ my[w].lim = limit /\ my[w].tries \in Nat
        BY <1>0, <1>1, <3>2 DEF Count, At, Reading, Locals
      <4>2. my[w].tries = 0 \/ Cardinality(Pending(a)) >= limit
        <5>1. ~Become(w, "find", my[w])
          <6>1. pc'[w] # "find"
            <7>1. my[w].back \in Callers
              BY <1>0 DEF Locals
            <7> QED
              BY <1>0, <1>3, <7>1, Returns DEF Callers
          <6> QED
            BY <1>0, <6>1, Becomes
        <5> QED
          BY <2>3, <3>2, <4>1, <5>1 DEF Count
      <4>3. Cardinality(Pending(a)) + my[w].tries >= limit
        BY <1>1, <2>3 DEF Serving
      <4>4. Cardinality(Pending(a)) >= limit
        BY <1>0, <3>1, <4>1, <4>2, <4>3
      <4>5. Served(a)
        BY <4>4 DEF Served
      <4> QED
        BY <1>0, <2>1, <4>5, ServedStands
    <3>3. CASE Find(w)
      <4>2. Find(w) => Queued(my[w].to) = {} \/ \E rec : Become(w, "readTarget", rec)
        BY DEF Find
      <4>3. Queued(my[w].to) = {}
        BY <1>0, <2>0, <3>3, <4>2, Becomes
      <4>4. Served(a)
        BY <2>3, <4>3 DEF Served
      <4> QED
        BY <1>0, <2>1, <4>4, ServedStands
    <3> QED
      BY <2>c, <3>2, <3>3
  <2> QED
    BY <2>2, <2>3
<1> QED
  BY <1>2, <1>3

LEMMA StepServed ==
  ASSUME ~MayFail, SerialInv, NEW w \in Workers, Calls(w), Serving(w), Worker(w),
         NEW a \in Agents, Served(a) \/ Owed(w, a)
  PROVE  Served(a)' \/ Owed(w, a)'
<1>0. /\ TypeInv /\ ClaimInv /\ my[w] \in Locals /\ Blank \in Locals /\ UNCHANGED limit
      /\ {"CANCELLED", "ACCEPTED", "DECLINED", "EXPIRED"} \cap Active = {}
  BY WorkerFrame, BlankLocal DEF SerialInv, TypeInv, TypeOK, Active
<1>a. pc[w] \notin Promoting \cup {"move", "undo"} => Served(a)
  BY DEF Owed
<1>s. ASSUME pc[w] \notin Promoting \cup {"move", "undo"}, UNCHANGED <<status, target>>
      PROVE  Served(a)'
  BY <1>0, <1>a, <1>s, ServedStands
<1>p. ASSUME NEW rec \in Locals, NEW ret, Promote(w, rec, a, ret)
      PROVE  Owed(w, a)'
  BY <1>0, <1>p, Promotes DEF Owed, Promoting
<1>1. CASE Begins(w)
  <2>1. UNCHANGED <<status, target>>
    BY <1>1 DEF Begins, StartCreate, StartFinish, StartAccept, StartDecline, StartCancel,
       SetState, StartGoUnavailable, PatchAvailable, StartDeactivate, StartSweep, rowVars
  <2>2. pc[w] = "idle"
    BY <1>1, BeginsIdle
  <2> QED
    BY <1>s, <2>1, <2>2 DEF Promoting, Looking
<1>2. CASE CheckTarget(w) \/ CheckExisting(w) \/ CountSlots(w) \/ ReadTicket(w)
           \/ ListOffers(w) \/ CancelOffersEnd(w) \/ ExpireEnd(w)
  BY <1>s, <1>2 DEF CheckTarget, CheckExisting, CountSlots, ReadTicket, ListOffers,
     CancelOffersEnd, ExpireEnd, At, rowVars, Promoting, Looking
<1>3. CASE Shed(w) \/ ShedEnd(w) \/ GoUnavailable(w) \/ ListPending(w) \/ SetClocks(w)
           \/ SetClocksEnd(w)
  BY <1>s, <1>3 DEF Shed, ShedEnd, GoUnavailable, ListPending, SetClocks, SetClocksEnd, At,
     rowVars, Promoting, Looking
<1>4. CASE Insert(w)
  BY <1>a, <1>4, InsertServes DEF Insert, At, Promoting, Looking
<1>5. CASE ClaimStale(w)
  <2>1. pc[w] = "claimStale" /\ target[my[w].id] = my[w].to
    BY <1>5 DEF ClaimStale, At, Serving, AnswerLabels
  <2>2. Served(a)
    BY <1>a, <2>1 DEF Promoting, Looking
  <2>3. CASE my[w].to = a
    BY <1>0, <1>p, <1>5, <2>3 DEF ClaimStale
  <2>4. CASE my[w].to # a
    BY <1>0, <1>5, <2>1, <2>2, <2>4, Frees DEF ClaimStale
  <2> QED
    BY <2>3, <2>4
<1>6. CASE ClaimAccepted(w)
  <2>1. pc[w] = "claimAccepted" /\ target[my[w].id] = my[w].to
    BY <1>6 DEF ClaimAccepted, At, Serving, AnswerLabels
  <2>2. Served(a)
    BY <1>a, <2>1 DEF Promoting, Looking
  <2>3. CASE my[w].to = a /\ status[my[w].id] = "PENDING"
    <3>1. pc'[w] = "move" /\ my'[w] = my[w]
      BY <1>0, <1>6, <2>3, Becomes DEF ClaimAccepted
    <3> QED
      BY <2>3, <3>1 DEF Owed
  <2>4. CASE my[w].to # a \/ status[my[w].id] # "PENDING"
    BY <1>0, <1>6, <2>1, <2>2, <2>4, Frees DEF ClaimAccepted
  <2> QED
    BY <2>3, <2>4
<1>7. CASE Move(w)
  <2>1. pc[w] = "move" /\ UNCHANGED <<status, target>>
    BY <1>7 DEF Move, At, rowVars
  <2>2. CASE my[w].to # a
    BY <1>0, <2>1, <2>2, ServedStands DEF Owed
  <2>3. CASE my[w].to = a
    <3>1. Promote(w, Blank, a, "idle") \/ Become(w, "undo", my[w])
      BY <1>7, <2>3 DEF Move
    <3>2. CASE Become(w, "undo", my[w])
      BY <1>0, <2>3, <3>2, Becomes DEF Owed
    <3> QED
      BY <1>0, <1>p, <3>1, <3>2
  <2> QED
    BY <2>2, <2>3
<1>8. CASE Undo(w)
  <2>1. pc[w] = "undo" /\ status[my[w].id] = "ACCEPTED"
    BY <1>8 DEF Undo, At, Serving
  <2>2. /\ status' = Swap(my[w].id, {"ACCEPTED"}, "CANCELLED") /\ UNCHANGED target
        /\ Promote(w, Blank, my[w].to, "idle")
    BY <1>8, <2>1 DEF Undo, Swap
  <2>3. CASE my[w].to # a
    BY <1>0, <2>1, <2>2, <2>3, Frees DEF Owed
  <2> QED
    BY <1>0, <1>p, <2>2, <2>3
<1>9. CASE Decline(w)
  <2>1. pc[w] = "decline" /\ target[my[w].id] = my[w].to
    BY <1>9 DEF Decline, At, Serving
  <2>2. Served(a)
    BY <1>a, <2>1 DEF Promoting, Looking
  <2>3. CASE my[w].to = a /\ status[my[w].id] = "PENDING"
    BY <1>0, <1>p, <1>9, <2>3 DEF Decline
  <2>4. CASE my[w].to # a \/ status[my[w].id] # "PENDING"
    BY <1>0, <1>9, <2>1, <2>2, <2>4, Frees DEF Decline
  <2> QED
    BY <2>3, <2>4
<1>10. CASE Cancel(w) \/ CancelOffers(w)
  <2>1. PICK e \in my[w].todo, ret \in {"idle", "cancelOffers"} : CancelOne(w, e, ret)
    BY <1>10 DEF Cancel, CancelOffers
  <2>2. pc[w] \in {"cancel", "cancelOffers"} /\ Accurate(e)
    BY <1>10 DEF Cancel, CancelOffers, At, Serving
  <2>3. Served(a)
    BY <1>a, <2>2 DEF Promoting, Looking
  <2>4. status' = Swap(e.id, Active, "CANCELLED") /\ UNCHANGED target
    BY <2>1 DEF CancelOne
  <2>5. CASE e.to = a /\ status[e.id] = "PENDING"
    <3>1. pc'[w] = "count"
      BY <1>0, <2>1, <2>2, <2>5, CancelsOne DEF Accurate, Active
    <3>2. my'[w].to = a
      BY <1>0, <2>1, <2>5, <3>1, CancelsOne
    <3> QED
      BY <3>1, <3>2 DEF Owed, Promoting
  <2>6. CASE e.to # a \/ status[e.id] # "PENDING"
    BY <1>0, <2>2, <2>3, <2>4, <2>6, Frees DEF Accurate
  <2> QED
    BY <2>5, <2>6
<1>11. CASE PromoteStep(w)
  BY <1>11, PromoteStepServes
<1>12. CASE Expire(w)
  <2>1. PICK e \in my[w].todo :
          /\ status' = Swap(e.id, {"PENDING"}, "EXPIRED")
          /\ status[e.id] = "PENDING" =>
               Promote(w, [my[w] EXCEPT !.todo = @ \ {e}], e.to, "expire")
    BY <1>12 DEF Expire
  <2>2. pc[w] = "expire" /\ target[e.id] = e.to /\ UNCHANGED target
    BY <1>12 DEF Expire, At, Serving, Inside
  <2>3. Served(a)
    BY <1>a, <2>2 DEF Promoting, Looking
  <2> DEFINE rest == [my[w] EXCEPT !.todo = @ \ {e}]
  <2>4. rest \in Locals /\ (status[e.id] = "PENDING" => Promote(w, rest, e.to, "expire"))
    BY <1>0, <2>1 DEF Locals
  <2> HIDE DEF rest
  <2>5. CASE e.to = a /\ status[e.id] = "PENDING"
    BY <1>p, <2>4, <2>5
  <2>6. CASE e.to # a \/ status[e.id] # "PENDING"
    BY <1>0, <2>1, <2>2, <2>3, <2>6, Frees
  <2> QED
    BY <2>5, <2>6
<1>13. CASE RerouteStep(w)
  BY <1>13 DEF RerouteStep, ListRaised, CancelRaised, ListReceived, CancelReceived,
              PickReplacement, CountReplacement, MoveOffer, RerouteEnd, At, Calls, Rerouting
<1> QED
  BY <1>1, <1>2, <1>3, <1>4, <1>5, <1>6, <1>7, <1>8, <1>9, <1>10, <1>11, <1>12, <1>13, StepAt
  DEF PromoteStep, RerouteStep, Fail

LEMMA StepServedInv ==
  ASSUME Serial, ~MayFail, \A m, n \in Limits : m = n,
         "deactivate" \notin Enabled, "delete" \notin Enabled,
         SerialInv, ServedInv, [Next]_vars
  PROVE  ServedInv'
<1>0. TypeInv /\ NoneStranded /\ \A w \in Workers : Calls(w) /\ Serving(w)
  BY DEF SerialInv, ServedInv
<1>1. ASSUME NEW w \in Workers, Worker(w)
      PROVE  ServedInv'
  <2>1. Calls(w)' /\ Serving(w)'
    BY <1>0, <1>1, StepCalls, StepServing
  <2>2. ASSUME NEW a \in Agents
        PROVE  Served(a)' \/ Owed(w, a)'
    <3>1. Served(a) \/ Owed(w, a)
      BY <1>0 DEF NoneStranded, Serial
    <3> QED
      BY <1>0, <1>1, <3>1, StepServed
  <2>3. \A v \in Workers : v = w
    BY DEF Serial
  <2> QED
    BY <2>1, <2>2, <2>3 DEF ServedInv, NoneStranded
<1>2. ASSUME UNCHANGED <<pc, my, status, target, limit>>
      PROVE  ServedInv'
  <2>1. \A a \in Agents : Served(a)' = Served(a)
    BY <1>2 DEF Served, Pending, Queued
  <2>2. \A w \in Workers, a \in Agents : Owed(w, a)' = Owed(w, a)
    BY <1>2 DEF Owed
  <2>3. \A w \in Workers : Calls(w)'
    BY <1>0, <1>2 DEF Calls
  <2>4. ASSUME NEW w \in Workers
        PROVE  Serving(w)'
    <3>1. Serving(w)
      BY <1>0
    <3>2. \A e : Accurate(e)' = Accurate(e)
      BY <1>2 DEF Accurate
    <3>3. Pending(my[w].to)' = Pending(my[w].to)
      BY <1>2 DEF Pending
    <3> QED
      BY <1>2, <3>1, <3>2, <3>3 DEF Serving, Inside
  <2>5. NoneStranded'
    BY <1>0, <2>1, <2>2 DEF NoneStranded
  <2> QED
    BY <2>3, <2>4, <2>5 DEF ServedInv
<1>3. CASE UNCHANGED vars
  BY <1>2, <1>3 DEF vars, rowVars
<1>4. ASSUME NEW r \in Ids, Elapse(r)
      PROVE  ServedInv'
  BY <1>2, <1>4 DEF Elapse
<1>5. CASE Environment
  <2>1. limit \in Limits
    BY <1>0 DEF TypeInv, TypeOK
  <2>2. \A n \in Limits : ~SetLimit(n)
    BY <2>1 DEF SetLimit
  <2> QED
    BY <1>2, <1>5, <2>2 DEF Environment, Reopen, AutoClose, DeleteTicket, Reassign, Reactivate,
       Elapse, Runs, Starts, rowVars
<1> QED
  BY <1>0, <1>1, <1>3, <1>4, <1>5, Between

(* When handlers run one at a time, none is abandoned, the limit stays as it *)
(* is and no account is deactivated or ticket deleted, nobody waits in a     *)
(* queue while the recipient has a free slot, whichever answer, cancellation *)
(* or expiry freed it and however many offers wait: promoteQueue has as many *)
(* turns as there are slots, and every statement that frees one calls it     *)
(* (promoteQueue, cancelRequest, sweepExpired).                              *)
THEOREM NoStrandedQueueHolds ==
  ASSUME Serial, ~MayFail, \A m, n \in Limits : m = n,
         "deactivate" \notin Enabled, "delete" \notin Enabled
  PROVE  Spec => []NoStrandedQueue
<1>1. Init => ServedInv
  BY DEF Init, ServedInv, NoneStranded, Served, Queued, Calls, Serving, Inside, Blank,
         Promoting, Looking, Rerouting, AnswerLabels
<1>2. ServedInv => NoStrandedQueue
  BY DEF ServedInv, NoneStranded, Served, Owed, NoStrandedQueue, Idle, Promoting, Looking
<1>3. SerialInv /\ ServedInv /\ [Next]_vars => SerialInv' /\ ServedInv'
  BY StepSerial, StepServedInv
<1> QED
  BY <1>1, <1>2, <1>3, InitSerial, PTL DEF Spec

=============================================================================
