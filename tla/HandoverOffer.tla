---------------------------- MODULE HandoverOffer ----------------------------
(***************************************************************************)
(* What a handover promises (head of server/src/services/handoverService.js):*)
(* "A handover is an OFFER.  The ticket does not change owner until the     *)
(* target accepts", and every offer ends in one way only.  Queues, clocks,  *)
(* recipients and the handlers' statements are not visible here.            *)
(***************************************************************************)
CONSTANTS Offers, Tickets, Agents, Null

VARIABLES
  owner,   \* who holds each ticket
  fate,    \* what has become of each offer
  about,   \* the ticket it offers
  from     \* the agent who gives the ticket away

vars == <<owner, fate, about, from>>

Fates == {"none", "open", "transferred", "closed", "deleted"}

TypeOK ==
  /\ owner \in [Tickets -> Agents \cup {Null}]
  /\ fate \in [Offers -> Fates]

Init ==
  /\ owner \in [Tickets -> Agents]
  /\ fate = [r \in Offers |-> "none"]
  /\ about = [r \in Offers |-> Null]
  /\ from = [r \in Offers |-> Null]

(* An agent offers a ticket of theirs; it stays theirs. *)
Raise(r) ==
  /\ fate[r] = "none"
  /\ UNCHANGED owner
  /\ \E t \in Tickets, a \in Agents :
       /\ about' = [about EXCEPT ![r] = t]
       /\ from' = [from EXCEPT ![r] = a]
  /\ fate' = [fate EXCEPT ![r] = "open"]

(* The one way an offer moves a ticket: away from the agent who offered it,  *)
(* as long as it is still with them, in the step that ends the offer.        *)
Transfer(r) ==
  /\ fate[r] = "open"
  /\ owner[about[r]] = from[r]
  /\ \E b \in Agents \ {from[r]} : owner' = [owner EXCEPT ![about[r]] = b]
  /\ UNCHANGED <<about, from>>
  /\ fate' = [fate EXCEPT ![r] = "transferred"]

(* Declined, cancelled or expired: nobody's ticket moves. *)
Close(r) ==
  /\ fate[r] = "open"
  /\ UNCHANGED <<owner, about, from>>
  /\ fate' = [fate EXCEPT ![r] = "closed"]

(* Other parts of the desk reassign tickets. *)
HandOn(t) ==
  /\ \E b \in Agents \cup {Null} : owner' = [owner EXCEPT ![t] = b]
  /\ UNCHANGED <<fate, about, from>>

(* A ticket is deleted with the offers about it. *)
Delete(t) ==
  /\ owner' = [owner EXCEPT ![t] = Null]
  /\ UNCHANGED <<about, from>>
  /\ fate' = [r \in Offers |-> IF about[r] = t THEN "deleted" ELSE fate[r]]

Next ==
  \/ \E t \in Tickets : HandOn(t) \/ Delete(t)
  \/ \E r \in Offers : Raise(r) \/ Transfer(r) \/ Close(r)

Spec == Init /\ [][Next]_vars
=============================================================================
