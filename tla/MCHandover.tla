----------------------------- MODULE MCHandover -----------------------------
(* Instances of Handover for TLC. *)
EXTENDS Handover, TLC

(* Agents that Movers does not single out are interchangeable, and so are    *)
(* tickets and workers.                                                      *)
Symmetry == Permutations(Agents \ Movers) \cup Permutations(Tickets)
              \cup Permutations(Workers)

(* No handler reads the columns of a finished offer that nobody settles.     *)
(* Deleting a ticket does, and the run that deletes has one ticket only.     *)
Row(r) == IF status[r] \in Active \/ \E w \in Workers : Settling(w, r)
          THEN <<status[r], ticketId[r], requestedBy[r], target[r], clock[r]>>
          ELSE <<status[r]>>
View == <<owner, state, active, available, limit, nextId,
          [r \in Ids |-> Row(r)], pc, my>>
=============================================================================
