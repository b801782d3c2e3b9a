-------------------------------- MODULE Desk ---------------------------------
(***************************************************************************)
(* Group membership, workload and remote access over the rows they share.  *)
(* A worker runs one handler of one service at a time; with a crew of one, *)
(* handlers run one after the other.                                       *)
(***************************************************************************)
EXTENDS RemoteAccess, Groups, Workload

vars == <<fixedVars, accountVars, ticketVars, groupVars, remoteVars, work>>

Init == DirectoryInit /\ RemoteInit /\ GroupsInit /\ WorkloadInit

Free(w) == call[w].step = "idle" /\ tx[w].step = "idle" /\ work[w].step = "idle"

(* A handler that takes one step is alone with a crew of one. *)
Alone == Cardinality(crew) = 1 => \A w \in crew : Free(w)

Remote(w) ==
  /\ tx[w].step = "idle" /\ work[w].step = "idle"
  /\ RemoteStep(w)
  /\ UNCHANGED <<fixedVars, accountVars, ticketVars, groupVars, work>>

Grouping(w) ==
  /\ call[w].step = "idle" /\ work[w].step = "idle"
  /\ GroupsStep(w)
  /\ UNCHANGED <<fixedVars, accountVars, ticketVars, remoteVars, work>>

Working(w) ==
  /\ call[w].step = "idle" /\ tx[w].step = "idle"
  /\ WorkloadStep(w)
  /\ UNCHANGED <<fixedVars, member, nextRow, tx, remoteVars>>

Outside ==
  \/ /\ Alone /\ Surroundings
     /\ UNCHANGED <<fixedVars, member, nextRow, tx, remoteVars>>
  \/ /\ \E i \in Ids : Lapse(i)
     /\ UNCHANGED <<fixedVars, accountVars, ticketVars, groupVars, work>>

Next == Outside \/ \E w \in Workers : Remote(w) \/ Grouping(w) \/ Working(w)

Spec == Init /\ [][Next]_vars

(* setInterval keeps starting cycles; the event loop goes on with every     *)
(* handler in flight.  Nothing makes anybody call a route. *)
Fairness == /\ WF_vars(\E w \in Workers : Working(w) /\ StartCycle(w))
            /\ \A w \in Workers : WF_vars(Working(w) /\ Continue(w))

FairSpec == Spec /\ Fairness

(* Every variable has its type. *)
TypeOK == DirectoryTypeOK /\ RemoteTypeOK /\ GroupsTypeOK /\ WorkloadTypeOK
=============================================================================
