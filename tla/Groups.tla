------------------------------- MODULE Groups --------------------------------
(***************************************************************************)
(* Assignment groups: addMember and removeMember of                        *)
(* server/src/services/groupMembershipService.js, which the routes of      *)
(* server/routes/agents.js call.  Each runs in one transaction, but at     *)
(* READ COMMITTED: its reads see what others have committed meanwhile, and *)
(* only its writes are atomic.                                             *)
(***************************************************************************)
EXTENDS Directory

CONSTANTS
  MaxGroups,   \* MAX_GROUPS_PER_AGENT
  MaxRows      \* bound: TeamMembership ids in a behaviour

(* What the unique indexes of the table see to. *)
Sound(rows) ==
  /\ \A r, q \in rows : r.id = q.id => r = q
  /\ \A r, q \in rows : r.team = q.team /\ r.lead /\ q.lead => r = q

ASSUME GroupsAssumption ==
  /\ MaxGroups \in Nat
  /\ MaxRows \in Nat
  /\ \A s \in Starts : /\ IsFiniteSet(s.rows) /\ Sound(s.rows)
                       /\ \A r \in s.rows : r.id <= Cardinality(s.rows)

VARIABLES
  nextRow,   \* the id the next TeamMembership row gets
  tx         \* per worker: the transaction in flight and what it has read

groupVars == <<primary, member, nextRow, tx>>

NoTx == [step |-> "idle", agent |-> Null, team |-> Null, lead |-> FALSE,
         fill |-> FALSE, seen |-> {}, row |-> 0, next |-> Null]
Txs  == [step : {"idle", "demote", "insert", "delete", "commit"},
         agent : Owners, team : Groups, lead : BOOLEAN, fill : BOOLEAN,
         seen : SUBSET Nat, row : Nat, next : Groups]

GroupsTypeOK == nextRow \in Nat \ {0} /\ tx \in [Workers -> Txs]

GroupsInit == /\ nextRow = Cardinality(member) + 1
              /\ tx = [w \in Workers |-> NoTx]

-----------------------------------------------------------------------------
Beginning(w) == "groups" \in mix /\ w \in crew /\ tx[w].step = "idle"

Rollback(w) == tx' = [tx EXCEPT ![w] = NoTx]

RowsOf(a) == {r \in member : r.agent = a}
Leads(g)  == {r \in member : r.team = g /\ r.lead}

(* The groups that count towards the limit: the rows, and the primary group *)
(* when it has none. *)
GroupCount(a) == Cardinality(RowsOf(a))
                 + (IF primary[a] = Null \/ HasRow(a, primary[a]) THEN 0 ELSE 1)

(* addMember: the duplicate and limit checks.  They are separate SELECTs,   *)
(* taken as one: what they let through is written later in any case. *)
StartAdd(w, a, g, isLead) ==
  /\ Beginning(w)
  /\ primary[a] # g
  /\ ~HasRow(a, g)
  /\ GroupCount(a) < MaxGroups
  /\ tx' = [tx EXCEPT ![w] =
              [NoTx EXCEPT !.step = IF isLead THEN "demote" ELSE "insert",
                           !.agent = a, !.team = g, !.lead = isLead,
                           !.fill = primary[a] = Null]]
  /\ UNCHANGED <<primary, member, nextRow>>

(* member with the rows in `seen' demoted. *)
Demoted(seen) == {IF r.id \in seen THEN [r EXCEPT !.lead = FALSE] ELSE r : r \in member}

(* Mutant: the demotion commits on its own, before the insert. *)
DemoteAtOnce(w) ==
  /\ tx[w].step = "demote"
  /\ member' = Demoted({r.id : r \in Leads(tx[w].team)})
  /\ tx' = [tx EXCEPT ![w].step = "insert"]
  /\ UNCHANGED <<primary, nextRow>>

(* updateMany({teamId, isLead: true}) finds the leads of the moment; nobody *)
(* else sees the demotion until the transaction commits.  (A second update  *)
(* of the same row waits for the first to commit, and then skips the row:   *)
(* as if it had found the row and committed second.) *)
Demote(w) ==
  /\ tx[w].step = "demote"
  /\ tx' = [tx EXCEPT ![w].seen = {r.id : r \in Leads(tx[w].team)},
                      ![w].step = "insert"]
  /\ UNCHANGED <<primary, member, nextRow>>

NewRow(w) == [id |-> nextRow, agent |-> tx[w].agent, team |-> tx[w].team,
              lead |-> tx[w].lead]

(* What the transaction leaves when nothing refuses it. *)
Commit(w) ==
  /\ member' = Demoted(tx[w].seen) \cup {NewRow(w)}
  /\ primary' = IF tx[w].fill THEN [primary EXCEPT ![tx[w].agent] = tx[w].team]
                ELSE primary

(* The insert and the end of the transaction.  The unique indexes, on       *)
(* (agentId, teamId) and on the lead of a team, refuse a row that another   *)
(* transaction has overtaken; then everything is rolled back but the id. *)
InsertMember(w) ==
  /\ tx[w].step = "insert"
  /\ nextRow <= MaxRows
  /\ nextRow' = nextRow + 1
  /\ LET clash == \/ HasRow(tx[w].agent, tx[w].team)
                  \/ tx[w].lead /\ \E r \in Leads(tx[w].team) : r.id \notin tx[w].seen
     IN \/ clash /\ UNCHANGED <<member, primary>>
        \/ ~clash /\ Commit(w)
  /\ Rollback(w)

(* removeMember: a lead is not removed. *)
StartRemove(w, a, g) ==
  /\ Beginning(w)
  /\ \E r \in member :
       /\ r.agent = a /\ r.team = g /\ ~r.lead
       /\ tx' = [tx EXCEPT ![w] = [NoTx EXCEPT !.step = "delete", !.agent = a,
                                               !.team = g, !.row = r.id]]
  /\ UNCHANGED <<primary, member, nextRow>>

(* The group of the oldest row that is left to a without row i. *)
NextPrimary(a, i) ==
  LET left == {r \in RowsOf(a) : r.id # i}
  IN IF left = {} THEN {Null}
     ELSE {r.team : r \in {x \in left : \A q \in left : x.id <= q.id}}

(* The DELETE locks the row, or waits for whoever has; the row may be gone  *)
(* by then.  What becomes of the primary group is read next. *)
DeleteRow(w) ==
  /\ tx[w].step = "delete"
  /\ \A v \in Workers : ~(tx[v].step = "commit" /\ tx[v].row = tx[w].row)
  /\ \/ /\ \A r \in member : r.id # tx[w].row
        /\ Rollback(w)
     \/ /\ \E r \in member : r.id = tx[w].row
        /\ \E g \in NextPrimary(tx[w].agent, tx[w].row) :
             tx' = [tx EXCEPT ![w].step = "commit", ![w].next = g,
                              ![w].fill = primary[tx[w].agent] = tx[w].team]
  /\ UNCHANGED <<primary, member, nextRow>>

CommitRemoval(w) ==
  /\ tx[w].step = "commit"
  /\ member' = {r \in member : r.id # tx[w].row}
  /\ primary' = IF tx[w].fill THEN [primary EXCEPT ![tx[w].agent] = tx[w].next]
                ELSE primary
  /\ Rollback(w)
  /\ UNCHANGED nextRow

GroupsStep(w) ==
  \/ \E a \in Agents, g \in Teams :
       \/ \E isLead \in BOOLEAN : StartAdd(w, a, g, isLead)
       \/ StartRemove(w, a, g)
  \/ Demote(w) \/ InsertMember(w) \/ DeleteRow(w) \/ CommitRemoval(w)

GroupsNext == \E w \in Workers : GroupsStep(w)

-----------------------------------------------------------------------------
(* A group has at most one lead, whatever promotions overlap                *)
(* (groupMembershipService.js:13 and the index it names). *)
SingleLead == \A g \in Teams : Cardinality(Leads(g)) <= 1

(* A group that has a lead keeps having one: a promotion that is refused    *)
(* half-way leaves the lead it meant to replace, and a lead is not removed  *)
(* (groupMembershipService.js:219). *)
LedStaysLed == [][\A g \in Teams : Leads(g) # {} => Leads(g)' # {}]_member
=============================================================================
