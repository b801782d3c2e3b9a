----------------------------- MODULE DeskProofs ------------------------------
(* Theorems about Desk, for any agents, groups, tickets and handlers, any    *)
(* mix of operations and any number of sessions.                             *)
EXTENDS Desk, FiniteSetTheorems, SequenceTheorems, TLAPS

-----------------------------------------------------------------------------
(* Which module's step a step of Desk is                                     *)

LEMMA RemoteFrame ==
  [Next]_vars => RemoteNext \/ UNCHANGED remoteVars
BY DEF Next, Outside, Surroundings, SetPresence, Enable, Progress, Remote, Grouping,
       Working, RemoteNext, vars

LEMMA GroupsFrame ==
  [Next]_vars => GroupsNext \/ UNCHANGED <<member, nextRow, tx>>
BY DEF Next, Outside, Remote, Grouping, Working, GroupsNext, vars, groupVars

-----------------------------------------------------------------------------
(* Remote sessions: types                                                    *)

LEMMA NewCall ==
  ASSUME call \in [Workers -> Calls], NEW w \in Workers, NEW c \in Calls
  PROVE  [call EXCEPT ![w] = c] \in [Workers -> Calls]
OBVIOUS

LEMMA HangupType == Hangup \in Calls
BY DEF Hangup, Calls, Owners

LEMMA NoSessionType == NoSession \in Sessions
BY DEF NoSession, Sessions, Owners

(* What a compare-and-set on a session's status leaves. *)
LEMMA SwapEffect ==
  ASSUME session \in [Ids -> Sessions], NEW i \in Ids, NEW from, NEW to \in Statuses,
         Swap(i, from, to)
  PROVE  /\ session' \in [Ids -> Sessions]
         /\ \A j \in Ids : session'[j] # session[j] =>
              /\ j = i /\ session[j].status \in from
              /\ session'[j].status = to
              /\ session'[j].trail = Append(session[j].trail, to)
              /\ session'[j].ticket = session[j].ticket
              /\ session'[j].agent = session[j].agent
<1> DEFINE new == [session[i] EXCEPT !.status = to, !.trail = Append(@, to)]
<1>1. session[i] \in Sessions /\ session[i].trail \in Seq(Statuses)
  BY DEF Sessions
<1>2. Append(session[i].trail, to) \in Seq(Statuses)
  BY <1>1
<1>3. /\ new \in Sessions
      /\ new.status = to /\ new.trail = Append(session[i].trail, to)
      /\ new.ticket = session[i].ticket /\ new.agent = session[i].agent
  BY <1>1, <1>2 DEF Sessions
<1>4. CASE session[i].status \in from
  <2>1. session' = [session EXCEPT ![i] = new]
    BY <1>4 DEF Swap
  <2> QED
    BY <1>3, <1>4, <2>1
<1>5. CASE session[i].status \notin from
  BY <1>5 DEF Swap
<1> QED
  BY <1>4, <1>5

(* What a step of the service may do to a session: make a row, move one      *)
(* along TRANSITIONS, or let its time run out. *)
Made(i, w) ==
  /\ call[w].step = "insert"
  /\ ~LiveOn(call[w].ticket) /\ ~LiveBy(call[w].agent)
  /\ session[i].status = "none"
  /\ session' = [session EXCEPT ![i] = NewSession(w)]

Moved(i) ==
  \/ Swap(i, {"requested"}, "active")
  \/ Swap(i, {"active"}, "ended")
  \/ Swap(i, Live, "cancelled")
  \/ Swap(i, {"requested"}, "expired")

SessionChange ==
  \/ UNCHANGED session
  \/ \E i \in Ids : \/ \E w \in Workers : Made(i, w)
                    \/ Moved(i)
                    \/ session' = [session EXCEPT ![i].lapsed = TRUE]

LEMMA RemoteChange ==
  ASSUME RemoteTypeOK, RemoteNext
  PROVE  SessionChange /\ call' \in [Workers -> Calls]
<1> USE DEF RemoteTypeOK
<1>1. ASSUME NEW i \in Ids, Lapse(i)
      PROVE  SessionChange /\ call' \in [Workers -> Calls]
  BY <1>1 DEF Lapse, SessionChange
<1>2. ASSUME NEW w \in Workers, RemoteStep(w)
      PROVE  SessionChange /\ call' \in [Workers -> Calls]
  <2>0. call[w] \in Calls /\ call[w].todo \in SUBSET Ids
    BY DEF Calls
  <2>1. Answer(w) => call' \in [Workers -> Calls]
    BY NewCall, HangupType DEF Answer
  <2>2. ASSUME NEW p \in Agents, NEW t \in Tickets, NEW a \in Agents, Request(w, p, t, a)
        PROVE  SessionChange /\ call' \in [Workers -> Calls]
    <3>1. [Hangup EXCEPT !.step = "insert", !.by = p, !.ticket = t, !.agent = a] \in Calls
      BY DEF Hangup, Calls, Owners
    <3> QED
      BY <2>2, <3>1, NewCall DEF Request, SessionChange
  <2>3. ASSUME NEW p \in Agents, NEW i \in Ids,
               LoadStart(w, p, i) \/ LoadEnd(w, p, i) \/ LoadCancel(w, p, i)
        PROVE  SessionChange /\ call' \in [Workers -> Calls]
    <3>1. \A s \in {"expire", "start", "end", "cancel"} :
            [Hangup EXCEPT !.step = s, !.todo = {i}] \in Calls
      BY DEF Hangup, Calls, Owners
    <3>2. \A s \in {"expire", "start", "end", "cancel"} :
            [call EXCEPT ![w] = [Hangup EXCEPT !.step = s, !.todo = {i}]] \in [Workers -> Calls]
      BY <3>1
    <3> QED
      BY <2>3, <3>2 DEF LoadStart, LoadEnd, LoadCancel, SessionChange
  <2>4. ASSUME NEW p \in Agents, NEW t \in Tickets, ListForTicket(w, p, t)
        PROVE  SessionChange /\ call' \in [Workers -> Calls]
    <3> DEFINE stale == {i \in Ids : /\ session[i].ticket = t
                                     /\ session[i].status = "requested"
                                     /\ session[i].lapsed}
    <3>1. [Hangup EXCEPT !.step = "expire", !.todo = stale] \in Calls
      BY DEF Hangup, Calls, Owners
    <3>2. call' = [call EXCEPT ![w] = [Hangup EXCEPT !.step = "expire", !.todo = stale]]
      BY <2>4 DEF ListForTicket
    <3> QED
      BY <2>4, <3>1, <3>2, NewCall DEF ListForTicket, SessionChange
  <2>5. CASE InsertSession(w)
    BY <2>1, <2>5 DEF InsertSession, SessionChange, Made
  <2>6. CASE StartSession(w)
    BY <2>0, <2>1, <2>6 DEF StartSession, SessionChange, Moved
  <2>7. CASE EndSession(w)
    BY <2>0, <2>1, <2>7 DEF EndSession, SessionChange, Moved
  <2>8. CASE CancelSession(w)
    BY <2>0, <2>1, <2>8 DEF CancelSession, SessionChange, Moved
  <2>9. CASE ExpireSession(w)
    <3>1. PICK i \in call[w].todo :
            /\ Swap(i, {"requested"}, "expired")
            /\ call' = [call EXCEPT ![w] = IF call[w].todo = {i} THEN Hangup
                                           ELSE [call[w] EXCEPT !.todo = @ \ {i}]]
      BY <2>9 DEF ExpireSession
    <3>2. [call[w] EXCEPT !.todo = @ \ {i}] \in Calls
      BY <2>0 DEF Calls
    <3>3. (IF call[w].todo = {i} THEN Hangup ELSE [call[w] EXCEPT !.todo = @ \ {i}]) \in Calls
      BY <3>2, HangupType
    <3>4. call' \in [Workers -> Calls]
      BY <3>1, <3>3, NewCall
    <3> QED
      BY <2>0, <3>1, <3>4 DEF SessionChange, Moved
  <2> QED
    BY <1>2, <2>2, <2>3, <2>4, <2>5, <2>6, <2>7, <2>8, <2>9 DEF RemoteStep
<1> QED
  BY <1>1, <1>2 DEF RemoteNext

LEMMA NewSessionType ==
  ASSUME RemoteTypeOK, NEW w \in Workers
  PROVE  /\ NewSession(w) \in Sessions
         /\ NewSession(w).status = "requested" /\ NewSession(w).trail = <<"requested">>
         /\ NewSession(w).ticket = call[w].ticket /\ NewSession(w).agent = call[w].agent
<1>1. <<"requested">> \in Seq(Statuses)
  BY DEF Statuses, Live, Terminal
<1>2. /\ call[w].ticket \in Tickets \cup {Null}
      /\ call[w].agent \in Owners /\ call[w].by \in Owners
  BY DEF RemoteTypeOK, Calls
<1> QED
  BY <1>1, <1>2 DEF NewSession, Sessions, Statuses, Live, Terminal

LEMMA RemoteTypeKept ==
  ASSUME RemoteTypeOK, RemoteNext \/ UNCHANGED remoteVars
  PROVE  RemoteTypeOK'
<1>1. CASE UNCHANGED remoteVars
  BY <1>1 DEF RemoteTypeOK, remoteVars
<1>2. CASE RemoteNext
  <2>1. SessionChange /\ call' \in [Workers -> Calls]
    BY <1>2, RemoteChange
  <2>2. ASSUME NEW i \in Ids, NEW w \in Workers, Made(i, w)
        PROVE  session' \in [Ids -> Sessions]
    BY <2>2, NewSessionType DEF Made, RemoteTypeOK
  <2>3. ASSUME NEW i \in Ids, Moved(i)
        PROVE  session' \in [Ids -> Sessions]
    <3>1. {"active", "ended", "cancelled", "expired"} \subseteq Statuses
      BY DEF Statuses, Live, Terminal
    <3> QED
      BY <2>3, <3>1, SwapEffect DEF Moved, RemoteTypeOK
  <2>4. ASSUME NEW i \in Ids, session' = [session EXCEPT ![i].lapsed = TRUE]
        PROVE  session' \in [Ids -> Sessions]
    <3>1. [session[i] EXCEPT !.lapsed = TRUE] \in Sessions
      BY DEF RemoteTypeOK, Sessions
    <3> QED
      BY <2>4, <3>1 DEF RemoteTypeOK
  <2> QED
    BY <2>1, <2>2, <2>3, <2>4 DEF SessionChange, RemoteTypeOK
<1> QED
  BY <1>1, <1>2

-----------------------------------------------------------------------------
(* Remote sessions: the invariants.  A session becomes live only by the      *)
(* insert, which the indexes guard, and a compare-and-set moves a session    *)
(* only from the status whose path it extends.                               *)

RemoteInv == RemoteTypeOK /\ OneLiveSession /\ TrailTells

LEMMA AppendOne ==
  ASSUME NEW a \in Statuses, NEW b \in Statuses
  PROVE  Append(<<a>>, b) = <<a, b>>
<1>1. <<a>> \in Seq(Statuses) /\ <<a, b>> \in Seq(Statuses)
  OBVIOUS
<1>2. Append(<<a>>, b) \in Seq(Statuses) /\ Len(Append(<<a>>, b)) = Len(<<a, b>>)
  BY <1>1
<1>3. \A i \in 1 .. Len(Append(<<a>>, b)) : Append(<<a>>, b)[i] = <<a, b>>[i]
  BY <1>1
<1> QED
  BY <1>1, <1>2, <1>3, SeqEqual

LEMMA AppendTwo ==
  ASSUME NEW a \in Statuses, NEW b \in Statuses, NEW c \in Statuses
  PROVE  Append(<<a, b>>, c) = <<a, b, c>>
<1>1. <<a, b>> \in Seq(Statuses) /\ <<a, b, c>> \in Seq(Statuses)
  OBVIOUS
<1>2. Append(<<a, b>>, c) \in Seq(Statuses) /\ Len(Append(<<a, b>>, c)) = Len(<<a, b, c>>)
  BY <1>1
<1>3. \A i \in 1 .. Len(Append(<<a, b>>, c)) : Append(<<a, b>>, c)[i] = <<a, b, c>>[i]
  BY <1>1
<1> QED
  BY <1>1, <1>2, <1>3, SeqEqual

(* A session that is moved stays with its ticket and agent, is not live      *)
(* unless it was, and its trail is still a path to its status. *)
LEMMA MovedEffect ==
  ASSUME RemoteTypeOK, NEW i \in Ids, Moved(i), NEW j \in Ids
  PROVE  /\ session'[j].ticket = session[j].ticket
         /\ session'[j].agent = session[j].agent
         /\ session'[j].status \in Live => session[j].status \in Live
         /\ session[j].trail \in Paths(session[j].status) =>
              session'[j].trail \in Paths(session'[j].status)
<1>1. {"requested", "active", "ended", "cancelled", "expired"} \subseteq Statuses
  BY DEF Statuses, Live, Terminal
<1>2. /\ Append(<<"requested">>, "active") = <<"requested", "active">>
      /\ Append(<<"requested">>, "expired") = <<"requested", "expired">>
      /\ Append(<<"requested">>, "cancelled") = <<"requested", "cancelled">>
      /\ Append(<<"requested", "active">>, "ended") = <<"requested", "active", "ended">>
      /\ Append(<<"requested", "active">>, "cancelled")
           = <<"requested", "active", "cancelled">>
  BY <1>1, AppendOne, AppendTwo
<1>3. ASSUME NEW from, NEW to \in Statuses, Swap(i, from, to),
             to \in Live => from \subseteq Live,
             \A s \in from : \A p \in Paths(s) : Append(p, to) \in Paths(to)
      PROVE  /\ session'[j].ticket = session[j].ticket
             /\ session'[j].agent = session[j].agent
             /\ session'[j].status \in Live => session[j].status \in Live
             /\ session[j].trail \in Paths(session[j].status) =>
                  session'[j].trail \in Paths(session'[j].status)
  <2>1. CASE session'[j] = session[j]
    BY <2>1
  <2>2. CASE session'[j] # session[j]
    <3>1. /\ session[j].status \in from
          /\ session'[j].status = to
          /\ session'[j].trail = Append(session[j].trail, to)
          /\ session'[j].ticket = session[j].ticket
          /\ session'[j].agent = session[j].agent
      BY <1>3, <2>2, SwapEffect DEF RemoteTypeOK
    <3>2. session[j].trail \in Paths(session[j].status) => session'[j].trail \in Paths(to)
      BY <1>3, <3>1
    <3> QED
      BY <1>3, <3>1, <3>2
  <2> QED
    BY <2>1, <2>2
<1>4. CASE Swap(i, {"requested"}, "active")
  <2>1. \A s \in {"requested"} : \A p \in Paths(s) : Append(p, "active") \in Paths("active")
    BY <1>2 DEF Paths
  <2> QED
    BY <1>1, <1>3, <1>4, <2>1 DEF Live
<1>5. CASE Swap(i, {"active"}, "ended")
  <2>1. \A s \in {"active"} : \A p \in Paths(s) : Append(p, "ended") \in Paths("ended")
    BY <1>2 DEF Paths
  <2> QED
    BY <1>1, <1>3, <1>5, <2>1 DEF Live
<1>6. CASE Swap(i, Live, "cancelled")
  <2>1. \A s \in Live : \A p \in Paths(s) : Append(p, "cancelled") \in Paths("cancelled")
    BY <1>2 DEF Paths, Live
  <2> QED
    BY <1>1, <1>3, <1>6, <2>1 DEF Live
<1>7. CASE Swap(i, {"requested"}, "expired")
  <2>1. \A s \in {"requested"} : \A p \in Paths(s) : Append(p, "expired") \in Paths("expired")
    BY <1>2 DEF Paths
  <2> QED
    BY <1>1, <1>3, <1>7, <2>1 DEF Live
<1> QED
  BY <1>4, <1>5, <1>6, <1>7 DEF Moved

LEMMA RemoteKept ==
  ASSUME RemoteInv, RemoteNext \/ UNCHANGED remoteVars
  PROVE  RemoteInv'
<1> USE DEF RemoteInv
<1>1. RemoteTypeOK'
  BY RemoteTypeKept
<1>2. SessionChange
  BY RemoteChange DEF SessionChange, remoteVars
<1>3. CASE UNCHANGED session
  BY <1>1, <1>3 DEF OneLiveSession, TrailTells
<1>4. ASSUME NEW i \in Ids, session' = [session EXCEPT ![i].lapsed = TRUE]
      PROVE  RemoteInv'
  <2>1. \A j \in Ids : /\ session'[j].ticket = session[j].ticket
                       /\ session'[j].agent = session[j].agent
                       /\ session'[j].status = session[j].status
                       /\ session'[j].trail = session[j].trail
    BY <1>4 DEF RemoteTypeOK, Sessions
  <2> QED
    BY <1>1, <2>1 DEF OneLiveSession, TrailTells
<1>5. ASSUME NEW i \in Ids, Moved(i)
      PROVE  RemoteInv'
  <2>1. TrailTells'
    BY <1>5, MovedEffect DEF TrailTells
  <2>2. OneLiveSession'
    BY <1>5, MovedEffect DEF OneLiveSession
  <2> QED
    BY <1>1, <2>1, <2>2
<1>6. ASSUME NEW i \in Ids, NEW w \in Workers, Made(i, w)
      PROVE  RemoteInv'
  <2>1. \A j \in Ids : j # i => session'[j] = session[j]
    BY <1>6 DEF Made, RemoteTypeOK
  <2>2. /\ session'[i].status = "requested" /\ session'[i].trail = <<"requested">>
        /\ session'[i].ticket = call[w].ticket /\ session'[i].agent = call[w].agent
    BY <1>6, NewSessionType DEF Made, RemoteTypeOK
  <2>3. TrailTells'
    BY <2>1, <2>2 DEF TrailTells, Paths
  <2>4. \A j \in Ids \ {i} : session[j].status \in Live =>
          session[j].ticket # call[w].ticket /\ session[j].agent # call[w].agent
    BY <1>6 DEF Made, LiveOn, LiveBy
  <2>5. OneLiveSession'
    BY <2>1, <2>2, <2>4 DEF OneLiveSession
  <2> QED
    BY <1>1, <2>3, <2>5
<1> QED
  BY <1>2, <1>3, <1>4, <1>5, <1>6 DEF SessionChange

LEMMA RemoteStarted == Init => RemoteInv
<1> SUFFICES ASSUME Init PROVE RemoteInv
  OBVIOUS
<1>1. RemoteTypeOK
  BY NoSessionType, HangupType DEF Init, RemoteInit, RemoteTypeOK
<1>2. \A i \in Ids : session[i].status = "none" /\ session[i].trail = <<>>
  BY DEF Init, RemoteInit, NoSession
<1>3. OneLiveSession /\ TrailTells
  BY <1>2 DEF OneLiveSession, TrailTells, Paths, Live
<1> QED
  BY <1>1, <1>3 DEF RemoteInv

THEOREM RemoteInvHolds == Spec => []RemoteInv
<1>1. RemoteInv /\ [Next]_vars => RemoteInv'
  BY RemoteFrame, RemoteKept
<1> QED
  BY <1>1, RemoteStarted, PTL DEF Spec

(* However their handlers interleave, a ticket and an agent have at most one *)
(* live session each. *)
THEOREM OneLiveSessionHolds == Spec => []OneLiveSession
<1>1. RemoteInv => OneLiveSession
  BY DEF RemoteInv
<1> QED
  BY <1>1, RemoteInvHolds, PTL

(* However their handlers interleave, every session's audit trail is one     *)
(* legal way to its present status. *)
THEOREM TrailTellsHolds == Spec => []TrailTells
<1>1. RemoteInv => TrailTells
  BY DEF RemoteInv
<1> QED
  BY <1>1, RemoteInvHolds, PTL

-----------------------------------------------------------------------------
(* Groups.  A transaction writes from what it has read, so the invariant     *)
(* says what stays true of it: the leads it found are of its own team and    *)
(* are demoted only by an insert of a new lead, and the row it removes,      *)
(* which was no lead, cannot have become one, since rows are only demoted.   *)

TxOK(w) ==
  /\ tx[w].step # "idle" => tx[w].agent \in Agents /\ tx[w].team \in Teams
  /\ tx[w].step = "demote" => tx[w].lead
  /\ tx[w].seen # {} => tx[w].step = "insert" /\ tx[w].lead
  /\ \A i \in tx[w].seen : i < nextRow
  /\ \A r \in member : r.id \in tx[w].seen => r.team = tx[w].team
  /\ tx[w].step \in {"delete", "commit"} =>
       /\ tx[w].row < nextRow
       /\ \A r \in member : r.id = tx[w].row => ~r.lead

GroupsInv ==
  /\ member \subseteq Rows
  /\ GroupsTypeOK
  /\ \A r \in member : r.id < nextRow
  /\ Sound(member)
  /\ \A w \in Workers : TxOK(w)

LEMMA NoTxType == NoTx \in Txs
BY DEF NoTx, Txs, Owners, Groups

LEMMA NewTx ==
  ASSUME tx \in [Workers -> Txs], NEW w \in Workers, NEW c \in Txs,
         tx' = [tx EXCEPT ![w] = c]
  PROVE  /\ tx' \in [Workers -> Txs]
         /\ tx'[w] = c
         /\ \A v \in Workers \ {w} : tx'[v] = tx[v]
OBVIOUS

(* A step that writes no row: only the worker's own transaction is to be     *)
(* looked at. *)
LEMMA QuietTx ==
  ASSUME GroupsInv, NEW w \in Workers, NEW c \in Txs,
         tx' = [tx EXCEPT ![w] = c], member' = member,
         nextRow' \in Nat, nextRow <= nextRow',
         c.step # "idle" => c.agent \in Agents /\ c.team \in Teams,
         c.step = "demote" => c.lead,
         c.seen # {} => c.step = "insert" /\ c.lead,
         \A i \in c.seen : i < nextRow,
         \A r \in member : r.id \in c.seen => r.team = c.team,
         c.step \in {"delete", "commit"} =>
           /\ c.row < nextRow
           /\ \A r \in member : r.id = c.row => ~r.lead
  PROVE  GroupsInv'
<1>1. /\ tx' \in [Workers -> Txs]
      /\ tx'[w] = c
      /\ \A v \in Workers \ {w} : tx'[v] = tx[v]
  BY NewTx DEF GroupsInv, GroupsTypeOK
<1>2. member' \subseteq Rows /\ GroupsTypeOK' /\ Sound(member)'
  BY <1>1 DEF GroupsInv, GroupsTypeOK, Sound
<1>3. \A r \in member' : r.id < nextRow'
  BY DEF GroupsInv, GroupsTypeOK, Rows
<1>4. TxOK(w)'
  <2>1. \A i \in c.seen : i < nextRow'
    BY DEF GroupsInv, GroupsTypeOK, Txs
  <2>2. c.step \in {"delete", "commit"} => c.row < nextRow'
    BY DEF GroupsInv, GroupsTypeOK, Txs
  <2> QED
    BY <1>1, <2>1, <2>2 DEF TxOK
<1>5. ASSUME NEW v \in Workers \ {w}
      PROVE  TxOK(v)'
  <2>1. TxOK(v) /\ tx'[v] = tx[v] /\ tx[v] \in Txs
    BY <1>1 DEF GroupsInv, GroupsTypeOK
  <2>2. \A i \in tx[v].seen : i < nextRow'
    BY <2>1 DEF GroupsInv, GroupsTypeOK, Txs, TxOK
  <2>3. tx[v].step \in {"delete", "commit"} => tx[v].row < nextRow'
    BY <2>1 DEF GroupsInv, GroupsTypeOK, Txs, TxOK
  <2> QED
    BY <2>1, <2>2, <2>3 DEF TxOK
<1> QED
  BY <1>2, <1>3, <1>4, <1>5 DEF GroupsInv

LEMMA RollbackKept ==
  ASSUME GroupsInv, NEW w \in Workers, Rollback(w), UNCHANGED member,
         nextRow' \in Nat, nextRow <= nextRow'
  PROVE  GroupsInv'
<1>1. NoTx.step = "idle" /\ NoTx.seen = {}
  BY DEF NoTx
<1> QED
  BY <1>1, NoTxType, QuietTx DEF Rollback

LEMMA StartAddKept ==
  ASSUME GroupsInv, NEW w \in Workers, NEW a \in Agents, NEW g \in Teams,
         NEW isLead \in BOOLEAN, StartAdd(w, a, g, isLead)
  PROVE  GroupsInv'
<1> DEFINE c == [NoTx EXCEPT !.step = IF isLead THEN "demote" ELSE "insert",
                             !.agent = a, !.team = g, !.lead = isLead,
                             !.fill = primary[a] = Null]
<1>1. /\ c \in Txs /\ c.seen = {} /\ c.agent = a /\ c.team = g
      /\ c.step \in {"demote", "insert"} /\ (c.step = "demote" => c.lead)
  BY DEF NoTx, Txs, Owners, Groups
<1>2. tx' = [tx EXCEPT ![w] = c] /\ UNCHANGED <<member, nextRow>>
  BY DEF StartAdd
<1>3. nextRow' \in Nat /\ nextRow <= nextRow'
  BY <1>2 DEF GroupsInv, GroupsTypeOK
<1> HIDE DEF c
<1> QED
  BY <1>1, <1>2, <1>3, QuietTx

LEMMA DemoteKept ==
  ASSUME GroupsInv, NEW w \in Workers, Demote(w)
  PROVE  GroupsInv'
<1> DEFINE ids == {r.id : r \in Leads(tx[w].team)}
           c   == [tx[w] EXCEPT !.seen = ids, !.step = "insert"]
<1> USE DEF GroupsInv, GroupsTypeOK
<1>1. tx[w] \in Txs /\ TxOK(w) /\ tx[w].step = "demote"
  BY DEF Demote
<1>2. ids \in SUBSET Nat /\ \A i \in ids : i < nextRow
  BY DEF Leads, Rows
<1>3. \A r \in member : r.id \in ids => r.team = tx[w].team
  BY DEF Leads, Sound
<1>4. /\ c \in Txs /\ c.seen = ids /\ c.step = "insert"
      /\ c.agent = tx[w].agent /\ c.team = tx[w].team /\ c.lead = tx[w].lead
  BY <1>1, <1>2 DEF Txs
<1>5. tx' = [tx EXCEPT ![w] = c] /\ UNCHANGED <<member, nextRow>>
  BY <1>1 DEF Demote, Txs
<1>6. nextRow' \in Nat /\ nextRow <= nextRow'
  BY <1>5
<1>7. c.agent \in Agents /\ c.team \in Teams /\ c.lead
  BY <1>1, <1>4 DEF TxOK
<1> HIDE DEF c, ids
<1> QED
  BY <1>2, <1>3, <1>4, <1>5, <1>6, <1>7, QuietTx

(* What the end of addMember leaves of a row that was there. *)
LEMMA DemotedRow ==
  ASSUME GroupsInv, NEW seen, NEW r \in Demoted(seen)
  PROVE  \E q \in member :
           /\ r = IF q.id \in seen THEN [q EXCEPT !.lead = FALSE] ELSE q
           /\ r \in Rows /\ r.id = q.id /\ r.team = q.team
           /\ r.lead => q.lead /\ q.id \notin seen /\ r = q
<1>1. PICK q \in member : r = IF q.id \in seen THEN [q EXCEPT !.lead = FALSE] ELSE q
  BY DEF Demoted
<1>2. q \in Rows
  BY DEF GroupsInv
<1>3. CASE q.id \in seen
  <2>1. r = [q EXCEPT !.lead = FALSE]
    BY <1>1, <1>3
  <2>2. r \in Rows /\ r.id = q.id /\ r.team = q.team /\ r.lead = FALSE
    BY <1>2, <2>1 DEF Rows
  <2> QED
    BY <1>1, <2>2
<1>4. CASE q.id \notin seen
  BY <1>1, <1>2, <1>4
<1> QED
  BY <1>3, <1>4

LEMMA CommitKept ==
  ASSUME GroupsInv, NEW w \in Workers, tx[w].step = "insert",
         ~(tx[w].lead /\ \E r \in Leads(tx[w].team) : r.id \notin tx[w].seen),
         member' = Demoted(tx[w].seen) \cup {NewRow(w)},
         nextRow' = nextRow + 1, Rollback(w)
  PROVE  GroupsInv'
<1> DEFINE seen == tx[w].seen
           new  == NewRow(w)
<1>0. /\ tx[w] \in Txs /\ TxOK(w)
      /\ nextRow \in Nat \ {0} /\ nextRow' \in Nat \ {0}
  BY DEF GroupsInv, GroupsTypeOK
<1>1. /\ new \in Rows /\ new.id = nextRow /\ new.team = tx[w].team
      /\ new.lead = tx[w].lead
  BY <1>0 DEF NewRow, Rows, TxOK, Txs
<1>2. \A r \in Demoted(seen) :
        \E q \in member :
          /\ r = IF q.id \in seen THEN [q EXCEPT !.lead = FALSE] ELSE q
          /\ r \in Rows /\ r.id = q.id /\ r.team = q.team
          /\ r.lead => q.lead /\ q.id \notin seen /\ r = q
  BY DemotedRow
<1> HIDE DEF seen, new
<1>3. member' = Demoted(seen) \cup {new}
  BY DEF seen, new
<1>4. \A r \in Demoted(seen) : r.id < nextRow /\ r.id # new.id
  BY <1>0, <1>1, <1>2 DEF GroupsInv, Rows
<1>5. member' \subseteq Rows
  BY <1>1, <1>2, <1>3
<1>6. \A r \in member' : r.id < nextRow'
  BY <1>0, <1>1, <1>3, <1>4, <1>5 DEF Rows
<1>7. Sound(member)'
  <2>1. ASSUME NEW r \in Demoted(seen), NEW q \in Demoted(seen), r.id = q.id
        PROVE  r = q
    <3>1. PICK x \in member :
            /\ r = IF x.id \in seen THEN [x EXCEPT !.lead = FALSE] ELSE x
            /\ r.id = x.id
      BY <1>2
    <3>2. PICK y \in member :
            /\ q = IF y.id \in seen THEN [y EXCEPT !.lead = FALSE] ELSE y
            /\ q.id = y.id
      BY <1>2
    <3>3. x = y
      BY <2>1, <3>1, <3>2 DEF GroupsInv, Sound
    <3> QED
      BY <3>1, <3>2, <3>3
  <2>2. \A r, q \in member' : r.id = q.id => r = q
    BY <1>3, <1>4, <2>1
  <2>3. ASSUME NEW r \in Demoted(seen), NEW q \in Demoted(seen),
               r.team = q.team, r.lead, q.lead
        PROVE  r = q
    <3>1. r \in member /\ q \in member
      BY <1>2, <2>3
    <3> QED
      BY <2>3, <3>1 DEF GroupsInv, Sound
  <2>4. ASSUME NEW r \in Demoted(seen), r.team = new.team, r.lead, new.lead
        PROVE  FALSE
    <3>1. r \in member /\ r.id \notin seen
      BY <1>2, <2>4
    <3> QED
      BY <1>1, <2>4, <3>1 DEF Leads, seen
  <2>5. \A r, q \in member' : r.team = q.team /\ r.lead /\ q.lead => r = q
    BY <1>3, <2>3, <2>4
  <2> QED
    BY <2>2, <2>5 DEF Sound
<1>8. /\ tx' \in [Workers -> Txs]
      /\ tx'[w] = NoTx
      /\ \A v \in Workers \ {w} : tx'[v] = tx[v]
  BY NoTxType, NewTx DEF Rollback, GroupsInv, GroupsTypeOK
<1>9. TxOK(w)'
  BY <1>8 DEF TxOK, NoTx
<1>10. ASSUME NEW v \in Workers \ {w}
       PROVE  TxOK(v)'
  <2>1. TxOK(v) /\ tx'[v] = tx[v] /\ tx[v] \in Txs
    BY <1>8 DEF GroupsInv, GroupsTypeOK
  <2>2. \A i \in tx[v].seen : i < nextRow' /\ i # new.id
    BY <1>0, <1>1, <2>1 DEF Txs, TxOK
  <2>3. tx[v].step \in {"delete", "commit"} => tx[v].row < nextRow' /\ tx[v].row # new.id
    BY <1>0, <1>1, <2>1 DEF Txs, TxOK
  <2>4. ASSUME NEW r \in Demoted(seen)
        PROVE  /\ r.id \in tx[v].seen => r.team = tx[v].team
               /\ tx[v].step \in {"delete", "commit"} /\ r.id = tx[v].row => ~r.lead
    <3>1. PICK q \in member : r.id = q.id /\ r.team = q.team /\ (r.lead => q.lead)
      BY <1>2
    <3> QED
      BY <2>1, <3>1 DEF TxOK
  <2>5. \A r \in member' :
          /\ r.id \in tx[v].seen => r.team = tx[v].team
          /\ tx[v].step \in {"delete", "commit"} /\ r.id = tx[v].row => ~r.lead
    BY <1>3, <2>2, <2>3, <2>4
  <2> QED
    BY <2>1, <2>2, <2>3, <2>5 DEF TxOK
<1> QED
  BY <1>0, <1>5, <1>6, <1>7, <1>8, <1>9, <1>10 DEF GroupsInv, GroupsTypeOK

LEMMA InsertMemberKept ==
  ASSUME GroupsInv, NEW w \in Workers, InsertMember(w)
  PROVE  GroupsInv'
<1>1. /\ tx[w].step = "insert" /\ nextRow' = nextRow + 1 /\ Rollback(w)
      /\ nextRow' \in Nat /\ nextRow <= nextRow'
  BY DEF InsertMember, GroupsInv, GroupsTypeOK
<1>2. CASE UNCHANGED member
  BY <1>1, <1>2, RollbackKept
<1>3. CASE /\ ~(tx[w].lead /\ \E r \in Leads(tx[w].team) : r.id \notin tx[w].seen)
           /\ Commit(w)
  BY <1>1, <1>3, CommitKept DEF Commit
<1> QED
  BY <1>2, <1>3 DEF InsertMember

LEMMA StartRemoveKept ==
  ASSUME GroupsInv, NEW w \in Workers, NEW a \in Agents, NEW g \in Teams,
         StartRemove(w, a, g)
  PROVE  GroupsInv'
<1>1. PICK r \in member :
        /\ ~r.lead
        /\ tx' = [tx EXCEPT ![w] = [NoTx EXCEPT !.step = "delete", !.agent = a,
                                                !.team = g, !.row = r.id]]
  BY DEF StartRemove
<1> DEFINE c == [NoTx EXCEPT !.step = "delete", !.agent = a, !.team = g, !.row = r.id]
<1>2. r.id \in Nat /\ r.id < nextRow /\ \A q \in member : q.id = r.id => q = r
  BY DEF GroupsInv, Sound, Rows
<1>3. /\ c \in Txs /\ c.seen = {} /\ c.step = "delete"
      /\ c.agent = a /\ c.team = g /\ c.row = r.id
  BY <1>2 DEF NoTx, Txs, Owners, Groups
<1>4. /\ UNCHANGED <<member, nextRow>>
      /\ nextRow' \in Nat /\ nextRow <= nextRow'
  BY DEF StartRemove, GroupsInv, GroupsTypeOK
<1>5. tx' = [tx EXCEPT ![w] = c]
  BY <1>1
<1>6. c.row < nextRow /\ \A q \in member : q.id = c.row => ~q.lead
  BY <1>1, <1>2, <1>3
<1> HIDE DEF c
<1> QED
  BY <1>3, <1>4, <1>5, <1>6, QuietTx

LEMMA DeleteRowKept ==
  ASSUME GroupsInv, NEW w \in Workers, DeleteRow(w)
  PROVE  GroupsInv'
<1>0. tx[w] \in Txs /\ TxOK(w) /\ nextRow \in Nat
  BY DEF GroupsInv, GroupsTypeOK
<1>1. /\ tx[w].step = "delete" /\ UNCHANGED <<member, nextRow>>
      /\ nextRow' \in Nat /\ nextRow <= nextRow'
  <2>1. tx[w].step = "delete"
    BY DEF DeleteRow
  <2>2. member' = member /\ nextRow' = nextRow
    BY DEF DeleteRow
  <2> QED
    BY <1>0, <2>1, <2>2
<1>2. CASE Rollback(w)
  BY <1>1, <1>2, RollbackKept
<1>3. CASE ~Rollback(w)
  <2>1. PICK g \in NextPrimary(tx[w].agent, tx[w].row) :
          tx' = [tx EXCEPT ![w].step = "commit", ![w].next = g,
                           ![w].fill = primary[tx[w].agent] = tx[w].team]
    BY <1>3 DEF DeleteRow
  <2> DEFINE c == [tx[w] EXCEPT !.step = "commit", !.next = g,
                                !.fill = primary[tx[w].agent] = tx[w].team]
  <2>2. g \in Groups
    <3>1. \A r \in member : r.team \in Teams
      BY DEF GroupsInv, Rows
    <3> QED
      BY <2>1, <3>1 DEF NextPrimary, RowsOf, Groups
  <2>3. /\ c \in Txs /\ c.seen = tx[w].seen /\ c.step = "commit" /\ c.row = tx[w].row
        /\ c.agent = tx[w].agent /\ c.team = tx[w].team
    BY <1>0, <2>2 DEF Txs
  <2>4. tx' = [tx EXCEPT ![w] = c]
    BY <2>1 DEF GroupsInv, GroupsTypeOK
  <2>5. /\ c.agent \in Agents /\ c.team \in Teams /\ c.seen = {}
        /\ c.row < nextRow
        /\ \A r \in member : r.id = c.row => ~r.lead
    BY <1>0, <1>1, <2>3 DEF TxOK
  <2> HIDE DEF c
  <2> QED
    BY <1>1, <2>3, <2>4, <2>5, QuietTx
<1> QED
  BY <1>2, <1>3

LEMMA CommitRemovalKept ==
  ASSUME GroupsInv, NEW w \in Workers, CommitRemoval(w)
  PROVE  GroupsInv'
<1>1. /\ member' \subseteq member /\ nextRow' = nextRow
      /\ tx' = [tx EXCEPT ![w] = NoTx]
  BY DEF CommitRemoval, Rollback
<1>2. /\ tx' \in [Workers -> Txs]
      /\ tx'[w] = NoTx
      /\ \A v \in Workers \ {w} : tx'[v] = tx[v]
  BY <1>1, NoTxType, NewTx DEF GroupsInv, GroupsTypeOK
<1>3. TxOK(w)'
  BY <1>2 DEF TxOK, NoTx
<1>4. ASSUME NEW v \in Workers \ {w}
      PROVE  TxOK(v)'
  BY <1>1, <1>2 DEF TxOK, GroupsInv
<1> QED
  BY <1>1, <1>2, <1>3, <1>4 DEF GroupsInv, GroupsTypeOK, Sound

LEMMA GroupsKept ==
  ASSUME GroupsInv, GroupsNext \/ UNCHANGED <<member, nextRow, tx>>
  PROVE  GroupsInv'
<1>1. CASE UNCHANGED <<member, nextRow, tx>>
  BY <1>1 DEF GroupsInv, GroupsTypeOK, Sound, TxOK
<1>2. ASSUME NEW w \in Workers, GroupsStep(w)
      PROVE  GroupsInv'
  BY <1>2, StartAddKept, DemoteKept, InsertMemberKept, StartRemoveKept, DeleteRowKept,
     CommitRemovalKept DEF GroupsStep
<1> QED
  BY <1>1, <1>2 DEF GroupsNext

LEMMA GroupsStarted == Init => GroupsInv
<1> SUFFICES ASSUME Init PROVE GroupsInv
  OBVIOUS
<1>1. PICK s \in Starts : member = s.rows
  BY DEF Init, DirectoryInit
<1>2. /\ member \subseteq Rows /\ IsFiniteSet(member) /\ Sound(member)
      /\ \A r \in member : r.id <= Cardinality(member)
  BY <1>1, DirectoryAssumption, GroupsAssumption
<1>3. Cardinality(member) \in Nat
  BY <1>2, FS_CardinalityType
<1>4. nextRow = Cardinality(member) + 1 /\ tx = [w \in Workers |-> NoTx]
  BY DEF Init, GroupsInit
<1>5. nextRow \in Nat \ {0} /\ \A r \in member : r.id < nextRow
  BY <1>2, <1>3, <1>4 DEF Rows
<1>6. tx \in [Workers -> Txs] /\ \A w \in Workers : TxOK(w)
  BY <1>4, NoTxType DEF TxOK, NoTx
<1> QED
  BY <1>2, <1>5, <1>6 DEF GroupsInv, GroupsTypeOK

THEOREM GroupsInvHolds == Spec => []GroupsInv
<1>1. GroupsInv /\ [Next]_vars => GroupsInv'
  BY GroupsFrame, GroupsKept
<1> QED
  BY <1>1, GroupsStarted, PTL DEF Spec

(* Whatever promotions overlap, a group has at most one lead. *)
THEOREM SingleLeadHolds == Spec => []SingleLead
<1>1. GroupsInv => SingleLead
  <2> SUFFICES ASSUME GroupsInv, NEW g \in Teams
               PROVE  Cardinality(Leads(g)) <= 1
    BY DEF SingleLead
  <2>1. \A r, q \in Leads(g) : r = q
    BY DEF GroupsInv, Sound, Leads
  <2>2. CASE Leads(g) = {}
    BY <2>2, FS_EmptySet
  <2>3. CASE Leads(g) # {}
    <3>1. PICK r : r \in Leads(g)
      BY <2>3
    <3>2. Leads(g) = {r}
      BY <2>1, <3>1
    <3>3. Cardinality({r}) = 1
      BY FS_Singleton
    <3> QED
      BY <3>2, <3>3
  <2> QED
    BY <2>2, <2>3
<1> QED
  BY <1>1, GroupsInvHolds, PTL

(* The lead that an insert finds is replaced by the lead it inserts. *)
LEMMA InsertKeepsLed ==
  ASSUME GroupsInv, NEW w \in Workers, InsertMember(w),
         NEW g \in Teams, Leads(g) # {}
  PROVE  Leads(g)' # {}
<1>1. PICK r \in member : r.team = g /\ r.lead
  BY DEF Leads
<1>2. CASE UNCHANGED member
  BY <1>1, <1>2 DEF Leads
<1>3. CASE Commit(w)
  <2>1. member' = Demoted(tx[w].seen) \cup {NewRow(w)}
    BY <1>3 DEF Commit
  <2>2. CASE r.id \notin tx[w].seen
    <3>1. r \in member'
      BY <2>1, <2>2 DEF Demoted
    <3> QED
      BY <1>1, <3>1 DEF Leads
  <2>3. CASE r.id \in tx[w].seen
    <3>1. tx[w].lead /\ g = tx[w].team
      BY <1>1, <2>3 DEF GroupsInv, TxOK
    <3>2. NewRow(w) \in member' /\ NewRow(w).team = g /\ NewRow(w).lead
      BY <2>1, <3>1 DEF NewRow
    <3> QED
      BY <3>2 DEF Leads
  <2> QED
    BY <2>2, <2>3
<1> QED
  BY <1>2, <1>3 DEF InsertMember

(* A group that has a lead keeps having one, at every step. *)
THEOREM LedStaysLedHolds == Spec => LedStaysLed
<1>1. GroupsInv /\ [Next]_vars => [\A g \in Teams : Leads(g) # {} => Leads(g)' # {}]_member
  <2> SUFFICES ASSUME GroupsInv, [Next]_vars, member' # member,
                      NEW g \in Teams, Leads(g) # {}
               PROVE  Leads(g)' # {}
    OBVIOUS
  <2>1. PICK w \in Workers : GroupsStep(w)
    BY GroupsFrame DEF GroupsNext
  <2>2. InsertMember(w) \/ CommitRemoval(w)
    BY <2>1 DEF GroupsStep, StartAdd, Demote, StartRemove, DeleteRow
  <2>3. CASE InsertMember(w)
    BY <2>3, InsertKeepsLed
  <2>4. CASE CommitRemoval(w)
    <3>1. PICK r \in member : r.team = g /\ r.lead
      BY DEF Leads
    <3>2. r.id # tx[w].row
      BY <2>4, <3>1 DEF CommitRemoval, GroupsInv, TxOK
    <3>3. r \in member'
      BY <2>4, <3>2 DEF CommitRemoval
    <3> QED
      BY <3>1, <3>3 DEF Leads
  <2> QED
    BY <2>2, <2>3, <2>4
<1> QED
  BY <1>1, GroupsInvHolds, PTL DEF Spec, LedStaysLed

-----------------------------------------------------------------------------
(* Workload: types.  A cycle of the balancer that makes a move has one left, *)
(* and only handlers that shed work go through its list.                     *)

JobOK(job) ==
  /\ job.step = "move" /\ job.kind = "rebalance" => job.left > 0
  /\ job.step \in {"list", "return", "replace", "away"} => job.kind \in {"leave", "shed"}

WorkOK(w) == JobOK(work[w])

WorkInv == DirectoryTypeOK /\ WorkloadTypeOK /\ \A w \in Workers : WorkOK(w)

WorkEffect ==
  /\ active' \in [Agents -> BOOLEAN] /\ available' \in [Agents -> BOOLEAN]
  /\ primary' \in [Agents -> Groups]
  /\ owner' \in [Tickets -> Owners] /\ group' \in [Tickets -> Groups]
  /\ state' \in [Tickets -> States]
  /\ WorkloadTypeOK' /\ \A w \in Workers : WorkOK(w)'

LEMMA WorkConstants ==
  /\ Skill \in [Agents -> Nat] /\ Routed \in [Tickets -> Teams] /\ Origin \in [Tickets -> Teams]
  /\ Preferred \in [Tickets -> Owners] /\ MaxMoves \in Nat
BY WorkloadAssumption

LEMMA RestType == Rest \in Works
BY WorkConstants DEF Rest, Works, Owners, Groups

LEMMA RecordType ==
  ASSUME WorkInv, NEW w \in Workers
  PROVE  /\ work[w] \in Works
         /\ work[w].agent \in Owners /\ work[w].from \in Owners /\ work[w].to \in Owners
         /\ work[w].team \in Groups /\ work[w].left \in 0 .. MaxMoves
         /\ work[w].todo \in SUBSET Tickets /\ work[w].strays \in SUBSET Tickets
BY DEF WorkInv, WorkloadTypeOK, Works

(* A step that gives a worker a new record, and leaves the others'. *)
LEMMA BecomeKept ==
  ASSUME WorkInv, NEW w \in Workers, NEW job \in Works, Become(w, job), JobOK(job)
  PROVE  WorkloadTypeOK' /\ \A v \in Workers : WorkOK(v)'
<1>1. /\ work' \in [Workers -> Works]
      /\ work'[w] = job
      /\ \A v \in Workers \ {w} : work'[v] = work[v]
  BY DEF WorkInv, WorkloadTypeOK, Become
<1> QED
  BY <1>1 DEF WorkInv, WorkOK, WorkloadTypeOK

LEMMA DoneKept ==
  ASSUME WorkInv, NEW w \in Workers, Done(w)
  PROVE  WorkloadTypeOK' /\ \A v \in Workers : WorkOK(v)'
<1>1. Rest.step = "idle"
  BY DEF Rest
<1> QED
  BY <1>1, RestType, BecomeKept DEF Done, JobOK

(* The engine answers with somebody fit, or nobody. *)
LEMMA SearchAnswers ==
  ASSUME NEW t, NEW g, NEW fit, fit \subseteq Agents
  PROVE  Search(t, g, fit) \subseteq fit \cup {Null}
BY DEF Search, UnderCap, Lightest, InGroup, Elsewhere

LEMMA FitAgents ==
  ASSUME NEW bar, NEW except
  PROVE  Fit(bar, except) \subseteq Agents \ except
BY DEF Fit

LEMMA AssignAnswers ==
  ASSUME NEW t \in Tickets, NEW a \in Owners
  PROVE  Assign(t, a) \subseteq Owners
<1>1. Fit(Bar[t], {}) \subseteq Agents
  BY FitAgents
<1>2. Search(t, Routed[t], Fit(Bar[t], {})) \subseteq Owners
  BY <1>1, SearchAnswers DEF Owners
<1>3. Preferred[t] \in Owners
  BY WorkConstants
<1> QED
  BY <1>2, <1>3 DEF Assign

LEMMA AssignInAnswers ==
  ASSUME NEW t, NEW g, NEW except
  PROVE  AssignIn(t, g, except) \subseteq (Agents \ except) \cup {Null}
<1>1. Fit(Boost[t], except) \subseteq Agents \ except
  BY FitAgents
<1> QED
  BY <1>1, SearchAnswers DEF AssignIn

LEMMA MoveToType ==
  ASSUME WorkInv, NEW t, NEW from, NEW to \in Owners, MoveTo(t, from, to)
  PROVE  owner' \in [Tickets -> Owners]
BY DEF MoveTo, WorkInv, DirectoryTypeOK

(* What the balancer picks is a ticket and its owner. *)
LEMMA NextMovesType ==
  ASSUME WorkInv, NEW m \in NextMoves
  PROVE  m.ticket \in Tickets /\ m.from \in Owners /\ m.to \in Owners
<1>1. m \in [ticket : Tickets, from : {Busiest}, to : Quietest \ {Busiest}]
  BY DEF NextMoves
<1>2. m.ticket \in Candidates(m.from, m.to)
  BY DEF NextMoves
<1>3. m.ticket \in Tickets /\ owner[m.ticket] = m.from
  BY <1>2 DEF Candidates, WorkOf
<1>4. m.to \in Agents
  BY <1>1 DEF Quietest, Lightest, Rota
<1> QED
  BY <1>3, <1>4 DEF WorkInv, DirectoryTypeOK, Owners

(* What a step leaves alone keeps its type. *)
LEMMA Untouched ==
  ASSUME WorkInv
  PROVE  /\ active' = active => active' \in [Agents -> BOOLEAN]
         /\ available' = available => available' \in [Agents -> BOOLEAN]
         /\ primary' = primary => primary' \in [Agents -> Groups]
         /\ owner' = owner => owner' \in [Tickets -> Owners]
         /\ group' = group => group' \in [Tickets -> Groups]
         /\ state' = state => state' \in [Tickets -> States]
BY DEF WorkInv, DirectoryTypeOK

(* A step that only takes up a job. *)
LEMMA TakesUp ==
  ASSUME WorkInv, NEW w \in Workers, NEW job \in Works, Become(w, job),
         JobOK(job),
         UNCHANGED <<ticketVars, accountVars, primary>>
  PROVE  WorkEffect
BY BecomeKept, Untouched DEF WorkEffect, ticketVars, accountVars

LEMMA MovesStarted ==
  ASSUME WorkInv, NEW w \in Workers, NEW t \in Tickets,
         \/ \E a \in Owners : StartArrive(w, t, a)
         \/ \E a \in Agents : StartTake(w, a, t)
         \/ \E p, b \in Agents : StartAssign(w, p, t, b)
         \/ \E g \in Groups : StartRegroup(w, t, g)
  PROVE  WorkEffect
<1>0. /\ owner[t] \in Owners /\ Null \in Owners /\ Null \in Groups
      /\ Agents \subseteq Owners /\ Teams \subseteq Groups
      /\ t \in Tickets \cup {Null} /\ Null \in Tickets \cup {Null}
      /\ 0 \in 0 .. MaxMoves
  BY WorkConstants DEF WorkInv, DirectoryTypeOK, Owners, Groups
<1>1. ASSUME NEW a \in Owners, StartArrive(w, t, a)
      PROVE  WorkEffect
  <2>1. PICK b \in Assign(t, a) :
          Become(w, [Rest EXCEPT !.step = "write", !.kind = "arrive", !.ticket = t,
                                 !.to = b, !.team = Routed[t]])
    BY <1>1 DEF StartArrive
  <2> DEFINE job == [Rest EXCEPT !.step = "write", !.kind = "arrive", !.ticket = t,
                                 !.to = b, !.team = Routed[t]]
  <2>2. b \in Owners /\ Routed[t] \in Groups
    BY <1>0, AssignAnswers, WorkConstants
  <2>3. job \in Works /\ job.step = "write"
    BY <1>0, <2>2 DEF Rest, Works, Kinds
  <2> QED
    BY <1>1, <2>1, <2>3, TakesUp DEF StartArrive, JobOK
<1>2. ASSUME NEW a \in Agents, StartTake(w, a, t)
      PROVE  WorkEffect
  <2> DEFINE job == [Rest EXCEPT !.step = "move", !.kind = "take", !.agent = a,
                                 !.ticket = t, !.from = owner[t], !.to = a]
  <2>1. job \in Works /\ job.step = "move" /\ job.kind = "take"
    BY <1>0 DEF Rest, Works, Kinds
  <2> QED
    BY <1>2, <2>1, TakesUp DEF StartTake, JobOK
<1>3. ASSUME NEW p \in Agents, NEW b \in Agents, StartAssign(w, p, t, b)
      PROVE  WorkEffect
  <2> DEFINE job == [Rest EXCEPT !.step = "write", !.kind = "assign", !.ticket = t, !.to = b]
  <2>1. job \in Works /\ job.step = "write"
    BY <1>0 DEF Rest, Works, Kinds
  <2> QED
    BY <1>3, <2>1, TakesUp DEF StartAssign, JobOK
<1>4. ASSUME NEW g \in Groups, StartRegroup(w, t, g)
      PROVE  WorkEffect
  <2> DEFINE stays == owner[t] # Null /\ g # Null /\ primary[owner[t]] = g
             found == IF g # Null /\ Open(t) THEN AssignIn(t, g, {}) ELSE {Null}
  <2>1. PICK a \in IF stays THEN {owner[t]} ELSE found :
          Become(w, [Rest EXCEPT !.step = "write", !.kind = "regroup",
                       !.ticket = t, !.team = g, !.from = owner[t],
                       !.to = IF a # Null /\ primary[a] = g THEN a ELSE Null])
    BY <1>4 DEF StartRegroup
  <2>2. found \subseteq Owners
    BY <1>0, AssignInAnswers DEF Owners
  <2>3. a \in Owners
    BY <1>0, <2>1, <2>2
  <2> DEFINE to  == IF a # Null /\ primary[a] = g THEN a ELSE Null
             job == [Rest EXCEPT !.step = "write", !.kind = "regroup",
                       !.ticket = t, !.team = g, !.from = owner[t], !.to = to]
  <2>4. to \in Owners
    BY <1>0, <2>3
  <2>5. job \in Works /\ job.step = "write"
    <3> HIDE DEF to
    <3> QED
      BY <1>0, <2>4 DEF Rest, Works, Kinds
  <2> QED
    BY <1>4, <2>1, <2>5, TakesUp DEF StartRegroup, JobOK
<1> QED
  BY <1>1, <1>2, <1>3, <1>4

LEMMA MovesMade ==
  ASSUME WorkInv, NEW w \in Workers,
         Arrive(w) \/ Take(w) \/ AssignByHand(w) \/ Regroup(w)
  PROVE  WorkEffect
<1>1. /\ work[w].to \in Owners /\ work[w].team \in Groups
      /\ WorkloadTypeOK' /\ \A v \in Workers : WorkOK(v)'
  BY RecordType, DoneKept DEF Arrive, Take, AssignByHand, Regroup
<1>2. "NEW" \in States
  BY DEF States, OpenState
<1>3. CASE Arrive(w)
  BY <1>1, <1>2, <1>3, Untouched DEF Arrive, WorkEffect, accountVars, WorkInv, DirectoryTypeOK
<1>4. CASE Take(w)
  BY <1>1, <1>4, Untouched, MoveToType DEF Take, WorkEffect, accountVars
<1>5. CASE AssignByHand(w)
  BY <1>1, <1>5, Untouched DEF AssignByHand, WorkEffect, accountVars, WorkInv, DirectoryTypeOK
<1>6. CASE Regroup(w)
  BY <1>1, <1>6, Untouched DEF Regroup, WorkEffect, accountVars, WorkInv, DirectoryTypeOK
<1> QED
  BY <1>3, <1>4, <1>5, <1>6

LEMMA BalancerKept ==
  ASSUME WorkInv, NEW w \in Workers, StartCycle(w) \/ Weigh(w) \/ Rebalance(w)
  PROVE  WorkEffect
<1>0. MaxMoves \in 0 .. MaxMoves /\ Null \in Owners /\ Null \in Groups
  BY WorkConstants DEF Owners, Groups
<1>1. CASE StartCycle(w)
  <2> DEFINE job == [Rest EXCEPT !.step = "weigh", !.kind = "rebalance", !.left = MaxMoves]
  <2>1. job \in Works /\ job.step = "weigh"
    BY <1>0 DEF Rest, Works, Kinds
  <2> QED
    BY <1>1, <2>1, TakesUp DEF StartCycle, JobOK
<1>2. CASE Weigh(w) /\ Done(w)
  BY <1>2, DoneKept, Untouched DEF Weigh, WorkEffect, ticketVars, accountVars
<1>3. CASE Weigh(w) /\ ~Done(w)
  <2>1. PICK m \in NextMoves :
          Become(w, [work[w] EXCEPT !.step = "move", !.ticket = m.ticket,
                                    !.from = m.from, !.to = m.to])
    BY <1>3 DEF Weigh
  <2>2. work[w].left > 0
    BY <1>3 DEF Weigh
  <2> DEFINE job == [work[w] EXCEPT !.step = "move", !.ticket = m.ticket,
                                    !.from = m.from, !.to = m.to]
  <2>3. m.ticket \in Tickets \cup {Null} /\ m.from \in Owners /\ m.to \in Owners
    BY NextMovesType
  <2>4. job \in Works /\ job.step = "move" /\ job.left = work[w].left
    BY <2>3, RecordType DEF Works
  <2> QED
    BY <1>3, <2>1, <2>2, <2>4, TakesUp DEF Weigh, JobOK
<1>4. CASE Rebalance(w)
  <2>1. work[w].to \in Owners /\ work[w].left \in 0 .. MaxMoves /\ work[w].left > 0
    BY <1>4, RecordType DEF Rebalance, WorkInv, WorkOK, JobOK
  <2>2. owner' \in [Tickets -> Owners]
    BY <1>4, <2>1, MoveToType DEF Rebalance
  <2> DEFINE job == [Rest EXCEPT !.step = "weigh", !.kind = "rebalance",
                                 !.left = work[w].left - 1]
  <2>3. work[w].left - 1 \in 0 .. MaxMoves
    BY <2>1, WorkConstants
  <2>4. job \in Works /\ job.step = "weigh"
    BY <1>0, <2>3 DEF Rest, Works, Kinds
  <2>5. WorkloadTypeOK' /\ \A v \in Workers : WorkOK(v)'
    BY <1>4, <2>4, BecomeKept, DoneKept DEF Rebalance, JobOK
  <2> QED
    BY <1>4, <2>2, <2>5, Untouched DEF Rebalance, WorkEffect, accountVars
<1> QED
  BY <1>1, <1>2, <1>3, <1>4

LEMMA ShedStarted ==
  ASSUME WorkInv, NEW w \in Workers, NEW a \in Agents,
         \/ StartLeave(w, a) \/ Disable(w, a) \/ ForceAway(w, a)
         \/ \E g \in Groups : SetPrimary(w, a, g)
  PROVE  WorkEffect
<1>0. /\ Null \in Owners /\ Null \in Groups /\ a \in Owners
      /\ 0 \in 0 .. MaxMoves
  BY WorkConstants DEF Owners, Groups
<1>1. CASE StartLeave(w, a)
  <2> DEFINE job == [Rest EXCEPT !.step = "list", !.kind = "leave", !.agent = a]
  <2>1. job \in Works /\ job.step = "list" /\ job.kind \in {"leave", "shed"}
    BY <1>0 DEF Rest, Works, Kinds
  <2> QED
    BY <1>1, <2>1, TakesUp DEF StartLeave, JobOK
<1>2. CASE Disable(w, a) \/ ForceAway(w, a)
  <2> DEFINE job == [Rest EXCEPT !.step = "list", !.kind = "shed", !.agent = a]
  <2>1. job \in Works /\ job.step = "list" /\ job.kind \in {"leave", "shed"}
    BY <1>0 DEF Rest, Works, Kinds
  <2>2. WorkloadTypeOK' /\ \A v \in Workers : WorkOK(v)'
    BY <1>2, <2>1, BecomeKept DEF Disable, ForceAway, JobOK
  <2>3. active' \in [Agents -> BOOLEAN] /\ available' \in [Agents -> BOOLEAN]
    BY <1>2 DEF Disable, ForceAway, WorkInv, DirectoryTypeOK
  <2> QED
    BY <1>2, <2>2, <2>3, Untouched DEF Disable, ForceAway, WorkEffect, ticketVars
<1>3. ASSUME NEW g \in Groups, SetPrimary(w, a, g)
      PROVE  WorkEffect
  <2> DEFINE job == [Rest EXCEPT !.step = "unassign", !.agent = a]
  <2>1. job \in Works /\ job.step = "unassign"
    BY <1>0 DEF Rest, Works, Kinds
  <2>2. WorkloadTypeOK' /\ \A v \in Workers : WorkOK(v)'
    BY <1>3, <2>1, BecomeKept DEF SetPrimary, JobOK
  <2>3. primary' \in [Agents -> Groups]
    BY <1>3 DEF SetPrimary, WorkInv, DirectoryTypeOK
  <2> QED
    BY <1>3, <2>2, <2>3, Untouched DEF SetPrimary, WorkEffect, ticketVars, accountVars
<1> QED
  BY <1>1, <1>2, <1>3

LEMMA ShedLoopKept ==
  ASSUME WorkInv, NEW w \in Workers,
         \/ List(w) \/ ListEnds(w) \/ ReturnToOrigin(w) \/ FindReplacement(w)
         \/ HandOn(w)
  PROVE  WorkEffect
<1>0. /\ work[w] \in Works /\ work[w].agent \in Owners
      /\ work[w].todo \in SUBSET Tickets /\ work[w].strays \in SUBSET Tickets
      /\ work[w].to \in Owners /\ Null \in Owners
  BY RecordType DEF Owners
<1>00. work[w].step \in {"list", "return", "replace"} => work[w].kind \in {"leave", "shed"}
  BY DEF WorkInv, WorkOK, JobOK
<1>1. CASE List(w)
  <2> DEFINE held == IF work[w].kind = "leave" THEN {"NEW"} ELSE OpenState
             list == WorkOf(work[w].agent, held)
             job  == [Step(w, "return") EXCEPT
                        !.todo = list, !.strays = {t \in list : group[t] # Origin[t]}]
  <2>1. list \in SUBSET Tickets /\ {t \in list : group[t] # Origin[t]} \in SUBSET Tickets
    BY DEF WorkOf
  <2>2. job \in Works /\ job.step = "return" /\ job.kind = work[w].kind
    <3> HIDE DEF list
    <3> QED
      BY <1>0, <2>1 DEF Step, Works
  <2>3. Become(w, job)
    BY <1>1 DEF List, Listed
  <2> HIDE DEF job
  <2> QED
    BY <1>1, <1>00, <2>2, <2>3, TakesUp DEF List, JobOK
<1>2. CASE ListEnds(w)
  <2> DEFINE job == Step(w, "away")
  <2>1. job \in Works /\ job.step = "away" /\ job.kind = work[w].kind
    BY <1>0 DEF Step, Works
  <2>2. WorkloadTypeOK' /\ \A v \in Workers : WorkOK(v)'
    BY <1>2, <1>00, <2>1, BecomeKept, DoneKept DEF ListEnds, JobOK
  <2> QED
    BY <1>2, <2>2, Untouched DEF ListEnds, WorkEffect, ticketVars, accountVars
<1>3. CASE ReturnToOrigin(w)
  <2>1. PICK t \in work[w].todo :
          /\ group' = IF t \in work[w].strays THEN [group EXCEPT ![t] = Origin[t]] ELSE group
          /\ Become(w, [Step(w, "replace") EXCEPT
                          !.ticket = t, !.todo = @ \ {t}, !.strays = @ \ {t},
                          !.from = IF t \in work[w].strays THEN owner[t] ELSE work[w].agent])
    BY <1>3 DEF ReturnToOrigin
  <2> DEFINE from == IF t \in work[w].strays THEN owner[t] ELSE work[w].agent
             job  == [Step(w, "replace") EXCEPT
                        !.ticket = t, !.todo = @ \ {t}, !.strays = @ \ {t}, !.from = from]
  <2>2. t \in Tickets /\ t \in Tickets \cup {Null}
    BY <1>0, <2>1
  <2>3. from \in Owners /\ Origin[t] \in Groups
    BY <1>0, <2>2, WorkConstants DEF WorkInv, DirectoryTypeOK, Groups
  <2>4. job \in Works /\ job.step = "replace" /\ job.kind = work[w].kind
    <3> HIDE DEF from
    <3> QED
      BY <1>0, <2>2, <2>3 DEF Step, Works
  <2>5. Become(w, job)
    BY <2>1
  <2> HIDE DEF job
  <2>6. WorkloadTypeOK' /\ \A v \in Workers : WorkOK(v)'
    BY <1>3, <1>00, <2>4, <2>5, BecomeKept DEF ReturnToOrigin, JobOK
  <2>7. group' \in [Tickets -> Groups]
    BY <2>1, <2>3 DEF WorkInv, DirectoryTypeOK
  <2> QED
    BY <1>3, <2>6, <2>7, Untouched DEF ReturnToOrigin, WorkEffect, accountVars
<1>4. CASE FindReplacement(w)
  <2>1. PICK a \in AssignIn(work[w].ticket, Origin[work[w].ticket], {work[w].agent}) :
          Become(w, [Step(w, "move") EXCEPT !.to = a])
    BY <1>4 DEF FindReplacement
  <2> DEFINE job == [Step(w, "move") EXCEPT !.to = a]
  <2>2. a \in Owners
    BY <2>1, AssignInAnswers DEF Owners
  <2>3. job \in Works /\ job.kind = work[w].kind /\ job.step = "move"
    BY <1>0, <2>2 DEF Step, Works
  <2> QED
    BY <1>4, <1>00, <2>1, <2>3, TakesUp DEF FindReplacement, JobOK
<1>5. CASE HandOn(w)
  <2> DEFINE job == [Step(w, "return") EXCEPT !.ticket = Null, !.from = Null, !.to = Null]
  <2>1. job \in Works /\ job.step = "return" /\ job.kind = work[w].kind
    BY <1>0 DEF Step, Works
  <2>2. WorkloadTypeOK' /\ \A v \in Workers : WorkOK(v)'
    BY <1>5, <2>1, BecomeKept DEF HandOn, JobOK
  <2>3. owner' \in [Tickets -> Owners]
    BY <1>0, <1>5, MoveToType DEF HandOn
  <2> QED
    BY <1>5, <2>2, <2>3, Untouched DEF HandOn, WorkEffect, accountVars
<1> QED
  BY <1>1, <1>2, <1>3, <1>4, <1>5

LEMMA ShedEndsKept ==
  ASSUME WorkInv, NEW w \in Workers, GoAway(w) \/ Unassign(w)
  PROVE  WorkEffect
<1>1. WorkloadTypeOK' /\ \A v \in Workers : WorkOK(v)'
  BY DoneKept DEF GoAway, Unassign
<1>2. CASE GoAway(w)
  <2>1. active' \in [Agents -> BOOLEAN] /\ available' \in [Agents -> BOOLEAN]
    BY <1>2 DEF GoAway, WorkInv, DirectoryTypeOK
  <2> QED
    BY <1>1, <1>2, <2>1, Untouched DEF GoAway, WorkEffect, ticketVars
<1>3. CASE Unassign(w)
  <2>1. owner' \in [Tickets -> Owners]
    BY <1>3 DEF Unassign, WorkInv, DirectoryTypeOK, Owners
  <2> QED
    BY <1>1, <1>3, <2>1, Untouched DEF Unassign, WorkEffect, accountVars
<1> QED
  BY <1>2, <1>3

LEMMA WorkloadStepKept ==
  ASSUME WorkInv, NEW w \in Workers, WorkloadStep(w)
  PROVE  WorkEffect
<1>1. Movers \subseteq Agents
  BY WorkloadAssumption
<1>2. CASE MoveStep(w)
  BY <1>2, MovesStarted, MovesMade DEF MoveStep
<1>3. CASE ShedStep(w)
  BY <1>1, <1>3, ShedStarted, ShedLoopKept, ShedEndsKept DEF ShedStep
<1>4. CASE StartCycle(w) \/ Continue(w)
  BY <1>4, BalancerKept DEF Continue
<1> QED
  BY <1>2, <1>3, <1>4 DEF WorkloadStep

LEMMA SurroundingsKept ==
  ASSUME WorkInv, Surroundings
  PROVE  WorkEffect
<1>1. ASSUME NEW a \in Movers, NEW x \in BOOLEAN, NEW y \in BOOLEAN, SetPresence(a, x, y)
      PROVE  WorkEffect
  <2>1. active' \in [Agents -> BOOLEAN] /\ available' \in [Agents -> BOOLEAN]
    BY <1>1 DEF SetPresence, WorkInv, DirectoryTypeOK
  <2> QED
    BY <1>1, <2>1, Untouched
    DEF SetPresence, WorkEffect, ticketVars, WorkInv, WorkloadTypeOK, WorkOK
<1>2. ASSUME NEW a \in Movers, Enable(a)
      PROVE  WorkEffect
  <2>1. active' \in [Agents -> BOOLEAN] /\ available' \in [Agents -> BOOLEAN]
    BY <1>2 DEF Enable, WorkInv, DirectoryTypeOK
  <2> QED
    BY <1>2, <2>1, Untouched
    DEF Enable, WorkEffect, ticketVars, WorkInv, WorkloadTypeOK, WorkOK
<1>3. ASSUME NEW t \in Tickets, NEW from, NEW to \in States, Progress(t, from, to)
      PROVE  WorkEffect
  <2>1. state' \in [Tickets -> States]
    BY <1>3 DEF Progress, WorkInv, DirectoryTypeOK
  <2> QED
    BY <1>3, <2>1, Untouched
    DEF Progress, WorkEffect, accountVars, WorkInv, WorkloadTypeOK, WorkOK
<1>4. {"IN_PROGRESS", "RESOLVED"} \subseteq States
  BY DEF States, OpenState
<1> QED
  BY <1>1, <1>2, <1>3, <1>4 DEF Surroundings

-----------------------------------------------------------------------------
(* Every variable keeps its type                                             *)

LEMMA FixedFrame == [Next]_vars => UNCHANGED fixedVars
BY DEF Next, Outside, Remote, Grouping, Working, vars

LEMMA WorkFrame ==
  [Next]_vars => \/ Alone /\ Surroundings
                 \/ \E w \in Workers : WorkloadStep(w)
                 \/ GroupsNext /\ UNCHANGED <<accountVars, ticketVars, work>>
                 \/ UNCHANGED <<accountVars, ticketVars, work, primary>>
BY DEF Next, Outside, Remote, Grouping, Working, GroupsNext, vars, groupVars

LEMMA PrimaryKept ==
  ASSUME GroupsInv, primary \in [Agents -> Groups], GroupsNext
  PROVE  primary' \in [Agents -> Groups]
<1>1. ASSUME NEW w \in Workers, GroupsStep(w)
      PROVE  primary' \in [Agents -> Groups]
  <2>1. tx[w].team \in Groups /\ tx[w].next \in Groups
    BY DEF GroupsInv, GroupsTypeOK, Txs
  <2>2. \/ primary' = primary
        \/ primary' = [primary EXCEPT ![tx[w].agent] = tx[w].team]
        \/ primary' = [primary EXCEPT ![tx[w].agent] = tx[w].next]
    BY <1>1 DEF GroupsStep, StartAdd, Demote, InsertMember, Commit, StartRemove, DeleteRow,
                CommitRemoval
  <2> QED
    BY <2>1, <2>2
<1> QED
  BY <1>1 DEF GroupsNext

DeskInv == RemoteTypeOK /\ GroupsInv /\ WorkInv

LEMMA DeskKept ==
  ASSUME DeskInv, [Next]_vars
  PROVE  DeskInv'
<1> USE DEF DeskInv
<1>1. RemoteTypeOK'
  BY RemoteFrame, RemoteTypeKept
<1>2. GroupsInv'
  BY GroupsFrame, GroupsKept
<1>3. WorkEffect
  <2>1. CASE GroupsNext /\ UNCHANGED <<accountVars, ticketVars, work>>
    BY <2>1, PrimaryKept, Untouched
    DEF WorkEffect, accountVars, ticketVars, WorkInv, WorkloadTypeOK, WorkOK, DirectoryTypeOK
  <2>2. CASE UNCHANGED <<accountVars, ticketVars, work, primary>>
    BY <2>2, Untouched
    DEF WorkEffect, accountVars, ticketVars, WorkInv, WorkloadTypeOK, WorkOK
  <2> QED
    BY <2>1, <2>2, WorkFrame, SurroundingsKept, WorkloadStepKept
<1>4. DirectoryTypeOK'
  BY <1>2, <1>3, FixedFrame DEF DirectoryTypeOK, WorkEffect, GroupsInv, WorkInv, fixedVars
<1> QED
  BY <1>1, <1>2, <1>3, <1>4 DEF WorkInv, WorkEffect

LEMMA DeskStarted == Init => DeskInv
<1> SUFFICES ASSUME Init PROVE DeskInv
  OBVIOUS
<1>1. RemoteTypeOK /\ GroupsInv
  BY RemoteStarted, GroupsStarted DEF RemoteInv
<1>2. DirectoryTypeOK
  BY DirectoryAssumption DEF Init, DirectoryInit, DirectoryTypeOK
<1>3. WorkloadTypeOK /\ \A w \in Workers : WorkOK(w)
  BY RestType DEF Init, WorkloadInit, WorkloadTypeOK, WorkOK, JobOK, Rest
<1> QED
  BY <1>1, <1>2, <1>3 DEF DeskInv, WorkInv

THEOREM DeskInvHolds == Spec => []DeskInv
<1>1. DeskInv /\ [Next]_vars => DeskInv'
  BY DeskKept
<1> QED
  BY <1>1, DeskStarted, PTL DEF Spec

(* Every variable of the desk has its type. *)
THEOREM DeskTypeCorrect == Spec => []TypeOK
<1>1. DeskInv => TypeOK
  BY DEF DeskInv, GroupsInv, WorkInv, TypeOK
<1> QED
  BY <1>1, DeskInvHolds, PTL

-----------------------------------------------------------------------------
(* Handing on an agent's work, one handler after the other.  Between two     *)
(* statements of the handler nothing moves, so what the agent still owns is  *)
(* on the list, or in hand and about to be moved to somebody else.           *)

Shedding(job) == job.kind \in {"leave", "shed"}

OpenOf(a) == WorkOf(a, OpenState)

ShedOK(w) ==
  LET job == work[w] IN
    Shedding(job) =>
      /\ job.step \in {"list", "return", "replace", "move", "away"}
      /\ job.agent \in Agents
      /\ job.step = "list" /\ job.kind = "leave" => WorkOf(job.agent, {"IN_PROGRESS"}) = {}
      /\ job.step = "return" => OpenOf(job.agent) \subseteq job.todo
      /\ job.step \in {"replace", "move"} =>
           /\ OpenOf(job.agent) \subseteq job.todo \cup {job.ticket}
           /\ job.ticket \in OpenOf(job.agent) => job.from = job.agent
      /\ job.step = "move" => job.to # job.agent
      /\ job.step = "away" => OpenOf(job.agent) = {}

SoleOK(w) ==
  crew = {w} => /\ \A v \in Workers \ {w} : work[v].step = "idle"
                /\ ShedOK(w)

SoleInv == \A w \in Workers : SoleOK(w)

LEMMA OwnRecord ==
  ASSUME WorkInv, NEW w \in Workers, NEW job, Become(w, job)
  PROVE  work'[w] = job /\ \A v \in Workers \ {w} : work'[v] = work[v]
BY DEF Become, WorkInv, WorkloadTypeOK

(* A worker acts only when it is of the crew or has a handler in flight. *)
LEMMA OnlyCrew ==
  ASSUME NEW v \in Workers, WorkloadStep(v), work[v].step = "idle"
  PROVE  v \in crew
BY DEF WorkloadStep, MoveStep, ShedStep, Continue, StartArrive, StartTake, StartAssign,
       StartRegroup, Arrive, Take, AssignByHand, Regroup, StartLeave, Disable, ForceAway,
       SetPrimary, List, ListEnds, ReturnToOrigin, FindReplacement, HandOn, GoAway,
       Unassign, StartCycle, Weigh, Rebalance, Ready

LEMMA RestSheds == ~Shedding(Rest) /\ Rest.step = "idle"
BY DEF Rest, Shedding

(* What other handlers become does not shed. *)
LEMMA OtherJobs ==
  ASSUME WorkInv, NEW w \in Workers, ShedOK(w),
         MoveStep(w) \/ StartCycle(w) \/ Continue(w) \/ GoAway(w) \/ Unassign(w)
           \/ \E a \in Movers, g \in Groups : SetPrimary(w, a, g)
  PROVE  ShedOK(w)' /\ \A v \in Workers \ {w} : work'[v] = work[v]
<1>1. SUFFICES ASSUME TRUE
               PROVE  ~Shedding(work'[w]) /\ \A v \in Workers \ {w} : work'[v] = work[v]
  BY DEF ShedOK, Shedding
<1>2. ASSUME NEW job, Become(w, job), ~Shedding(job)
      PROVE  ~Shedding(work'[w]) /\ \A v \in Workers \ {w} : work'[v] = work[v]
  BY <1>2, OwnRecord
<1>3. CASE Done(w)
  BY <1>2, <1>3, RestSheds DEF Done
<1>4. CASE MoveStep(w) /\ ~Done(w)
  <2>1. ASSUME NEW t \in Tickets, NEW a \in Owners, StartArrive(w, t, a)
        PROVE  ~Shedding(work'[w]) /\ \A v \in Workers \ {w} : work'[v] = work[v]
    <3>1. PICK b : Become(w, [Rest EXCEPT !.step = "write", !.kind = "arrive", !.ticket = t,
                                !.to = b, !.team = Routed[t]])
      BY <2>1 DEF StartArrive
    <3> DEFINE job == [Rest EXCEPT !.step = "write", !.kind = "arrive", !.ticket = t,
                                !.to = b, !.team = Routed[t]]
    <3>2. ~Shedding(job)
      BY DEF Rest, Shedding
    <3>3. Become(w, job)
      BY <3>1
    <3> HIDE DEF job
    <3> QED
      BY <1>2, <3>2, <3>3
  <2>2. ASSUME NEW t \in Tickets, NEW a \in Agents, StartTake(w, a, t)
        PROVE  ~Shedding(work'[w]) /\ \A v \in Workers \ {w} : work'[v] = work[v]
    <3> DEFINE job == [Rest EXCEPT !.step = "move", !.kind = "take", !.agent = a,
                                !.ticket = t, !.from = owner[t], !.to = a]
    <3>2. ~Shedding(job)
      BY DEF Rest, Shedding
    <3>3. Become(w, job)
      BY <2>2 DEF StartTake
    <3> HIDE DEF job
    <3> QED
      BY <1>2, <3>2, <3>3
  <2>3. ASSUME NEW t \in Tickets, NEW p \in Agents, NEW b \in Agents, StartAssign(w, p, t, b)
        PROVE  ~Shedding(work'[w]) /\ \A v \in Workers \ {w} : work'[v] = work[v]
    <3> DEFINE job == [Rest EXCEPT !.step = "write", !.kind = "assign", !.ticket = t, !.to = b]
    <3>2. ~Shedding(job)
      BY DEF Rest, Shedding
    <3>3. Become(w, job)
      BY <2>3 DEF StartAssign
    <3> HIDE DEF job
    <3> QED
      BY <1>2, <3>2, <3>3
  <2>4. ASSUME NEW t \in Tickets, NEW g \in Groups, StartRegroup(w, t, g)
        PROVE  ~Shedding(work'[w]) /\ \A v \in Workers \ {w} : work'[v] = work[v]
    <3>1. PICK a : Become(w, [Rest EXCEPT !.step = "write", !.kind = "regroup",
                        !.ticket = t, !.team = g, !.from = owner[t],
                        !.to = IF a # Null /\ primary[a] = g THEN a ELSE Null])
      BY <2>4 DEF StartRegroup
    <3> DEFINE job == [Rest EXCEPT !.step = "write", !.kind = "regroup",
                        !.ticket = t, !.team = g, !.from = owner[t],
                        !.to = IF a # Null /\ primary[a] = g THEN a ELSE Null]
    <3>2. ~Shedding(job)
      BY DEF Rest, Shedding
    <3>3. Become(w, job)
      BY <3>1
    <3> HIDE DEF job
    <3> QED
      BY <1>2, <3>2, <3>3
  <2> QED
    BY <1>4, <2>1, <2>2, <2>3, <2>4 DEF MoveStep, Arrive, Take, AssignByHand, Regroup
<1>5. CASE StartCycle(w)
  <2> DEFINE job == [Rest EXCEPT !.step = "weigh", !.kind = "rebalance", !.left = MaxMoves]
  <2>1. ~Shedding(job)
    BY DEF Rest, Shedding
  <2> QED
    BY <1>2, <1>5, <2>1 DEF StartCycle
<1>6. CASE Continue(w) /\ ~Done(w)
  <2>1. CASE Weigh(w)
    <3>1. PICK m : Become(w, [work[w] EXCEPT !.step = "move", !.ticket = m.ticket,
                                             !.from = m.from, !.to = m.to])
      BY <1>6, <2>1 DEF Weigh
    <3>2. ~Shedding(work[w])
      BY <2>1 DEF Weigh, ShedOK
    <3>3. ~Shedding([work[w] EXCEPT !.step = "move", !.ticket = m.ticket,
                                    !.from = m.from, !.to = m.to])
      BY <3>2, RecordType DEF Shedding, Works
    <3> QED
      BY <1>2, <3>1, <3>3
  <2>2. CASE Rebalance(w)
    <3> DEFINE job == [Rest EXCEPT !.step = "weigh", !.kind = "rebalance",
                                   !.left = work[w].left - 1]
    <3>1. ~Shedding(job)
      BY DEF Rest, Shedding
    <3> QED
      BY <1>2, <1>6, <2>2, <3>1 DEF Rebalance
  <2> QED
    BY <1>6, <2>1, <2>2 DEF Continue
<1>7. ASSUME NEW a \in Movers, NEW g \in Groups, SetPrimary(w, a, g)
      PROVE  ~Shedding(work'[w]) /\ \A v \in Workers \ {w} : work'[v] = work[v]
  <2> DEFINE job == [Rest EXCEPT !.step = "unassign", !.agent = a]
  <2>1. ~Shedding(job)
    BY DEF Rest, Shedding
  <2> QED
    BY <1>2, <1>7, <2>1 DEF SetPrimary
<1> QED
  BY <1>3, <1>4, <1>5, <1>6, <1>7 DEF GoAway, Unassign

(* Taking up the work of an agent who leaves or is sent away. *)
LEMMA LeaveStarts ==
  ASSUME WorkInv, NEW w \in Workers, NEW a \in Agents,
         StartLeave(w, a) \/ Disable(w, a) \/ ForceAway(w, a)
  PROVE  ShedOK(w)' /\ \A v \in Workers \ {w} : work'[v] = work[v]
<1>0. UNCHANGED <<owner, state>>
  BY DEF StartLeave, Disable, ForceAway, ticketVars
<1>1. CASE StartLeave(w, a)
  <2> DEFINE job == [Rest EXCEPT !.step = "list", !.kind = "leave", !.agent = a]
  <2>1. job.step = "list" /\ job.kind = "leave" /\ job.agent = a
    BY DEF Rest
  <2>2. WorkOf(a, {"IN_PROGRESS"}) = {} /\ Become(w, job)
    BY <1>1 DEF StartLeave
  <2> HIDE DEF job
  <2>3. WorkOf(a, {"IN_PROGRESS"})' = {}
    BY <1>0, <2>2 DEF WorkOf
  <2> QED
    BY <2>1, <2>2, <2>3, OwnRecord DEF ShedOK
<1>2. CASE Disable(w, a) \/ ForceAway(w, a)
  <2> DEFINE job == [Rest EXCEPT !.step = "list", !.kind = "shed", !.agent = a]
  <2>1. job.step = "list" /\ job.kind = "shed" /\ job.agent = a
    BY DEF Rest
  <2>2. Become(w, job)
    BY <1>2 DEF Disable, ForceAway
  <2> HIDE DEF job
  <2> QED
    BY <2>1, <2>2, OwnRecord DEF ShedOK
<1> QED
  BY <1>1, <1>2

LEMMA ListSheds ==
  ASSUME WorkInv, NEW w \in Workers, ShedOK(w), List(w) \/ ListEnds(w)
  PROVE  ShedOK(w)' /\ \A v \in Workers \ {w} : work'[v] = work[v]
<1>0. work[w] \in Works /\ UNCHANGED <<owner, state>>
  BY RecordType DEF List, ListEnds, ticketVars
<1>1. Shedding(work[w]) /\ work[w].agent \in Agents
  BY DEF List, ListEnds, WorkInv, WorkOK, JobOK, Shedding, ShedOK
<1>2. PICK a \in Agents : a = work[w].agent
  BY <1>1
<1>3. OpenOf(a)' = OpenOf(a)
  BY <1>0 DEF OpenOf, WorkOf
<1>4. CASE List(w)
  <2> DEFINE held == IF work[w].kind = "leave" THEN {"NEW"} ELSE OpenState
             list == WorkOf(work[w].agent, held)
             job  == [Step(w, "return") EXCEPT
                        !.todo = list, !.strays = {t \in list : group[t] # Origin[t]}]
  <2>1. OpenOf(work[w].agent) \subseteq list
    <3>1. CASE work[w].kind = "leave"
      <4>1. WorkOf(work[w].agent, {"IN_PROGRESS"}) = {}
        BY <1>1, <1>4, <3>1 DEF List, ShedOK
      <4>2. list = WorkOf(work[w].agent, {"NEW"})
        BY <3>1
      <4> QED
        BY <4>1, <4>2 DEF OpenOf, WorkOf, OpenState
    <3>2. CASE work[w].kind # "leave"
      BY <3>2 DEF OpenOf
    <3> QED
      BY <3>1, <3>2
  <2>2. /\ job.step = "return" /\ job.kind = work[w].kind
        /\ job.agent = work[w].agent /\ job.todo = list
    <3> HIDE DEF list
    <3> QED
      BY <1>0 DEF Step, Works
  <2>3. Become(w, job)
    BY <1>4 DEF List, Listed
  <2> HIDE DEF job, list
  <2>4. work'[w] = job /\ \A v \in Workers \ {w} : work'[v] = work[v]
    BY <2>3, OwnRecord
  <2>5. job.agent = a /\ OpenOf(a)' \subseteq job.todo
    BY <1>2, <1>3, <2>1, <2>2
  <2> QED
    BY <1>1, <2>2, <2>4, <2>5 DEF ShedOK, Shedding
<1>5. CASE ListEnds(w) /\ Done(w)
  BY <1>5, OwnRecord, RestSheds DEF Done, ShedOK
<1>6. CASE ListEnds(w) /\ ~Done(w)
  <2> DEFINE job == Step(w, "away")
  <2>1. job.step = "away" /\ job.kind = work[w].kind /\ job.agent = work[w].agent
    BY <1>0 DEF Step, Works
  <2>2. Become(w, job) /\ OpenOf(work[w].agent) = {}
    BY <1>1, <1>6 DEF ListEnds, ShedOK
  <2> HIDE DEF job
  <2>3. work'[w] = job /\ \A v \in Workers \ {w} : work'[v] = work[v]
    BY <2>2, OwnRecord
  <2>4. job.agent = a /\ OpenOf(a)' = {}
    BY <1>2, <1>3, <2>1, <2>2
  <2> QED
    BY <1>1, <2>1, <2>3, <2>4 DEF ShedOK, Shedding
<1> QED
  BY <1>4, <1>5, <1>6

LEMMA ReturnSheds ==
  ASSUME WorkInv, NEW w \in Workers, ShedOK(w), ReturnToOrigin(w)
  PROVE  ShedOK(w)' /\ \A v \in Workers \ {w} : work'[v] = work[v]
<1>0. work[w] \in Works /\ UNCHANGED <<owner, state>> /\ work[w].step = "return"
  BY RecordType DEF ReturnToOrigin
<1>1. Shedding(work[w]) /\ work[w].agent \in Agents
  BY <1>0 DEF WorkInv, WorkOK, JobOK, Shedding, ShedOK
<1>2. PICK t \in work[w].todo :
        Become(w, [Step(w, "replace") EXCEPT
                     !.ticket = t, !.todo = @ \ {t}, !.strays = @ \ {t},
                     !.from = IF t \in work[w].strays THEN owner[t] ELSE work[w].agent])
  BY DEF ReturnToOrigin
<1> DEFINE from == IF t \in work[w].strays THEN owner[t] ELSE work[w].agent
           job  == [Step(w, "replace") EXCEPT
                      !.ticket = t, !.todo = @ \ {t}, !.strays = @ \ {t}, !.from = from]
<1>3. t \in OpenOf(work[w].agent) => from = work[w].agent
  BY DEF OpenOf, WorkOf
<1>4. /\ job.step = "replace" /\ job.kind = work[w].kind /\ job.agent = work[w].agent
      /\ job.ticket = t /\ job.from = from /\ job.todo = work[w].todo \ {t}
  <2> HIDE DEF from
  <2> QED
    BY <1>0 DEF Step, Works
<1>5. Become(w, job)
  BY <1>2
<1> HIDE DEF job, from
<1>6. work'[w] = job /\ \A v \in Workers \ {w} : work'[v] = work[v]
  BY <1>5, OwnRecord
<1>7. OpenOf(work[w].agent) \subseteq work[w].todo
  BY <1>0, <1>1 DEF ShedOK
<1>8. PICK a \in Agents : a = work[w].agent
  BY <1>1
<1>9. OpenOf(a)' = OpenOf(a)
  BY <1>0 DEF OpenOf, WorkOf
<1>10. /\ job.agent = a
       /\ OpenOf(a)' \subseteq job.todo \cup {job.ticket}
       /\ job.ticket \in OpenOf(a)' => job.from = a
  BY <1>3, <1>4, <1>7, <1>8, <1>9
<1> QED
  BY <1>1, <1>4, <1>6, <1>10 DEF ShedOK, Shedding

LEMMA ReplaceSheds ==
  ASSUME WorkInv, NEW w \in Workers, ShedOK(w), FindReplacement(w)
  PROVE  ShedOK(w)' /\ \A v \in Workers \ {w} : work'[v] = work[v]
<1>0. work[w] \in Works /\ UNCHANGED <<owner, state>> /\ work[w].step = "replace"
  BY RecordType DEF FindReplacement, ticketVars
<1>1. Shedding(work[w]) /\ work[w].agent \in Agents
  BY <1>0 DEF WorkInv, WorkOK, JobOK, Shedding, ShedOK
<1>2. PICK a \in Agents : a = work[w].agent
  BY <1>1
<1>3. PICK b \in AssignIn(work[w].ticket, Origin[work[w].ticket], {work[w].agent}) :
        Become(w, [Step(w, "move") EXCEPT !.to = b])
  BY DEF FindReplacement
<1>4. b # a
  BY <1>2, <1>3, AssignInAnswers, DirectoryAssumption DEF Null
<1> DEFINE job == [Step(w, "move") EXCEPT !.to = b]
<1>5. /\ job.step = "move" /\ job.kind = work[w].kind /\ job.agent = a /\ job.to = b
      /\ job.ticket = work[w].ticket /\ job.from = work[w].from /\ job.todo = work[w].todo
  BY <1>0, <1>2 DEF Step, Works
<1>6. work'[w] = job /\ \A v \in Workers \ {w} : work'[v] = work[v]
  BY <1>3, OwnRecord
<1> HIDE DEF job
<1>7. OpenOf(a)' = OpenOf(a)
  BY <1>0 DEF OpenOf, WorkOf
<1>8. /\ OpenOf(a) \subseteq work[w].todo \cup {work[w].ticket}
      /\ work[w].ticket \in OpenOf(a) => work[w].from = a
  BY <1>0, <1>1, <1>2 DEF ShedOK
<1>9. /\ OpenOf(a)' \subseteq job.todo \cup {job.ticket}
      /\ job.ticket \in OpenOf(a)' => job.from = a
  BY <1>5, <1>7, <1>8
<1> QED
  BY <1>1, <1>4, <1>5, <1>6, <1>9 DEF ShedOK, Shedding

(* The ticket in hand leaves the agent, or was not theirs any more. *)
LEMMA HandOnSheds ==
  ASSUME WorkInv, NEW w \in Workers, ShedOK(w), HandOn(w)
  PROVE  ShedOK(w)' /\ \A v \in Workers \ {w} : work'[v] = work[v]
<1>0. /\ work[w] \in Works /\ state' = state
      /\ work[w].step = "move" /\ Shedding(work[w])
      /\ MoveTo(work[w].ticket, work[w].from, work[w].to)
  BY RecordType DEF HandOn, Shedding
<1>1. PICK a \in Agents : a = work[w].agent
  BY <1>0 DEF ShedOK
<1>2. /\ OpenOf(a) \subseteq work[w].todo \cup {work[w].ticket}
      /\ work[w].ticket \in OpenOf(a) => work[w].from = a
      /\ work[w].to # a
  BY <1>0, <1>1 DEF ShedOK
<1> DEFINE job == [Step(w, "return") EXCEPT !.ticket = Null, !.from = Null, !.to = Null]
<1>3. /\ job.step = "return" /\ job.kind = work[w].kind /\ job.agent = a
      /\ job.todo = work[w].todo
  BY <1>0, <1>1 DEF Step, Works
<1>4. work'[w] = job /\ \A v \in Workers \ {w} : work'[v] = work[v]
  BY OwnRecord DEF HandOn
<1> HIDE DEF job
<1>5. ASSUME NEW t \in Tickets, t \in OpenOf(a)'
      PROVE  t \in work[w].todo
  <2>1. owner'[t] = a /\ state[t] \in OpenState
    BY <1>0, <1>5 DEF OpenOf, WorkOf
  <2>2. t # work[w].ticket => owner[t] = a
    BY <1>0, <2>1 DEF MoveTo, WorkInv, DirectoryTypeOK
  <2>3. t = work[w].ticket => ~Moves(t, work[w].from) /\ owner[t] = a
    BY <1>0, <1>2, <2>1 DEF MoveTo, WorkInv, DirectoryTypeOK
  <2>4. t \in OpenOf(a)
    BY <2>1, <2>2, <2>3 DEF OpenOf, WorkOf
  <2>5. t # work[w].ticket
    BY <1>2, <2>1, <2>3, <2>4 DEF Moves, Open
  <2> QED
    BY <1>2, <2>4, <2>5
<1>6. OpenOf(a)' \subseteq job.todo
  BY <1>3, <1>5 DEF OpenOf, WorkOf
<1> QED
  BY <1>0, <1>3, <1>4, <1>6 DEF ShedOK, Shedding

LEMMA SoleKept ==
  ASSUME DeskInv, SoleInv, [Next]_vars
  PROVE  SoleInv'
<1> SUFFICES ASSUME NEW w \in Workers, crew = {w}
             PROVE  (\A v \in Workers \ {w} : work'[v].step = "idle") /\ ShedOK(w)'
  BY FixedFrame DEF SoleInv, SoleOK, fixedVars
<1>0. WorkInv /\ ShedOK(w) /\ \A v \in Workers \ {w} : work[v].step = "idle"
  BY DEF DeskInv, SoleInv, SoleOK
<1>1. ASSUME work' = work, ~Shedding(work[w]) \/ UNCHANGED <<owner, state>>
      PROVE  (\A v \in Workers \ {w} : work'[v].step = "idle") /\ ShedOK(w)'
  <2>1. CASE ~Shedding(work[w])
    BY <1>0, <1>1, <2>1 DEF ShedOK, Shedding
  <2>2. CASE UNCHANGED <<owner, state>>
    BY <1>0, <1>1, <2>2 DEF ShedOK, Shedding, OpenOf, WorkOf
  <2> QED
    BY <1>1, <2>1, <2>2
<1>2. CASE Alone /\ Surroundings
  <2>1. Cardinality(crew) = 1
    BY FS_Singleton
  <2>2. ~Shedding(work[w])
    BY <1>0, <1>2, <2>1 DEF Alone, Free, ShedOK
  <2>3. work' = work
    BY <1>2 DEF Surroundings, SetPresence, Enable, Progress
  <2> QED
    BY <1>1, <2>2, <2>3
<1>3. CASE UNCHANGED <<accountVars, ticketVars, work>>
  BY <1>1, <1>3 DEF ticketVars
<1>4. ASSUME NEW v \in Workers, WorkloadStep(v)
      PROVE  (\A u \in Workers \ {w} : work'[u].step = "idle") /\ ShedOK(w)'
  <2>1. v = w
    BY <1>0, <1>4, OnlyCrew
  <2>2. ShedOK(w)' /\ \A u \in Workers \ {w} : work'[u] = work[u]
    <3>1. Movers \subseteq Agents
      BY WorkloadAssumption
    <3> QED
      BY <1>0, <1>4, <2>1, <3>1, OtherJobs, LeaveStarts, ListSheds, ReturnSheds, ReplaceSheds,
         HandOnSheds DEF WorkloadStep, ShedStep
  <2> QED
    BY <1>0, <2>2
<1> QED
  BY <1>2, <1>3, <1>4, WorkFrame

LEMMA SoleStarted == Init => SoleInv
BY RestSheds DEF Init, WorkloadInit, SoleInv, SoleOK, ShedOK

(* Run to its end alone, a handler that hands on an agent's work leaves the  *)
(* agent with nothing open. *)
THEOREM LeavesEmptyHandedHolds == Spec => LeavesEmptyHanded
<1>1. DeskInv /\ SoleInv /\ [Next]_vars
        => [\A w \in Workers :
              /\ crew = {w} /\ work[w].kind \in {"leave", "shed"}
              /\ work'[w].step = "idle"
              => Load(work[w].agent) = 0]_work
  <2> SUFFICES ASSUME DeskInv, SoleInv, [Next]_vars, work' # work, NEW w \in Workers,
                      crew = {w}, Shedding(work[w]), work'[w].step = "idle"
               PROVE  Load(work[w].agent) = 0
    BY DEF Shedding
  <2>1. ShedOK(w) /\ \A v \in Workers \ {w} : work[v].step = "idle"
    BY DEF SoleInv, SoleOK
  <2>2. PICK v \in Workers : WorkloadStep(v)
    BY WorkFrame DEF Surroundings, SetPresence, Enable, Progress
  <2>3. WorkloadStep(w)
    BY <2>1, <2>2, OnlyCrew
  <2>4. OpenOf(work[w].agent) = {}
    <3>1. /\ work[w].step \in {"list", "return", "replace", "move", "away"}
          /\ work[w].kind \in {"leave", "shed"}
      BY <2>1 DEF ShedOK, Shedding
    <3>2. ASSUME NEW job, Become(w, job)
          PROVE  job.step = "idle"
      BY <3>2, OwnRecord DEF DeskInv
    <3>3. CASE List(w) \/ ListEnds(w) \/ ReturnToOrigin(w) \/ FindReplacement(w) \/ HandOn(w)
      <4>1. work[w] \in Works
        BY RecordType DEF DeskInv
      <4>2. CASE ListEnds(w)
        <5>1. OpenOf(work[w].agent) \subseteq {}
          BY <2>1, <4>2 DEF ListEnds, ShedOK
        <5> QED
          BY <5>1
      <4>3. CASE List(w)
        <5> DEFINE list == WorkOf(work[w].agent,
                                  IF work[w].kind = "leave" THEN {"NEW"} ELSE OpenState)
                   job  == [Step(w, "return") EXCEPT
                              !.todo = list, !.strays = {t \in list : group[t] # Origin[t]}]
        <5>1. job.step = "return"
          <6> HIDE DEF list
          <6> QED
            BY <4>1 DEF Step, Works
        <5>2. Become(w, job)
          BY <4>3 DEF List, Listed
        <5> HIDE DEF job
        <5> QED
          BY <3>2, <5>1, <5>2
      <4>4. CASE ReturnToOrigin(w)
        <5>1. PICK t, from : Become(w, [Step(w, "replace") EXCEPT
                !.ticket = t, !.todo = @ \ {t}, !.strays = @ \ {t}, !.from = from])
          BY <4>4 DEF ReturnToOrigin
        <5>2. [Step(w, "replace") EXCEPT !.ticket = t, !.todo = @ \ {t}, !.strays = @ \ {t},
                                         !.from = from].step = "replace"
          BY <4>1 DEF Step, Works
        <5> QED
          BY <3>2, <5>1, <5>2
      <4>5. CASE FindReplacement(w)
        <5>1. PICK a : Become(w, [Step(w, "move") EXCEPT !.to = a])
          BY <4>5 DEF FindReplacement
        <5>2. [Step(w, "move") EXCEPT !.to = a].step = "move"
          BY <4>1 DEF Step, Works
        <5> QED
          BY <3>2, <5>1, <5>2
      <4>6. CASE HandOn(w)
        <5>1. [Step(w, "return") EXCEPT !.ticket = Null, !.from = Null, !.to = Null].step
                = "return"
          BY <4>1 DEF Step, Works
        <5> QED
          BY <3>2, <4>6, <5>1 DEF HandOn
      <4> QED
        BY <3>3, <4>2, <4>3, <4>4, <4>5, <4>6
    <3>4. CASE GoAway(w)
      BY <2>1, <3>4 DEF GoAway, ShedOK
    <3>5. ~(\/ MoveStep(w) \/ StartCycle(w) \/ Continue(w) \/ Unassign(w)
            \/ \E a \in Movers : \/ StartLeave(w, a) \/ Disable(w, a) \/ ForceAway(w, a)
                                 \/ \E g \in Groups : SetPrimary(w, a, g))
      BY <3>1 DEF MoveStep, StartArrive, StartTake, StartAssign, StartRegroup, Arrive, Take,
                  AssignByHand, Regroup, StartCycle, Continue, Weigh, Rebalance, Unassign,
                  StartLeave, Disable, ForceAway, SetPrimary, Ready
    <3> QED
      BY <2>3, <3>3, <3>4, <3>5 DEF WorkloadStep, ShedStep
  <2> QED
    BY <2>4, FS_EmptySet DEF OpenOf, Load
<1> QED
  BY <1>1, DeskInvHolds, SoleStarted, SoleKept, PTL DEF Spec, LeavesEmptyHanded

-----------------------------------------------------------------------------
(* Urgent tickets.  What the engine and the balancer decide never gives one  *)
(* to a supporter of its group as the rows are when they are read; a         *)
(* decision in flight stays true while no row it rests on changes: because   *)
(* its handler runs alone, or because nothing in the mix writes those rows.  *)

Deciding(job) ==
  /\ job.step \in {"move", "write"}
  /\ job.kind \in {"arrive", "leave", "shed", "rebalance"}
  /\ job.ticket \in Urgent /\ job.to # Null

Sparing(job) ==
  Deciding(job) =>
    /\ job.kind = "arrive" => ~Supports(job.to, job.team)
    /\ job.kind \in {"leave", "shed"} => ~Supports(job.to, Origin[job.ticket])
    /\ job.kind = "rebalance" => ~Supports(job.to, group[job.ticket])

(* The operation of the mix that a handler in flight is of. *)
JobOf(kind) == IF kind = "shed" THEN "accounts" ELSE kind

Fitting(job) == /\ job.step = "weigh" => job.kind = "rebalance"
                /\ job.kind # "none" => JobOf(job.kind) \in mix

InMix(w) ==
  /\ Fitting(work[w])
  /\ tx[w].step # "idle" => "groups" \in mix
  /\ w \notin crew => work[w].step = "idle" /\ tx[w].step = "idle"

(* No operation of these writes a row that a decision rests on: memberships  *)
(* and primary groups, and for the balancer the groups of tickets.           *)
Still(ops) ==
  /\ ops \cap {"groups", "accounts"} = {}
  /\ "rebalance" \in ops => ops \cap {"arrive", "leave", "regroup"} = {}

(* None of these decides by itself who gets a ticket. *)
Undeciding(ops) == ops \cap {"arrive", "leave", "accounts", "rebalance"} = {}

Settled(ops, staff) ==
  (\E w \in Workers : staff = {w}) \/ Still(ops) \/ Undeciding(ops)

SpareInv == /\ Settled(mix, crew)
            /\ \A w \in Workers : InMix(w) /\ Sparing(work[w])

(* The engine's answers. *)
LEMMA SearchSpares ==
  ASSUME NEW t \in Urgent, NEW g, NEW fit, NEW a \in Search(t, g, fit), a # Null
  PROVE  ~Supports(a, g)
<1>1. a \in InGroup(t, g, fit) \/ a \in Elsewhere(t, g, fit)
  BY DEF Search, Lightest, UnderCap
<1>2. CASE a \in InGroup(t, g, fit)
  BY <1>2 DEF InGroup, Supports
<1>3. CASE a \in Elsewhere(t, g, fit)
  BY <1>3 DEF Elsewhere, Supports
<1> QED
  BY <1>1, <1>2, <1>3

LEMMA AssignSpares ==
  ASSUME NEW t \in Urgent, NEW addressed, NEW a \in Assign(t, addressed), a # Null
  PROVE  ~Supports(a, Routed[t])
<1> DEFINE g   == Routed[t]
           fit == Fit(Bar[t], {})
<1>1. Usable(a, t, g, fit) \/ a \in Search(t, g, fit)
  BY DEF Assign
<1> HIDE DEF g, fit
<1>2. CASE Usable(a, t, g, fit)
  BY <1>2 DEF Usable, Supports, g
<1>3. CASE a \in Search(t, g, fit)
  BY <1>3, SearchSpares DEF g
<1> QED
  BY <1>1, <1>2, <1>3

(* The balancer's choice: a ticket without a group has no supporters. *)
LEMMA BalancerSpares ==
  ASSUME WorkInv, NEW m \in NextMoves, m.ticket \in Urgent
  PROVE  ~Supports(m.to, group[m.ticket])
<1>1. m.ticket \in Candidates(m.from, m.to)
  BY DEF NextMoves
<1>2. Qualified(m.to, m.ticket)
  BY <1>1 DEF Candidates
<1>3. group[m.ticket] \in {primary[m.to], Null}
  BY <1>2 DEF Qualified
<1>4. ~HasRow(m.to, Null)
  BY DirectoryAssumption DEF HasRow, WorkInv, DirectoryTypeOK, Rows, Null
<1> QED
  BY <1>3, <1>4 DEF Supports

LEMMA RestFits == Fitting(Rest) /\ Sparing(Rest)
BY DEF Fitting, Sparing, Deciding, Rest

LEMMA NewJobFits ==
  ASSUME WorkInv, NEW w \in Workers, NEW job, Become(w, job), Fitting(job),
         Sparing(job) \/ ~Deciding(job), UNCHANGED <<mix, primary, member>>,
         job.kind = "rebalance" /\ Deciding(job) => group' = group
  PROVE  Fitting(work[w])' /\ Sparing(work[w])'
<1>1. work'[w] = job
  BY OwnRecord
<1> QED
  BY <1>1 DEF Fitting, Sparing, Deciding, Supports, HasRow

(* What each step of a handler leaves it with, whatever the others do. *)
LEMMA MovesFit ==
  ASSUME WorkInv, NEW w \in Workers, MoveStep(w), UNCHANGED <<mix, member>>
  PROVE  Fitting(work[w])' /\ Sparing(work[w])'
<1>0. UNCHANGED primary
  BY DEF MoveStep, StartArrive, StartTake, StartAssign, StartRegroup, Arrive, Take,
         AssignByHand, Regroup
<1>1. CASE Done(w)
  BY <1>0, <1>1, RestFits, NewJobFits DEF Done, Deciding, Rest
<1>2. ASSUME NEW t \in Tickets, NEW a \in Owners, StartArrive(w, t, a)
      PROVE  Fitting(work[w])' /\ Sparing(work[w])'
  <2>1. PICK b \in Assign(t, a) :
          Become(w, [Rest EXCEPT !.step = "write", !.kind = "arrive", !.ticket = t,
                                 !.to = b, !.team = Routed[t]])
    BY <1>2 DEF StartArrive
  <2> DEFINE job == [Rest EXCEPT !.step = "write", !.kind = "arrive", !.ticket = t,
                                 !.to = b, !.team = Routed[t]]
  <2>2. /\ job.step = "write" /\ job.kind = "arrive" /\ job.ticket = t
        /\ job.to = b /\ job.team = Routed[t]
    BY DEF Rest
  <2>3. Become(w, job) /\ "arrive" \in mix
    BY <1>2, <2>1 DEF StartArrive, Ready
  <2> HIDE DEF job
  <2>4. Sparing(job)
    BY <2>1, <2>2, AssignSpares DEF Sparing, Deciding
  <2>5. Fitting(job) /\ job.kind # "rebalance"
    BY <2>2, <2>3 DEF Fitting, JobOf
  <2> QED
    BY <1>0, <2>3, <2>4, <2>5, NewJobFits
<1>3. ASSUME NEW job, Become(w, job), job.step # "weigh",
             job.kind \in {"take", "assign", "regroup"}, job.kind \in mix
      PROVE  Fitting(work[w])' /\ Sparing(work[w])'
  <2>1. Fitting(job) /\ ~Deciding(job)
    BY <1>3 DEF Fitting, Deciding, JobOf
  <2> QED
    BY <1>0, <1>3, <2>1, NewJobFits
<1>4. ASSUME NEW t \in Tickets, NEW a \in Agents, StartTake(w, a, t)
      PROVE  Fitting(work[w])' /\ Sparing(work[w])'
  <2> DEFINE job == [Rest EXCEPT !.step = "move", !.kind = "take", !.agent = a,
                                 !.ticket = t, !.from = owner[t], !.to = a]
  <2>1. job.step = "move" /\ job.kind = "take" /\ Become(w, job) /\ "take" \in mix
    BY <1>4 DEF Rest, StartTake, Ready
  <2> HIDE DEF job
  <2> QED
    BY <1>3, <2>1
<1>5. ASSUME NEW t \in Tickets, NEW p \in Agents, NEW b \in Agents, StartAssign(w, p, t, b)
      PROVE  Fitting(work[w])' /\ Sparing(work[w])'
  <2> DEFINE job == [Rest EXCEPT !.step = "write", !.kind = "assign", !.ticket = t, !.to = b]
  <2>1. job.step = "write" /\ job.kind = "assign" /\ Become(w, job) /\ "assign" \in mix
    BY <1>5 DEF Rest, StartAssign, Ready
  <2> HIDE DEF job
  <2> QED
    BY <1>3, <2>1
<1>6. ASSUME NEW t \in Tickets, NEW g \in Groups, StartRegroup(w, t, g)
      PROVE  Fitting(work[w])' /\ Sparing(work[w])'
  <2>1. PICK to : Become(w, [Rest EXCEPT !.step = "write", !.kind = "regroup",
                               !.ticket = t, !.team = g, !.from = owner[t], !.to = to])
    BY <1>6 DEF StartRegroup
  <2> DEFINE job == [Rest EXCEPT !.step = "write", !.kind = "regroup",
                       !.ticket = t, !.team = g, !.from = owner[t], !.to = to]
  <2>2. job.step = "write" /\ job.kind = "regroup" /\ Become(w, job) /\ "regroup" \in mix
    BY <1>6, <2>1 DEF Rest, StartRegroup, Ready
  <2> HIDE DEF job
  <2> QED
    BY <1>3, <2>2
<1> QED
  BY <1>1, <1>2, <1>4, <1>5, <1>6 DEF MoveStep, Arrive, Take, AssignByHand, Regroup

LEMMA BalancerFits ==
  ASSUME WorkInv, NEW w \in Workers, Fitting(work[w]), StartCycle(w) \/ Continue(w),
         UNCHANGED <<mix, member>>
  PROVE  Fitting(work[w])' /\ Sparing(work[w])'
<1>0. UNCHANGED <<primary, group>>
  BY DEF StartCycle, Continue, Weigh, Rebalance, ticketVars
<1>1. CASE Done(w)
  BY <1>0, <1>1, RestFits, NewJobFits DEF Done, Deciding, Rest
<1>2. ASSUME NEW left, "rebalance" \in mix,
             Become(w, [Rest EXCEPT !.step = "weigh", !.kind = "rebalance", !.left = left])
      PROVE  Fitting(work[w])' /\ Sparing(work[w])'
  <2> DEFINE job == [Rest EXCEPT !.step = "weigh", !.kind = "rebalance", !.left = left]
  <2>1. job.step = "weigh" /\ job.kind = "rebalance"
    BY DEF Rest
  <2>2. Fitting(job) /\ ~Deciding(job)
    BY <1>2, <2>1 DEF Fitting, Deciding, JobOf
  <2> QED
    BY <1>0, <1>2, <2>2, NewJobFits
<1>3. CASE StartCycle(w)
  BY <1>2, <1>3 DEF StartCycle, Ready
<1>4. CASE Weigh(w) /\ ~Done(w)
  <2>1. PICK m \in NextMoves :
          Become(w, [work[w] EXCEPT !.step = "move", !.ticket = m.ticket,
                                    !.from = m.from, !.to = m.to])
    BY <1>4 DEF Weigh
  <2> DEFINE job == [work[w] EXCEPT !.step = "move", !.ticket = m.ticket,
                                    !.from = m.from, !.to = m.to]
  <2>2. work[w].kind = "rebalance" /\ "rebalance" \in mix
    BY <1>4 DEF Weigh, Fitting, JobOf
  <2>3. /\ job.step = "move" /\ job.kind = "rebalance"
        /\ job.ticket = m.ticket /\ job.to = m.to
    BY <2>2, RecordType DEF Works
  <2> HIDE DEF job
  <2>4. Sparing(job)
    BY <2>3, BalancerSpares DEF Sparing, Deciding
  <2>5. Fitting(job) /\ Become(w, job)
    BY <2>1, <2>2, <2>3 DEF Fitting, JobOf, job
  <2> QED
    BY <1>0, <2>4, <2>5, NewJobFits
<1>5. CASE Rebalance(w) /\ ~Done(w)
  <2>1. "rebalance" \in mix
    BY <1>5 DEF Rebalance, Fitting, JobOf
  <2> QED
    BY <1>2, <1>5, <2>1 DEF Rebalance
<1> QED
  BY <1>1, <1>3, <1>4, <1>5 DEF Continue

LEMMA ShedFits ==
  ASSUME WorkInv, NEW w \in Workers, Fitting(work[w]), ShedStep(w), UNCHANGED <<mix, member>>,
         UNCHANGED primary \/ \E a \in Movers, g \in Groups : SetPrimary(w, a, g)
  PROVE  Fitting(work[w])' /\ Sparing(work[w])'
<1>0. work[w] \in Works
  BY RecordType
<1>1. ASSUME NEW job, Become(w, job), job.step \notin {"weigh", "move", "write"},
             job.kind # "none" => JobOf(job.kind) \in mix
      PROVE  Fitting(work[w])' /\ Sparing(work[w])'
  <2>1. work'[w] = job
    BY <1>1, OwnRecord
  <2> QED
    BY <1>1, <2>1 DEF Fitting, Sparing, Deciding
<1>2. CASE Done(w)
  BY <1>1, <1>2 DEF Done, Rest
<1>3. work[w].step # "idle" /\ work[w].kind # "none" => JobOf(work[w].kind) \in mix
  BY DEF Fitting
<1>4. ASSUME NEW a \in Movers, StartLeave(w, a)
      PROVE  Fitting(work[w])' /\ Sparing(work[w])'
  <2> DEFINE job == [Rest EXCEPT !.step = "list", !.kind = "leave", !.agent = a]
  <2>1. job.step = "list" /\ job.kind = "leave" /\ Become(w, job) /\ "leave" \in mix
    BY <1>4 DEF Rest, StartLeave, Ready
  <2> HIDE DEF job
  <2> QED
    BY <1>1, <2>1 DEF JobOf
<1>5. ASSUME NEW a \in Movers, Disable(w, a) \/ ForceAway(w, a)
      PROVE  Fitting(work[w])' /\ Sparing(work[w])'
  <2> DEFINE job == [Rest EXCEPT !.step = "list", !.kind = "shed", !.agent = a]
  <2>1. job.step = "list" /\ job.kind = "shed" /\ Become(w, job) /\ "accounts" \in mix
    BY <1>5 DEF Rest, Disable, ForceAway, Ready
  <2> HIDE DEF job
  <2> QED
    BY <1>1, <2>1 DEF JobOf
<1>6. ASSUME NEW a \in Movers, NEW g \in Groups, SetPrimary(w, a, g)
      PROVE  Fitting(work[w])' /\ Sparing(work[w])'
  <2> DEFINE job == [Rest EXCEPT !.step = "unassign", !.agent = a]
  <2>1. job.step = "unassign" /\ job.kind = "none" /\ Become(w, job)
    BY <1>6 DEF Rest, SetPrimary
  <2> HIDE DEF job
  <2> QED
    BY <1>1, <2>1
<1>7. CASE List(w)
  <2>1. PICK todo, strays : Become(w, [Step(w, "return") EXCEPT !.todo = todo, !.strays = strays])
    BY <1>7 DEF List, Listed
  <2>2. /\ [Step(w, "return") EXCEPT !.todo = todo, !.strays = strays].step = "return"
        /\ [Step(w, "return") EXCEPT !.todo = todo, !.strays = strays].kind = work[w].kind
    BY <1>0 DEF Step, Works
  <2> QED
    BY <1>1, <1>3, <1>7, <2>1, <2>2 DEF List
<1>8. CASE ListEnds(w) /\ ~Done(w)
  <2>1. Step(w, "away").step = "away" /\ Step(w, "away").kind = work[w].kind
    BY <1>0 DEF Step, Works
  <2> QED
    BY <1>1, <1>3, <1>8, <2>1 DEF ListEnds
<1>9. CASE ReturnToOrigin(w)
  <2>1. PICK t, from : Become(w, [Step(w, "replace") EXCEPT
          !.ticket = t, !.todo = @ \ {t}, !.strays = @ \ {t}, !.from = from])
    BY <1>9 DEF ReturnToOrigin
  <2> DEFINE job == [Step(w, "replace") EXCEPT !.ticket = t, !.todo = @ \ {t},
                                               !.strays = @ \ {t}, !.from = from]
  <2>2. job.step = "replace" /\ job.kind = work[w].kind
    BY <1>0 DEF Step, Works
  <2> QED
    BY <1>1, <1>3, <1>9, <2>1, <2>2 DEF ReturnToOrigin
<1>10. CASE HandOn(w)
  <2> DEFINE job == [Step(w, "return") EXCEPT !.ticket = Null, !.from = Null, !.to = Null]
  <2>1. job.step = "return" /\ job.kind = work[w].kind
    BY <1>0 DEF Step, Works
  <2> QED
    BY <1>1, <1>3, <1>10, <2>1 DEF HandOn
<1>11. CASE FindReplacement(w)
  <2>1. PICK b \in AssignIn(work[w].ticket, Origin[work[w].ticket], {work[w].agent}) :
          Become(w, [Step(w, "move") EXCEPT !.to = b])
    BY <1>11 DEF FindReplacement
  <2> DEFINE job == [Step(w, "move") EXCEPT !.to = b]
  <2>2. /\ job.step = "move" /\ job.kind = work[w].kind /\ job.to = b
        /\ job.ticket = work[w].ticket
    BY <1>0 DEF Step, Works
  <2>3. work[w].kind \in {"leave", "shed"} /\ UNCHANGED primary
    BY <1>11 DEF FindReplacement, WorkInv, WorkOK, JobOK
  <2>4. Become(w, job)
    BY <2>1
  <2> HIDE DEF job
  <2>5. Sparing(job) /\ Fitting(job) /\ job.kind # "rebalance"
    <3>1. job.ticket \in Urgent /\ b # Null => ~Supports(b, Origin[job.ticket])
      BY <2>1, <2>2, SearchSpares DEF AssignIn
    <3> QED
      BY <1>3, <1>11, <2>2, <2>3, <3>1 DEF Sparing, Deciding, Fitting, FindReplacement
  <2> QED
    BY <2>3, <2>4, <2>5, NewJobFits
<1> QED
  BY <1>2, <1>4, <1>5, <1>6, <1>7, <1>8, <1>9, <1>10, <1>11
  DEF ShedStep, GoAway, Unassign

LEMMA StepFits ==
  ASSUME WorkInv, NEW w \in Workers, Fitting(work[w]), WorkloadStep(w),
         UNCHANGED <<mix, member>>
  PROVE  Fitting(work[w])' /\ Sparing(work[w])' /\ \A v \in Workers \ {w} : work'[v] = work[v]
<1>1. \A v \in Workers \ {w} : work'[v] = work[v]
  BY OwnRecord DEF WorkloadStep, MoveStep, ShedStep, Continue, StartArrive, StartTake,
       StartAssign, StartRegroup, Arrive, Take, AssignByHand, Regroup, StartLeave, Disable,
       ForceAway, SetPrimary, List, Listed, ListEnds, ReturnToOrigin, FindReplacement, HandOn,
       GoAway, Unassign, StartCycle, Weigh, Rebalance, Done
<1>2. CASE ShedStep(w)
  <2>1. UNCHANGED primary \/ \E a \in Movers, g \in Groups : SetPrimary(w, a, g)
    BY <1>2 DEF ShedStep, StartLeave, Disable, ForceAway, List, ListEnds, ReturnToOrigin,
                FindReplacement, HandOn, GoAway, Unassign
  <2> QED
    BY <1>1, <1>2, <2>1, ShedFits
<1> QED
  BY <1>1, <1>2, MovesFit, BalancerFits DEF WorkloadStep

LEMMA SpareFrame ==
  [Next]_vars =>
    /\ UNCHANGED fixedVars
    /\ \/ UNCHANGED <<member, primary, group, work, tx>>
       \/ \E w \in Workers : WorkloadStep(w) /\ UNCHANGED <<member, tx>>
       \/ \E w \in Workers : /\ work[w].step = "idle" /\ GroupsStep(w)
                             /\ UNCHANGED <<group, work>>
BY DEF Next, Outside, Surroundings, SetPresence, Enable, Progress, Lapse, Remote, Grouping,
       Working, vars, fixedVars, accountVars, ticketVars, groupVars

(* What a job in flight rests on does not move. *)
LEMMA StaysSpared ==
  ASSUME NEW v \in Workers, InMix(v), Sparing(work[v]), work'[v] = work[v],
         UNCHANGED <<mix, crew, primary, member>>, tx'[v] = tx[v],
         work[v].kind = "rebalance" /\ Deciding(work[v])
           => group'[work[v].ticket] = group[work[v].ticket]
  PROVE  InMix(v)' /\ Sparing(work[v])'
BY DEF InMix, Fitting, Sparing, Deciding, Supports, HasRow

LEMMA TxInMix ==
  ASSUME GroupsTypeOK, NEW w \in Workers, GroupsStep(w), UNCHANGED <<mix, crew>>
  PROVE  /\ \A v \in Workers \ {w} : tx'[v] = tx[v]
         /\ tx[w].step # "idle" \/ ("groups" \in mix /\ w \in crew)
BY DEF GroupsTypeOK, GroupsStep, StartAdd, Demote, InsertMember, Commit, Rollback, StartRemove,
       DeleteRow, CommitRemoval, Beginning

(* A step of a handler that writes no membership moves no primary group and  *)
(* no group of a ticket behind the back of a mix that stands still.          *)
LEMMA StillRows ==
  ASSUME WorkInv, Still(mix), NEW w \in Workers, Fitting(work[w]), WorkloadStep(w)
  PROVE  /\ UNCHANGED primary
         /\ "rebalance" \in mix => UNCHANGED group
<1>1. UNCHANGED primary
  <2>1. ~\E a \in Movers, g \in Groups : SetPrimary(w, a, g)
    BY DEF SetPrimary, Ready, Still
  <2> QED
    BY <2>1 DEF WorkloadStep, MoveStep, ShedStep, Continue, StartArrive, StartTake, StartAssign,
         StartRegroup, Arrive, Take, AssignByHand, Regroup, StartLeave, Disable, ForceAway,
         List, ListEnds, ReturnToOrigin, FindReplacement, HandOn, GoAway, Unassign, StartCycle,
         Weigh, Rebalance
<1>2. ASSUME "rebalance" \in mix
      PROVE  UNCHANGED group
  <2>1. mix \cap {"arrive", "leave", "regroup", "accounts"} = {}
    BY <1>2 DEF Still
  <2>2. ~Arrive(w) /\ ~Regroup(w) /\ ~ReturnToOrigin(w)
    BY <2>1 DEF Arrive, Regroup, ReturnToOrigin, Fitting, JobOf, WorkInv, WorkOK, JobOK
  <2> QED
    BY <2>2 DEF WorkloadStep, MoveStep, ShedStep, Continue, StartArrive, StartTake, StartAssign,
         StartRegroup, Take, AssignByHand, StartLeave, Disable, ForceAway, SetPrimary,
         List, ListEnds, FindReplacement, HandOn, GoAway, Unassign, StartCycle,
         Weigh, Rebalance, ticketVars
<1> QED
  BY <1>1, <1>2

LEMMA SpareKept ==
  ASSUME DeskInv, SpareInv, [Next]_vars
  PROVE  SpareInv'
<1> USE DEF SpareInv
<1>0. WorkInv /\ UNCHANGED <<mix, crew>>
  BY SpareFrame DEF DeskInv, fixedVars
<1>1. Settled(mix, crew)'
  BY <1>0
<1>2. ASSUME UNCHANGED <<member, primary, group, work, tx>>
      PROVE  \A v \in Workers : InMix(v)' /\ Sparing(work[v])'
  BY <1>0, <1>2, StaysSpared
<1>3. ASSUME NEW w \in Workers, WorkloadStep(w), UNCHANGED <<member, tx>>
      PROVE  \A v \in Workers : InMix(v)' /\ Sparing(work[v])'
  <2>1. /\ Fitting(work[w])' /\ Sparing(work[w])'
        /\ \A v \in Workers \ {w} : work'[v] = work[v]
    BY <1>0, <1>3, StepFits DEF InMix
  <2>2. w \in crew
    BY <1>3, OnlyCrew DEF InMix
  <2>3. InMix(w)'
    BY <1>0, <1>3, <2>1, <2>2 DEF InMix
  <2>4. ASSUME NEW v \in Workers \ {w}
        PROVE  InMix(v)' /\ Sparing(work[v])'
    <3>1. CASE \E u \in Workers : crew = {u}
      <4>1. work[v].step = "idle" /\ work'[v] = work[v] /\ tx'[v] = tx[v]
        BY <1>3, <2>1, <2>2, <3>1 DEF InMix
      <4> QED
        BY <1>0, <4>1 DEF InMix, Fitting, Sparing, Deciding
    <3>2. CASE Still(mix)
      <4>1. UNCHANGED primary /\ ("rebalance" \in mix => UNCHANGED group)
        BY <1>0, <1>3, <3>2, StillRows DEF InMix
      <4>2. work[v].kind = "rebalance" => "rebalance" \in mix
        BY DEF InMix, Fitting, JobOf
      <4> QED
        BY <1>0, <1>3, <2>1, <4>1, <4>2, StaysSpared
    <3>3. CASE Undeciding(mix)
      BY <1>0, <1>3, <2>1, <3>3 DEF InMix, Fitting, Sparing, Deciding, JobOf, Undeciding
    <3> QED
      BY <3>1, <3>2, <3>3 DEF Settled
  <2> QED
    BY <2>1, <2>3, <2>4
<1>4. ASSUME NEW w \in Workers, work[w].step = "idle", GroupsStep(w), UNCHANGED <<group, work>>
      PROVE  \A v \in Workers : InMix(v)' /\ Sparing(work[v])'
  <2>1. /\ \A v \in Workers \ {w} : tx'[v] = tx[v]
        /\ "groups" \in mix /\ w \in crew
    BY <1>0, <1>4, TxInMix DEF DeskInv, GroupsInv, InMix
  <2>2. CASE \E u \in Workers : crew = {u}
    <3>1. \A v \in Workers : work[v].step = "idle" /\ work'[v] = work[v]
      BY <1>4, <2>1, <2>2 DEF InMix
    <3> QED
      BY <1>0, <2>1, <3>1 DEF InMix, Fitting, Sparing, Deciding
  <2>3. CASE Undeciding(mix)
    BY <1>0, <1>4, <2>1, <2>3 DEF InMix, Fitting, Sparing, Deciding, JobOf, Undeciding
  <2> QED
    BY <2>1, <2>2, <2>3 DEF Settled, Still
<1> QED
  BY <1>1, <1>2, <1>3, <1>4, SpareFrame

LEMMA SpareStarted ==
  ASSUME \A s \in Starts : Settled(s.mix, s.crew)
  PROVE  Init => SpareInv
<1> SUFFICES ASSUME Init PROVE SpareInv
  OBVIOUS
<1>1. Settled(mix, crew)
  BY DEF Init, DirectoryInit
<1>2. \A w \in Workers : work[w] = Rest /\ tx[w].step = "idle"
  BY DEF Init, WorkloadInit, GroupsInit, NoTx
<1>3. Rest.step = "idle" /\ Rest.kind = "none"
  BY DEF Rest
<1> QED
  BY <1>1, <1>2, <1>3 DEF SpareInv, InMix, Fitting, Sparing, Deciding

(* No automatic decision gives an urgent ticket to a supporter of its group, *)
(* for any skills, loads, routing rules and caps: always where handlers run  *)
(* one after the other, and under any overlap of handlers that leave the     *)
(* memberships, and under the balancer the groups of tickets, alone.         *)
THEOREM UrgentKeptHolds ==
  ASSUME \A s \in Starts : Settled(s.mix, s.crew)
  PROVE  Spec => []UrgentKept
<1>1. Init => SpareInv
  BY SpareStarted
<1>2. SpareInv => UrgentKept
  BY DEF SpareInv, Sparing, Deciding, UrgentKept
<1> QED
  BY <1>1, <1>2, DeskInvHolds, SpareKept, PTL DEF Spec
=============================================================================
