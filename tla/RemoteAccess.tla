---------------------------- MODULE RemoteAccess -----------------------------
(***************************************************************************)
(* Remote support sessions: server/src/services/remoteAccessService.js.    *)
(* A session is requested for a ticket and an agent, started, and ended or *)
(* cancelled; a request that nobody starts in time expires, but only when  *)
(* somebody tries to start it or reads the ticket's history.  Every        *)
(* handler reads the session first and writes in a later statement, so two *)
(* handlers may both have judged the same session.                         *)
(***************************************************************************)
EXTENDS Directory, Sequences

CONSTANT MaxSessions   \* bound: RemoteAccessSession rows in a behaviour

ASSUME RemoteAssumption == MaxSessions \in Nat

VARIABLES
  session,   \* the RemoteAccessSession rows by id
  call       \* per worker: the handler in flight and what it has read

remoteVars == <<session, call>>

Ids      == 1 .. MaxSessions
Live     == {"requested", "active"}
Terminal == {"ended", "cancelled", "expired"}
Statuses == Live \cup Terminal

(* Each transition writes the row and its AuditEvent in one transaction:    *)
(* `trail' is the `to' of the events, oldest first.  `lapsed' says whether  *)
(* expiresAt lies in the past. *)
NoSession == [ticket |-> Null, agent |-> Null, by |-> Null, status |-> "none",
              lapsed |-> FALSE, trail |-> <<>>]
Sessions == [ticket : Tickets \cup {Null}, agent : Owners, by : Owners,
             status : Statuses \cup {"none"}, lapsed : BOOLEAN,
             trail : Seq(Statuses)]

Hangup == [step |-> "idle", by |-> Null, ticket |-> Null, agent |-> Null, todo |-> {}]
Calls  == [step : {"idle", "insert", "start", "end", "cancel", "expire"},
           by : Owners, ticket : Tickets \cup {Null}, agent : Owners,
           todo : SUBSET Ids]

RemoteTypeOK == session \in [Ids -> Sessions] /\ call \in [Workers -> Calls]

RemoteInit == /\ session = [i \in Ids |-> NoSession]
              /\ call = [w \in Workers |-> Hangup]

-----------------------------------------------------------------------------
LiveOn(t) == \E i \in Ids : session[i].ticket = t /\ session[i].status \in Live
LiveBy(a) == \E i \in Ids : session[i].agent = a /\ session[i].status \in Live

(* Only an account that is enabled gets past requireAuth. *)
Calling(w, p) == /\ "remote" \in mix
                 /\ w \in crew
                 /\ call[w].step = "idle"
                 /\ active[p]

Answer(w) == call' = [call EXCEPT ![w] = Hangup]

(* updateMany({id, status: from}) with its audit row: a row whose status is *)
(* no longer one of `from' is left alone, and the caller gets a 409. *)
Swap(i, from, to) ==
  session' = IF session[i].status \in from
             THEN [session EXCEPT ![i].status = to,
                                  ![i].trail = Append(@, to)]
             ELSE session

(* createSession up to its transaction: administrator, assignee, or anyone  *)
(* on an unassigned ticket; only administrators name somebody else. *)
Request(w, p, t, a) ==
  /\ Calling(w, p)
  /\ p \in Admins \/ (owner[t] \in {Null, p} /\ a = p)
  /\ Open(t)
  /\ active[a]
  /\ ~LiveOn(t)
  /\ ~LiveBy(a)
  /\ call' = [call EXCEPT ![w] = [Hangup EXCEPT !.step = "insert", !.by = p,
                                                !.ticket = t, !.agent = a]]
  /\ UNCHANGED session

NewSession(w) == [ticket |-> call[w].ticket, agent |-> call[w].agent,
                  by |-> call[w].by, status |-> "requested", lapsed |-> FALSE,
                  trail |-> <<"requested">>]

(* The insert.  Two partial unique indexes refuse a second live session of  *)
(* the ticket or of the agent; the handler then answers with an error. *)
InsertSession(w) ==
  /\ call[w].step = "insert"
  /\ \/ /\ LiveOn(call[w].ticket) \/ LiveBy(call[w].agent)
        /\ UNCHANGED session
     \/ /\ ~LiveOn(call[w].ticket) /\ ~LiveBy(call[w].agent)
        /\ \E i \in Ids : /\ session[i].status = "none"
                          /\ \A j \in Ids : j < i => session[j].status # "none"
                          /\ session' = [session EXCEPT ![i] = NewSession(w)]
  /\ Answer(w)

(* startSession, the read: a request past its time is expired instead. *)
LoadStart(w, p, i) ==
  /\ Calling(w, p)
  /\ session[i].status = "requested"
  /\ p \in Admins \cup {session[i].agent}
  /\ \/ /\ session[i].lapsed
        /\ call' = [call EXCEPT ![w] = [Hangup EXCEPT !.step = "expire", !.todo = {i}]]
     \/ /\ ~session[i].lapsed
        /\ Open(session[i].ticket)
        /\ call' = [call EXCEPT ![w] = [Hangup EXCEPT !.step = "start", !.todo = {i}]]
  /\ UNCHANGED session

LoadEnd(w, p, i) ==
  /\ Calling(w, p)
  /\ session[i].status = "active"
  /\ p \in Admins \cup {session[i].agent}
  /\ call' = [call EXCEPT ![w] = [Hangup EXCEPT !.step = "end", !.todo = {i}]]
  /\ UNCHANGED session

LoadCancel(w, p, i) ==
  /\ Calling(w, p)
  /\ session[i].status \in Live
  /\ p \in Admins \cup {session[i].agent, session[i].by}
  /\ call' = [call EXCEPT ![w] = [Hangup EXCEPT !.step = "cancel", !.todo = {i}]]
  /\ UNCHANGED session

StartSession(w) ==
  /\ call[w].step = "start"
  /\ \E i \in call[w].todo : Swap(i, {"requested"}, "active")
  /\ Answer(w)

(* Mutant: update({id}), as the ticket routes write. *)
EndById(w) ==
  /\ call[w].step = "end"
  /\ \E i \in call[w].todo : Swap(i, Statuses, "ended")
  /\ Answer(w)

EndSession(w) ==
  /\ call[w].step = "end"
  /\ \E i \in call[w].todo : Swap(i, {"active"}, "ended")
  /\ Answer(w)

CancelSession(w) ==
  /\ call[w].step = "cancel"
  /\ \E i \in call[w].todo : Swap(i, Live, "cancelled")
  /\ Answer(w)

(* listForTicket: any signed-in account; the stale requests of the ticket   *)
(* are listed, then expired one statement at a time, by id. *)
ListForTicket(w, p, t) ==
  /\ Calling(w, p)
  /\ LET stale == {i \in Ids : /\ session[i].ticket = t
                               /\ session[i].status = "requested"
                               /\ session[i].lapsed}
     IN /\ stale # {}
        /\ call' = [call EXCEPT ![w] = [Hangup EXCEPT !.step = "expire", !.todo = stale]]
  /\ UNCHANGED session

ExpireSession(w) ==
  /\ call[w].step = "expire"
  /\ \E i \in call[w].todo :
       /\ \A j \in call[w].todo : i <= j
       /\ Swap(i, {"requested"}, "expired")
       /\ call' = [call EXCEPT ![w] = IF call[w].todo = {i} THEN Hangup
                                      ELSE [call[w] EXCEPT !.todo = @ \ {i}]]

(* REQUEST_TTL_MINUTES go by. *)
Lapse(i) ==
  /\ session[i].status = "requested" /\ ~session[i].lapsed
  /\ session' = [session EXCEPT ![i].lapsed = TRUE]
  /\ UNCHANGED call

RemoteStep(w) ==
  \/ \E p \in Agents :
       \/ \E t \in Tickets, a \in Agents : Request(w, p, t, a)
       \/ \E i \in Ids : LoadStart(w, p, i) \/ LoadEnd(w, p, i) \/ LoadCancel(w, p, i)
       \/ \E t \in Tickets : ListForTicket(w, p, t)
  \/ InsertSession(w) \/ StartSession(w) \/ EndSession(w) \/ CancelSession(w)
  \/ ExpireSession(w)

RemoteNext == (\E w \in Workers : RemoteStep(w)) \/ (\E i \in Ids : Lapse(i))

-----------------------------------------------------------------------------
(* However requests, starts, ends, cancellations and expiries race, a       *)
(* ticket and an agent have at most one live session each (createSession's  *)
(* checks and the two partial unique indexes). *)
OneLiveSession ==
  \A i, j \in Ids :
    /\ {session[i].status, session[j].status} \subseteq Live
    /\ session[i].ticket = session[j].ticket \/ session[i].agent = session[j].agent
    => i = j

(* The ways from `requested' to a status along TRANSITIONS. *)
Paths(s) ==
  CASE s = "none"      -> {<<>>}
    [] s = "requested" -> {<<"requested">>}
    [] s = "active"    -> {<<"requested", "active">>}
    [] s = "ended"     -> {<<"requested", "active", "ended">>}
    [] s = "expired"   -> {<<"requested", "expired">>}
    [] s = "cancelled" -> {<<"requested", "cancelled">>,
                           <<"requested", "active", "cancelled">>}

(* The audit trail of a session is one legal way to its present status: it  *)
(* ends once, nothing is written after its end, and no two handlers that    *)
(* judged the same status both record what they did. *)
TrailTells == \A i \in Ids : session[i].trail \in Paths(session[i].status)
=============================================================================
