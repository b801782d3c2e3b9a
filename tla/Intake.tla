-------------------------------- MODULE Intake --------------------------------
(***************************************************************************)
(* Inbound email: the two mailbox pollers and the Graph webhook, the shared *)
(* pipeline services/ticketIntake.js, and the byte cache of attachments.    *)
(*                                                                          *)
(* A message is named by its uid, its place in the mailbox.  A worker runs  *)
(* one delivery at a time; each awaited statement that reads or writes a    *)
(* row, the mailbox or the cache is one action.  Deciding what a message    *)
(* says (parsing, screening, triage, routing) is given per message by       *)
(* CONSTANTS; those calls leave the state of this module alone.             *)
(***************************************************************************)
EXTENDS Integers, FiniteSets, Sequences

CONSTANTS
  MaxMail,       \* bound: messages that arrive
  ImapPollers, GraphPollers, Webhooks,   \* the workers, one per timer or call
  Starts,        \* the workers turned on, pollBatchSize and the mailbox
  Chain,         \* per message: those its In-Reply-To and References name
  Conversation,  \* per message: its Graph conversation with one requester
  WithFiles,     \* messages that carry an attachment worth storing
  MaxFaults,     \* bound: errors, restarts and outages
  MaxDeliveries  \* bound: change notifications delivered

Messages == 1 .. MaxMail
Pollers  == ImapPollers \cup GraphPollers
Workers  == Pollers \cup Webhooks

(* "junk" is screened or triaged away unless it belongs to a ticket;         *)
(* "refused" is rejected by the parser or by validation, or self-addressed;  *)
(* "poison" fails to decode every time. *)
Kinds == {"plain", "junk", "refused", "poison"}

ASSUME IntakeAssumption ==
  /\ MaxMail \in Nat /\ MaxFaults \in Nat /\ MaxDeliveries \in Nat
  /\ ImapPollers \cap (GraphPollers \cup Webhooks) = {}
  /\ GraphPollers \cap Webhooks = {}
  /\ Starts \subseteq [channels : SUBSET Workers, limit : Nat \ {0},
                 kind : [Messages -> Kinds]]
  /\ Chain \in [Messages -> SUBSET Messages]
  /\ Conversation \in [Messages -> Messages]
  /\ WithFiles \subseteq Messages

VARIABLES
  channels,    \* the workers turned on: IMAP_*, GRAPH_* and webhook settings
  limit,       \* pollBatchSize: how many messages a poll takes
  kind,        \* per message: what the pipeline makes of it
  mail,        \* how many messages have arrived
  cites,       \* per message: the ticket whose number it carries, or 0
  seen,        \* messages flagged \Seen / isRead
  aged,        \* messages older than GRAPH_INGEST_MAX_AGE_HOURS
  tickets,     \* Ticket rows in order of creation
  comments,    \* Comment rows in order of creation
  cached,      \* keys in the attachment cache
  recent,      \* recentOutcomes of the webhook processor
  deliveries,  \* change notifications delivered so far
  faults,      \* errors, restarts and outages so far
  pc,          \* per worker: the next statement
  batch,       \* per poller: listed messages it has yet to process
  msg,         \* per worker: the message in hand
  thread,      \* per worker: the ticket row it works on, or 0
  finished     \* per worker: that row was RESOLVED or CLOSED when loaded

mailVars == <<channels, limit, kind, mail, cites, aged, deliveries>>
dbVars   == <<tickets, comments>>
jobVars  == <<pc, batch, msg, thread, finished>>
vars     == <<mailVars, seen, dbVars, cached, recent, faults, jobVars>>

-----------------------------------------------------------------------------
(* Rows and their identities *)

(* A message has one identity per source: IMAP stores its Message-ID, Graph  *)
(* an id of its own.  The shared internetMessageId tells nothing more: an    *)
(* IMAP row holds the Message-ID in both columns, and Graph's listing does   *)
(* not select the field, so its rows and its filters have null there.        *)
Sources   == {"imap", "graph"}
Source(w) == IF w \in ImapPollers THEN "imap" ELSE "graph"

(* The attachment key of a delivery.  Keys are random: no two deliveries     *)
(* that store a row for a message share one. *)
NoKey     == <<>>

(* Mutant: the key is derived from the message. *)
KeyOfMessage(w, m) ==
  IF m \in WithFiles THEN <<CHOOSE v \in Workers : TRUE, m>> ELSE NoKey

Key(w, m) == IF m \in WithFiles THEN <<w, m>> ELSE NoKey

Keys == Workers \X WithFiles

TicketRows == [message : Messages, source : Sources, conversation : 0 .. MaxMail,
               state : {"open", "done"}, clock : BOOLEAN, key : Keys \cup {NoKey}]
CommentRows == [message : Messages, source : Sources, ticket : Nat \ {0},
                key : Keys \cup {NoKey}]

(* identityFilter, and what the unique indexes on graphMessageId and on      *)
(* internetMessageId compare. *)
Matches(row, w) == row.message = msg[w] /\ row.source = Source(w)

KnownTicket(w)  == \E i \in DOMAIN tickets : Matches(tickets[i], w)
KnownComment(w) == \E c \in DOMAIN comments : Matches(comments[c], w)

TicketRow(w) ==
  [message |-> msg[w], source |-> Source(w),
   conversation |-> IF w \in ImapPollers THEN 0 ELSE Conversation[msg[w]],
   state |-> "open", clock |-> FALSE, key |-> Key(w, msg[w])]

(* createRows looks for the message's files on the ticket, whoever brought   *)
(* them, and then creates no second row for them. *)
FilesKnown(w) ==
  \/ \E i \in DOMAIN tickets : /\ i = thread[w]
                               /\ Matches(tickets[i], w) /\ tickets[i].key # NoKey
  \/ \E c \in DOMAIN comments : /\ comments[c].ticket = thread[w]
                                /\ Matches(comments[c], w) /\ comments[c].key # NoKey

CommentRow(w) ==
  [message |-> msg[w], source |-> Source(w), ticket |-> thread[w],
   key |-> IF FilesKnown(w) THEN NoKey ELSE Key(w, msg[w])]

(* orderBy createdAt desc, take one; and a batch in ascending order. *)
Newest(S) == {i \in S : \A j \in S : j <= i}
Eldest(S) == {i \in S : \A j \in S : i <= j}

(* resolveThread: the ticket number first, then the reply headers against    *)
(* tickets and against activities, then the conversation.  Graph supplies no *)
(* reply headers, and a header names no row of Graph's; IMAP supplies no     *)
(* conversation.                                                             *)
Cited(row, m) == row.source = "imap" /\ row.message \in Chain[m]
ByChain(m)    == {i \in DOMAIN tickets : Cited(tickets[i], m)}
ByReply(m)    == {c \in DOMAIN comments : Cited(comments[c], m)}
ByTalk(m)     == {i \in DOMAIN tickets :
                    tickets[i].conversation = Conversation[m]}

NoThread == {0}

Thread(w) ==
  LET m == msg[w] IN
  IF cites[m] # 0 THEN {cites[m]}
  ELSE IF w \in ImapPollers
       THEN IF ByChain(m) # {} THEN Newest(ByChain(m))
            ELSE IF ByReply(m) # {}
                 THEN {comments[c].ticket : c \in Newest(ByReply(m))}
                 ELSE NoThread
       ELSE IF ByTalk(m) # {} THEN Newest(ByTalk(m)) ELSE NoThread

-----------------------------------------------------------------------------
(* Workers' control *)

Steps == {"findTicket", "findComment", "upload", "resolveThread",
          "addComment", "reopen", "createTicket", "startClock", "mark"}
Labels == Steps \cup {"idle", "next"}

At(w, label)   == pc[w] = label
Goto(w, label) == /\ pc' = [pc EXCEPT ![w] = label]
                  /\ UNCHANGED <<batch, msg, thread, finished>>

(* The thread is out of scope once nothing is left but the acknowledgement.  *)
Conclude(w) == /\ pc' = [pc EXCEPT ![w] = "mark"]
               /\ thread' = [thread EXCEPT ![w] = 0]
               /\ finished' = [finished EXCEPT ![w] = FALSE]
               /\ UNCHANGED <<batch, msg>>

(* Between two messages: a poller goes on with its batch. *)
Resting(left) == IF left = {} THEN "idle" ELSE "next"
Rest(w) == /\ pc' = [pc EXCEPT ![w] = Resting(batch[w])]
           /\ msg' = [msg EXCEPT ![w] = 0]
           /\ thread' = [thread EXCEPT ![w] = 0]
           /\ finished' = [finished EXCEPT ![w] = FALSE]
           /\ UNCHANGED batch

(* The first `limit' unread messages: IMAP's search is ascending, Graph's      *)
(* listing is newest first and leaves out what is past the cutoff.           *)
Unread    == {m \in 1 .. mail : m \notin seen}
Oldest(S) == {m \in S : Cardinality({n \in S : n < m}) < limit}
Latest(S) == {m \in S : Cardinality({n \in S : n > m}) < limit}
Listing(w) == IF w \in ImapPollers THEN Oldest(Unread) ELSE Latest(Unread \ aged)

First(w) == IF w \in ImapPollers THEN Eldest(batch[w]) ELSE Newest(batch[w])

Init ==
  /\ \E s \in Starts : channels = s.channels /\ limit = s.limit /\ kind = s.kind
  /\ mail = 0 /\ seen = {} /\ aged = {}
  /\ cites = [m \in Messages |-> 0]
  /\ tickets = <<>> /\ comments = <<>>
  /\ cached = {} /\ recent = {}
  /\ deliveries = 0
  /\ faults = 0
  /\ pc = [w \in Workers |-> "idle"]
  /\ batch = [w \in Workers |-> {}]
  /\ msg = [w \in Workers |-> 0]
  /\ thread = [w \in Workers |-> 0]
  /\ finished = [w \in Workers |-> FALSE]

-----------------------------------------------------------------------------
(* Surroundings: the mailbox, the agents, the byte cache                     *)

TicketsOf(m)  == {i \in DOMAIN tickets : tickets[i].message = m}
CommentsOf(m) == {c \in DOMAIN comments : comments[c].message = m}
Recorded(m)   == TicketsOf(m) \cup CommentsOf(m) # {}

(* A message arrives.  A reply may quote the number of a ticket its sender   *)
(* has been told, by whichever source that ticket came. *)
Arrive ==
  /\ mail < MaxMail
  /\ mail' = mail + 1
  /\ \E i \in {0} \cup UNION {TicketsOf(n) \cup {comments[c].ticket : c \in CommentsOf(n)}
                               : n \in Chain[mail + 1]} :
       cites' = [cites EXCEPT ![mail + 1] = i]
  /\ UNCHANGED <<channels, limit, kind, aged, deliveries, seen, dbVars, cached,
                 recent, faults, jobVars>>

(* An unread message outlives GRAPH_INGEST_MAX_AGE_HOURS: an outage, which    *)
(* counts as a fault. *)
GrowOld(m) ==
  /\ m <= mail /\ m \notin aged \cup seen
  /\ faults < MaxFaults
  /\ faults' = faults + 1
  /\ aged' = aged \cup {m}
  /\ UNCHANGED <<channels, limit, kind, mail, cites, deliveries, seen, dbVars,
                 cached, recent, jobVars>>

(* An agent resolves the ticket or the confirmation window closes it. *)
FinishTicket(i) ==
  /\ tickets[i].state = "open"
  /\ tickets' = [tickets EXCEPT ![i].state = "done"]
  /\ UNCHANGED <<mailVars, seen, comments, cached, recent, faults, jobVars>>

(* sweepAttachmentCache removes a file older than its time to live, which is *)
(* a day or more: none of a delivery in progress. *)
Evict(k) ==
  /\ k \in cached
  /\ \A w \in Workers : k # Key(w, msg[w])
  /\ cached' = cached \ {k}
  /\ UNCHANGED <<mailVars, seen, dbVars, recent, faults, jobVars>>

Attached == {tickets[i].key : i \in DOMAIN tickets}
              \cup {comments[c].key : c \in DOMAIN comments}

(* readAttachmentContent: a miss re-reads the source message and caches it   *)
(* again under the row's key. *)
View(k) ==
  /\ k \in (Attached \ cached) \cap Keys
  /\ cached' = cached \cup {k}
  /\ UNCHANGED <<mailVars, seen, dbVars, recent, faults, jobVars>>

-----------------------------------------------------------------------------
(* The channels                                                              *)

(* The timer fires and no cycle is running: list the unread messages. *)
StartPoll(w) ==
  /\ w \in Pollers \cap channels /\ At(w, "idle")
  /\ Listing(w) # {}
  /\ batch' = [batch EXCEPT ![w] = Listing(w)]
  /\ pc' = [pc EXCEPT ![w] = "next"]
  /\ UNCHANGED <<mailVars, seen, dbVars, cached, recent, faults,
                 msg, thread, finished>>

(* Mutant: a message that cannot be read ends the poll. *)
OpenOrStop(w, m, left) ==
  /\ batch' = [batch EXCEPT ![w] = IF kind[m] = "poison" THEN {} ELSE left]
  /\ UNCHANGED <<thread, finished>>
  /\ IF kind[m] = "poison"
     THEN /\ pc' = [pc EXCEPT ![w] = "idle"]
          /\ UNCHANGED msg
     ELSE /\ pc' = [pc EXCEPT ![w] = IF kind[m] = "refused" THEN "mark"
                                     ELSE "findTicket"]
          /\ msg' = [msg EXCEPT ![w] = m]

(* processOne up to intake: a message that cannot be read is left unseen, a  *)
(* refused one is acknowledged, any other goes through intakeEmailMessage.   *)
Open(w, m, left) ==
  /\ batch' = [batch EXCEPT ![w] = left]
  /\ UNCHANGED <<thread, finished>>
  /\ IF kind[m] = "poison"
     THEN /\ pc' = [pc EXCEPT ![w] = Resting(left)]
          /\ UNCHANGED msg
     ELSE /\ pc' = [pc EXCEPT ![w] = IF kind[m] = "refused" THEN "mark" ELSE "findTicket"]
          /\ msg' = [msg EXCEPT ![w] = m]

(* pollUnread: the next message of the batch, listed a while ago. *)
TakeMessage(w) ==
  /\ At(w, "next")
  /\ \E m \in First(w) : Open(w, m, batch[w] \ {m})
  /\ UNCHANGED <<mailVars, seen, dbVars, cached, recent, faults>>

(* processNotification: Graph may notify never, late or more than once.  An   *)
(* outcome still remembered ends it; otherwise, or once its time to live is  *)
(* over, the message is fetched. *)
Notify(w, m) ==
  /\ w \in Webhooks \cap channels /\ At(w, "idle")
  /\ m <= mail /\ deliveries < MaxDeliveries
  /\ deliveries' = deliveries + 1
  /\ \/ m \in recent /\ UNCHANGED jobVars
     \/ Open(w, m, {})
  /\ UNCHANGED <<channels, limit, kind, mail, cites, aged, seen, dbVars, cached,
                 recent, faults>>

-----------------------------------------------------------------------------
(* intakeEmailMessage                                                        *)

(* Mutant: the duplicate check against tickets is skipped. *)
FindTicketSkipped(w) ==
  /\ At(w, "findTicket")
  /\ Goto(w, "findComment")
  /\ UNCHANGED <<mailVars, seen, dbVars, cached, recent, faults>>

(* The duplicate check against tickets ... *)
FindTicket(w) ==
  /\ At(w, "findTicket")
  /\ IF KnownTicket(w) THEN Conclude(w) ELSE Goto(w, "findComment")
  /\ UNCHANGED <<mailVars, seen, dbVars, cached, recent, faults>>

(* ... and against activities. *)
FindComment(w) ==
  /\ At(w, "findComment")
  /\ IF KnownComment(w) THEN Conclude(w)
     ELSE Goto(w, IF msg[w] \in WithFiles THEN "upload" ELSE "resolveThread")
  /\ UNCHANGED <<mailVars, seen, dbVars, cached, recent, faults>>

(* uploadAll; a write that fails degrades to metadata only. *)
Upload(w) ==
  /\ At(w, "upload")
  /\ Goto(w, "resolveThread")
  /\ cached' \in {cached, cached \cup {Key(w, msg[w])}}
  /\ UNCHANGED <<mailVars, seen, dbVars, recent, faults>>

(* Mutant: resolveThread's null is not looked at. *)
ResolveThreadUnchecked(w) ==
  /\ At(w, "resolveThread")
  /\ \E t \in Thread(w) : thread' = [thread EXCEPT ![w] = t]
  /\ pc' = [pc EXCEPT ![w] = "addComment"]
  /\ UNCHANGED <<mailVars, seen, dbVars, cached, recent, faults, batch, msg,
                 finished>>

(* Mutant: what is screened away keeps its files. *)
ResolveThreadUncleaned(w) ==
  /\ At(w, "resolveThread")
  /\ \E t \in Thread(w) :
     /\ thread' = [thread EXCEPT ![w] = t]
     /\ finished' = [finished EXCEPT ![w] = t # 0 /\ tickets[t].state = "done"]
     /\ pc' = [pc EXCEPT ![w] = IF t # 0 THEN "addComment"
                                ELSE IF kind[msg[w]] = "junk" THEN "mark"
                                ELSE "createTicket"]
  /\ UNCHANGED <<mailVars, seen, dbVars, cached, recent, faults, batch, msg>>

(* A message that belongs to a ticket becomes an activity on it; screening   *)
(* and triage stop only what would be a new ticket, and drop its files.      *)
ResolveThread(w) ==
  /\ At(w, "resolveThread")
  /\ \E t \in Thread(w) :
     /\ thread' = [thread EXCEPT ![w] = t]
     /\ finished' = [finished EXCEPT ![w] = t # 0 /\ tickets[t].state = "done"]
     /\ pc' = [pc EXCEPT ![w] = IF t # 0 THEN "addComment"
                                ELSE IF kind[msg[w]] = "junk" THEN "mark"
                                ELSE "createTicket"]
     /\ cached' = IF t = 0 /\ kind[msg[w]] = "junk"
                  THEN cached \ {Key(w, msg[w])} ELSE cached
  /\ UNCHANGED <<mailVars, seen, dbVars, recent, faults, batch, msg>>

(* The activity's insert: a message identity that is already an activity is  *)
(* a lost race, and the files of the loser are dropped. *)
AddComment(w) ==
  /\ At(w, "addComment")
  /\ IF KnownComment(w)
     THEN /\ Conclude(w)
          /\ cached' = cached \ {Key(w, msg[w])}
          /\ UNCHANGED comments
     ELSE /\ IF finished[w] THEN Goto(w, "reopen") ELSE Conclude(w)
          /\ comments' = Append(comments, CommentRow(w))
          /\ UNCHANGED cached
  /\ UNCHANGED <<mailVars, seen, tickets, recent, faults>>

(* The requester's reply reopens the ticket, whatever its state is now. *)
Reopen(w) ==
  /\ At(w, "reopen")
  /\ tickets' = [tickets EXCEPT ![thread[w]].state = "open",
                                ![thread[w]].clock = FALSE]
  /\ Goto(w, "startClock")
  /\ UNCHANGED <<mailVars, seen, comments, cached, recent, faults>>

(* Mutant: a new ticket's SLA cycle is not started. *)
CreateTicketUnclocked(w) ==
  /\ At(w, "createTicket")
  /\ Conclude(w)
  /\ cached' = IF KnownTicket(w) THEN cached \ {Key(w, msg[w])} ELSE cached
  /\ tickets' = IF KnownTicket(w) THEN tickets ELSE Append(tickets, TicketRow(w))
  /\ UNCHANGED <<mailVars, seen, comments, recent, faults>>

(* The transaction that inserts the ticket, its audit and attachment rows. *)
CreateTicket(w) ==
  /\ At(w, "createTicket")
  /\ IF KnownTicket(w)
     THEN /\ Conclude(w)
          /\ cached' = cached \ {Key(w, msg[w])}
          /\ UNCHANGED tickets
     ELSE /\ pc' = [pc EXCEPT ![w] = "startClock"]
          /\ tickets' = Append(tickets, TicketRow(w))
          /\ thread' = [thread EXCEPT ![w] = Len(tickets) + 1]
          /\ UNCHANGED <<cached, batch, msg, finished>>
  /\ UNCHANGED <<mailVars, seen, comments, recent, faults>>

(* slaService.startCycle or restartCycle, after the write has committed. *)
StartClock(w) ==
  /\ At(w, "startClock")
  /\ tickets' = [tickets EXCEPT ![thread[w]].clock = TRUE]
  /\ Conclude(w)
  /\ UNCHANGED <<mailVars, seen, comments, cached, recent, faults>>

(* Notifications are out; acknowledge the message, and let the webhook       *)
(* remember the outcome.  The acknowledgement may fail, and only logs that.  *)
Remember(w) == recent' = IF w \in Webhooks THEN recent \cup {msg[w]} ELSE recent

MarkSeen(w) ==
  /\ At(w, "mark")
  /\ seen' = seen \cup {msg[w]}
  /\ Remember(w)
  /\ Rest(w)
  /\ UNCHANGED <<mailVars, dbVars, cached, faults>>

MarkFails(w) ==
  /\ At(w, "mark") /\ faults < MaxFaults
  /\ faults' = faults + 1
  /\ Remember(w)
  /\ Rest(w)
  /\ UNCHANGED <<mailVars, seen, dbVars, cached>>

(* Mutant: a failure is acknowledged like any outcome. *)
FailSeen(w) ==
  /\ pc[w] \in Steps /\ faults < MaxFaults
  /\ faults' = faults + 1
  /\ seen' = seen \cup {msg[w]}
  /\ Rest(w)
  /\ UNCHANGED <<mailVars, dbVars, cached, recent>>

(* A statement throws: processOne reports 'failed' and the message stays     *)
(* unseen.  The two inserts drop the files they uploaded. *)
Fail(w) ==
  /\ pc[w] \in Steps /\ faults < MaxFaults
  /\ faults' = faults + 1
  /\ cached' = IF pc[w] \in {"addComment", "createTicket"}
               THEN cached \ {Key(w, msg[w])} ELSE cached
  /\ Rest(w)
  /\ UNCHANGED <<mailVars, seen, dbVars, recent>>

(* The process stops and starts again. *)
Restart ==
  /\ faults < MaxFaults
  /\ \E w \in Workers : pc[w] # "idle"
  /\ faults' = faults + 1
  /\ recent' = {}
  /\ pc' = [w \in Workers |-> "idle"]
  /\ batch' = [w \in Workers |-> {}]
  /\ msg' = [w \in Workers |-> 0]
  /\ thread' = [w \in Workers |-> 0]
  /\ finished' = [w \in Workers |-> FALSE]
  /\ UNCHANGED <<mailVars, seen, dbVars, cached>>

-----------------------------------------------------------------------------
Continues(w) ==
  \/ TakeMessage(w)
  \/ FindTicket(w) \/ FindComment(w) \/ Upload(w) \/ ResolveThread(w)
  \/ AddComment(w) \/ Reopen(w) \/ CreateTicket(w) \/ StartClock(w)
  \/ MarkSeen(w)

Next ==
  \/ Arrive \/ Restart
  \/ \E m \in Messages : GrowOld(m)
  \/ \E i \in DOMAIN tickets : FinishTicket(i)
  \/ \E k \in Keys : Evict(k) \/ View(k)
  \/ \E w \in Workers : \/ StartPoll(w) \/ Continues(w)
                        \/ MarkFails(w) \/ Fail(w)
                        \/ \E m \in Messages : Notify(w, m)

Spec == Init /\ [][Next]_vars

(* Fairness.  A poller's timer fires again and again (setInterval), what it  *)
(* finds it lists, and a delivery that it has begun runs on: the event loop  *)
(* resumes it after each await.  Nothing is assumed of a webhook call, and   *)
(* nothing makes Graph notify, mail arrive, a fault happen or a fault cease; *)
(* faults are finitely many by their bound.                                  *)
Fairness == \A w \in Pollers : WF_vars(Continues(w) \/ StartPoll(w))

FairSpec == Spec /\ Fairness

-----------------------------------------------------------------------------
(* Properties                                                                *)

TypeOK ==
  /\ channels \subseteq Workers /\ limit \in Nat \ {0} /\ kind \in [Messages -> Kinds]
  /\ mail \in 0 .. MaxMail
  /\ cites \in [Messages -> Nat]
  /\ seen \subseteq Messages /\ aged \subseteq Messages
  /\ recent \subseteq Messages
  /\ tickets \in Seq(TicketRows) /\ comments \in Seq(CommentRows)
  /\ cached \subseteq Keys
  /\ deliveries \in 0 .. MaxDeliveries
  /\ faults \in 0 .. MaxFaults
  /\ pc \in [Workers -> Labels]
  /\ batch \in [Workers -> SUBSET Messages]
  /\ msg \in [Workers -> 0 .. MaxMail]
  /\ thread \in [Workers -> Nat]
  /\ finished \in [Workers -> BOOLEAN]

(* What the channels promise: a message that is acknowledged is recorded, or *)
(* is one the desk deliberately drops; no crash or lost race acknowledges a  *)
(* message whose ticket is not there.                                        *)
SeenMeansKept == \A m \in seen : Recorded(m) \/ kind[m] \in {"junk", "refused"}

(* "One mailbox fed by two sources cannot double-ticket" (normalizeMessage), *)
(* "retrying can never duplicate a ticket or a comment" (imap/mailService):  *)
(* a message is one ticket or one activity. *)
RecordedOnce ==
  \A m \in Messages :
    /\ TicketsOf(m) = {} \/ CommentsOf(m) = {}
    /\ \A i, j \in TicketsOf(m) : i = j
    /\ \A c, d \in CommentsOf(m) : c = d

(* It is, where one channel alone delivers: however often it lists a message *)
(* again, because the acknowledgement failed, a statement threw or the       *)
(* process stopped between the row and the acknowledgement, no retry makes a *)
(* second ticket, nor takes the message for a reply to the ticket it raised. *)
RetriesRecordOnce == \A w \in Workers : channels = {w} => RecordedOnce

(* Without an error or a restart every open ticket has its SLA clock, or the *)
(* delivery that created or reopened it is about to start it, even when two  *)
(* replies reopen it at once. *)
ClockStarted ==
  faults = 0 =>
    \A i \in DOMAIN tickets :
      tickets[i].state = "open" /\ ~tickets[i].clock =>
        \E w \in Workers : At(w, "startClock") /\ thread[w] = i

(* Files in the cache that no row names and no delivery is about to store or *)
(* to drop. *)
Orphans ==
  {k \in cached \ Attached :
     ~\E w \in Workers : /\ k = Key(w, msg[w])
                         /\ pc[w] \in {"resolveThread", "addComment", "createTicket"}}

(* A delivery that threaded a message onto the ticket another delivery had   *)
(* raised from it, and found its files there. *)
RefusedFiles(m) ==
  \E c \in CommentsOf(m) : comments[c].ticket \in TicketsOf(m) /\ comments[c].key = NoKey

(* Without an error or a restart the deliveries that lose a race or drop a   *)
(* message clean up after themselves.  The one upload they leave behind is   *)
(* that of a message which two deliveries made a ticket and an activity on   *)
(* it: createRows records its files once and tells nobody. *)
NoOrphanedBytes == faults = 0 => \A k \in Orphans : RefusedFiles(k[2])

(* "So no orphaned binaries accumulate" (attachmentService): as NoOrphanedBytes *)
(* without that exception. *)
NoOrphans == faults = 0 => Orphans = {}

(* Only the cache's sweep removes bytes that an attachment row names: no     *)
(* delivery's clean-up reaches a file another delivery has committed. *)
BytesKept ==
  [][\A k \in cached \cap Attached : k \notin cached' => Evict(k)]_vars

(* A poller never gets to a message while those that never decode fill the   *)
(* batch ahead of it, on every poll anew; Graph also leaves out what is past *)
(* the cutoff. *)
Ahead(w, m) == IF w \in ImapPollers THEN {n \in 1 .. mail : n < m}
               ELSE {n \in (1 .. mail) \ aged : n > m}
Starved(w, m) ==
  \/ w \in GraphPollers /\ m \in aged
  \/ Cardinality({n \in Ahead(w, m) : kind[n] = "poison"}) >= limit

(* Every message that can be decoded is acknowledged in the end, unless it   *)
(* is starved at every poller there is: lost notifications, failed           *)
(* acknowledgements, errors and restarts are made up for by the next poll,   *)
(* batches that are cut get to every message, and fewer poisoned messages    *)
(* than fit a batch do not hold up the others. *)
AllHandled ==
  \A m \in Messages :
    (m <= mail /\ kind[m] # "poison")
      ~> (m \in seen \/ \A w \in Pollers \cap channels : Starved(w, m))

(* "Per-message failures are contained inside processOne" (imap/mailService): *)
(* as AllHandled, but a message that never decodes holds up no other.        *)
Contained ==
  \A m \in Messages :
    (m <= mail /\ kind[m] # "poison")
      ~> (m \in seen \/ (m \in aged /\ channels \cap ImapPollers = {}))
=============================================================================
