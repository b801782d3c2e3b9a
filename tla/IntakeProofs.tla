----------------------------- MODULE IntakeProofs -----------------------------
(* Theorems about Intake, for any number of messages and workers, any        *)
(* mailbox and conversations, and any number of faults.                      *)
EXTENDS Intake, TLAPS

-----------------------------------------------------------------------------
(* The inductive invariant.  An acknowledged message is recorded because the *)
(* worker that acknowledges it has seen its row or has just inserted it; so  *)
(* the invariant says what each statement knows of the message in hand.      *)

Dropped(m) == kind[m] \in {"junk", "refused"}

WorkOK(w) ==
  /\ pc[w] \in Steps => msg[w] \in Messages
  /\ pc[w] = "next" => batch[w] # {}
  /\ pc[w] = "upload" => msg[w] \in WithFiles
  /\ thread[w] \in 0 .. Len(tickets)
  /\ pc[w] \in {"addComment", "reopen", "startClock"} => thread[w] # 0
  /\ pc[w] \in {"reopen", "startClock"} => Recorded(msg[w])
  /\ pc[w] = "mark" => Recorded(msg[w]) \/ Dropped(msg[w])

RowsFit ==
  /\ \A c \in 1 .. Len(comments) : comments[c].ticket <= Len(tickets)
  /\ \A m \in Messages : cites[m] \in 0 .. Len(tickets)

IInv ==
  /\ TypeOK
  /\ RowsFit
  /\ \A w \in Workers : WorkOK(w)
  /\ SeenMeansKept

LEMMA Constants ==
  /\ MaxMail \in Nat /\ MaxFaults \in Nat /\ MaxDeliveries \in Nat
  /\ Messages \subseteq Nat /\ 0 \notin Messages
  /\ Conversation \in [Messages -> Messages]
  /\ WithFiles \subseteq Messages
  /\ \A s \in Starts : /\ s.channels \subseteq Workers /\ s.limit \in Nat \ {0}
                        /\ s.kind \in [Messages -> Kinds]
<1>1. /\ MaxMail \in Nat /\ MaxFaults \in Nat /\ MaxDeliveries \in Nat
      /\ Conversation \in [Messages -> Messages] /\ WithFiles \subseteq Messages
      /\ Starts \subseteq [channels : SUBSET Workers, limit : Nat \ {0},
                        kind : [Messages -> Kinds]]
  BY IntakeAssumption
<1>2. Messages \subseteq Nat /\ 0 \notin Messages
  BY <1>1 DEF Messages
<1> QED
  BY <1>1, <1>2

-----------------------------------------------------------------------------
(* Rows                                                                      *)

LEMMA AppendRow ==
  ASSUME NEW S, NEW s \in Seq(S), NEW e \in S
  PROVE  /\ Append(s, e) \in Seq(S)
         /\ Len(Append(s, e)) = Len(s) + 1
         /\ \A i \in 1 .. Len(s) : Append(s, e)[i] = s[i]
         /\ Append(s, e)[Len(s) + 1] = e
OBVIOUS

LEMMA AppendLast ==
  ASSUME NEW S, NEW s \in Seq(S), NEW e, Append(s, e) \in Seq(S)
  PROVE  Len(s) + 1 \in DOMAIN Append(s, e) /\ Append(s, e)[Len(s) + 1] = e
OBVIOUS

LEMMA AppendDomain ==
  ASSUME NEW S, NEW s \in Seq(S), NEW e, Append(s, e) \in Seq(S)
  PROVE  /\ \A i \in DOMAIN Append(s, e) : i \in DOMAIN s \/ i = Len(s) + 1
         /\ \A i \in DOMAIN s : Append(s, e)[i] = s[i]
OBVIOUS

(* Every row stays with the message it was made from. *)
Grows ==
  /\ tickets' \in Seq(TicketRows) /\ comments' \in Seq(CommentRows)
  /\ Len(tickets) <= Len(tickets') /\ Len(comments) <= Len(comments')
  /\ \A i \in 1 .. Len(tickets) : tickets'[i].message = tickets[i].message
  /\ \A c \in 1 .. Len(comments) : comments'[c].message = comments[c].message

LEMMA Domains ==
  ASSUME TypeOK
  PROVE  /\ tickets \in Seq(TicketRows) /\ comments \in Seq(CommentRows)
         /\ Len(tickets) \in Nat /\ Len(comments) \in Nat
         /\ DOMAIN tickets = 1 .. Len(tickets)
         /\ DOMAIN comments = 1 .. Len(comments)
<1>1. tickets \in Seq(TicketRows) /\ comments \in Seq(CommentRows)
  BY DEF TypeOK
<1> QED
  BY <1>1

LEMMA RecordedRows ==
  ASSUME TypeOK, NEW m
  PROVE  Recorded(m) <=> \/ \E i \in 1 .. Len(tickets) : tickets[i].message = m
                         \/ \E c \in 1 .. Len(comments) : comments[c].message = m
BY DEF Recorded, TicketsOf, CommentsOf, TypeOK

LEMMA RecordedStays ==
  ASSUME TypeOK, TypeOK', Grows, NEW m, Recorded(m)
  PROVE  Recorded(m)'
<1>1. CASE \E i \in 1 .. Len(tickets) : tickets[i].message = m
  <2>1. PICK i \in 1 .. Len(tickets) : tickets[i].message = m
    BY <1>1
  <2>2. i \in 1 .. Len(tickets') /\ tickets'[i].message = m
    BY <2>1, Domains DEF Grows
  <2> QED
    BY <2>2, Domains DEF Recorded, TicketsOf, Grows
<1>2. CASE \E c \in 1 .. Len(comments) : comments[c].message = m
  <2>1. PICK c \in 1 .. Len(comments) : comments[c].message = m
    BY <1>2
  <2>2. c \in 1 .. Len(comments') /\ comments'[c].message = m
    BY <2>1, Domains DEF Grows
  <2> QED
    BY <2>2, Domains DEF Recorded, CommentsOf, Grows
<1>3. \/ \E i \in 1 .. Len(tickets) : tickets[i].message = m
      \/ \E c \in 1 .. Len(comments) : comments[c].message = m
  BY RecordedRows
<1> QED
  BY <1>1, <1>2, <1>3

LEMMA SameRows ==
  ASSUME TypeOK, RowsFit, UNCHANGED dbVars, UNCHANGED cites
  PROVE  Grows /\ RowsFit'
<1>1. RowsFit'
  BY DEF RowsFit, dbVars
<1>2. Grows
  BY Domains DEF Grows, dbVars
<1> QED
  BY <1>1, <1>2

(* What the duplicate checks and the unique indexes compare. *)
LEMMA KnownMeansRecorded ==
  ASSUME NEW w \in Workers, KnownTicket(w) \/ KnownComment(w)
  PROVE  Recorded(msg[w])
BY DEF KnownTicket, KnownComment, Matches, Recorded, TicketsOf, CommentsOf

(* A write that leaves every ticket's identities alone. *)
LEMMA UpdateRows ==
  ASSUME TypeOK, RowsFit, UNCHANGED <<comments, cites>>,
         tickets' \in Seq(TicketRows), Len(tickets') = Len(tickets),
         \A i \in 1 .. Len(tickets) : tickets'[i].message = tickets[i].message
  PROVE  Grows /\ RowsFit'
<1>1. Grows
  BY Domains DEF Grows
<1> QED
  BY <1>1 DEF RowsFit

LEMMA NewTicketRow ==
  ASSUME NEW w \in Workers, msg[w] \in Messages
  PROVE  TicketRow(w) \in TicketRows
<1>1. Key(w, msg[w]) \in Keys \cup {NoKey} /\ Source(w) \in Sources
  BY DEF Key, Keys, Source, Sources
<1>2. Conversation[msg[w]] \in 0 .. MaxMail /\ 0 \in 0 .. MaxMail
  BY Constants DEF Messages
<1> QED
  BY <1>1, <1>2 DEF TicketRow, TicketRows

LEMMA NewCommentRow ==
  ASSUME NEW w \in Workers, msg[w] \in Messages, thread[w] \in Nat \ {0}
  PROVE  CommentRow(w) \in CommentRows
<1>1. /\ Key(w, msg[w]) \in Keys \cup {NoKey} /\ NoKey \in Keys \cup {NoKey}
      /\ Source(w) \in Sources
  BY DEF Key, Keys, Source, Sources
<1> QED
  BY <1>1 DEF CommentRow, CommentRows

LEMMA InsertTicket ==
  ASSUME TypeOK, RowsFit, NEW w \in Workers, msg[w] \in Messages,
         tickets' = Append(tickets, TicketRow(w)),
         UNCHANGED <<comments, cites>>
  PROVE  /\ Grows /\ RowsFit'
         /\ Len(tickets') = Len(tickets) + 1
         /\ tickets'[Len(tickets')].message = msg[w]
<1>1. TicketRow(w) \in TicketRows /\ TicketRow(w).message = msg[w]
  BY NewTicketRow DEF TicketRow
<1>2. /\ tickets' \in Seq(TicketRows)
      /\ Len(tickets') = Len(tickets) + 1
      /\ \A i \in 1 .. Len(tickets) : tickets'[i] = tickets[i]
      /\ tickets'[Len(tickets) + 1] = TicketRow(w)
  BY <1>1, AppendRow DEF TypeOK
<1>3. Len(tickets) \in Nat
  BY DEF TypeOK
<1>4. Grows
  BY <1>2, <1>3 DEF Grows, TypeOK
<1>5. RowsFit'
  <2>1. ASSUME NEW c \in 1 .. Len(comments)
        PROVE  comments[c].ticket <= Len(tickets')
    <3>1. comments[c] \in CommentRows
      BY Domains
    <3>2. comments[c].ticket \in Nat /\ comments[c].ticket <= Len(tickets)
      BY <3>1 DEF CommentRows, RowsFit
    <3> QED
      BY <1>2, <1>3, <3>2
  <2>2. \A m \in Messages : cites[m] \in 0 .. Len(tickets')
    BY <1>2, <1>3 DEF RowsFit
  <2> QED
    BY <2>1, <2>2 DEF RowsFit
<1> QED
  BY <1>1, <1>2, <1>4, <1>5

LEMMA InsertComment ==
  ASSUME TypeOK, RowsFit, NEW w \in Workers, msg[w] \in Messages,
         thread[w] \in 1 .. Len(tickets),
         comments' = Append(comments, CommentRow(w)),
         UNCHANGED <<tickets, cites>>
  PROVE  /\ Grows /\ RowsFit'
         /\ Len(comments') = Len(comments) + 1
         /\ comments'[Len(comments')].message = msg[w]
<1>1. /\ CommentRow(w) \in CommentRows /\ CommentRow(w).message = msg[w]
      /\ CommentRow(w).ticket = thread[w]
  <2>1. thread[w] \in Nat \ {0}
    BY DEF TypeOK
  <2> QED
    BY <2>1, NewCommentRow DEF CommentRow
<1>2. /\ comments' \in Seq(CommentRows)
      /\ Len(comments') = Len(comments) + 1
      /\ \A i \in 1 .. Len(comments) : comments'[i] = comments[i]
      /\ comments'[Len(comments) + 1] = CommentRow(w)
  BY <1>1, AppendRow DEF TypeOK
<1>3. Len(comments) \in Nat
  BY DEF TypeOK
<1>4. \A i \in 1 .. Len(comments') : i \in 1 .. Len(comments) \/ i = Len(comments) + 1
  BY <1>2, <1>3
<1>5. Grows
  BY <1>2, <1>3 DEF Grows, TypeOK
<1>6. RowsFit'
  <2>1. \A c \in 1 .. Len(comments') : comments'[c].ticket <= Len(tickets)
    BY <1>1, <1>2, <1>4 DEF RowsFit
  <2> QED
    BY <2>1 DEF RowsFit
<1> QED
  BY <1>1, <1>2, <1>5, <1>6

-----------------------------------------------------------------------------
(* Steps                                                                     *)

(* What every step keeps of what has been acknowledged. *)
LEMMA SeenStays ==
  ASSUME IInv, TypeOK', Grows, UNCHANGED kind, UNCHANGED seen
  PROVE  SeenMeansKept'
BY RecordedStays DEF IInv, SeenMeansKept

(* A step of worker w leaves what the others know true. *)
LEMMA Others ==
  ASSUME IInv, TypeOK', Grows, UNCHANGED kind, NEW v \in Workers,
         pc'[v] = pc[v], batch'[v] = batch[v], msg'[v] = msg[v],
         thread'[v] = thread[v]
  PROVE  WorkOK(v)'
<1>1. Recorded(msg[v]) => Recorded(msg[v])'
  <2>1. ASSUME NEW m, m = msg[v], Recorded(m)
        PROVE  Recorded(msg[v])'
    <3>1. Recorded(m)'
      BY <2>1, RecordedStays DEF IInv
    <3> QED
      BY <2>1, <3>1 DEF Recorded, TicketsOf, CommentsOf
  <2> QED
    BY <2>1
<1>3. Len(tickets) \in Nat /\ Len(tickets') \in Nat
  BY DEF IInv, TypeOK
<1> QED
  BY <1>1, <1>3 DEF IInv, WorkOK, Dropped, Grows

LEMMA Step ==
  ASSUME IInv, TypeOK', Grows, RowsFit', UNCHANGED kind, NEW w \in Workers,
         \A v \in Workers \ {w} : /\ pc'[v] = pc[v] /\ batch'[v] = batch[v]
                                  /\ msg'[v] = msg[v] /\ thread'[v] = thread[v],
         WorkOK(w)', SeenMeansKept'
  PROVE  IInv'
BY Others DEF IInv, RowsFit

-----------------------------------------------------------------------------
(* The workers' own state                                                    *)

LocalsOK ==
  /\ pc \in [Workers -> Labels] /\ batch \in [Workers -> SUBSET Messages]
  /\ msg \in [Workers -> 0 .. MaxMail] /\ thread \in [Workers -> Nat]
  /\ finished \in [Workers -> BOOLEAN]

SharedOK ==
  /\ channels \subseteq Workers /\ limit \in Nat \ {0} /\ kind \in [Messages -> Kinds]
  /\ mail \in 0 .. MaxMail /\ cites \in [Messages -> Nat]
  /\ seen \subseteq Messages /\ aged \subseteq Messages /\ recent \subseteq Messages
  /\ tickets \in Seq(TicketRows) /\ comments \in Seq(CommentRows)
  /\ cached \subseteq Keys
  /\ deliveries \in 0 .. MaxDeliveries /\ faults \in 0 .. MaxFaults

LEMMA TypeParts == TypeOK <=> LocalsOK /\ SharedOK
BY DEF TypeOK, LocalsOK, SharedOK

Alone(w) == \A v \in Workers \ {w} : /\ pc'[v] = pc[v] /\ batch'[v] = batch[v]
                                     /\ msg'[v] = msg[v] /\ thread'[v] = thread[v]

LEMMA MoveAlone ==
  ASSUME TypeOK, NEW w \in Workers, NEW l, NEW m, NEW left,
         Goto(w, l) \/ Conclude(w) \/ Rest(w) \/ Open(w, m, left)
  PROVE  Alone(w)
BY DEF TypeOK, Alone, Goto, Conclude, Rest, Open

LEMMA GotoLocals ==
  ASSUME TypeOK, NEW w \in Workers, NEW l \in Labels, Goto(w, l)
  PROVE  /\ LocalsOK' /\ Alone(w)
         /\ pc'[w] = l /\ batch'[w] = batch[w] /\ msg'[w] = msg[w]
         /\ thread'[w] = thread[w]
BY DEF TypeOK, LocalsOK, Alone, Goto

LEMMA ConcludeLocals ==
  ASSUME TypeOK, NEW w \in Workers, Conclude(w)
  PROVE  /\ LocalsOK' /\ Alone(w)
         /\ pc'[w] = "mark" /\ msg'[w] = msg[w] /\ thread'[w] = 0
BY DEF TypeOK, LocalsOK, Alone, Conclude, Labels, Steps

LEMMA RestLocals ==
  ASSUME TypeOK, NEW w \in Workers, Rest(w)
  PROVE  /\ LocalsOK' /\ Alone(w)
         /\ pc'[w] = Resting(batch[w]) /\ batch'[w] = batch[w] /\ thread'[w] = 0
<1>1. Resting(batch[w]) \in Labels /\ 0 \in 0 .. MaxMail
  BY Constants DEF Resting, Labels
<1> QED
  BY <1>1 DEF TypeOK, LocalsOK, Alone, Rest

LEMMA OpenLocals ==
  ASSUME TypeOK, NEW w \in Workers, NEW m \in Messages,
         NEW left \in SUBSET Messages, Open(w, m, left)
  PROVE  /\ LocalsOK' /\ Alone(w)
         /\ batch'[w] = left /\ thread'[w] = thread[w]
         /\ \/ pc'[w] = Resting(left)
            \/ pc'[w] = "mark" /\ kind[m] = "refused" /\ msg'[w] = m
            \/ pc'[w] = "findTicket" /\ msg'[w] = m
<1>1. Resting(left) \in Labels /\ "mark" \in Labels /\ "findTicket" \in Labels
  BY DEF Resting, Labels, Steps
<1>2. m \in 0 .. MaxMail
  BY Constants DEF Messages
<1> QED
  BY <1>1, <1>2 DEF TypeOK, LocalsOK, Alone, Open

(* A step of worker w that leaves the rows alone. *)
LEMMA QuietStep ==
  ASSUME IInv, UNCHANGED <<dbVars, cites, kind, seen>>, SharedOK', LocalsOK',
         NEW w \in Workers, Alone(w), WorkOK(w)'
  PROVE  IInv'
<1>1. TypeOK'
  BY DEF TypeOK, LocalsOK, SharedOK
<1>2. Grows /\ RowsFit'
  BY SameRows DEF IInv, RowsFit
<1>3. SeenMeansKept'
  BY <1>1, <1>2, SeenStays
<1> QED
  BY <1>1, <1>2, <1>3, Step DEF Alone

(* What is recorded stays so while the rows stay. *)
LEMMA RecordedSame ==
  ASSUME UNCHANGED dbVars, NEW w \in Workers, msg'[w] = msg[w], Recorded(msg[w])
  PROVE  Recorded(msg[w])'
BY DEF dbVars, Recorded, TicketsOf, CommentsOf

LEMMA RestingWork ==
  ASSUME IInv, TypeOK', NEW w \in Workers,
         pc'[w] = Resting(batch'[w]), thread'[w] \in 0 .. Len(tickets')
  PROVE  WorkOK(w)'
BY DEF WorkOK, Resting, Steps

LEMMA ZeroThread ==
  ASSUME TypeOK PROVE 0 \in 0 .. Len(tickets)
BY DEF TypeOK

-----------------------------------------------------------------------------
(* One lemma per action                                                      *)

LEMMA StartPollStep ==
  ASSUME IInv, NEW w \in Workers, StartPoll(w)
  PROVE  IInv'
<1>1. Listing(w) \subseteq Messages /\ Listing(w) # {}
  <2>1. 1 .. mail \subseteq Messages
    BY Constants DEF Messages, IInv, TypeOK
  <2>2. Listing(w) \subseteq 1 .. mail
    BY DEF Listing, Oldest, Latest, Unread
  <2> QED
    BY <2>1, <2>2 DEF StartPoll
<1>2. LocalsOK' /\ Alone(w) /\ batch'[w] = Listing(w) /\ pc'[w] = "next"
      /\ thread'[w] = thread[w]
  BY <1>1 DEF StartPoll, IInv, TypeOK, LocalsOK, Alone, Labels
<1>3. SharedOK'
  BY DEF StartPoll, IInv, TypeOK, SharedOK, mailVars, dbVars
<1>4. WorkOK(w)'
  BY <1>1, <1>2 DEF WorkOK, Steps, IInv, StartPoll, dbVars
<1> QED
  BY <1>2, <1>3, <1>4, QuietStep DEF StartPoll, mailVars

LEMMA OpenWork ==
  ASSUME IInv, NEW w \in Workers, NEW m \in Messages,
         NEW left \in SUBSET Messages, Open(w, m, left),
         UNCHANGED <<dbVars, kind>>
  PROVE  WorkOK(w)'
<1>1. thread'[w] \in 0 .. Len(tickets')
  BY OpenLocals DEF IInv, WorkOK, dbVars
<1>2. CASE pc'[w] = Resting(left)
  BY <1>1, <1>2, OpenLocals DEF IInv, WorkOK, Resting, Steps
<1>3. CASE pc'[w] = "mark" /\ kind[m] = "refused" /\ msg'[w] = m
  BY <1>1, <1>3 DEF WorkOK, Dropped
<1>4. CASE pc'[w] = "findTicket" /\ msg'[w] = m
  BY <1>1, <1>4 DEF WorkOK
<1> QED
  BY <1>2, <1>3, <1>4, OpenLocals DEF IInv

LEMMA TakeMessageStep ==
  ASSUME IInv, NEW w \in Workers, TakeMessage(w)
  PROVE  IInv'
<1>1. PICK m \in First(w) : Open(w, m, batch[w] \ {m})
  BY DEF TakeMessage
<1>2. m \in Messages /\ batch[w] \ {m} \in SUBSET Messages
  BY <1>1 DEF First, Eldest, Newest, IInv, TypeOK
<1>3. LocalsOK' /\ Alone(w)
  BY <1>1, <1>2, OpenLocals DEF IInv
<1>4. SharedOK'
  BY DEF TakeMessage, IInv, TypeOK, SharedOK, mailVars, dbVars
<1>5. WorkOK(w)'
  BY <1>1, <1>2, OpenWork DEF TakeMessage, mailVars
<1> QED
  BY <1>3, <1>4, <1>5, QuietStep DEF TakeMessage, mailVars

LEMMA NotifyStep ==
  ASSUME IInv, NEW w \in Workers, NEW m \in Messages, Notify(w, m)
  PROVE  IInv'
<1>1. SharedOK'
  BY Constants DEF Notify, IInv, TypeOK, SharedOK, dbVars
<1>2. CASE UNCHANGED jobVars
  <2>1. LocalsOK' /\ Alone(w)
    BY <1>2 DEF jobVars, IInv, TypeOK, LocalsOK, Alone
  <2>2. WorkOK(w)'
    BY <1>2, RecordedSame DEF jobVars, IInv, WorkOK, Notify, dbVars, Dropped
  <2> QED
    BY <1>1, <2>1, <2>2, QuietStep DEF Notify
<1>3. CASE Open(w, m, {})
  <2>1. LocalsOK' /\ Alone(w)
    BY <1>3, OpenLocals DEF IInv
  <2>2. WorkOK(w)'
    BY <1>3, OpenWork DEF Notify
  <2> QED
    BY <1>1, <2>1, <2>2, QuietStep DEF Notify
<1> QED
  BY <1>2, <1>3 DEF Notify

LEMMA FindTicketStep ==
  ASSUME IInv, NEW w \in Workers, FindTicket(w)
  PROVE  IInv'
<1>1. SharedOK' /\ msg[w] \in Messages
  BY DEF FindTicket, At, Steps, IInv, TypeOK, WorkOK, SharedOK, mailVars, dbVars
<1>2. CASE KnownTicket(w) /\ Conclude(w)
  <2>1. LocalsOK' /\ Alone(w) /\ WorkOK(w)'
    BY <1>1, <1>2, ConcludeLocals, KnownMeansRecorded, RecordedSame, ZeroThread
       DEF IInv, RowsFit, WorkOK, FindTicket, dbVars
  <2> QED
    BY <1>1, <2>1, QuietStep DEF FindTicket, mailVars
<1>3. CASE Goto(w, "findComment")
  <2>1. LocalsOK' /\ Alone(w) /\ WorkOK(w)'
    BY <1>1, <1>3, GotoLocals DEF IInv, WorkOK, FindTicket, dbVars, Labels, Steps
  <2> QED
    BY <1>1, <2>1, QuietStep DEF FindTicket, mailVars
<1> QED
  BY <1>2, <1>3 DEF FindTicket

LEMMA FindCommentStep ==
  ASSUME IInv, NEW w \in Workers, FindComment(w)
  PROVE  IInv'
<1>1. SharedOK' /\ msg[w] \in Messages
  BY DEF FindComment, At, Steps, IInv, TypeOK, WorkOK, SharedOK, mailVars, dbVars
<1>2. CASE KnownComment(w) /\ Conclude(w)
  <2>1. LocalsOK' /\ Alone(w) /\ WorkOK(w)'
    BY <1>1, <1>2, ConcludeLocals, KnownMeansRecorded, RecordedSame, ZeroThread
       DEF IInv, RowsFit, WorkOK, FindComment, dbVars
  <2> QED
    BY <1>1, <2>1, QuietStep DEF FindComment, mailVars
<1>3. ASSUME NEW l \in {"upload", "resolveThread"}, Goto(w, l),
             l = "upload" => msg[w] \in WithFiles
      PROVE  IInv'
  <2>1. LocalsOK' /\ Alone(w) /\ WorkOK(w)'
    BY <1>1, <1>3, GotoLocals DEF IInv, WorkOK, FindComment, dbVars, Labels, Steps
  <2> QED
    BY <1>1, <2>1, QuietStep DEF FindComment, mailVars
<1> QED
  BY <1>2, <1>3 DEF FindComment

LEMMA UploadStep ==
  ASSUME IInv, NEW w \in Workers, Upload(w)
  PROVE  IInv'
<1>1. msg[w] \in WithFiles /\ msg[w] \in Messages
  BY Constants DEF Upload, At, IInv, WorkOK
<1>2. Key(w, msg[w]) \in Keys
  BY <1>1 DEF Key, Keys
<1>3. SharedOK'
  BY <1>2 DEF Upload, IInv, TypeOK, SharedOK, mailVars, dbVars
<1>4. LocalsOK' /\ Alone(w) /\ WorkOK(w)'
  BY <1>1, GotoLocals DEF Upload, IInv, WorkOK, dbVars, Labels, Steps
<1> QED
  BY <1>3, <1>4, QuietStep DEF Upload, mailVars

(* Whatever ticket resolveThread finds is there. *)
LEMMA ThreadExists ==
  ASSUME IInv, NEW w \in Workers, msg[w] \in Messages, NEW t \in Thread(w)
  PROVE  t \in 0 .. Len(tickets)
<1> DEFINE m == msg[w]
<1>1. cites[m] \in 0 .. Len(tickets)
  BY DEF IInv, RowsFit
<1>2. /\ Newest(ByChain(m)) \subseteq 0 .. Len(tickets)
      /\ Newest(ByTalk(m)) \subseteq 0 .. Len(tickets)
  BY DEF Newest, ByChain, ByTalk, IInv, TypeOK
<1>3. ASSUME NEW c \in Newest(ByReply(m))
      PROVE  comments[c].ticket \in 0 .. Len(tickets)
  <2>1. c \in 1 .. Len(comments)
    BY <1>3 DEF Newest, ByReply, IInv, TypeOK
  <2>2. comments[c] \in CommentRows /\ comments[c].ticket <= Len(tickets)
    BY <2>1 DEF IInv, TypeOK, RowsFit
  <2> QED
    BY <2>2 DEF CommentRows, IInv, TypeOK
<1>4. 0 \in 0 .. Len(tickets)
  BY ZeroThread DEF IInv
<1> QED
  BY <1>1, <1>2, <1>3, <1>4 DEF Thread, NoThread

LEMMA ResolveThreadStep ==
  ASSUME IInv, NEW w \in Workers, ResolveThread(w)
  PROVE  IInv'
<1>1. msg[w] \in Messages
  BY DEF ResolveThread, At, Steps, IInv, WorkOK
<1>2. PICK t \in Thread(w) :
        /\ thread' = [thread EXCEPT ![w] = t]
        /\ finished' = [finished EXCEPT ![w] = t # 0 /\ tickets[t].state = "done"]
        /\ pc' = [pc EXCEPT ![w] = IF t # 0 THEN "addComment"
                                   ELSE IF kind[msg[w]] = "junk" THEN "mark"
                                   ELSE "createTicket"]
        /\ cached' = IF t = 0 /\ kind[msg[w]] = "junk"
                     THEN cached \ {Key(w, msg[w])} ELSE cached
  BY DEF ResolveThread
<1>3. t \in 0 .. Len(tickets) /\ t \in Nat
  BY <1>1, ThreadExists DEF IInv, TypeOK
<1>4. SharedOK'
  BY <1>2 DEF ResolveThread, IInv, TypeOK, SharedOK, mailVars, dbVars
<1>5. LocalsOK' /\ Alone(w)
  <2>1. finished' \in [Workers -> BOOLEAN]
    BY <1>2, Zenon DEF IInv, TypeOK
  <2> QED
    BY <1>2, <1>3, <2>1 DEF ResolveThread, IInv, TypeOK, LocalsOK, Alone, Labels, Steps
<1>6. /\ thread'[w] = t /\ msg'[w] = msg[w] /\ batch'[w] = batch[w]
      /\ \/ t # 0 /\ pc'[w] = "addComment"
         \/ kind[msg[w]] = "junk" /\ pc'[w] = "mark"
         \/ pc'[w] = "createTicket"
  BY <1>2 DEF ResolveThread, IInv, TypeOK
<1>7. UNCHANGED <<dbVars, kind>>
  BY DEF ResolveThread, mailVars
<1>8. WorkOK(w)'
  BY <1>1, <1>3, <1>6, <1>7 DEF WorkOK, Steps, Dropped, dbVars
<1> QED
  BY <1>4, <1>5, <1>8, QuietStep DEF ResolveThread, mailVars

(* A row that has just been appended for the message in hand. *)
LEMMA JustRecorded ==
  ASSUME TypeOK', NEW w \in Workers, msg'[w] = msg[w],
         \/ Len(tickets') # 0 /\ tickets'[Len(tickets')].message = msg[w]
         \/ Len(comments') # 0 /\ comments'[Len(comments')].message = msg[w]
  PROVE  Recorded(msg[w])'
<1>1. Len(tickets') \in Nat /\ Len(comments') \in Nat
  BY DEF TypeOK
<1>2. CASE Len(tickets') # 0 /\ tickets'[Len(tickets')].message = msg[w]
  <2>1. Len(tickets') \in DOMAIN tickets'
    BY <1>1, <1>2 DEF TypeOK
  <2> QED
    BY <1>2, <2>1 DEF Recorded, TicketsOf
<1>3. CASE Len(comments') # 0 /\ comments'[Len(comments')].message = msg[w]
  <2>1. Len(comments') \in DOMAIN comments'
    BY <1>1, <1>3 DEF TypeOK
  <2> QED
    BY <1>3, <2>1 DEF Recorded, CommentsOf
<1> QED
  BY <1>2, <1>3

LEMMA AddCommentStep ==
  ASSUME IInv, NEW w \in Workers, AddComment(w)
  PROVE  IInv'
<1>1. msg[w] \in Messages /\ thread[w] \in 1 .. Len(tickets) /\ TypeOK /\ RowsFit
  BY DEF AddComment, At, Steps, IInv, WorkOK, RowsFit, TypeOK
<1>2. CASE KnownComment(w)
  <2>1. SharedOK'
    BY <1>2 DEF AddComment, IInv, TypeOK, SharedOK, mailVars
  <2>2. UNCHANGED dbVars
    BY <1>2 DEF AddComment, dbVars
  <2>3. LocalsOK' /\ Alone(w) /\ WorkOK(w)'
    BY <1>1, <1>2, <2>2, ConcludeLocals, KnownMeansRecorded, RecordedSame, ZeroThread
       DEF WorkOK, AddComment, dbVars
  <2> QED
    BY <2>1, <2>2, <2>3, QuietStep DEF AddComment, mailVars
<1>3. CASE ~KnownComment(w)
  <2>1. /\ Grows /\ RowsFit' /\ Len(comments') = Len(comments) + 1
        /\ comments'[Len(comments')].message = msg[w]
    BY <1>1, <1>3, InsertComment DEF AddComment, mailVars
  <2>2. /\ LocalsOK' /\ Alone(w) /\ msg'[w] = msg[w]
        /\ \/ pc'[w] = "reopen" /\ thread'[w] = thread[w]
           \/ pc'[w] = "mark" /\ thread'[w] = 0
    BY <1>1, <1>3, ConcludeLocals, GotoLocals DEF AddComment, Labels, Steps
  <2>3. SharedOK'
    BY <1>3, <2>1 DEF AddComment, IInv, TypeOK, SharedOK, Grows, mailVars
  <2>4. TypeOK'
    BY <2>2, <2>3 DEF TypeOK, LocalsOK, SharedOK
  <2>5. Len(comments') # 0 /\ tickets' = tickets
    BY <1>1, <2>1 DEF TypeOK, AddComment
  <2>6. Recorded(msg[w])'
    BY <2>1, <2>2, <2>4, <2>5, JustRecorded
  <2>7. WorkOK(w)'
    BY <1>1, <2>2, <2>5, <2>6, ZeroThread DEF WorkOK
  <2>8. SeenMeansKept'
    BY <2>1, <2>4, SeenStays DEF AddComment, mailVars
  <2> QED
    BY <2>1, <2>2, <2>4, <2>7, <2>8, Step DEF Alone, AddComment, mailVars
<1> QED
  BY <1>2, <1>3

(* A write to the ticket row in hand that keeps its identities. *)
LEMMA TouchTicket ==
  ASSUME TypeOK, RowsFit, NEW i \in 1 .. Len(tickets), NEW row \in TicketRows,
         tickets' = [tickets EXCEPT ![i] = row],
         row.message = tickets[i].message, row.source = tickets[i].source,
         UNCHANGED <<comments, cites>>
  PROVE  Grows /\ RowsFit' /\ Len(tickets') = Len(tickets)
<1>1. tickets' \in Seq(TicketRows) /\ Len(tickets') = Len(tickets)
  BY DEF TypeOK
<1>2. \A j \in 1 .. Len(tickets) : /\ tickets'[j].message = tickets[j].message
                                   /\ tickets'[j].source = tickets[j].source
  BY DEF TypeOK
<1> QED
  BY <1>1, <1>2, UpdateRows

(* Changes to a ticket's status and clock. *)
LEMMA TouchedRow ==
  ASSUME TypeOK, NEW i \in 1 .. Len(tickets), NEW st \in {"open", "done"},
         NEW ck \in BOOLEAN
  PROVE  [tickets[i] EXCEPT !.state = st, !.clock = ck] \in TicketRows
<1>1. tickets[i] \in TicketRows
  BY DEF TypeOK
<1> QED
  BY <1>1 DEF TicketRows

LEMMA ReopenStep ==
  ASSUME IInv, NEW w \in Workers, Reopen(w)
  PROVE  IInv'
<1> DEFINE row == [tickets[thread[w]] EXCEPT !.state = "open", !.clock = FALSE]
<1>1. /\ thread[w] \in 1 .. Len(tickets) /\ TypeOK /\ RowsFit
      /\ msg[w] \in Messages /\ Recorded(msg[w])
  BY DEF Reopen, At, Steps, IInv, WorkOK, RowsFit, TypeOK
<1>2. row \in TicketRows
  BY <1>1, TouchedRow
<1>3. row.message = tickets[thread[w]].message /\ row.source = tickets[thread[w]].source
  BY <1>1 DEF TypeOK, TicketRows
<1>4. tickets' = [tickets EXCEPT ![thread[w]] = row]
  BY <1>1 DEF Reopen, TypeOK, TicketRows
<1>5. Grows /\ RowsFit' /\ Len(tickets') = Len(tickets)
  BY <1>1, <1>2, <1>3, <1>4, TouchTicket DEF Reopen, mailVars
<1>6. /\ LocalsOK' /\ Alone(w) /\ pc'[w] = "startClock"
      /\ msg'[w] = msg[w] /\ thread'[w] = thread[w]
  BY <1>1, GotoLocals DEF Reopen, Labels, Steps
<1>7. SharedOK'
  BY <1>1, <1>5 DEF Reopen, TypeOK, SharedOK, Grows, mailVars
<1>8. TypeOK'
  BY <1>6, <1>7 DEF TypeOK, LocalsOK, SharedOK
<1>9. Recorded(msg[w])'
  <2>1. PICK m \in Messages : m = msg[w] /\ Recorded(m)
    BY <1>1
  <2>2. Recorded(m)'
    BY <1>1, <1>5, <1>8, <2>1, RecordedStays
  <2> QED
    BY <1>6, <2>1, <2>2 DEF Recorded, TicketsOf, CommentsOf
<1>10. WorkOK(w)'
  BY <1>1, <1>5, <1>6, <1>9 DEF WorkOK
<1>11. SeenMeansKept'
  BY <1>5, <1>8, SeenStays DEF Reopen, mailVars
<1> QED
  BY <1>5, <1>6, <1>8, <1>10, <1>11, Step DEF Alone, Reopen, mailVars

LEMMA StartClockStep ==
  ASSUME IInv, NEW w \in Workers, StartClock(w)
  PROVE  IInv'
<1> DEFINE row == [tickets[thread[w]] EXCEPT !.clock = TRUE]
<1>1. /\ thread[w] \in 1 .. Len(tickets) /\ TypeOK /\ RowsFit
      /\ msg[w] \in Messages /\ Recorded(msg[w])
  BY DEF StartClock, At, Steps, IInv, WorkOK, RowsFit, TypeOK
<1>2. row \in TicketRows
  <2>1. tickets[thread[w]] \in TicketRows
    BY <1>1 DEF TypeOK
  <2> QED
    BY <2>1 DEF TicketRows
<1>3. row.message = tickets[thread[w]].message /\ row.source = tickets[thread[w]].source
  BY <1>1 DEF TypeOK, TicketRows
<1>4. tickets' = [tickets EXCEPT ![thread[w]] = row]
  BY <1>1 DEF StartClock, TypeOK, TicketRows
<1>5. Grows /\ RowsFit' /\ Len(tickets') = Len(tickets)
  BY <1>1, <1>2, <1>3, <1>4, TouchTicket DEF StartClock, mailVars
<1>6. /\ LocalsOK' /\ Alone(w) /\ pc'[w] = "mark"
      /\ msg'[w] = msg[w] /\ thread'[w] = 0
  BY <1>1, ConcludeLocals DEF StartClock
<1>7. SharedOK'
  BY <1>1, <1>5 DEF StartClock, TypeOK, SharedOK, Grows, mailVars
<1>8. TypeOK'
  BY <1>6, <1>7 DEF TypeOK, LocalsOK, SharedOK
<1>9. Recorded(msg[w])'
  <2>1. PICK m \in Messages : m = msg[w] /\ Recorded(m)
    BY <1>1
  <2>2. Recorded(m)'
    BY <1>1, <1>5, <1>8, <2>1, RecordedStays
  <2> QED
    BY <1>6, <2>1, <2>2 DEF Recorded, TicketsOf, CommentsOf
<1>10. WorkOK(w)'
  BY <1>1, <1>5, <1>6, <1>9, <1>8, ZeroThread DEF WorkOK
<1>11. SeenMeansKept'
  BY <1>5, <1>8, SeenStays DEF StartClock, mailVars
<1> QED
  BY <1>5, <1>6, <1>8, <1>10, <1>11, Step DEF Alone, StartClock, mailVars

LEMMA CreateTicketStep ==
  ASSUME IInv, NEW w \in Workers, CreateTicket(w)
  PROVE  IInv'
<1>1. msg[w] \in Messages /\ TypeOK /\ RowsFit
  BY DEF CreateTicket, At, Steps, IInv, WorkOK, RowsFit
<1>2. CASE KnownTicket(w)
  <2>1. SharedOK'
    BY <1>2 DEF CreateTicket, IInv, TypeOK, SharedOK, mailVars
  <2>2. UNCHANGED dbVars
    BY <1>2 DEF CreateTicket, dbVars
  <2>3. LocalsOK' /\ Alone(w) /\ WorkOK(w)'
    BY <1>1, <1>2, <2>2, ConcludeLocals, KnownMeansRecorded, RecordedSame, ZeroThread
       DEF WorkOK, CreateTicket, dbVars
  <2> QED
    BY <2>1, <2>2, <2>3, QuietStep DEF CreateTicket, mailVars
<1>3. CASE ~KnownTicket(w)
  <2>1. /\ Grows /\ RowsFit' /\ Len(tickets') = Len(tickets) + 1
        /\ tickets'[Len(tickets')].message = msg[w]
    BY <1>1, <1>3, InsertTicket DEF CreateTicket, mailVars
  <2>2. /\ LocalsOK' /\ Alone(w) /\ msg'[w] = msg[w]
        /\ pc'[w] = "startClock" /\ thread'[w] = Len(tickets) + 1
    <3>1. Len(tickets) + 1 \in Nat
      BY <1>1, Domains
    <3> QED
      BY <1>1, <1>3, <3>1 DEF CreateTicket, TypeOK, LocalsOK, Alone, Labels, Steps
  <2>3. SharedOK'
    BY <1>3, <2>1 DEF CreateTicket, IInv, TypeOK, SharedOK, Grows, mailVars
  <2>4. TypeOK'
    BY <2>2, <2>3 DEF TypeOK, LocalsOK, SharedOK
  <2>5. Len(tickets') # 0
    BY <1>1, <2>1, Domains
  <2>6. Recorded(msg[w])'
    BY <2>1, <2>2, <2>4, <2>5, JustRecorded
  <2>7. WorkOK(w)'
    BY <1>1, <2>1, <2>2, <2>6, Domains DEF WorkOK
  <2>8. SeenMeansKept'
    BY <2>1, <2>4, SeenStays DEF CreateTicket, mailVars
  <2> QED
    BY <2>1, <2>2, <2>4, <2>7, <2>8, Step DEF Alone, CreateTicket, mailVars
<1> QED
  BY <1>2, <1>3

(* A worker puts its message down. *)
LEMMA RestStep ==
  ASSUME IInv, NEW w \in Workers, Rest(w), UNCHANGED <<dbVars, cites, kind>>,
         SharedOK', SeenMeansKept'
  PROVE  IInv'
<1>1. LocalsOK' /\ Alone(w) /\ pc'[w] = Resting(batch'[w]) /\ thread'[w] = 0
  BY RestLocals DEF IInv
<1>2. TypeOK'
  BY <1>1 DEF TypeOK, LocalsOK, SharedOK
<1>3. Grows /\ RowsFit'
  BY SameRows DEF IInv, RowsFit
<1>4. 0 \in 0 .. Len(tickets')
  BY ZeroThread DEF IInv, dbVars
<1>5. WorkOK(w)'
  BY <1>1, <1>2, <1>4, RestingWork
<1> QED
  BY <1>1, <1>2, <1>3, <1>5, Step DEF Alone

LEMMA SeenSame ==
  ASSUME IInv, UNCHANGED <<dbVars, kind, seen>>
  PROVE  SeenMeansKept'
BY DEF IInv, SeenMeansKept, Recorded, TicketsOf, CommentsOf, dbVars

LEMMA MarkSeenStep ==
  ASSUME IInv, NEW w \in Workers, MarkSeen(w)
  PROVE  IInv'
<1>1. /\ msg[w] \in Messages
      /\ Recorded(msg[w]) \/ Dropped(msg[w])
  BY DEF MarkSeen, At, Steps, IInv, WorkOK
<1>2. SharedOK'
  BY <1>1 DEF MarkSeen, Remember, IInv, TypeOK, SharedOK, mailVars, dbVars
<1>3. UNCHANGED <<dbVars, cites, kind>>
  BY DEF MarkSeen, mailVars
<1>4. SeenMeansKept'
  <2>1. ASSUME NEW m \in seen'
        PROVE  Recorded(m) \/ Dropped(m)
    BY <1>1, <2>1 DEF MarkSeen, IInv, SeenMeansKept, Dropped
  <2> QED
    BY <1>3, <2>1 DEF SeenMeansKept, Dropped, Recorded, TicketsOf, CommentsOf, dbVars
<1> QED
  BY <1>2, <1>3, <1>4, RestStep DEF MarkSeen

LEMMA MarkFailsStep ==
  ASSUME IInv, NEW w \in Workers, MarkFails(w)
  PROVE  IInv'
<1>1. msg[w] \in Messages
  BY DEF MarkFails, At, Steps, IInv, WorkOK
<1>2. SharedOK'
  <2>1. recent' \subseteq Messages
    BY <1>1 DEF MarkFails, Remember, IInv, TypeOK
  <2>2. faults' \in 0 .. MaxFaults
    BY Constants DEF MarkFails, IInv, TypeOK
  <2> QED
    BY <2>1, <2>2 DEF MarkFails, IInv, TypeOK, SharedOK, mailVars, dbVars
<1>3. UNCHANGED <<dbVars, cites, kind, seen>>
  BY DEF MarkFails, mailVars
<1> QED
  BY <1>2, <1>3, SeenSame, RestStep DEF MarkFails

LEMMA FailStep ==
  ASSUME IInv, NEW w \in Workers, Fail(w)
  PROVE  IInv'
<1>1. SharedOK'
  BY Constants DEF Fail, IInv, TypeOK, SharedOK, mailVars, dbVars
<1>2. UNCHANGED <<dbVars, cites, kind, seen>>
  BY DEF Fail, mailVars
<1> QED
  BY <1>1, <1>2, SeenSame, RestStep DEF Fail

(* A step that leaves the workers alone. *)
LEMMA StillStep ==
  ASSUME IInv, UNCHANGED <<jobVars, kind, seen>>, Grows, RowsFit', SharedOK'
  PROVE  IInv'
<1>1. TypeOK'
  BY DEF IInv, TypeOK, SharedOK, jobVars
<1>2. SeenMeansKept'
  BY <1>1, SeenStays
<1>3. \A v \in Workers : WorkOK(v)'
  BY <1>1, Others DEF jobVars
<1> QED
  BY <1>1, <1>2, <1>3 DEF IInv, RowsFit

LEMMA ArriveStep ==
  ASSUME IInv, Arrive
  PROVE  IInv'
<1> DEFINE m == mail + 1
<1>1. PICK i \in {0} \cup UNION {TicketsOf(n) \cup {comments[c].ticket : c \in CommentsOf(n)}
                                   : n \in Chain[m]} :
        cites' = [cites EXCEPT ![m] = i]
  BY DEF Arrive
<1>2. i \in 0 .. Len(tickets) /\ i \in Nat
  <2>1. \A n : TicketsOf(n) \subseteq 0 .. Len(tickets)
    BY Domains DEF TicketsOf, IInv
  <2>2. ASSUME NEW n, NEW c \in CommentsOf(n)
        PROVE  comments[c].ticket \in 0 .. Len(tickets)
    <3>1. c \in 1 .. Len(comments)
      BY Domains DEF CommentsOf, IInv
    <3>2. comments[c] \in CommentRows /\ comments[c].ticket <= Len(tickets)
      BY <3>1, Domains DEF IInv, RowsFit
    <3> QED
      BY <3>2, Domains DEF CommentRows, IInv
  <2>3. 0 \in 0 .. Len(tickets) /\ 0 .. Len(tickets) \subseteq Nat
    BY ZeroThread DEF IInv
  <2> QED
    BY <1>1, <2>1, <2>2, <2>3
<1>3. cites' \in [Messages -> Nat] /\ \A n \in Messages : cites'[n] \in 0 .. Len(tickets)
  BY <1>1, <1>2 DEF IInv, TypeOK, RowsFit
<1>4. SharedOK'
  BY <1>3, Constants DEF Arrive, IInv, TypeOK, SharedOK, dbVars
<1>5. Grows
  BY Domains DEF IInv, Grows, Arrive, dbVars
<1>6. RowsFit'
  BY <1>3 DEF Arrive, IInv, RowsFit, dbVars
<1> QED
  BY <1>4, <1>5, <1>6, StillStep DEF Arrive

LEMMA FinishTicketStep ==
  ASSUME IInv, NEW i \in DOMAIN tickets, FinishTicket(i)
  PROVE  IInv'
<1> DEFINE row == [tickets[i] EXCEPT !.state = "done"]
<1>1. TypeOK /\ RowsFit /\ i \in 1 .. Len(tickets)
  BY Domains DEF IInv, RowsFit
<1>2. row \in TicketRows
  <2>1. tickets[i] \in TicketRows
    BY <1>1 DEF TypeOK
  <2> QED
    BY <2>1 DEF TicketRows
<1>3. row.message = tickets[i].message /\ row.source = tickets[i].source
  BY <1>1 DEF TypeOK, TicketRows
<1>4. tickets' = [tickets EXCEPT ![i] = row]
  BY <1>1 DEF FinishTicket, TypeOK, TicketRows
<1>5. Grows /\ RowsFit'
  BY <1>1, <1>2, <1>3, <1>4, TouchTicket DEF FinishTicket, mailVars
<1>6. SharedOK'
  BY <1>1, <1>5 DEF FinishTicket, TypeOK, SharedOK, Grows, mailVars
<1> QED
  BY <1>5, <1>6, StillStep DEF FinishTicket, mailVars

(* The surroundings that touch neither rows nor workers. *)
LEMMA AmbientStep ==
  ASSUME IInv, \/ \E m \in Messages : GrowOld(m)
               \/ \E k \in Keys : Evict(k) \/ View(k)
  PROVE  IInv'
<1>1. UNCHANGED <<jobVars, dbVars, cites, kind, seen>>
  BY DEF GrowOld, Evict, View, mailVars
<1>2. SharedOK'
  <2>1. CASE \E m \in Messages : GrowOld(m)
    <3>1. PICK m \in Messages : GrowOld(m)
      BY <2>1
    <3>2. aged' \subseteq Messages
      BY <3>1 DEF GrowOld, IInv, TypeOK
    <3>3. faults' \in 0 .. MaxFaults
      BY <3>1, Constants DEF GrowOld, IInv, TypeOK
    <3> QED
      BY <3>1, <3>2, <3>3 DEF GrowOld, IInv, TypeOK, SharedOK, dbVars
  <2>2. CASE \E k \in Keys : Evict(k) \/ View(k)
    BY <2>2 DEF Evict, View, IInv, TypeOK, SharedOK, mailVars, dbVars
  <2> QED
    BY <2>1, <2>2
<1>3. Grows /\ RowsFit'
  BY <1>1, SameRows DEF IInv, RowsFit
<1> QED
  BY <1>1, <1>2, <1>3, StillStep

LEMMA RestartStep ==
  ASSUME IInv, Restart
  PROVE  IInv'
<1>1. SharedOK'
  BY Constants DEF Restart, IInv, TypeOK, SharedOK, mailVars, dbVars
<1>2. LocalsOK'
  BY Constants DEF Restart, LocalsOK, Labels, Messages
<1>3. TypeOK'
  BY <1>1, <1>2 DEF TypeOK, LocalsOK, SharedOK
<1>4. Grows /\ RowsFit'
  BY SameRows DEF Restart, mailVars, IInv, RowsFit
<1>5. 0 \in 0 .. Len(tickets')
  BY ZeroThread DEF IInv, Restart, dbVars
<1>6. \A v \in Workers : WorkOK(v)'
  BY <1>5 DEF Restart, WorkOK, Steps
<1>7. SeenMeansKept'
  BY <1>3, <1>4, SeenStays DEF Restart, mailVars
<1> QED
  BY <1>3, <1>4, <1>6, <1>7 DEF IInv, RowsFit

LEMMA IdleStep ==
  ASSUME IInv, UNCHANGED vars
  PROVE  IInv'
<1>1. Grows /\ RowsFit'
  BY SameRows DEF IInv, RowsFit, vars, mailVars
<1>2. SharedOK'
  BY DEF IInv, TypeOK, SharedOK, vars, mailVars, dbVars
<1> QED
  BY <1>1, <1>2, StillStep DEF vars, mailVars

-----------------------------------------------------------------------------
LEMMA InitInv == Init => IInv
<1> SUFFICES ASSUME Init PROVE IInv
  OBVIOUS
<1>1. TypeOK
  BY Constants DEF Init, TypeOK, Labels, Messages
<1>2. tickets = <<>> /\ comments = <<>> /\ Len(tickets) = 0 /\ Len(comments) = 0
  BY DEF Init
<1>3. RowsFit
  BY <1>2 DEF Init, RowsFit
<1>4. \A w \in Workers : WorkOK(w)
  BY <1>2 DEF Init, WorkOK, Steps
<1>5. SeenMeansKept
  BY DEF Init, SeenMeansKept
<1> QED
  BY <1>1, <1>3, <1>4, <1>5 DEF IInv, RowsFit

LEMMA StepInv ==
  ASSUME IInv, [Next]_vars
  PROVE  IInv'
<1>1. CASE Arrive \/ Restart \/ \E i \in DOMAIN tickets : FinishTicket(i)
  BY <1>1, ArriveStep, RestartStep, FinishTicketStep
<1>2. CASE (\E m \in Messages : GrowOld(m)) \/ \E k \in Keys : Evict(k) \/ View(k)
  BY <1>2, AmbientStep
<1>3. ASSUME NEW w \in Workers,
             \/ StartPoll(w) \/ TakeMessage(w) \/ FindTicket(w) \/ FindComment(w)
             \/ Upload(w) \/ \E m \in Messages : Notify(w, m)
      PROVE  IInv'
  BY <1>3, StartPollStep, TakeMessageStep, FindTicketStep, FindCommentStep,
     UploadStep, NotifyStep
<1>4. ASSUME NEW w \in Workers,
             \/ ResolveThread(w) \/ AddComment(w) \/ Reopen(w) \/ CreateTicket(w)
             \/ StartClock(w) \/ MarkSeen(w) \/ MarkFails(w) \/ Fail(w)
      PROVE  IInv'
  BY <1>4, ResolveThreadStep, AddCommentStep, ReopenStep, CreateTicketStep,
     StartClockStep, MarkSeenStep, MarkFailsStep, FailStep
<1>5. CASE UNCHANGED vars
  BY <1>5, IdleStep
<1> QED
  BY <1>1, <1>2, <1>3, <1>4, <1>5 DEF Next, Continues

LEMMA InvariantHolds == Spec => []IInv
BY InitInv, StepInv, PTL DEF Spec

(* Every behaviour is well typed. *)
THEOREM IntakeTypeCorrect == Spec => []TypeOK
<1>1. IInv => TypeOK
  BY DEF IInv
<1> QED
  BY InvariantHolds, <1>1, PTL

(* No crash, lost race or failed statement acknowledges a message that is    *)
(* not recorded, unless the desk drops such messages.                        *)
THEOREM SeenMeansKeptHolds == Spec => []SeenMeansKept
<1>1. IInv => SeenMeansKept
  BY DEF IInv
<1> QED
  BY InvariantHolds, <1>1, PTL

-----------------------------------------------------------------------------
(* Attachments.  The key a delivery stores its files under is in no row until *)
(* that delivery inserts one: the duplicate checks, which see a row of the    *)
(* same message and source whatever its key, have let the delivery pass, and *)
(* only the delivery's own insert can name the key afterwards.               *)

Names(row) == row.key = NoKey \/ \E v \in Workers, m \in WithFiles :
                                   /\ row.key = <<v, m>>
                                   /\ row.message = m /\ row.source = Source(v)

PastTickets  == {"findComment", "upload", "resolveThread", "addComment", "createTicket"}
PastComments == PastTickets \ {"findComment"}
Cleaning     == {"resolveThread", "addComment", "createTicket"}

OwnKey(w) ==
  /\ pc[w] \in PastTickets =>
       \A i \in DOMAIN tickets : tickets[i].key # <<w, msg[w]>>
  /\ pc[w] \in PastComments =>
       \A c \in DOMAIN comments : comments[c].key # <<w, msg[w]>>

KeyInv ==
  /\ \A i \in DOMAIN tickets : Names(tickets[i])
  /\ \A c \in DOMAIN comments : Names(comments[c])
  /\ \A w \in Workers : OwnKey(w)

(* The rows after a step of worker w: those there were, each with its key,    *)
(* and perhaps one for the message w has in hand.                             *)
Old(rows, new, i) ==
  /\ i \in DOMAIN rows /\ new[i].key = rows[i].key
  /\ new[i].message = rows[i].message /\ new[i].source = rows[i].source
Own(w, row) == /\ row.key \in {NoKey, Key(w, msg[w])}
               /\ row.message = msg[w] /\ row.source = Source(w)

RowsFrom(w) ==
  /\ DOMAIN tickets \subseteq DOMAIN tickets'
  /\ \A i \in DOMAIN tickets : Old(tickets, tickets', i)
  /\ \A i \in DOMAIN tickets' : Old(tickets, tickets', i) \/ Own(w, tickets'[i])
  /\ DOMAIN comments \subseteq DOMAIN comments'
  /\ \A c \in DOMAIN comments : comments'[c] = comments[c]
  /\ \A c \in DOMAIN comments' : Old(comments, comments', c) \/ Own(w, comments'[c])

RowsSame ==
  /\ UNCHANGED comments
  /\ DOMAIN tickets' = DOMAIN tickets
  /\ \A i \in DOMAIN tickets : Old(tickets, tickets', i)

LEMMA SameFrom ==
  ASSUME RowsSame, NEW w PROVE RowsFrom(w)
BY DEF RowsSame, RowsFrom, Old

LEMMA AttachedStays ==
  ASSUME NEW w, RowsFrom(w) PROVE Attached \subseteq Attached'
<1>1. ASSUME NEW k \in Attached
      PROVE  k \in Attached'
  <2>1. CASE \E i \in DOMAIN tickets : k = tickets[i].key
    BY <2>1 DEF Attached, RowsFrom, Old
  <2>2. CASE \E c \in DOMAIN comments : k = comments[c].key
    BY <2>2 DEF Attached, RowsFrom
  <2> QED
    BY <1>1, <2>1, <2>2 DEF Attached
<1> QED
  BY <1>1

LEMMA OwnRow ==
  ASSUME NEW w \in Workers, msg[w] \in Messages, NEW row, Own(w, row)
  PROVE  /\ Names(row)
         /\ \A v \in Workers \ {w} : \A m : row.key # <<v, m>>
BY DEF Own, Names, Key, NoKey

(* What each kind of step does to the keys: it leaves the rows of the other  *)
(* workers' deliveries out, and says for its own where it stands.            *)
LEMMA KeyStep ==
  ASSUME KeyInv, NEW w \in Workers, RowsFrom(w),
         RowsSame \/ msg[w] \in Messages,
         \A v \in Workers \ {w} : pc'[v] = pc[v] /\ msg'[v] = msg[v],
         OwnKey(w)'
  PROVE  KeyInv'
<1>1. ASSUME NEW i \in DOMAIN tickets' PROVE Names(tickets'[i])
  BY OwnRow, SameFrom DEF KeyInv, RowsFrom, RowsSame, Old, Names
<1>2. ASSUME NEW c \in DOMAIN comments' PROVE Names(comments'[c])
  BY OwnRow, SameFrom DEF KeyInv, RowsFrom, RowsSame, Old, Names
<1>3. ASSUME NEW v \in Workers \ {w} PROVE OwnKey(v)'
  <2>1. ASSUME NEW i \in DOMAIN tickets', tickets'[i].key = <<v, msg[v]>>
        PROVE  i \in DOMAIN tickets /\ tickets[i].key = <<v, msg[v]>>
    BY <2>1, OwnRow DEF RowsFrom, RowsSame, Old
  <2>2. ASSUME NEW c \in DOMAIN comments', comments'[c].key = <<v, msg[v]>>
        PROVE  c \in DOMAIN comments /\ comments[c].key = <<v, msg[v]>>
    BY <2>2, OwnRow DEF RowsFrom, RowsSame, Old
  <2> QED
    BY <2>1, <2>2 DEF KeyInv, OwnKey
<1> QED
  BY <1>1, <1>2, <1>3 DEF KeyInv, Names

(* Worker w goes on past the duplicate checks with the same message, or puts  *)
(* it down.                                                                  *)
LEMMA KeyQuiet ==
  ASSUME KeyInv, NEW w \in Workers, RowsSame,
         \A v \in Workers \ {w} : pc'[v] = pc[v] /\ msg'[v] = msg[v],
         \/ pc'[w] \notin PastTickets
         \/ /\ pc[w] \in PastComments /\ pc'[w] \in PastTickets
            /\ msg'[w] = msg[w]
  PROVE  KeyInv'
<1>1. OwnKey(w)'
  <2>1. CASE pc'[w] \notin PastTickets
    BY <2>1 DEF OwnKey, PastComments
  <2>2. CASE /\ pc[w] \in PastComments /\ pc'[w] \in PastTickets
             /\ msg'[w] = msg[w]
    BY <2>2 DEF KeyInv, OwnKey, PastComments, RowsSame, Old
  <2> QED
    BY <2>1, <2>2
<1> QED
  BY <1>1, KeyStep, SameFrom

LEMMA KeptRows == UNCHANGED dbVars => RowsSame
BY DEF dbVars, RowsSame, Old

LEMMA OthersAlone ==
  ASSUME NEW w \in Workers, Alone(w)
  PROVE  \A v \in Workers \ {w} : pc'[v] = pc[v] /\ msg'[v] = msg[v]
BY DEF Alone

(* A row that carries the key of a delivery is one its duplicate checks find. *)
LEMMA KeyIsKnown ==
  ASSUME NEW w \in Workers, NEW row, Names(row), row.key = <<w, msg[w]>>
  PROVE  Matches(row, w)
BY DEF Names, NoKey, Matches

LEMMA CheckKeys ==
  ASSUME IInv, KeyInv, NEW w \in Workers, FindTicket(w) \/ FindComment(w)
  PROVE  KeyInv'
<1>1. RowsSame
  BY KeptRows DEF FindTicket, FindComment
<1>2. CASE Conclude(w)
  <2>1. Alone(w) /\ pc'[w] = "mark"
    BY <1>2, ConcludeLocals DEF IInv
  <2> QED
    BY <1>1, <2>1, OthersAlone, KeyQuiet DEF PastTickets
<1>3. CASE FindTicket(w) /\ ~KnownTicket(w)
  <2>1. Goto(w, "findComment") /\ "findComment" \in Labels
    BY <1>3 DEF FindTicket, Labels, Steps
  <2>2. Alone(w) /\ pc'[w] = "findComment" /\ msg'[w] = msg[w]
    BY <2>1, GotoLocals DEF IInv
  <2>3. OwnKey(w)'
    BY <1>1, <1>3, <2>2, KeyIsKnown
       DEF OwnKey, PastComments, KeyInv, KnownTicket, RowsSame, Old
  <2> QED
    BY <1>1, <2>2, <2>3, OthersAlone, KeyStep, SameFrom
<1>4. CASE FindComment(w) /\ ~KnownComment(w)
  <2>1. PICK l \in {"upload", "resolveThread"} : Goto(w, l) /\ l \in Labels
    BY <1>4 DEF FindComment, Labels, Steps
  <2>2. Alone(w) /\ pc'[w] \in PastComments /\ msg'[w] = msg[w]
    BY <2>1, GotoLocals DEF IInv, PastTickets, PastComments
  <2>3. pc[w] \in PastTickets
    BY <1>4 DEF FindComment, At, PastTickets
  <2>4. OwnKey(w)'
    BY <1>1, <1>4, <2>2, <2>3, KeyIsKnown
       DEF OwnKey, PastComments, KeyInv, KnownComment, RowsSame, Old
  <2> QED
    BY <1>1, <2>2, <2>4, OthersAlone, KeyStep, SameFrom
<1> QED
  BY <1>2, <1>3, <1>4 DEF FindTicket, FindComment

LEMMA ControlKeys ==
  ASSUME IInv, KeyInv, NEW w \in Workers,
         \/ StartPoll(w) \/ TakeMessage(w) \/ Upload(w) \/ ResolveThread(w)
         \/ MarkSeen(w) \/ MarkFails(w) \/ Fail(w)
         \/ \E m \in Messages : Notify(w, m)
  PROVE  KeyInv'
<1>0. RowsSame
  BY KeptRows DEF StartPoll, TakeMessage, Upload, ResolveThread, MarkSeen, MarkFails,
                  Fail, Notify
<1>1. CASE StartPoll(w)
  <2>1. Alone(w) /\ pc'[w] = "next"
    BY <1>1 DEF StartPoll, Alone, IInv, TypeOK
  <2> QED
    BY <1>0, <2>1, OthersAlone, KeyQuiet DEF PastTickets
<1>2. ASSUME NEW m \in Messages, NEW left \in SUBSET Messages, Open(w, m, left)
      PROVE  KeyInv'
  <2>1. Alone(w) /\ pc'[w] \notin PastTickets
    BY <1>2, OpenLocals DEF IInv, Resting, PastTickets
  <2> QED
    BY <1>0, <2>1, OthersAlone, KeyQuiet
<1>3. CASE TakeMessage(w)
  <2>1. PICK m \in First(w) : Open(w, m, batch[w] \ {m})
    BY <1>3 DEF TakeMessage
  <2>2. m \in Messages /\ batch[w] \ {m} \in SUBSET Messages
    BY <2>1 DEF First, Eldest, Newest, IInv, TypeOK
  <2> QED
    BY <1>2, <2>1, <2>2
<1>4. CASE \E m \in Messages : Notify(w, m)
  <2>1. CASE UNCHANGED jobVars
    BY <1>0, <2>1 DEF jobVars, KeyInv, OwnKey, Names, RowsSame, Old
  <2>2. CASE \E m \in Messages : Open(w, m, {})
    BY <1>2, <2>2
  <2> QED
    BY <1>4, <2>1, <2>2 DEF Notify
<1>5. CASE Upload(w)
  <2>1. "resolveThread" \in Labels
    BY DEF Labels, Steps
  <2>2. Alone(w) /\ pc'[w] = "resolveThread" /\ msg'[w] = msg[w]
    BY <1>5, <2>1, GotoLocals DEF IInv, Upload
  <2>3. pc[w] \in PastComments
    BY <1>5 DEF Upload, At, PastComments, PastTickets
  <2> QED
    BY <1>0, <2>2, <2>3, OthersAlone, KeyQuiet DEF PastTickets
<1>6. CASE ResolveThread(w)
  <2>1. /\ \A v \in Workers \ {w} : pc'[v] = pc[v] /\ msg'[v] = msg[v]
        /\ pc'[w] \in {"addComment", "mark", "createTicket"} /\ msg'[w] = msg[w]
    BY <1>6 DEF ResolveThread, IInv, TypeOK
  <2>2. pc[w] \in PastComments
    BY <1>6 DEF ResolveThread, At, PastComments, PastTickets
  <2> QED
    BY <1>0, <2>1, <2>2, KeyQuiet DEF PastTickets
<1>7. CASE MarkSeen(w) \/ MarkFails(w) \/ Fail(w)
  <2>1. Alone(w) /\ pc'[w] = Resting(batch[w])
    BY <1>7, RestLocals DEF IInv, MarkSeen, MarkFails, Fail
  <2> QED
    BY <1>0, <2>1, OthersAlone, KeyQuiet DEF PastTickets, Resting
<1> QED
  BY <1>1, <1>3, <1>4, <1>5, <1>6, <1>7

(* The two inserts. *)
LEMMA AddCommentRows ==
  ASSUME IInv, NEW w \in Workers, AddComment(w)
  PROVE  RowsFrom(w) /\ msg[w] \in Messages
<1>1. msg[w] \in Messages /\ thread[w] \in 1 .. Len(tickets) /\ RowsFit /\ TypeOK
  BY DEF AddComment, At, Steps, IInv, WorkOK, RowsFit, TypeOK
<1>2. CASE KnownComment(w)
  BY <1>1, <1>2, KeptRows, SameFrom DEF AddComment, dbVars
<1>3. CASE ~KnownComment(w)
  <2>1. CommentRow(w) \in CommentRows
    <3>1. thread[w] \in Nat \ {0}
      BY <1>1 DEF TypeOK
    <3> QED
      BY <1>1, <3>1, NewCommentRow
  <2>2. comments' = Append(comments, CommentRow(w)) /\ tickets' = tickets
    BY <1>3 DEF AddComment
  <2>3. /\ comments' \in Seq(CommentRows)
        /\ Len(comments') = Len(comments) + 1
        /\ \A i \in 1 .. Len(comments) : comments'[i] = comments[i]
        /\ comments'[Len(comments) + 1] = CommentRow(w)
    BY <1>1, <2>1, <2>2, AppendRow DEF TypeOK
  <2>4. /\ DOMAIN comments = 1 .. Len(comments) /\ Len(comments) \in Nat
        /\ DOMAIN comments' = 1 .. (Len(comments) + 1)
    BY <1>1, <2>3, Domains
  <2>5. Own(w, CommentRow(w))
    BY DEF CommentRow, Own
  <2>6. \A c \in DOMAIN comments' : Old(comments, comments', c) \/ Own(w, comments'[c])
    <3> SUFFICES ASSUME NEW c \in DOMAIN comments'
                 PROVE  Old(comments, comments', c) \/ Own(w, comments'[c])
      OBVIOUS
    <3>1. CASE c \in 1 .. Len(comments)
      BY <2>3, <2>4, <3>1 DEF Old
    <3>2. CASE c = Len(comments) + 1
      BY <2>3, <2>5, <3>2 DEF Own
    <3> QED
      BY <2>4, <3>1, <3>2
  <2> QED
    BY <1>1, <2>2, <2>3, <2>4, <2>6 DEF RowsFrom, Old
<1> QED
  BY <1>1, <1>2, <1>3

LEMMA CreateTicketRows ==
  ASSUME IInv, NEW w \in Workers, CreateTicket(w)
  PROVE  RowsFrom(w) /\ msg[w] \in Messages
<1>1. msg[w] \in Messages /\ TypeOK
  BY DEF CreateTicket, At, Steps, IInv, WorkOK
<1>2. CASE KnownTicket(w)
  BY <1>1, <1>2, KeptRows, SameFrom DEF CreateTicket, dbVars
<1>3. CASE ~KnownTicket(w)
  <2>1. TicketRow(w) \in TicketRows
    BY <1>1, NewTicketRow
  <2>2. tickets' = Append(tickets, TicketRow(w)) /\ comments' = comments
    BY <1>3 DEF CreateTicket
  <2>3. /\ tickets' \in Seq(TicketRows)
        /\ Len(tickets') = Len(tickets) + 1
        /\ \A i \in 1 .. Len(tickets) : tickets'[i] = tickets[i]
        /\ tickets'[Len(tickets) + 1] = TicketRow(w)
    BY <1>1, <2>1, <2>2, AppendRow DEF TypeOK
  <2>4. /\ DOMAIN tickets = 1 .. Len(tickets) /\ Len(tickets) \in Nat
        /\ DOMAIN tickets' = 1 .. (Len(tickets) + 1)
    BY <1>1, <2>3, Domains
  <2>5. Own(w, TicketRow(w))
    BY DEF TicketRow, Own
  <2>6. \A i \in DOMAIN tickets' : Old(tickets, tickets', i) \/ Own(w, tickets'[i])
    <3> SUFFICES ASSUME NEW i \in DOMAIN tickets'
                 PROVE  Old(tickets, tickets', i) \/ Own(w, tickets'[i])
      OBVIOUS
    <3>1. CASE i \in 1 .. Len(tickets)
      BY <2>3, <2>4, <3>1 DEF Old
    <3>2. CASE i = Len(tickets) + 1
      BY <2>3, <2>5, <3>2 DEF Own
    <3> QED
      BY <2>4, <3>1, <3>2
  <2> QED
    BY <1>1, <2>2, <2>3, <2>4, <2>6 DEF RowsFrom, Old
<1> QED
  BY <1>1, <1>2, <1>3

(* Writes to a ticket's status or clock. *)
LEMMA TouchRows ==
  ASSUME IInv, \/ \E i \in DOMAIN tickets : FinishTicket(i)
               \/ \E w \in Workers : Reopen(w) \/ StartClock(w)
  PROVE  RowsSame
<1>1. \A j \in DOMAIN tickets : tickets[j] \in TicketRows
  BY DEF IInv, TypeOK
<1>2. CASE \E i \in DOMAIN tickets : FinishTicket(i)
  <2>1. PICK i \in DOMAIN tickets : FinishTicket(i)
    BY <1>2
  <2> DEFINE row == [tickets[i] EXCEPT !.state = "done"]
  <2>2. /\ row.message = tickets[i].message /\ row.key = tickets[i].key
        /\ row.source = tickets[i].source
    BY <1>1 DEF TicketRows
  <2>3. tickets' = [tickets EXCEPT ![i] = row] /\ UNCHANGED comments
    BY <2>1 DEF FinishTicket
  <2> QED
    BY <2>2, <2>3 DEF RowsSame, Old
<1>3. CASE \E w \in Workers : Reopen(w) \/ StartClock(w)
  <2>1. PICK w \in Workers : Reopen(w) \/ StartClock(w)
    BY <1>3
  <2>2. thread[w] \in DOMAIN tickets
    BY <2>1, Domains DEF Reopen, StartClock, At, IInv, WorkOK
  <2> QED
    <3>1. CASE Reopen(w)
      <4> DEFINE row == [tickets[thread[w]] EXCEPT !.state = "open", !.clock = FALSE]
      <4>1. /\ row.message = tickets[thread[w]].message /\ row.key = tickets[thread[w]].key
            /\ row.source = tickets[thread[w]].source
        BY <1>1, <2>2 DEF TicketRows
      <4>2. tickets' = [tickets EXCEPT ![thread[w]] = row]
        BY <1>1, <2>2, <3>1 DEF Reopen, TicketRows, IInv, TypeOK
      <4> QED
        BY <2>2, <3>1, <4>1, <4>2 DEF Reopen, RowsSame, Old, IInv, TypeOK
    <3>2. CASE StartClock(w)
      <4> DEFINE row == [tickets[thread[w]] EXCEPT !.clock = TRUE]
      <4>1. /\ row.message = tickets[thread[w]].message /\ row.key = tickets[thread[w]].key
            /\ row.source = tickets[thread[w]].source
        BY <1>1, <2>2 DEF TicketRows
      <4>2. tickets' = [tickets EXCEPT ![thread[w]] = row]
        BY <1>1, <2>2, <3>2 DEF StartClock, TicketRows, IInv, TypeOK
      <4> QED
        BY <2>2, <3>2, <4>1, <4>2 DEF StartClock, RowsSame, Old, IInv, TypeOK
    <3> QED
      BY <2>1, <3>1, <3>2
<1> QED
  BY <1>2, <1>3

LEMMA WriteKeys ==
  ASSUME IInv, KeyInv, NEW w \in Workers,
         AddComment(w) \/ CreateTicket(w) \/ Reopen(w) \/ StartClock(w)
  PROVE  KeyInv'
<1>1. /\ \A v \in Workers \ {w} : pc'[v] = pc[v] /\ msg'[v] = msg[v]
      /\ pc'[w] \in {"mark", "reopen", "startClock"}
  <2>1. "mark" \in Labels /\ "reopen" \in Labels /\ "startClock" \in Labels
    BY DEF Labels, Steps
  <2>2. CASE \/ Conclude(w)
             \/ \E l \in {"mark", "reopen", "startClock"} : Goto(w, l)
    BY <2>1, <2>2, ConcludeLocals, GotoLocals, OthersAlone DEF IInv
  <2>3. CASE CreateTicket(w) /\ ~KnownTicket(w)
    BY <2>3 DEF CreateTicket, IInv, TypeOK
  <2> QED
    BY <2>2, <2>3 DEF AddComment, CreateTicket, Reopen, StartClock
<1>2. RowsFrom(w) /\ (RowsSame \/ msg[w] \in Messages)
  BY AddCommentRows, CreateTicketRows, TouchRows, SameFrom
<1>3. OwnKey(w)'
  BY <1>1 DEF OwnKey, PastTickets, PastComments
<1> QED
  BY <1>1, <1>2, <1>3, KeyStep

LEMMA StillKeys ==
  ASSUME IInv, KeyInv,
         \/ Arrive \/ Restart \/ UNCHANGED vars
         \/ \E m \in Messages : GrowOld(m)
         \/ \E i \in DOMAIN tickets : FinishTicket(i)
         \/ \E k \in Keys : Evict(k) \/ View(k)
  PROVE  KeyInv'
<1>1. RowsSame
  BY KeptRows, TouchRows DEF Arrive, Restart, GrowOld, Evict, View, vars
<1>2. \A v \in Workers : pc'[v] = "idle" \/ (pc'[v] = pc[v] /\ msg'[v] = msg[v])
  BY DEF Arrive, Restart, GrowOld, FinishTicket, Evict, View, vars, jobVars
<1>3. \A v \in Workers : OwnKey(v)'
  BY <1>1, <1>2 DEF KeyInv, OwnKey, PastTickets, PastComments, RowsSame, Old
<1> QED
  BY <1>1, <1>3 DEF KeyInv, Names, RowsSame, Old

LEMMA KeysKept ==
  ASSUME IInv, KeyInv, [Next]_vars
  PROVE  KeyInv'
<1>1. CASE \/ Arrive \/ Restart \/ UNCHANGED vars
           \/ \E m \in Messages : GrowOld(m)
           \/ \E i \in DOMAIN tickets : FinishTicket(i)
           \/ \E k \in Keys : Evict(k) \/ View(k)
  BY <1>1, StillKeys
<1>2. ASSUME NEW w \in Workers,
             \/ StartPoll(w) \/ TakeMessage(w) \/ Upload(w) \/ ResolveThread(w)
             \/ MarkSeen(w) \/ MarkFails(w) \/ Fail(w)
             \/ \E m \in Messages : Notify(w, m)
      PROVE  KeyInv'
  BY <1>2, ControlKeys
<1>3. ASSUME NEW w \in Workers,
             \/ FindTicket(w) \/ FindComment(w)
             \/ AddComment(w) \/ CreateTicket(w) \/ Reopen(w) \/ StartClock(w)
      PROVE  KeyInv'
  BY <1>3, CheckKeys, WriteKeys
<1> QED
  BY <1>1, <1>2, <1>3 DEF Next, Continues

LEMMA KeysStart == Init => KeyInv
BY DEF Init, KeyInv, OwnKey, PastTickets, PastComments

LEMMA NoKeyIsNone == NoKey \notin Keys
BY DEF NoKey, Keys

(* Only the cache's own sweep removes bytes that a row names, whatever        *)
(* deliveries race, lose or fail.                                            *)
THEOREM BytesKeptHolds == Spec => BytesKept
<1>1. ASSUME IInv, KeyInv, [Next]_vars, NEW k \in cached \cap Attached, k \notin cached'
      PROVE  Evict(k)
  <2>1. ASSUME NEW w \in Workers, pc[w] \in PastComments
        PROVE  k # Key(w, msg[w])
    <3>1. CASE msg[w] \in WithFiles
      <4>1. pc[w] \in PastTickets
        BY <2>1 DEF PastComments
      <4> QED
        BY <1>1, <2>1, <3>1, <4>1 DEF KeyInv, OwnKey, Key, Attached
    <3>2. CASE msg[w] \notin WithFiles
      BY <1>1, <3>2, NoKeyIsNone DEF Key, IInv, TypeOK
    <3> QED
      BY <3>1, <3>2
  <2>2. CASE \E j \in Keys : Evict(j) \/ View(j)
    BY <1>1, <2>2 DEF Evict, View
  <2>3. ASSUME NEW w \in Workers,
               \/ ResolveThread(w) \/ AddComment(w) \/ CreateTicket(w) \/ Fail(w)
        PROVE  FALSE
    <3>1. CASE pc[w] \in Cleaning
      <4>1. k # Key(w, msg[w])
        BY <2>1, <3>1 DEF Cleaning, PastComments, PastTickets
      <4> QED
        BY <1>1, <2>3, <4>1 DEF ResolveThread, AddComment, CreateTicket, Fail
    <3>2. CASE pc[w] \notin Cleaning
      BY <1>1, <2>3, <3>2 DEF ResolveThread, AddComment, CreateTicket, Fail, At, Cleaning
    <3> QED
      BY <3>1, <3>2
  <2>4. CASE \/ Arrive \/ Restart \/ UNCHANGED vars
             \/ \E m \in Messages : GrowOld(m)
             \/ \E i \in DOMAIN tickets : FinishTicket(i)
    BY <1>1, <2>4 DEF Arrive, Restart, GrowOld, FinishTicket, vars
  <2>5. ASSUME NEW w \in Workers,
               \/ StartPoll(w) \/ TakeMessage(w) \/ FindTicket(w) \/ FindComment(w)
               \/ Upload(w) \/ Reopen(w) \/ StartClock(w)
               \/ MarkSeen(w) \/ MarkFails(w)
               \/ \E m \in Messages : Notify(w, m)
        PROVE  FALSE
    BY <1>1, <2>5 DEF StartPoll, TakeMessage, FindTicket, FindComment, Upload, Reopen,
                      StartClock, MarkSeen, MarkFails, Notify
  <2> QED
    BY <1>1, <2>2, <2>3, <2>4, <2>5 DEF Next, Continues
<1>2. IInv /\ KeyInv /\ [Next]_vars =>
        [\A k \in cached \cap Attached : k \notin cached' => Evict(k)]_vars
  BY <1>1
<1>3. Spec => []KeyInv
  <2>1. IInv /\ KeyInv /\ [Next]_vars => KeyInv'
    BY KeysKept
  <2> QED
    BY <2>1, KeysStart, InvariantHolds, PTL DEF Spec
<1> QED
  BY <1>2, <1>3, InvariantHolds, PTL DEF Spec, BytesKept

-----------------------------------------------------------------------------
(* Bytes without a row.  While nothing has failed, a key in the cache that no *)
(* row names is that of a delivery which has stored its files and still has  *)
(* its insert, or its clean-up, before it; or its message has a ticket and,  *)
(* without its files, an activity on that ticket.                            *)

Held(k) == \E v \in Workers : k = Key(v, msg[v]) /\ pc[v] \in Cleaning

BytesOK == faults = 0 => \A k \in cached \ Attached : Held(k) \/ RefusedFiles(k[2])

LEMMA BytesRead == NoOrphanedBytes <=> BytesOK
BY DEF NoOrphanedBytes, BytesOK, Orphans, Held, Cleaning

LEMMA RefusedStays ==
  ASSUME NEW w, RowsFrom(w), NEW m, RefusedFiles(m)
  PROVE  RefusedFiles(m)'
<1>1. PICK c \in CommentsOf(m) :
        comments[c].ticket \in TicketsOf(m) /\ comments[c].key = NoKey
  BY DEF RefusedFiles
<1>2. c \in CommentsOf(m)' /\ comments'[c] = comments[c]
  BY <1>1 DEF CommentsOf, RowsFrom
<1>3. comments[c].ticket \in TicketsOf(m)'
  BY <1>1 DEF TicketsOf, RowsFrom, Old
<1> QED
  BY <1>1, <1>2, <1>3 DEF RefusedFiles

LEMMA BytesStep ==
  ASSUME BytesOK, NEW w \in Workers, RowsFrom(w), faults' = faults,
         \A v \in Workers \ {w} : pc'[v] = pc[v] /\ msg'[v] = msg[v],
         \A k \in cached' \ cached :
           k \in Attached \/ (k = Key(w, msg'[w]) /\ pc'[w] \in Cleaning),
         pc[w] \in Cleaning =>
           \/ pc'[w] \in Cleaning /\ msg'[w] = msg[w]
           \/ \A k \in cached' : k = Key(w, msg[w]) =>
                                   k \in Attached' \/ RefusedFiles(k[2])'
  PROVE  BytesOK'
<1> SUFFICES ASSUME faults = 0, NEW k \in cached', k \notin Attached'
             PROVE  Held(k)' \/ RefusedFiles(k[2])'
  BY DEF BytesOK
<1>1. k \notin Attached
  BY AttachedStays
<1>2. CASE k \notin cached
  BY <1>1, <1>2 DEF Held
<1>3. CASE k \in cached
  <2>1. CASE RefusedFiles(k[2])
    BY <2>1, RefusedStays
  <2>2. ASSUME NEW v \in Workers, k = Key(v, msg[v]), pc[v] \in Cleaning
        PROVE  Held(k)' \/ RefusedFiles(k[2])'
    <3>1. CASE v = w
      BY <2>2, <3>1 DEF Held
    <3>2. CASE v # w
      BY <2>2, <3>2 DEF Held
    <3> QED
      BY <3>1, <3>2
  <2> QED
    BY <1>1, <1>3, <2>1, <2>2 DEF BytesOK, Held
<1> QED
  BY <1>2, <1>3

(* A failure, of a statement or of the process, ends the promise. *)
LEMMA FaultsEnd ==
  ASSUME IInv, faults' = faults + 1
  PROVE  faults' # 0
BY Constants DEF IInv, TypeOK

(* The two inserts name the delivery's files, or find them on the ticket.     *)
LEMMA TicketNames ==
  ASSUME IInv, IInv', NEW w \in Workers, CreateTicket(w), ~KnownTicket(w)
  PROVE  Key(w, msg[w]) \in Attached'
<1>1. tickets' = Append(tickets, TicketRow(w)) /\ tickets' \in Seq(TicketRows)
  BY DEF CreateTicket, IInv, TypeOK
<1>2. /\ Len(tickets) + 1 \in DOMAIN tickets'
      /\ tickets'[Len(tickets) + 1] = TicketRow(w)
  BY <1>1, AppendLast, Domains DEF IInv
<1>3. TicketRow(w).key = Key(w, msg[w])
  BY DEF TicketRow
<1> QED
  BY <1>2, <1>3 DEF Attached

LEMMA CommentNames ==
  ASSUME IInv, IInv', NEW w \in Workers, AddComment(w), ~KnownComment(w),
         NEW k, k = Key(w, msg[w]), k # NoKey
  PROVE  k \in Attached' \/ RefusedFiles(k[2])'
<1> DEFINE c == Len(comments) + 1
<1>1. comments' = Append(comments, CommentRow(w)) /\ comments' \in Seq(CommentRows)
  BY DEF AddComment, IInv, TypeOK
<1>2. c \in DOMAIN comments' /\ comments'[c] = CommentRow(w)
  BY <1>1, AppendLast, Domains DEF IInv
<1>3. CASE ~FilesKnown(w)
  BY <1>2, <1>3 DEF CommentRow, Attached
<1>4. CASE FilesKnown(w)
  <2>1. k[2] = msg[w]
    BY DEF Key, NoKey
  <2>2. CommentRow(w).message = k[2] /\ CommentRow(w).key = NoKey
    BY <1>4, <2>1 DEF CommentRow
  <2>3. thread[w] \in DOMAIN tickets /\ tickets[thread[w]].message = msg[w]
    BY <1>4 DEF FilesKnown, KnownComment, Matches
  <2>4. CommentRow(w).ticket = thread[w] /\ tickets' = tickets
    BY DEF CommentRow, AddComment
  <2>5. c \in CommentsOf(k[2])' /\ CommentRow(w).ticket \in TicketsOf(k[2])'
    BY <1>2, <2>1, <2>2, <2>3, <2>4 DEF CommentsOf, TicketsOf
  <2> QED
    BY <1>2, <2>2, <2>5 DEF RefusedFiles
<1> QED
  BY <1>3, <1>4

(* Worker w passes by the steps between storing and inserting. *)
LEMMA BytesQuiet ==
  ASSUME BytesOK, NEW w \in Workers, RowsSame, cached' = cached, faults' = faults,
         \A v \in Workers \ {w} : pc'[v] = pc[v] /\ msg'[v] = msg[v],
         pc[w] \notin Cleaning
  PROVE  BytesOK'
BY BytesStep, SameFrom

LEMMA BytesControl ==
  ASSUME IInv, BytesOK, NEW w \in Workers,
         \/ StartPoll(w) \/ TakeMessage(w) \/ FindTicket(w) \/ FindComment(w)
         \/ Reopen(w) \/ StartClock(w) \/ MarkSeen(w)
         \/ \E m \in Messages : Notify(w, m)
  PROVE  BytesOK'
<1>1. RowsSame
  <2>1. CASE Reopen(w) \/ StartClock(w)
    BY <2>1, TouchRows
  <2>2. CASE ~(Reopen(w) \/ StartClock(w))
    BY <2>2, KeptRows DEF StartPoll, TakeMessage, FindTicket, FindComment, MarkSeen, Notify
  <2> QED
    BY <2>1, <2>2
<1>2. cached' = cached /\ faults' = faults /\ pc[w] \notin Cleaning
  BY DEF StartPoll, TakeMessage, FindTicket, FindComment, Reopen, StartClock, MarkSeen,
         Notify, At, Cleaning
<1>3. \A v \in Workers \ {w} : pc'[v] = pc[v] /\ msg'[v] = msg[v]
  BY DEF StartPoll, TakeMessage, FindTicket, FindComment, Reopen, StartClock, MarkSeen,
         Notify, Open, Goto, Conclude, Rest, jobVars, IInv, TypeOK
<1> QED
  BY <1>1, <1>2, <1>3, BytesQuiet

LEMMA BytesMoves ==
  ASSUME IInv, IInv', BytesOK, NEW w \in Workers,
         Upload(w) \/ ResolveThread(w) \/ AddComment(w) \/ CreateTicket(w)
  PROVE  BytesOK'
<1>1. /\ faults' = faults
      /\ \A v \in Workers \ {w} : pc'[v] = pc[v] /\ msg'[v] = msg[v]
      /\ msg'[w] = msg[w]
  BY DEF Upload, ResolveThread, AddComment, CreateTicket, Goto, Conclude, IInv, TypeOK
<1>2. CASE Upload(w)
  <2>1. RowsFrom(w)
    BY <1>2, KeptRows, SameFrom DEF Upload
  <2>2. pc[w] \notin Cleaning /\ pc'[w] \in Cleaning
    BY <1>2 DEF Upload, At, Goto, Cleaning, IInv, TypeOK
  <2>3. \A k \in cached' \ cached : k = Key(w, msg[w])
    BY <1>2 DEF Upload
  <2> QED
    BY <1>1, <2>1, <2>2, <2>3, BytesStep
<1>3. CASE ResolveThread(w)
  <2>1. RowsFrom(w)
    BY <1>3, KeptRows, SameFrom DEF ResolveThread
  <2>2. /\ cached' \subseteq cached
        /\ Key(w, msg[w]) \in cached' => pc'[w] \in Cleaning
    BY <1>3 DEF ResolveThread, Cleaning, IInv, TypeOK
  <2> QED
    BY <1>1, <2>1, <2>2, BytesStep
<1>4. CASE AddComment(w) \/ CreateTicket(w)
  <2>1. RowsFrom(w)
    BY <1>4, AddCommentRows, CreateTicketRows
  <2>2. /\ cached' \subseteq cached
        /\ Key(w, msg[w]) \in cached' => \/ AddComment(w) /\ ~KnownComment(w)
                                         \/ CreateTicket(w) /\ ~KnownTicket(w)
    BY <1>4 DEF AddComment, CreateTicket
  <2>3. \A k \in cached' : k = Key(w, msg[w]) =>
                              k \in Attached' \/ RefusedFiles(k[2])'
    <3>1. NoKey \notin cached'
      BY NoKeyIsNone DEF IInv, TypeOK
    <3> QED
      BY <2>2, <3>1, TicketNames, CommentNames
  <2> QED
    BY <1>1, <2>1, <2>2, <2>3, BytesStep
<1> QED
  BY <1>2, <1>3, <1>4

LEMMA BytesStill ==
  ASSUME IInv, BytesOK,
         \/ Arrive \/ UNCHANGED vars
         \/ \E i \in DOMAIN tickets : FinishTicket(i)
         \/ \E k \in Keys : Evict(k) \/ View(k)
  PROVE  BytesOK'
<1>1. RowsSame
  BY KeptRows, TouchRows DEF Arrive, Evict, View, vars
<1>2. Attached \subseteq Attached'
  BY <1>1, SameFrom, AttachedStays
<1>3. /\ faults' = faults /\ pc' = pc /\ msg' = msg
      /\ \A k \in cached' : k \in cached \/ k \in Attached
  BY DEF Arrive, FinishTicket, Evict, View, vars, jobVars
<1>4. ASSUME faults = 0, NEW k \in cached', k \notin Attached'
      PROVE  Held(k)' \/ RefusedFiles(k[2])'
  <2>1. Held(k) \/ RefusedFiles(k[2])
    BY <1>2, <1>3, <1>4 DEF BytesOK
  <2>2. RefusedFiles(k[2]) => RefusedFiles(k[2])'
    BY <1>1, SameFrom, RefusedStays
  <2>3. Held(k) => Held(k)'
    BY <1>3 DEF Held
  <2> QED
    BY <2>1, <2>2, <2>3
<1> QED
  BY <1>3, <1>4 DEF BytesOK

(* Without a fault the cache holds no bytes that no row names and no delivery *)
(* is about to name or drop, but for those of a message that two deliveries  *)
(* made a ticket and an activity on it.                                      *)
THEOREM NoOrphanedBytesHolds == Spec => []NoOrphanedBytes
<1>1. Init => BytesOK
  BY DEF Init, BytesOK
<1>2. ASSUME IInv, IInv', BytesOK, [Next]_vars
      PROVE  BytesOK'
  <2>1. CASE \/ Arrive \/ UNCHANGED vars
             \/ \E i \in DOMAIN tickets : FinishTicket(i)
             \/ \E k \in Keys : Evict(k) \/ View(k)
    BY <1>2, <2>1, BytesStill
  <2>2. ASSUME NEW w \in Workers,
               \/ StartPoll(w) \/ TakeMessage(w) \/ FindTicket(w) \/ FindComment(w)
               \/ Reopen(w) \/ StartClock(w) \/ MarkSeen(w)
               \/ \E m \in Messages : Notify(w, m)
        PROVE  BytesOK'
    BY <1>2, <2>2, BytesControl
  <2>3. ASSUME NEW w \in Workers,
               Upload(w) \/ ResolveThread(w) \/ AddComment(w) \/ CreateTicket(w)
        PROVE  BytesOK'
    BY <1>2, <2>3, BytesMoves
  <2>4. CASE \/ Restart \/ \E m \in Messages : GrowOld(m)
             \/ \E w \in Workers : MarkFails(w) \/ Fail(w)
    <3>1. faults' # 0
      BY <1>2, <2>4, FaultsEnd DEF Restart, GrowOld, MarkFails, Fail
    <3> QED
      BY <3>1 DEF BytesOK
  <2> QED
    BY <1>2, <2>1, <2>2, <2>3, <2>4 DEF Next, Continues
<1>3. IInv /\ IInv' /\ BytesOK /\ [Next]_vars => BytesOK'
  BY <1>2
<1> QED
  BY <1>1, <1>3, InvariantHolds, BytesRead, PTL DEF Spec

-----------------------------------------------------------------------------
(* Clocks.  An open ticket without a running clock belongs to the delivery    *)
(* that created or reopened it and has yet to start the clock; no other      *)
(* delivery stops a clock without committing itself to start it.             *)

Committed(v, i) == pc[v] = "startClock" /\ thread[v] = i

LEMMA ClockStep ==
  ASSUME ClockStarted, faults' = faults,
         \A i \in DOMAIN tickets' :
           tickets'[i].state = "open" /\ ~tickets'[i].clock =>
             \/ \E v \in Workers : Committed(v, i)'
             \/ /\ i \in DOMAIN tickets
                /\ tickets[i].state = "open" /\ ~tickets[i].clock
                /\ \A v \in Workers : Committed(v, i) => Committed(v, i)'
  PROVE  ClockStarted'
BY DEF ClockStarted, Committed, At

LEMMA ClockQuiet ==
  ASSUME IInv, ClockStarted, UNCHANGED <<tickets, faults>>, NEW w \in Workers,
         pc[w] # "startClock", Alone(w)
  PROVE  ClockStarted'
<1>1. \A v \in Workers : \A i : Committed(v, i) => Committed(v, i)'
  BY DEF Committed, Alone
<1> QED
  BY <1>1, ClockStep

LEMMA ClockControl ==
  ASSUME IInv, ClockStarted, NEW w \in Workers,
         \/ StartPoll(w) \/ TakeMessage(w) \/ FindTicket(w) \/ FindComment(w)
         \/ Upload(w) \/ ResolveThread(w) \/ AddComment(w) \/ MarkSeen(w)
         \/ \E m \in Messages : Notify(w, m)
         \/ (CreateTicket(w) /\ KnownTicket(w))
  PROVE  ClockStarted'
<1> DEFINE quiet == UNCHANGED <<tickets, faults>> /\ pc[w] # "startClock" /\ Alone(w)
<1>0. \A l, m, left : Goto(w, l) \/ Conclude(w) \/ Rest(w) \/ Open(w, m, left) => Alone(w)
  BY MoveAlone DEF IInv
<1>1. (StartPoll(w) => quiet) /\ (TakeMessage(w) => quiet) /\ (MarkSeen(w) => quiet)
  <2>1. StartPoll(w) => quiet
    BY <1>0 DEF StartPoll, At, dbVars, Alone, jobVars, IInv, TypeOK
  <2>2. TakeMessage(w) => quiet
    BY <1>0 DEF TakeMessage, At, dbVars
  <2>3. MarkSeen(w) => quiet
    BY <1>0 DEF MarkSeen, At, dbVars
  <2> QED
    BY <2>1, <2>2, <2>3
<1>2. FindTicket(w) \/ FindComment(w) => quiet
  BY <1>0 DEF FindTicket, FindComment, At, dbVars
<1>3. Upload(w) \/ ResolveThread(w) => quiet
  BY <1>0 DEF Upload, ResolveThread, At, dbVars, Alone, jobVars, IInv, TypeOK
<1>4. (AddComment(w) => quiet) /\ (CreateTicket(w) /\ KnownTicket(w) => quiet)
  BY <1>0 DEF AddComment, CreateTicket, At, dbVars
<1>6. ASSUME NEW m \in Messages, Notify(w, m) PROVE quiet
  <2>1. pc[w] = "idle" /\ UNCHANGED <<tickets, faults>> /\ (UNCHANGED jobVars \/ Open(w, m, {}))
    BY <1>6 DEF Notify, At, dbVars
  <2>2. UNCHANGED jobVars => Alone(w)
    BY DEF jobVars, Alone
  <2>3. Open(w, m, {}) => Alone(w)
    BY <1>0
  <2>4. pc[w] # "startClock"
    BY <2>1
  <2> QED
    BY <2>1, <2>2, <2>3, <2>4
<1> HIDE DEF quiet
<1>5. quiet
  BY <1>1, <1>2, <1>3, <1>4, <1>6
<1> QED
  BY <1>5, ClockQuiet DEF quiet

LEMMA ClockWrites ==
  ASSUME IInv, ClockStarted, NEW w \in Workers,
         Reopen(w) \/ StartClock(w) \/ (CreateTicket(w) /\ ~KnownTicket(w))
  PROVE  ClockStarted'
<1>0. /\ TypeOK /\ Len(tickets) \in Nat /\ DOMAIN tickets = 1 .. Len(tickets)
      /\ \A i \in DOMAIN tickets : tickets[i] \in TicketRows
  <2>1. TypeOK
    BY DEF IInv
  <2> QED
    BY <2>1, Domains
<1>1. CASE Reopen(w)
  <2>1. thread[w] \in DOMAIN tickets
    BY <1>0, <1>1 DEF Reopen, At, IInv, WorkOK
  <2>2. /\ pc'[w] = "startClock" /\ thread'[w] = thread[w]
        /\ \A v \in Workers, i \in DOMAIN tickets : Committed(v, i) => Committed(v, i)'
    BY <1>0, <1>1 DEF Reopen, Goto, At, Committed, TypeOK
  <2>3. /\ DOMAIN tickets' = DOMAIN tickets
        /\ \A i \in DOMAIN tickets \ {thread[w]} : tickets'[i] = tickets[i]
    BY <1>1 DEF Reopen
  <2> QED
    BY <1>1, <2>1, <2>2, <2>3, ClockStep DEF Reopen, Committed
<1>2. CASE StartClock(w)
  <2>1. thread[w] \in DOMAIN tickets
    BY <1>0, <1>2 DEF StartClock, At, IInv, WorkOK
  <2>2. \A v \in Workers \ {w}, i \in DOMAIN tickets : Committed(v, i) => Committed(v, i)'
    BY <1>0, <1>2 DEF StartClock, Conclude, Committed, TypeOK
  <2>3. DOMAIN tickets' = DOMAIN tickets
    BY <1>2 DEF StartClock
  <2>4. \A i \in DOMAIN tickets \ {thread[w]} : tickets'[i] = tickets[i]
    BY <1>2 DEF StartClock
  <2>5. tickets'[thread[w]].clock
    <3> DEFINE row == [tickets[thread[w]] EXCEPT !.clock = TRUE]
    <3>1. row.clock
      BY <1>0, <2>1, Zenon DEF TicketRows
    <3>2. tickets' = [tickets EXCEPT ![thread[w]] = row]
      BY <1>0, <1>2, <2>1 DEF StartClock, TicketRows, TypeOK
    <3> QED
      BY <2>1, <3>1, <3>2
  <2>6. \A i \in DOMAIN tickets \ {thread[w]} :
          \A v \in Workers : Committed(v, i) => Committed(v, i)'
    BY <2>2 DEF Committed
  <2> QED
    BY <1>2, <2>3, <2>4, <2>5, <2>6, ClockStep DEF StartClock
<1>3. CASE CreateTicket(w) /\ ~KnownTicket(w)
  <2>1. msg[w] \in Messages
    BY <1>3 DEF CreateTicket, At, Steps, IInv, WorkOK
  <2>2. /\ DOMAIN tickets' = 1 .. (Len(tickets) + 1)
        /\ \A i \in DOMAIN tickets : tickets'[i] = tickets[i]
    BY <1>0, <1>3, <2>1, NewTicketRow, AppendRow DEF CreateTicket, TypeOK
  <2>3. /\ pc'[w] = "startClock" /\ thread'[w] = Len(tickets) + 1
        /\ pc[w] = "createTicket"
        /\ \A v \in Workers \ {w} : pc'[v] = pc[v] /\ thread'[v] = thread[v]
    BY <1>0, <1>3 DEF CreateTicket, At, TypeOK
  <2>4. \A v \in Workers, i \in DOMAIN tickets : Committed(v, i) => Committed(v, i)'
    BY <2>3 DEF Committed
  <2>5. \A i \in DOMAIN tickets' : i \in DOMAIN tickets \/ i = Len(tickets) + 1
    BY <1>0, <2>2
  <2> QED
    BY <1>3, <2>2, <2>3, <2>4, <2>5, ClockStep DEF CreateTicket, Committed
<1> QED
  BY <1>1, <1>2, <1>3

LEMMA ClockStill ==
  ASSUME IInv, ClockStarted,
         Arrive \/ UNCHANGED vars \/ (\E k \in Keys : Evict(k) \/ View(k))
           \/ \E i \in DOMAIN tickets : FinishTicket(i)
  PROVE  ClockStarted'
<1>1. UNCHANGED jobVars /\ UNCHANGED faults
  BY DEF Arrive, FinishTicket, Evict, View, vars
<1>2. \A v \in Workers : \A i : Committed(v, i) => Committed(v, i)'
  BY <1>1 DEF Committed, jobVars
<1>3. \A i \in DOMAIN tickets' :
        i \in DOMAIN tickets /\ (tickets'[i].state = "open" => tickets'[i] = tickets[i])
  <2>1. CASE UNCHANGED tickets
    BY <2>1
  <2>2. ASSUME NEW i \in DOMAIN tickets, FinishTicket(i)
        PROVE  \A j \in DOMAIN tickets' :
                 j \in DOMAIN tickets /\ (tickets'[j].state = "open" => tickets'[j] = tickets[j])
    <3>1. tickets[i] \in TicketRows
      BY Domains DEF IInv, TypeOK
    <3>2. tickets' = [tickets EXCEPT ![i] = [tickets[i] EXCEPT !.state = "done"]]
      BY <2>2, <3>1 DEF FinishTicket, TicketRows, IInv, TypeOK
    <3>3. [tickets[i] EXCEPT !.state = "done"].state = "done"
      BY <3>1 DEF TicketRows
    <3> QED
      BY <3>2, <3>3
  <2> QED
    BY <2>1, <2>2 DEF Arrive, Evict, View, vars, dbVars
<1> QED
  BY <1>1, <1>2, <1>3, ClockStep

(* Without a fault every open ticket's clock runs or is about to be started,  *)
(* however many replies reopen it at once.                                   *)
THEOREM ClockStartedHolds == Spec => []ClockStarted
<1>1. Init => ClockStarted
  BY DEF Init, ClockStarted
<1>2. ASSUME IInv, ClockStarted, [Next]_vars
      PROVE  ClockStarted'
  <2>1. CASE Arrive \/ UNCHANGED vars \/ (\E k \in Keys : Evict(k) \/ View(k))
               \/ \E i \in DOMAIN tickets : FinishTicket(i)
    BY <1>2, <2>1, ClockStill
  <2>2. ASSUME NEW w \in Workers,
               \/ StartPoll(w) \/ TakeMessage(w) \/ FindTicket(w) \/ FindComment(w)
               \/ Upload(w) \/ ResolveThread(w) \/ AddComment(w) \/ MarkSeen(w)
               \/ \E m \in Messages : Notify(w, m)
        PROVE  ClockStarted'
    BY <1>2, <2>2, ClockControl
  <2>3. ASSUME NEW w \in Workers, Reopen(w) \/ StartClock(w) \/ CreateTicket(w)
        PROVE  ClockStarted'
    <3>1. CASE CreateTicket(w) /\ KnownTicket(w)
      BY <1>2, <3>1, ClockControl
    <3>2. CASE Reopen(w) \/ StartClock(w) \/ (CreateTicket(w) /\ ~KnownTicket(w))
      BY <1>2, <3>2, ClockWrites
    <3> QED
      BY <2>3, <3>1, <3>2
  <2>4. CASE \/ Restart \/ \E m \in Messages : GrowOld(m)
             \/ \E w \in Workers : MarkFails(w) \/ Fail(w)
    <3>1. faults' # 0
      BY <1>2, <2>4, FaultsEnd DEF Restart, GrowOld, MarkFails, Fail
    <3> QED
      BY <3>1 DEF ClockStarted
  <2> QED
    BY <1>2, <2>1, <2>2, <2>3, <2>4 DEF Next, Continues
<1>3. IInv /\ ClockStarted /\ [Next]_vars => ClockStarted'
  BY <1>2
<1> QED
  BY <1>1, <1>3, InvariantHolds, PTL DEF Spec

-----------------------------------------------------------------------------
(* One channel alone.  No other worker ever leaves its rest, every row comes *)
(* from the one source, and what the duplicate checks have ruled out for the *)
(* message in hand nobody else brings about.                                 *)

Sole(w) ==
  /\ \A v \in Workers \ {w} : pc[v] = "idle"
  /\ \A i \in DOMAIN tickets : tickets[i].source = Source(w)
  /\ \A c \in DOMAIN comments : comments[c].source = Source(w)
  /\ RecordedOnce
  /\ pc[w] \in PastTickets => TicketsOf(msg[w]) = {}
  /\ pc[w] \in PastComments => CommentsOf(msg[w]) = {}

SoleInv == \A w \in Workers : channels = {w} => Sole(w)

LEMMA SameNumbers ==
  ASSUME RowsSame, NEW m
  PROVE  TicketsOf(m)' = TicketsOf(m) /\ CommentsOf(m)' = CommentsOf(m)
BY DEF RowsSame, Old, TicketsOf, CommentsOf

(* A step that leaves the rows as they are. *)
LEMMA SoleQuiet ==
  ASSUME NEW w \in Workers, Sole(w), RowsSame,
         \A v \in Workers \ {w} : pc'[v] = "idle",
         \/ pc'[w] \notin PastTickets
         \/ /\ msg'[w] = msg[w]
            /\ pc[w] \in PastTickets \/ TicketsOf(msg[w]) = {}
            /\ pc'[w] \in PastComments =>
                 pc[w] \in PastComments \/ CommentsOf(msg[w]) = {}
  PROVE  Sole(w)'
<1>1. RecordedOnce'
  BY SameNumbers DEF Sole, RecordedOnce
<1>2. /\ \A i \in DOMAIN tickets' : tickets'[i].source = Source(w)
      /\ \A c \in DOMAIN comments' : comments'[c].source = Source(w)
  BY DEF Sole, RowsSame, Old
<1>3. CASE pc'[w] \notin PastTickets
  BY <1>1, <1>2, <1>3 DEF Sole, PastComments, Source
<1>4. CASE pc'[w] \in PastTickets
  <2>1. PICK m : m = msg[w]
    OBVIOUS
  <2>2. msg'[w] = m /\ TicketsOf(m) = {}
    BY <1>4, <2>1 DEF Sole
  <2>3. pc'[w] \in PastComments => CommentsOf(m) = {}
    BY <1>4, <2>1 DEF Sole
  <2>4. TicketsOf(m)' = TicketsOf(m) /\ CommentsOf(m)' = CommentsOf(m)
    BY SameNumbers
  <2>5. TicketsOf(msg[w])' = TicketsOf(m)' /\ CommentsOf(msg[w])' = CommentsOf(m)'
    BY <2>2 DEF TicketsOf, CommentsOf
  <2> QED
    BY <1>1, <1>2, <2>2, <2>3, <2>4, <2>5 DEF Sole, Source
<1> QED
  BY <1>3, <1>4

(* The checks find every row of the message, since all are of one source. *)
LEMMA SoleKnown ==
  ASSUME NEW w \in Workers, Sole(w)
  PROVE  /\ ~KnownTicket(w) => TicketsOf(msg[w]) = {}
         /\ ~KnownComment(w) => CommentsOf(msg[w]) = {}
BY DEF Sole, KnownTicket, KnownComment, Matches, TicketsOf, CommentsOf

LEMMA SoleChecks ==
  ASSUME IInv, NEW w \in Workers, Sole(w), FindTicket(w) \/ FindComment(w)
  PROVE  Sole(w)'
<1>1. RowsSame
  BY KeptRows DEF FindTicket, FindComment
<1>2. \A v \in Workers \ {w} : pc'[v] = "idle"
  BY DEF Sole, FindTicket, FindComment, Goto, Conclude, IInv, TypeOK
<1>3. CASE pc'[w] = "mark"
  BY <1>1, <1>2, <1>3, SoleQuiet DEF PastTickets
<1>4. CASE FindTicket(w) /\ ~KnownTicket(w)
  <2>1. pc'[w] = "findComment" /\ msg'[w] = msg[w]
    BY <1>4 DEF FindTicket, Goto, IInv, TypeOK
  <2> QED
    BY <1>1, <1>2, <1>4, <2>1, SoleKnown, SoleQuiet DEF PastTickets, PastComments
<1>5. CASE FindComment(w) /\ ~KnownComment(w)
  <2>1. pc[w] = "findComment" /\ msg'[w] = msg[w]
    BY <1>5 DEF FindComment, At, Goto, IInv, TypeOK
  <2> QED
    BY <1>1, <1>2, <1>5, <2>1, SoleKnown, SoleQuiet DEF PastTickets, PastComments
<1> QED
  BY <1>3, <1>4, <1>5 DEF FindTicket, FindComment, Conclude, IInv, TypeOK

LEMMA SoleControl ==
  ASSUME IInv, NEW w \in Workers, Sole(w),
         \/ StartPoll(w) \/ TakeMessage(w) \/ Upload(w) \/ ResolveThread(w)
         \/ Reopen(w) \/ StartClock(w)
         \/ MarkSeen(w) \/ MarkFails(w) \/ Fail(w)
         \/ \E m \in Messages : Notify(w, m)
  PROVE  Sole(w)'
<1>1. RowsSame
  <2>1. CASE Reopen(w) \/ StartClock(w)
    BY <2>1, TouchRows
  <2>2. CASE ~(Reopen(w) \/ StartClock(w))
    BY <2>2, KeptRows DEF StartPoll, TakeMessage, Upload, ResolveThread, MarkSeen,
                          MarkFails, Fail, Notify
  <2> QED
    BY <2>1, <2>2
<1>2. \A v \in Workers \ {w} : pc'[v] = "idle"
  BY DEF Sole, StartPoll, TakeMessage, Upload, ResolveThread, Reopen, StartClock,
         MarkSeen, MarkFails, Fail, Notify, Open, Goto, Conclude, Rest, jobVars, IInv, TypeOK
<1>3. CASE Upload(w) \/ ResolveThread(w)
  <2>1. pc[w] \in PastComments /\ pc[w] \in PastTickets /\ msg'[w] = msg[w]
    BY <1>3 DEF Upload, ResolveThread, At, Goto, PastComments, PastTickets
  <2> QED
    BY <1>1, <1>2, <2>1, SoleQuiet
<1>4. CASE \E m \in Messages : Notify(w, m)
  <2>1. pc'[w] \notin PastTickets
    BY <1>4 DEF Notify, At, Open, Resting, jobVars, PastTickets, IInv, TypeOK
  <2> QED
    BY <1>1, <1>2, <2>1, SoleQuiet
<1>5. CASE \/ StartPoll(w) \/ TakeMessage(w) \/ Reopen(w) \/ StartClock(w)
           \/ MarkSeen(w) \/ MarkFails(w) \/ Fail(w)
  <2>1. pc'[w] \notin PastTickets
    BY <1>5 DEF StartPoll, TakeMessage, Reopen, StartClock, MarkSeen, MarkFails, Fail, Open,
                Goto, Conclude, Rest, Resting, PastTickets, IInv, TypeOK
  <2> QED
    BY <1>1, <1>2, <2>1, SoleQuiet
<1> QED
  BY <1>3, <1>4, <1>5

(* The inserts: the message in hand has no row yet, and gets one. *)
LEMMA SoleInsert ==
  ASSUME IInv, IInv', NEW w \in Workers, Sole(w), AddComment(w) \/ CreateTicket(w)
  PROVE  Sole(w)'
<1>0. pc[w] \in PastComments /\ pc[w] \in PastTickets
  BY DEF AddComment, CreateTicket, At, PastComments, PastTickets
<1>1. TicketsOf(msg[w]) = {} /\ CommentsOf(msg[w]) = {}
  BY <1>0 DEF Sole
<1>2. RowsFrom(w)
  BY AddCommentRows, CreateTicketRows
<1>3. /\ pc'[w] \notin PastTickets
      /\ \A v \in Workers \ {w} : pc'[v] = "idle"
  <2>1. \E l \in {"mark", "reopen", "startClock"} : pc' = [pc EXCEPT ![w] = l]
    BY DEF AddComment, CreateTicket, Goto, Conclude
  <2>2. pc \in [Workers -> Labels] /\ \A v \in Workers \ {w} : pc[v] = "idle"
    BY DEF IInv, TypeOK, Sole
  <2> QED
    BY <2>1, <2>2 DEF PastTickets
<1>4. /\ \A i \in DOMAIN tickets' : tickets'[i].source = Source(w)
      /\ \A c \in DOMAIN comments' : comments'[c].source = Source(w)
  BY <1>2 DEF RowsFrom, Old, Own, Sole
<1>5. ASSUME NEW m \in Messages, m # msg[w]
      PROVE  TicketsOf(m)' = TicketsOf(m) /\ CommentsOf(m)' = CommentsOf(m)
  BY <1>2, <1>5 DEF RowsFrom, Old, Own, TicketsOf, CommentsOf
<1>6. ASSUME NEW m \in Messages, m = msg[w]
      PROVE  /\ TicketsOf(m)' = {} \/ CommentsOf(m)' = {}
             /\ \A i, j \in TicketsOf(m)' : i = j
             /\ \A c, d \in CommentsOf(m)' : c = d
  <2>0. TicketsOf(m) = {} /\ CommentsOf(m) = {}
    BY <1>1, <1>6
  <2>1. CASE UNCHANGED dbVars
    <3>1. TicketsOf(m)' = TicketsOf(m) /\ CommentsOf(m)' = CommentsOf(m)
      BY <2>1, KeptRows, SameNumbers
    <3> QED
      BY <2>0, <3>1
  <2>2. CASE AddComment(w) /\ ~KnownComment(w)
    <3>1. UNCHANGED tickets /\ comments' = Append(comments, CommentRow(w))
      BY <2>2 DEF AddComment
    <3>2. TicketsOf(m)' = {}
      BY <2>0, <3>1 DEF TicketsOf
    <3>3. \A c \in CommentsOf(m)' : c = Len(comments) + 1
      <4>1. comments \in Seq(CommentRows) /\ comments' \in Seq(CommentRows)
        BY DEF IInv, TypeOK
      <4>2. \A c \in DOMAIN comments' :
              \/ c \in DOMAIN comments /\ comments'[c] = comments[c]
              \/ c = Len(comments) + 1
        BY <3>1, <4>1, AppendDomain
      <4> QED
        BY <2>0, <4>2 DEF CommentsOf
    <3> QED
      BY <3>2, <3>3
  <2>3. CASE CreateTicket(w) /\ ~KnownTicket(w)
    <3>1. UNCHANGED comments /\ tickets' = Append(tickets, TicketRow(w))
      BY <2>3 DEF CreateTicket
    <3>2. CommentsOf(m)' = {}
      BY <2>0, <3>1 DEF CommentsOf
    <3>3. \A i \in TicketsOf(m)' : i = Len(tickets) + 1
      <4>1. tickets \in Seq(TicketRows) /\ tickets' \in Seq(TicketRows)
        BY DEF IInv, TypeOK
      <4>2. \A i \in DOMAIN tickets' :
              \/ i \in DOMAIN tickets /\ tickets'[i] = tickets[i]
              \/ i = Len(tickets) + 1
        BY <3>1, <4>1, AppendDomain
      <4> QED
        BY <2>0, <4>2 DEF TicketsOf
    <3> QED
      BY <3>2, <3>3
  <2> QED
    BY <2>1, <2>2, <2>3 DEF AddComment, CreateTicket, dbVars
<1>7. RecordedOnce'
  <2>1. ASSUME NEW m \in Messages
        PROVE  /\ TicketsOf(m)' = {} \/ CommentsOf(m)' = {}
               /\ \A i, j \in TicketsOf(m)' : i = j
               /\ \A c, d \in CommentsOf(m)' : c = d
    BY <1>5, <1>6 DEF Sole, RecordedOnce
  <2> QED
    BY <2>1 DEF RecordedOnce
<1> QED
  BY <1>3, <1>4, <1>7 DEF Sole, Source, PastComments

LEMMA SoleStill ==
  ASSUME IInv, NEW w \in Workers, Sole(w),
         \/ Arrive \/ Restart \/ UNCHANGED vars
         \/ \E m \in Messages : GrowOld(m)
         \/ \E i \in DOMAIN tickets : FinishTicket(i)
         \/ \E k \in Keys : Evict(k) \/ View(k)
  PROVE  Sole(w)'
<1>1. RowsSame
  BY KeptRows, TouchRows DEF Arrive, Restart, GrowOld, Evict, View, vars
<1>2. \/ \A v \in Workers : pc'[v] = "idle"
      \/ pc' = pc /\ msg' = msg
  BY DEF Arrive, Restart, GrowOld, FinishTicket, Evict, View, vars, jobVars
<1>3. CASE \A v \in Workers : pc'[v] = "idle"
  BY <1>1, <1>3, SoleQuiet DEF PastTickets
<1>4. CASE pc' = pc /\ msg' = msg
  BY <1>1, <1>4, SoleQuiet DEF Sole
<1> QED
  BY <1>2, <1>3, <1>4

(* A channel that is off delivers nothing. *)
LEMMA OffIdle ==
  ASSUME NEW w \in Workers, NEW v \in Workers \ {w}, Sole(w), channels = {w},
         \/ StartPoll(v) \/ Continues(v) \/ MarkFails(v) \/ Fail(v)
         \/ \E m \in Messages : Notify(v, m)
  PROVE  FALSE
BY DEF Sole, StartPoll, Continues, TakeMessage, FindTicket, FindComment, Upload,
       ResolveThread, AddComment, Reopen, CreateTicket, StartClock, MarkSeen, MarkFails,
       Fail, Notify, At, Steps

LEMMA SoleStep ==
  ASSUME IInv, IInv', SoleInv, [Next]_vars
  PROVE  SoleInv'
<1> SUFFICES ASSUME NEW w \in Workers, channels' = {w}
             PROVE  Sole(w)'
  BY DEF SoleInv
<1>1. channels' = channels
  BY DEF Next, Continues, Arrive, Restart, GrowOld, FinishTicket, Evict, View, StartPoll,
         TakeMessage, FindTicket, FindComment, Upload, ResolveThread, AddComment, Reopen,
         CreateTicket, StartClock, MarkSeen, MarkFails, Fail, Notify, vars, mailVars
<1>2. Sole(w) /\ channels = {w}
  BY <1>1 DEF SoleInv
<1>3. CASE \/ Arrive \/ Restart \/ UNCHANGED vars
           \/ \E m \in Messages : GrowOld(m)
           \/ \E i \in DOMAIN tickets : FinishTicket(i)
           \/ \E k \in Keys : Evict(k) \/ View(k)
  BY <1>2, <1>3, SoleStill
<1>4. CASE \/ StartPoll(w) \/ Continues(w) \/ MarkFails(w) \/ Fail(w)
           \/ \E m \in Messages : Notify(w, m)
  BY <1>2, <1>4, SoleChecks, SoleControl, SoleInsert DEF Continues
<1>5. ASSUME NEW v \in Workers \ {w},
             \/ StartPoll(v) \/ Continues(v) \/ MarkFails(v) \/ Fail(v)
             \/ \E m \in Messages : Notify(v, m)
      PROVE  FALSE
  BY <1>2, <1>5, OffIdle
<1> QED
  BY <1>3, <1>4, <1>5 DEF Next

(* Where one channel alone delivers, a message is one ticket or one activity *)
(* however often that channel takes it up again.                             *)
THEOREM RetriesRecordOnceHolds == Spec => []RetriesRecordOnce
<1>1. Init => SoleInv
  BY DEF Init, SoleInv, Sole, RecordedOnce, TicketsOf, CommentsOf, PastTickets, PastComments
<1>2. IInv /\ IInv' /\ SoleInv /\ [Next]_vars => SoleInv'
  BY SoleStep
<1>3. SoleInv => RetriesRecordOnce
  BY DEF SoleInv, Sole, RetriesRecordOnce
<1> QED
  BY <1>1, <1>2, <1>3, InvariantHolds, PTL DEF Spec
=============================================================================
