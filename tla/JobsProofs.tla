----------------------------- MODULE JobsProofs ------------------------------
(* Theorems about Jobs, for every instance: a single runner sends each       *)
(* report once, and a subscription is renewed before it lapses.              *)
EXTENDS Jobs, TLAPS, SequenceTheorems, WellFoundedInduction

Steps4 == {"idle", "check", "mail", "record"}

(* What the reports' variables hold. *)
ReportTypeOK ==
  /\ runners \in SUBSET Runners
  /\ run \in [Runners -> [step : Steps4, kinds : Seq(Kinds), at : Int]]
  /\ unrecorded \in Nat

(* Only who sends reports is ever at a step of a run. *)
OthersRest == \A r \in Runners \ runners : run[r] = Rest

(* What has gone out is what is recorded and the report that the runner     *)
(* has just mailed; one that it is about to mail is not recorded. *)
InHand(r) == IF run[r].step = "record" THEN {Subject(r)} ELSE {}

Accounted(r) ==
  /\ repeated = {}
  /\ mailed = recorded \cup InHand(r)
  /\ run[r].step = "mail" => Subject(r) \notin recorded

ReportInv ==
  /\ ReportTypeOK
  /\ OthersRest
  /\ \A r \in Runners : runners = {r} /\ unrecorded = 0 => Accounted(r)

-----------------------------------------------------------------------------
(* The end of a report leaves a run of the right type, at "check" or at rest. *)
LEMMA NextKindEffect ==
  ASSUME ReportTypeOK, NEW r \in Runners, NextKind(r)
  PROVE  /\ run' \in [Runners -> [step : Steps4, kinds : Seq(Kinds), at : Int]]
         /\ run'[r].step \in {"idle", "check"}
         /\ \A q \in Runners \ {r} : run'[q] = run[q]
<1> DEFINE old == run[r]
           next == [step |-> "check", kinds |-> Tail(old.kinds), at |-> old.at]
<1>1. old \in [step : Steps4, kinds : Seq(Kinds), at : Int]
  BY DEF ReportTypeOK
<1>2. CASE Len(old.kinds) > 1
  <2>1. Tail(old.kinds) \in Seq(Kinds)
    BY <1>1, <1>2
  <2>2. next \in [step : Steps4, kinds : Seq(Kinds), at : Int] /\ next.step = "check"
    BY <1>1, <2>1 DEF Steps4
  <2>3. run' = [run EXCEPT ![r] = next]
    BY <1>2 DEF NextKind
  <2> HIDE DEF next
  <2> QED
    BY <2>2, <2>3 DEF ReportTypeOK
<1>3. CASE ~(Len(old.kinds) > 1)
  <2>1. run' = [run EXCEPT ![r] = Rest]
    BY <1>3 DEF NextKind
  <2>2. Rest \in [step : Steps4, kinds : Seq(Kinds), at : Int] /\ Rest.step = "idle"
    BY DEF Rest, Steps4
  <2> QED
    BY <2>1, <2>2 DEF ReportTypeOK
<1> QED
  BY <1>2, <1>3

(* Another step of the same report, and its subject stays. *)
LEMMA GotoEffect ==
  ASSUME ReportTypeOK, NEW r \in Runners, NEW s \in Steps4, Goto(r, s)
  PROVE  /\ run' \in [Runners -> [step : Steps4, kinds : Seq(Kinds), at : Int]]
         /\ run'[r].step = s
         /\ run'[r].kinds = run[r].kinds /\ run'[r].at = run[r].at
         /\ \A q \in Runners \ {r} : run'[q] = run[q]
BY DEF ReportTypeOK, Goto

(* A run begins, or is ended, while its runner mails nothing. *)
LEMMA RunReplaced ==
  ASSUME ReportTypeOK, NEW r \in Runners,
         NEW new \in [step : {"idle", "check"}, kinds : Seq(Kinds), at : Int],
         run' = [run EXCEPT ![r] = new]
  PROVE  /\ run' \in [Runners -> [step : Steps4, kinds : Seq(Kinds), at : Int]]
         /\ run'[r].step \in {"idle", "check"}
         /\ \A q \in Runners \ {r} : run'[q] = run[q]
<1>1. new \in [step : Steps4, kinds : Seq(Kinds), at : Int]
  BY DEF Steps4
<1> QED
  BY <1>1 DEF ReportTypeOK

-----------------------------------------------------------------------------
(* A step of a runner that keeps the accounts in the sense of the last      *)
(* conjuncts keeps ReportInv: other runners do not move. *)
LEMMA RunnerMoves ==
  ASSUME ReportInv, NEW r \in runners,
         UNCHANGED <<runners, zone>>,
         run' \in [Runners -> [step : Steps4, kinds : Seq(Kinds), at : Int]],
         unrecorded' \in Nat,
         \A q \in Runners \ {r} : run'[q] = run[q],
         runners = {r} /\ unrecorded' = 0 => Accounted(r)'
  PROVE  ReportInv'
<1>1. ReportTypeOK'
  BY DEF ReportInv, ReportTypeOK
<1>2. OthersRest'
  BY DEF ReportInv, OthersRest
<1>3. ASSUME NEW q \in Runners, runners' = {q}, unrecorded' = 0
      PROVE  Accounted(q)'
  <2>1. q = r
    BY <1>3
  <2> QED
    BY <1>3, <2>1
<1> QED
  BY <1>1, <1>2, <1>3 DEF ReportInv

LEMMA CheckKeeps == ASSUME ReportInv, NEW r \in Runners, Check(r) PROVE ReportInv'
<1>1. r \in runners /\ ReportTypeOK
  BY DEF ReportInv, OthersRest, Check, Rest
<1>2. run[r].step = "check" /\ UNCHANGED <<runners, zone, recorded, mailed, repeated, unrecorded>>
  BY DEF Check, staticVars
<1>3. unrecorded' \in Nat
  BY <1>1, <1>2 DEF ReportTypeOK
<1>4. CASE recipients /\ Subject(r) \notin recorded
  <2>1. Goto(r, "mail")
    BY <1>4 DEF Check
  <2>2. /\ run' \in [Runners -> [step : Steps4, kinds : Seq(Kinds), at : Int]]
        /\ run'[r].step = "mail"
        /\ run'[r].kinds = run[r].kinds /\ run'[r].at = run[r].at
        /\ \A q \in Runners \ {r} : run'[q] = run[q]
    BY <1>1, <2>1, GotoEffect DEF Steps4
  <2>3. Subject(r)' = Subject(r)
    BY <1>2, <2>2 DEF Subject, Previous, Current, DayOf, Wall, Offset
  <2>4. runners = {r} /\ unrecorded' = 0 => Accounted(r)'
    BY <1>2, <1>4, <2>2, <2>3 DEF ReportInv, Accounted, InHand
  <2> QED
    BY <1>1, <1>2, <1>3, <2>2, <2>4, RunnerMoves
<1>5. CASE ~(recipients /\ Subject(r) \notin recorded)
  <2>1. NextKind(r)
    BY <1>5 DEF Check
  <2>2. /\ run' \in [Runners -> [step : Steps4, kinds : Seq(Kinds), at : Int]]
        /\ run'[r].step \in {"idle", "check"}
        /\ \A q \in Runners \ {r} : run'[q] = run[q]
    BY <1>1, <2>1, NextKindEffect
  <2>3. runners = {r} /\ unrecorded' = 0 => Accounted(r)'
    BY <1>2, <2>2 DEF ReportInv, Accounted, InHand
  <2> QED
    BY <1>1, <1>2, <1>3, <2>2, <2>3, RunnerMoves
<1> QED
  BY <1>4, <1>5

LEMMA SendMailKeeps == ASSUME ReportInv, NEW r \in Runners, SendMail(r) PROVE ReportInv'
<1>1. r \in runners /\ ReportTypeOK
  BY DEF ReportInv, OthersRest, SendMail, Rest
<1>2. run[r].step = "mail" /\ UNCHANGED <<runners, zone, recorded, unrecorded>>
  BY DEF SendMail, staticVars
<1>3. unrecorded' \in Nat
  BY <1>1, <1>2 DEF ReportTypeOK
<1>4. ASSUME mailed' = mailed \cup {Subject(r)},
             repeated' = repeated \cup ({Subject(r)} \cap mailed),
             Goto(r, "record")
      PROVE  ReportInv'
  <2>2. /\ run' \in [Runners -> [step : Steps4, kinds : Seq(Kinds), at : Int]]
        /\ run'[r].step = "record"
        /\ run'[r].kinds = run[r].kinds /\ run'[r].at = run[r].at
        /\ \A q \in Runners \ {r} : run'[q] = run[q]
    BY <1>1, <1>4, GotoEffect DEF Steps4
  <2>3. Subject(r)' = Subject(r)
    BY <1>2, <2>2 DEF Subject, Previous, Current, DayOf, Wall, Offset
  <2>4. ASSUME runners = {r}, unrecorded' = 0 PROVE Accounted(r)'
    <3>1. Accounted(r)
      BY <1>2, <2>4 DEF ReportInv
    <3>2. mailed = recorded /\ Subject(r) \notin mailed /\ repeated = {}
      BY <1>2, <3>1 DEF Accounted, InHand
    <3>3. repeated' = {} /\ mailed' = recorded \cup {Subject(r)}
      BY <1>4, <3>2
    <3> QED
      BY <1>2, <2>2, <2>3, <3>3 DEF Accounted, InHand
  <2> QED
    BY <1>1, <1>2, <1>3, <2>2, <2>4, RunnerMoves
<1>5. ASSUME NextKind(r), UNCHANGED <<mailed, repeated>>
      PROVE  ReportInv'
  <2>2. /\ run' \in [Runners -> [step : Steps4, kinds : Seq(Kinds), at : Int]]
        /\ run'[r].step \in {"idle", "check"}
        /\ \A q \in Runners \ {r} : run'[q] = run[q]
    BY <1>1, <1>5, NextKindEffect
  <2>3. runners = {r} /\ unrecorded' = 0 => Accounted(r)'
    BY <1>2, <1>5, <2>2 DEF ReportInv, Accounted, InHand
  <2> QED
    BY <1>1, <1>2, <1>3, <2>2, <2>3, RunnerMoves
<1> QED
  BY <1>4, <1>5 DEF SendMail

LEMMA RecordKeeps == ASSUME ReportInv, NEW r \in Runners, Record(r) PROVE ReportInv'
<1>1. r \in runners /\ ReportTypeOK
  BY DEF ReportInv, OthersRest, Record, Rest
<1>2. run[r].step = "record" /\ UNCHANGED <<runners, zone, mailed, repeated>> /\ NextKind(r)
  BY DEF Record, staticVars
<1>3. /\ run' \in [Runners -> [step : Steps4, kinds : Seq(Kinds), at : Int]]
      /\ run'[r].step \in {"idle", "check"}
      /\ \A q \in Runners \ {r} : run'[q] = run[q]
  BY <1>1, <1>2, NextKindEffect
<1>4. unrecorded \in Nat
  BY <1>1 DEF ReportTypeOK
<1>5. \/ recorded' = recorded \cup {Subject(r)} /\ unrecorded' = unrecorded
      \/ unrecorded' = unrecorded + 1
  BY DEF Record
<1>6. unrecorded' \in Nat
  BY <1>4, <1>5
<1>7. ASSUME runners = {r}, unrecorded' = 0 PROVE Accounted(r)'
  <2>1. unrecorded = 0 /\ recorded' = recorded \cup {Subject(r)}
    BY <1>4, <1>5, <1>7
  <2>2. Accounted(r)
    BY <1>7, <2>1 DEF ReportInv
  <2> QED
    BY <1>2, <1>3, <2>1, <2>2 DEF Accounted, InHand
<1> QED
  BY <1>1, <1>2, <1>3, <1>6, <1>7, RunnerMoves

LEMMA StopKeeps == ASSUME ReportInv, NEW r \in Runners, Stop(r) PROVE ReportInv'
<1>1. ReportTypeOK
  BY DEF ReportInv
<1>2. UNCHANGED <<runners, zone, recorded, mailed, repeated>>
  BY DEF Stop, staticVars
<1>3. run' = [run EXCEPT ![r] = Rest]
  BY DEF Stop
<1>4. Rest \in [step : {"idle", "check"}, kinds : Seq(Kinds), at : Int]
  BY DEF Rest
<1>5. /\ run' \in [Runners -> [step : Steps4, kinds : Seq(Kinds), at : Int]]
      /\ run'[r] = Rest
      /\ \A q \in Runners \ {r} : run'[q] = run[q]
  BY <1>1, <1>3, <1>4, RunReplaced DEF ReportTypeOK
<1>6. unrecorded \in Nat /\ unrecorded' = unrecorded + IF run[r].step = "record" THEN 1 ELSE 0
  BY <1>1 DEF Stop, ReportTypeOK
<1>7. unrecorded' \in Nat
  BY <1>6
<1>8. CASE r \in runners
  <2>1. ASSUME runners = {r}, unrecorded' = 0 PROVE Accounted(r)'
    <3>1. unrecorded = 0 /\ run[r].step # "record"
      BY <1>6, <2>1
    <3>2. Accounted(r)
      BY <2>1, <3>1 DEF ReportInv
    <3> QED
      BY <1>2, <1>5, <3>1, <3>2 DEF Accounted, InHand, Rest
  <2> QED
    BY <1>2, <1>5, <1>7, <1>8, <2>1, RunnerMoves
<1>9. CASE r \notin runners
  <2>1. run[r] = Rest
    BY <1>9 DEF ReportInv, OthersRest
  <2>2. run' = run /\ unrecorded' = unrecorded
    BY <1>1, <1>3, <1>6, <2>1 DEF ReportTypeOK, Rest
  <2> QED
    BY <1>2, <2>2 DEF ReportInv, ReportTypeOK, OthersRest, Accounted, InHand, Subject,
                      Previous, Current, DayOf, Wall, Offset
<1> QED
  BY <1>8, <1>9

LEMMA StartsKeep ==
  ASSUME ReportInv, now \in Int, StartPass \/ \E k \in Kinds : StartCli(k)
  PROVE  ReportInv'
<1>1. ReportTypeOK
  BY DEF ReportInv
<1>2. PICK r \in runners :
        /\ run[r] = Rest
        /\ \E ks \in Seq(Kinds) :
             run' = [run EXCEPT ![r] = [step |-> "check", kinds |-> ks, at |-> now]]
        /\ UNCHANGED <<runners, zone, recorded, mailed, repeated, unrecorded>>
  <2>1. CASE StartPass
    <3>1. DueKinds(now) \in Seq(Kinds)
      <4>1. /\ <<"weekly">> \in Seq(Kinds) /\ <<"monthly">> \in Seq(Kinds)
            /\ <<>> \in Seq(Kinds)
        BY DEF Kinds
      <4>2. \A a, b \in Seq(Kinds) : a \o b \in Seq(Kinds)
        OBVIOUS
      <4> QED
        BY <4>1, <4>2 DEF DueKinds
    <3> QED
      BY <2>1, <3>1 DEF StartPass, staticVars
  <2>2. CASE \E k \in Kinds : StartCli(k)
    <3>1. PICK k \in Kinds : StartCli(k)
      BY <2>2
    <3>2. <<k>> \in Seq(Kinds)
      OBVIOUS
    <3> QED
      BY <3>1, <3>2 DEF StartCli, staticVars
  <2> QED
    BY <2>1, <2>2
<1>3. r \in Runners
  BY <1>1 DEF ReportTypeOK
<1>4. PICK ks \in Seq(Kinds) :
        run' = [run EXCEPT ![r] = [step |-> "check", kinds |-> ks, at |-> now]]
  BY <1>2
<1>5. [step |-> "check", kinds |-> ks, at |-> now] \in [step : {"idle", "check"}, kinds : Seq(Kinds), at : Int]
  OBVIOUS
<1>6. /\ run' \in [Runners -> [step : Steps4, kinds : Seq(Kinds), at : Int]]
      /\ run'[r].step \in {"idle", "check"}
      /\ \A q \in Runners \ {r} : run'[q] = run[q]
  BY <1>1, <1>3, <1>4, <1>5, RunReplaced
<1>7. unrecorded' \in Nat
  BY <1>1, <1>2 DEF ReportTypeOK
<1>8. runners = {r} /\ unrecorded' = 0 => Accounted(r)'
  BY <1>2, <1>3, <1>6 DEF ReportInv, Accounted, InHand, Rest
<1> QED
  BY <1>2, <1>6, <1>7, <1>8, RunnerMoves

(* A step that leaves the reports' variables alone, the recipients apart. *)
LEMMA ReportsRest ==
  ASSUME ReportInv,
         UNCHANGED <<zone, runners, run, recorded, mailed, repeated, unrecorded>>
  PROVE  ReportInv'
BY DEF ReportInv, ReportTypeOK, OthersRest, Accounted, InHand, Subject, Previous, Current,
       DayOf, Wall, Offset

-----------------------------------------------------------------------------
(* Time is a number. *)
LEMMA NowIsInt == Spec => [](now \in Int)
<1>1. Init => now \in Int
  BY JobsAssumption DEF Init
<1>2. now \in Int /\ [Next]_vars => (now \in Int)'
  <2> SUFFICES ASSUME now \in Int, [Next]_vars PROVE now' \in Int
    OBVIOUS
  <2>1. now' = now \/ now' = now + 1
    BY DEF Next, vars, Tick, Scheduler, CommandLine, Administrator, WatchdogTick, Mailboxes,
           RenewTick, Webhook, CallReturns, Days, GraphDrops, ServerStops, ServerStarts,
           InReports, InWatchdog, InSubscription
  <2> QED
    BY <2>1
<1> QED
  BY <1>1, <1>2, PTL DEF Spec

LEMMA ReportInvInit == Init => ReportInv
<1> SUFFICES ASSUME Init PROVE ReportInv
  OBVIOUS
<1>1. PICK s \in Starts : ReportsInit(s.zone, s.runners)
  BY DEF Init
<1>2. s.runners \in SUBSET Runners
  BY JobsAssumption
<1>3. Rest \in [step : Steps4, kinds : Seq(Kinds), at : Int] /\ Rest.step = "idle"
  BY DEF Rest, Steps4
<1>4. ReportTypeOK
  BY <1>1, <1>2, <1>3 DEF ReportsInit, ReportTypeOK
<1>5. \A r \in Runners : run[r] = Rest
  BY <1>1 DEF ReportsInit
<1>6. mailed = {} /\ recorded = {} /\ repeated = {}
  BY <1>1 DEF ReportsInit
<1> QED
  BY <1>3, <1>4, <1>5, <1>6 DEF ReportInv, OthersRest, Accounted, InHand

LEMMA ReportInvStep == ReportInv /\ now \in Int /\ [Next]_vars => ReportInv'
<1> SUFFICES ASSUME ReportInv, now \in Int, [Next]_vars PROVE ReportInv'
  OBVIOUS
<1>1. CASE Scheduler
  <2>1. CASE StartPass
    BY <2>1, StartsKeep
  <2>2. CASE RunStep("timer")
    BY <2>2, CheckKeeps, SendMailKeeps, RecordKeeps DEF RunStep, Runners
  <2> QED
    BY <1>1, <2>1, <2>2 DEF Scheduler
<1>2. CASE CommandLine
  <2>1. CASE \E k \in Kinds : StartCli(k)
    BY <2>1, StartsKeep
  <2>2. CASE RunStep("cli")
    BY <2>2, CheckKeeps, SendMailKeeps, RecordKeeps DEF RunStep, Runners
  <2>3. CASE Stop("cli")
    BY <2>3, StopKeeps DEF Runners
  <2> QED
    BY <1>2, <2>1, <2>2, <2>3 DEF CommandLine
<1>3. CASE Administrator
  BY <1>3, ReportsRest DEF Administrator, ChangeRecipients, staticVars
<1>4. CASE ServerStops
  <2>1. CASE Stop("timer")
    BY <2>1, StopKeeps DEF Runners
  <2>2. CASE UNCHANGED reportVars
    BY <2>2, ReportsRest DEF reportVars
  <2> QED
    BY <1>4, <2>1, <2>2 DEF ServerStops
<1>5. CASE UNCHANGED reportVars
  BY <1>5, ReportsRest DEF reportVars
<1>6. CASE UNCHANGED vars
  BY <1>5, <1>6 DEF vars
<1>7. Tick \/ WatchdogTick \/ Mailboxes \/ RenewTick \/ Webhook \/ (\E h \in Callers : CallReturns(h))
        \/ Days \/ GraphDrops \/ ServerStarts => UNCHANGED reportVars
  BY DEF Tick, WatchdogTick, Mailboxes, RenewTick, Webhook, CallReturns, Days, GraphDrops,
         ServerStarts, InWatchdog, InSubscription
<1> QED
  BY <1>1, <1>2, <1>3, <1>4, <1>5, <1>6, <1>7 DEF Next

(* A report goes out once for each period, if one runner sends them and     *)
(* every report that went out has its audit event: whatever mails fail,     *)
(* processes stop and settings change, for every calendar and time zone. *)
THEOREM MailedOnceHolds == Spec => []MailedOnce
<1>1. ReportInv => MailedOnce
  <2> SUFFICES ASSUME ReportInv, NEW r \in Runners, runners = {r}, unrecorded = 0
               PROVE  repeated = {}
    BY DEF MailedOnce
  <2> QED
    BY DEF ReportInv, Accounted
<1> QED
  BY <1>1, NowIsInt, ReportInvInit, ReportInvStep, PTL DEF Spec

-----------------------------------------------------------------------------
(* The subscription while no call has failed and Graph has dropped nothing.  *)
(* Then only the timer calls Graph, there is one row at most, and it says    *)
(* what Graph knows, except between the two halves of a renewal.             *)

RowType == [id : Ids, url : Urls, left : Nat]

SubscriptionTypeOK ==
  /\ url \in Urls
  /\ rows \in Seq(RowType) /\ Len(rows) <= 1
  /\ left \in [Ids -> Nat]
  /\ job \in [Callers -> [step : Steps, id : Ids \cup {NoId}]]

(* The row and the subscription it names. *)
RowTrue ==
  rows # <<>> =>
    /\ At("timer", "renewed") \/ rows[1].left = left[rows[1].id]
    /\ rows[1].id \in gone => At("timer", "clear") /\ rows[1].url # url

(* What the timer's call works on. *)
CallTrue ==
  /\ job["timer"].step \in {"delete", "deleting", "renew", "renewing", "renewed", "clear"} =>
       rows # <<>>
  /\ job["timer"].step \in {"deleting", "renewing", "renewed", "clear"} =>
       job["timer"].id = rows[1].id
  /\ job["timer"].step \in {"delete", "deleting"} => rows[1].url # url
  /\ job["timer"].step \in {"renew", "renewing"} => rows[1].left > 0
  /\ At("timer", "renewed") => left[rows[1].id] = Life
  /\ At("timer", "clear") => rows[1].url # url \/ rows[1].left = 0
  /\ job["timer"].step \in {"create", "purge", "insert"} => rows = <<>>
  /\ job["timer"].step \in {"purge", "insert"} =>
       /\ job["timer"].id \in Ids \ gone
       /\ left[job["timer"].id] = Life

(* Once the timer has fired the row has more than a unit left. *)
Renewed ==
  checked /\ At("timer", "idle") /\ rows # <<>> /\ rows[1].url = url =>
    rows[1].left > RenewBelow

Calm ==
  /\ SubscriptionTypeOK /\ RowTrue /\ CallTrue /\ Renewed
  /\ ~notified /\ At("webhook", "idle")

CalmInv == mishaps \in Nat /\ (mishaps = 0 => Calm)

LEMMA GoEffect ==
  ASSUME SubscriptionTypeOK, NEW h \in Callers, NEW s \in Steps, NEW i \in Ids \cup {NoId},
         Go(h, s, i)
  PROVE  /\ job' \in [Callers -> [step : Steps, id : Ids \cup {NoId}]]
         /\ job'[h].step = s /\ job'[h].id = i
         /\ \A k \in Callers \ {h} : job'[k] = job[k]
BY DEF SubscriptionTypeOK, Go

LEMMA LengthOne ==
  ASSUME NEW S, NEW s \in Seq(S), Len(s) <= 1, s # <<>>
  PROVE  Len(s) = 1
<1> DEFINE k == Len(s)
<1>1. k \in Nat \ {0}
  BY EmptySeq
<1>2. k <= 1
  OBVIOUS
<1> HIDE DEF k
<1>3. k = 1
  BY <1>1, <1>2
<1> QED
  BY <1>3 DEF k

(* A row, if there is one, is the first and the newest. *)
LEMMA OneRow ==
  ASSUME SubscriptionTypeOK
  PROVE  /\ rows # <<>> => /\ Len(rows) = 1 /\ DOMAIN rows = {1} /\ Stored = rows[1]
                           /\ rows[1] \in RowType
         /\ rows = <<>> => Len(rows) = 0 /\ DOMAIN rows = {}
<1>1. rows \in Seq(RowType) /\ Len(rows) <= 1
  BY DEF SubscriptionTypeOK
<1>2. Len(rows) \in Nat /\ DOMAIN rows = 1 .. Len(rows)
  BY <1>1
<1>3. ASSUME rows # <<>>
      PROVE  Len(rows) = 1 /\ DOMAIN rows = {1} /\ Stored = rows[1] /\ rows[1] \in RowType
  <2>1. Len(rows) = 1
    BY <1>1, <1>3, LengthOne
  <2>2. rows[1] \in RowType
    BY <1>1, <2>1
  <2> QED
    BY <1>2, <2>1, <2>2 DEF Stored
<1> QED
  BY <1>2, <1>3

(* Writing into the row leaves one row. *)
LEMMA RowWritten ==
  ASSUME SubscriptionTypeOK, NEW r, rows # <<>> => r \in RowType,
         rows' = [n \in DOMAIN rows |-> r]
  PROVE  /\ rows' \in Seq(RowType) /\ Len(rows') <= 1
         /\ rows = <<>> => rows' = <<>>
         /\ rows # <<>> => rows' # <<>> /\ rows'[1] = r
<1>1. CASE rows = <<>>
  <2>1. rows' = <<>>
    BY <1>1, OneRow
  <2> QED
    BY <1>1, <2>1
<1>2. CASE rows # <<>>
  <2>1. DOMAIN rows = 1 .. 1
    BY <1>2, OneRow
  <2>2. rows' \in [1 .. 1 -> RowType] /\ rows'[1] = r
    BY <1>2, <2>1
  <2>3. rows' \in Seq(RowType) /\ Len(rows') = 1
    BY <2>2
  <2> QED
    BY <1>2, <2>2, <2>3
<1> QED
  BY <1>1, <1>2

LEMMA Bounds == Life \in Nat /\ RenewBelow \in Nat /\ RenewBelow >= 1 /\ RenewBelow < Life
BY SubscriptionAssumption

(* A set of naturals with an element has a least. *)
LEMMA Least ==
  ASSUME NEW T, T \subseteq Nat, T # {}
  PROVE  \E i \in T : \A j \in T : i <= j
<1>1. PICK i \in T : \A j \in T : <<j, i>> \notin OpToRel(<, Nat)
  BY NatLessThanWellFounded, WFMin
<1>2. \A j \in T : ~(j < i)
  BY <1>1, Zenon DEF OpToRel
<1> QED
  BY <1>2

LEMMA FireCalm ==
  ASSUME Calm, Fire
  PROVE  Calm'
<1>1. SubscriptionTypeOK /\ UNCHANGED <<url, rows, left, gone, notified>> /\ Ensure("timer")
  BY DEF Calm, Fire
<1>2. At("timer", "idle")
  BY <1>1 DEF Ensure
<1>3. CASE rows = <<>>
  <2>1. Go("timer", "create", NoId)
    BY <1>1, <1>3 DEF Ensure
  <2>2. /\ job' \in [Callers -> [step : Steps, id : Ids \cup {NoId}]]
        /\ job'["timer"].step = "create" /\ job'["webhook"] = job["webhook"]
    BY <1>1, <2>1, GoEffect DEF Steps, Callers
  <2> QED
    BY <1>1, <1>3, <2>2 DEF Calm, SubscriptionTypeOK, RowTrue, CallTrue, Renewed, At
<1>4. CASE rows # <<>>
  <2>1. /\ Stored = rows[1] /\ rows[1] \in RowType
    BY <1>1, <1>4, OneRow
  <2>2. rows[1].left = left[rows[1].id] /\ rows[1].id \notin gone
    BY <1>2, <1>4 DEF Calm, RowTrue, At
  <2>3. ASSUME NEW s \in {"delete", "clear", "renew"}, NEW i \in Ids \cup {NoId},
               Go("timer", s, i),
               s = "delete" => rows[1].url # url,
               s = "clear" => i = rows[1].id /\ rows[1].left = 0,
               s = "renew" => rows[1].left > 0
        PROVE  Calm'
    <3>1. /\ job' \in [Callers -> [step : Steps, id : Ids \cup {NoId}]]
          /\ job'["timer"].step = s /\ job'["timer"].id = i /\ job'["webhook"] = job["webhook"]
      BY <1>1, <2>3, GoEffect DEF Steps, Callers
    <3> QED
      BY <1>1, <1>4, <2>2, <2>3, <3>1
      DEF Calm, SubscriptionTypeOK, RowTrue, CallTrue, Renewed, At
  <2>4. ASSUME UNCHANGED job, rows[1].left > RenewBelow
        PROVE  Calm'
    BY <1>1, <1>2, <1>4, <2>2, <2>4
    DEF Calm, SubscriptionTypeOK, RowTrue, CallTrue, Renewed, At
  <2>5. CASE rows[1].url # url
    <3>1. Go("timer", "delete", NoId)
      BY <1>1, <1>4, <2>1, <2>5 DEF Ensure
    <3> QED
      BY <2>3, <2>5, <3>1
  <2>6. CASE rows[1].url = url /\ rows[1].left = 0
    <3>1. Go("timer", "clear", rows[1].id) /\ rows[1].id \in Ids
      BY <1>1, <1>4, <2>1, <2>6 DEF Ensure, RowType
    <3> QED
      BY <2>3, <2>6, <3>1
  <2>7. CASE rows[1].url = url /\ rows[1].left # 0 /\ rows[1].left <= RenewBelow
    <3>1. Go("timer", "renew", NoId) /\ rows[1].left > 0
      BY <1>1, <1>4, <2>1, <2>7 DEF Ensure, RowType
    <3> QED
      BY <2>3, <3>1
  <2>8. CASE rows[1].url = url /\ rows[1].left # 0 /\ ~(rows[1].left <= RenewBelow)
    <3>1. UNCHANGED job /\ rows[1].left > RenewBelow
      BY <1>1, <1>4, <2>1, <2>8, Bounds DEF Ensure, RowType
    <3> QED
      BY <2>4, <3>1
  <2> QED
    BY <2>5, <2>6, <2>7, <2>8
<1> QED
  BY <1>3, <1>4

LEMMA RereadCalm ==
  ASSUME Calm, Reread("timer")
  PROVE  Calm'
<1>1. SubscriptionTypeOK /\ UNCHANGED <<url, rows, left, gone, notified, checked>>
  BY DEF Calm, Reread
<1>2. job["timer"].step \in {"delete", "renew"} /\ rows # <<>>
  BY DEF Calm, CallTrue, Reread, At
<1>3. /\ Stored = rows[1] /\ rows[1] \in RowType
  BY <1>1, <1>2, OneRow
<1>4. PICK s \in {"deleting", "renewing"} :
        /\ Go("timer", s, rows[1].id)
        /\ s = "deleting" => At("timer", "delete")
        /\ s = "renewing" => At("timer", "renew")
  BY <1>2, <1>3 DEF Reread
<1>5. /\ job' \in [Callers -> [step : Steps, id : Ids \cup {NoId}]]
      /\ job'["timer"].step = s /\ job'["timer"].id = rows[1].id
      /\ job'["webhook"] = job["webhook"]
  BY <1>1, <1>3, <1>4, GoEffect DEF Steps, Callers, RowType
<1> QED
  BY <1>1, <1>2, <1>4, <1>5 DEF Calm, SubscriptionTypeOK, RowTrue, CallTrue, Renewed, At

LEMMA DeleteCalm ==
  ASSUME Calm, DeleteAtGraph("timer"), UNCHANGED mishaps, mishaps \in Nat
  PROVE  Calm'
<1>1. SubscriptionTypeOK /\ UNCHANGED <<url, rows, left, notified, checked>>
  BY DEF Calm, DeleteAtGraph
<1>2. /\ At("timer", "deleting") /\ rows # <<>> /\ job["timer"].id = rows[1].id
      /\ rows[1].url # url
  BY DEF Calm, CallTrue, DeleteAtGraph, At
<1>3. rows[1].id \in Ids /\ rows[1].left = left[rows[1].id]
  BY <1>1, <1>2, OneRow DEF Calm, RowTrue, At, RowType
<1>4. gone' = gone \cup {rows[1].id} /\ Go("timer", "clear", rows[1].id)
  BY <1>2 DEF DeleteAtGraph, Mishap
<1>5. /\ job' \in [Callers -> [step : Steps, id : Ids \cup {NoId}]]
      /\ job'["timer"].step = "clear" /\ job'["timer"].id = rows[1].id
      /\ job'["webhook"] = job["webhook"]
  BY <1>1, <1>3, <1>4, GoEffect DEF Steps, Callers
<1> QED
  BY <1>1, <1>2, <1>3, <1>4, <1>5
  DEF Calm, SubscriptionTypeOK, RowTrue, CallTrue, Renewed, At

LEMMA RenewCalm ==
  ASSUME Calm, RenewAtGraph("timer"), UNCHANGED mishaps, mishaps \in Nat
  PROVE  Calm'
<1>1. SubscriptionTypeOK /\ UNCHANGED <<url, rows, gone, notified, checked>>
  BY DEF Calm, RenewAtGraph
<1>2. /\ At("timer", "renewing") /\ rows # <<>> /\ job["timer"].id = rows[1].id
      /\ rows[1].left > 0
  BY DEF Calm, CallTrue, RenewAtGraph, At
<1>3. rows[1].id \in Ids /\ rows[1].left = left[rows[1].id] /\ rows[1].id \notin gone
  BY <1>1, <1>2, OneRow DEF Calm, RowTrue, At, RowType
<1>4. Live(job["timer"].id)
  BY <1>2, <1>3 DEF Live
<1>5. left' = [left EXCEPT ![rows[1].id] = Life] /\ Go("timer", "renewed", rows[1].id)
  BY <1>2, <1>4 DEF RenewAtGraph, Mishap
<1>6. /\ job' \in [Callers -> [step : Steps, id : Ids \cup {NoId}]]
      /\ job'["timer"].step = "renewed" /\ job'["timer"].id = rows[1].id
      /\ job'["webhook"] = job["webhook"]
  BY <1>1, <1>3, <1>5, GoEffect DEF Steps, Callers
<1>7. left' \in [Ids -> Nat] /\ left'[rows[1].id] = Life
  BY <1>1, <1>3, <1>5, Bounds DEF SubscriptionTypeOK
<1> QED
  BY <1>1, <1>2, <1>3, <1>6, <1>7
  DEF Calm, SubscriptionTypeOK, RowTrue, CallTrue, Renewed, At

LEMMA SaveCalm ==
  ASSUME Calm, SaveRenewal("timer"), UNCHANGED mishaps, mishaps \in Nat
  PROVE  Calm'
<1> DEFINE r == [rows[1] EXCEPT !.left = Life]
<1>1. SubscriptionTypeOK /\ UNCHANGED <<url, left, gone, notified, checked>>
  BY DEF Calm, SaveRenewal
<1>2. /\ At("timer", "renewed") /\ rows # <<>> /\ job["timer"].id = rows[1].id
      /\ left[rows[1].id] = Life
  BY DEF Calm, CallTrue, SaveRenewal, At
<1>3. rows[1].id \notin gone
  BY <1>2 DEF Calm, RowTrue, At
<1>4. DOMAIN rows = {1} /\ rows[1] \in RowType
  BY <1>1, <1>2, OneRow
<1>5. r \in RowType /\ r.id = rows[1].id /\ r.left = Life
  BY <1>4, Bounds DEF RowType
<1>6. rows' = [n \in DOMAIN rows |-> r]
  <2>1. rows' = [n \in DOMAIN rows |-> IF rows[n].id = job["timer"].id
                                       THEN [rows[n] EXCEPT !.left = Life] ELSE rows[n]]
    BY DEF SaveRenewal, Mishap
  <2> QED
    BY <1>2, <1>4, <2>1
<1> HIDE DEF r
<1>7. /\ rows' \in Seq(RowType) /\ Len(rows') <= 1 /\ rows' # <<>> /\ rows'[1] = r
  BY <1>1, <1>2, <1>5, <1>6, RowWritten
<1>8. /\ job' \in [Callers -> [step : Steps, id : Ids \cup {NoId}]]
      /\ job'["timer"].step = "idle" /\ job'["webhook"] = job["webhook"]
  BY <1>1, GoEffect DEF SaveRenewal, Done, Steps, Callers
<1> QED
  BY <1>1, <1>2, <1>3, <1>5, <1>7, <1>8, Bounds
  DEF Calm, SubscriptionTypeOK, RowTrue, CallTrue, Renewed, At

LEMMA ClearCalm ==
  ASSUME Calm, Clear("timer"), UNCHANGED mishaps, mishaps \in Nat
  PROVE  Calm'
<1>1. SubscriptionTypeOK /\ UNCHANGED <<url, left, gone, notified, checked>>
  BY DEF Calm, Clear
<1>2. CASE At("timer", "clear")
  <2>1. rows # <<>> /\ rows[1].id = job["timer"].id
    BY <1>2 DEF Calm, CallTrue, At
  <2>2. rows' = Without(rows[1].id) /\ Go("timer", "create", NoId)
    BY <1>2, <2>1 DEF Clear, Mishap, At
  <2>3. DOMAIN rows = {1} /\ Len(rows) = 1 /\ rows \in Seq(RowType)
    BY <1>1, <2>1, OneRow DEF SubscriptionTypeOK
  <2>4. Without(rows[1].id) = SubSeq(rows, 1, 0) \o SubSeq(rows, 2, 1)
    BY <2>3 DEF Without
  <2>5. rows' = <<>>
    BY <2>2, <2>3, <2>4
  <2>6. /\ job' \in [Callers -> [step : Steps, id : Ids \cup {NoId}]]
        /\ job'["timer"].step = "create" /\ job'["webhook"] = job["webhook"]
    BY <1>1, <2>2, GoEffect DEF Steps, Callers
  <2> QED
    BY <1>1, <2>5, <2>6 DEF Calm, SubscriptionTypeOK, RowTrue, CallTrue, Renewed, At
<1>3. CASE At("timer", "purge")
  <2>1. rows' = <<>> /\ Go("timer", "insert", job["timer"].id)
    BY <1>3 DEF Clear, Mishap, At
  <2>2. job["timer"].id \in Ids \ gone /\ left[job["timer"].id] = Life
    BY <1>3 DEF Calm, CallTrue, At
  <2>3. /\ job' \in [Callers -> [step : Steps, id : Ids \cup {NoId}]]
        /\ job'["timer"].step = "insert" /\ job'["timer"].id = job["timer"].id
        /\ job'["webhook"] = job["webhook"]
    BY <1>1, <2>1, <2>2, GoEffect DEF Steps, Callers
  <2> QED
    BY <1>1, <2>1, <2>2, <2>3 DEF Calm, SubscriptionTypeOK, RowTrue, CallTrue, Renewed, At
<1> QED
  BY <1>2, <1>3 DEF Clear

LEMMA CreateCalm ==
  ASSUME Calm, CreateAtGraph("timer"), UNCHANGED mishaps, mishaps \in Nat
  PROVE  Calm'
<1>1. SubscriptionTypeOK /\ UNCHANGED <<url, rows, notified, checked>>
  BY DEF Calm, CreateAtGraph
<1>2. rows = <<>>
  BY DEF Calm, CallTrue, CreateAtGraph, At
<1> DEFINE i == CHOOSE i \in Unused : \A j \in Unused : i <= j
<1>3. /\ Unused # {} /\ left' = [left EXCEPT ![i] = Life] /\ gone' = gone \ {i}
      /\ Go("timer", "purge", i)
  BY DEF CreateAtGraph, Mishap
<1>4. i \in Ids
  <2>1. Unused \subseteq Ids /\ Unused \subseteq Nat /\ Unused # {}
    BY <1>3, SubscriptionAssumption DEF Unused, Ids
  <2>2. \E k \in Unused : \A j \in Unused : k <= j
    BY <2>1, Least
  <2> QED
    BY <2>1, <2>2
<1> HIDE DEF i
<1>5. /\ job' \in [Callers -> [step : Steps, id : Ids \cup {NoId}]]
      /\ job'["timer"].step = "purge" /\ job'["timer"].id = i /\ job'["webhook"] = job["webhook"]
  BY <1>1, <1>3, <1>4, GoEffect DEF Steps, Callers
<1>6. left' \in [Ids -> Nat] /\ left'[i] = Life
  BY <1>1, <1>3, <1>4, Bounds DEF SubscriptionTypeOK
<1> QED
  BY <1>1, <1>2, <1>3, <1>4, <1>5, <1>6
  DEF Calm, SubscriptionTypeOK, RowTrue, CallTrue, Renewed, At

LEMMA InsertCalm ==
  ASSUME Calm, Insert("timer"), UNCHANGED mishaps, mishaps \in Nat
  PROVE  Calm'
<1> DEFINE i == job["timer"].id
           r == [id |-> i, url |-> url, left |-> left[i]]
<1>1. SubscriptionTypeOK /\ UNCHANGED <<url, left, gone, notified, checked>>
  BY DEF Calm, Insert
<1>2. rows = <<>> /\ i \in Ids \ gone /\ left[i] = Life
  BY DEF Calm, CallTrue, Insert, At
<1>3. rows' = Append(rows, r)
  BY DEF Insert, Mishap
<1>4. r \in RowType /\ r.id = i /\ r.left = Life
  BY <1>1, <1>2, Bounds DEF SubscriptionTypeOK, RowType
<1>5. /\ job' \in [Callers -> [step : Steps, id : Ids \cup {NoId}]]
      /\ job'["timer"].step = "idle" /\ job'["webhook"] = job["webhook"]
  BY <1>1, GoEffect DEF Insert, Done, Steps, Callers
<1> HIDE DEF r
<1>6. rows' \in Seq(RowType) /\ Len(rows') = 1 /\ rows'[1] = r
  BY <1>2, <1>3, <1>4
<1> QED
  BY <1>1, <1>2, <1>4, <1>5, <1>6, Bounds
  DEF Calm, SubscriptionTypeOK, RowTrue, CallTrue, Renewed, At

LEMMA AgeCalm ==
  ASSUME Calm, NEW on \in BOOLEAN, Age(on)
  PROVE  Calm'
<1> DEFINE r == [rows[1] EXCEPT !.left = Less(@)]
<1>1. SubscriptionTypeOK /\ UNCHANGED <<url, gone, job, notified>> /\ ~checked'
  BY DEF Calm, Age
<1>2. At("timer", "idle")
  BY DEF Age, Callers
<1>3. \A n \in Nat : Less(n) \in Nat
  BY DEF Less
<1>4. left' \in [Ids -> Nat] /\ \A i \in Ids : left'[i] = Less(left[i])
  BY <1>1, <1>3 DEF Age, SubscriptionTypeOK
<1>5. rows # <<>> => /\ rows[1].id \in Ids
                     /\ r \in RowType /\ r.id = rows[1].id /\ r.left = Less(rows[1].left)
  BY <1>1, <1>3, OneRow DEF RowType
<1>6. rows' = [n \in DOMAIN rows |-> r]
  <2>1. rows' = [n \in DOMAIN rows |-> [rows[n] EXCEPT !.left = Less(@)]]
    BY DEF Age
  <2>2. DOMAIN rows \subseteq {1}
    BY <1>1, OneRow
  <2> QED
    BY <2>1, <2>2
<1> HIDE DEF r
<1>7. /\ rows' \in Seq(RowType) /\ Len(rows') <= 1
      /\ rows = <<>> => rows' = <<>>
      /\ rows # <<>> => rows' # <<>> /\ rows'[1] = r
  BY <1>1, <1>5, <1>6, RowWritten
<1> QED
  BY <1>1, <1>2, <1>4, <1>5, <1>7
  DEF Calm, SubscriptionTypeOK, RowTrue, CallTrue, Renewed, At

LEMMA StopCalm ==
  ASSUME Calm, SubscriptionForgets, mishaps \in Nat, mishaps' = mishaps
  PROVE  Calm'
<1>1. SubscriptionTypeOK /\ url' \in Urls /\ UNCHANGED <<rows, left, gone>>
        /\ ~checked' /\ ~notified'
  BY DEF Calm, SubscriptionForgets
<1>2. \A h \in Callers : At(h, "idle")
  BY DEF SubscriptionForgets
<1>3. /\ job' \in [Callers -> [step : Steps, id : Ids \cup {NoId}]]
      /\ job'["timer"].step = "idle" /\ job'["webhook"].step = "idle"
  BY DEF SubscriptionForgets, Steps, Callers
<1>4. At("timer", "idle")
  BY <1>2 DEF Callers
<1> QED
  BY <1>1, <1>3, <1>4 DEF Calm, SubscriptionTypeOK, RowTrue, CallTrue, Renewed, At

(* Every step without a mishap stays calm. *)
LEMMA CalmStep ==
  ASSUME Calm, [Next]_vars, mishaps \in Nat, mishaps' = mishaps
  PROVE  Calm'
<1>1. CASE UNCHANGED subVars
  BY <1>1 DEF subVars, Calm, SubscriptionTypeOK, RowTrue, CallTrue, Renewed, At
<1>2. CASE RenewTick
  BY <1>2, FireCalm DEF RenewTick
<1>3. CASE Webhook
  BY <1>3 DEF Webhook, Notification, Calm
<1>4. ASSUME NEW h \in Callers, CallReturns(h)
      PROVE  Calm'
  <2>1. h = "timer"
    BY <1>4 DEF CallReturns, EnsureStep, Reread, DeleteAtGraph, RenewAtGraph, SaveRenewal, Clear,
                CreateAtGraph, Insert, Calm, At, Callers
  <2> QED
    BY <1>4, <2>1, RereadCalm, DeleteCalm, RenewCalm, SaveCalm, ClearCalm, CreateCalm, InsertCalm
    DEF CallReturns, EnsureStep
<1>5. CASE Days
  <2>1. PICK on \in BOOLEAN : Age(on)
    <3>1. CASE up
      BY <1>5, <3>1 DEF Days, Age
    <3>2. CASE ~up
      BY <1>5, <3>2 DEF Days, Age
    <3> QED
      BY <3>1, <3>2
  <2> QED
    BY <2>1, AgeCalm
<1>6. CASE GraphDrops
  BY <1>6 DEF GraphDrops, Drop, Mishap
<1>7. CASE ServerStops
  BY <1>1, <1>7, StopCalm DEF ServerStops
<1>8. \/ UNCHANGED subVars \/ RenewTick \/ Webhook \/ Days \/ GraphDrops \/ ServerStops
      \/ \E h \in Callers : CallReturns(h)
  BY DEF Next, vars, Tick, Scheduler, CommandLine, Administrator, WatchdogTick, Mailboxes,
         ServerStarts, InReports, InWatchdog
<1> QED
  BY <1>1, <1>2, <1>3, <1>4, <1>5, <1>6, <1>7, <1>8

(* Mishaps only add up. *)
LEMMA MishapsGrow ==
  ASSUME mishaps \in Nat, [Next]_vars
  PROVE  mishaps' \in Nat /\ (mishaps' = 0 => mishaps = 0)
<1>1. \/ mishaps' = mishaps \/ mishaps' = mishaps + 1
  <2>1. \A h \in Callers : CallReturns(h) => mishaps' = mishaps \/ mishaps' = mishaps + 1
    BY DEF CallReturns, EnsureStep, Reread, DeleteAtGraph, RenewAtGraph, SaveRenewal, Clear,
           CreateAtGraph, Insert, Mishap
  <2>2. RenewTick \/ Webhook \/ Days => mishaps' = mishaps
    BY DEF RenewTick, Fire, Webhook, Notification, Days, Age
  <2>3. GraphDrops => mishaps' = mishaps + 1
    BY DEF GraphDrops, Drop, Mishap
  <2>4. ServerStops => mishaps' = mishaps \/ mishaps' = mishaps + 1
    BY DEF ServerStops, SubscriptionForgets, subVars
  <2>5. Tick \/ Scheduler \/ CommandLine \/ Administrator \/ WatchdogTick \/ Mailboxes
          \/ ServerStarts \/ UNCHANGED vars => mishaps' = mishaps
    BY DEF vars, subVars, Tick, Scheduler, CommandLine, Administrator, WatchdogTick, Mailboxes,
           ServerStarts, InReports, InWatchdog
  <2> QED
    BY <2>1, <2>2, <2>3, <2>4, <2>5 DEF Next
<1> QED
  BY <1>1

LEMMA CalmInvHolds == Spec => []CalmInv
<1>1. Init => CalmInv
  <2> SUFFICES ASSUME Init PROVE CalmInv
    OBVIOUS
  <2>1. SubscriptionInit
    BY DEF Init
  <2>2. SubscriptionTypeOK
    BY <2>1 DEF SubscriptionInit, SubscriptionTypeOK, Steps
  <2> QED
    BY <2>1, <2>2 DEF SubscriptionInit, CalmInv, Calm, RowTrue, CallTrue, Renewed, At, Callers
<1>2. CalmInv /\ [Next]_vars => CalmInv'
  <2> SUFFICES ASSUME CalmInv, [Next]_vars PROVE CalmInv'
    OBVIOUS
  <2>1. mishaps' \in Nat /\ (mishaps' = 0 => mishaps = 0)
    BY MishapsGrow DEF CalmInv
  <2>2. mishaps' = 0 => Calm'
    BY <2>1, CalmStep DEF CalmInv
  <2> QED
    BY <2>1, <2>2 DEF CalmInv
<1> QED
  BY <1>1, <1>2, PTL DEF Spec

(* No call of the timer or the webhook drops a row that is live and points   *)
(* here, or lets it lapse. *)
LEMMA StaysSubscribed ==
  ASSUME Calm, Calm', [Next]_vars, mishaps' = mishaps, mishaps \in Nat,
         Subscribed, Stored.url = url, up
  PROVE  Subscribed'
<1>1. /\ SubscriptionTypeOK /\ SubscriptionTypeOK' /\ rows # <<>> /\ Stored = rows[1]
      /\ rows[1] \in RowType /\ rows[1].url = url /\ Live(rows[1].id)
  BY OneRow DEF Calm, Subscribed
<1>2. ASSUME rows' # <<>>, rows'[1].id = rows[1].id, Live(rows[1].id)'
      PROVE  Subscribed'
  <2>1. rows' \in Seq(RowType) /\ Len(rows') <= 1
    BY <1>1 DEF SubscriptionTypeOK
  <2>2. Len(rows') = 1
    BY <1>2, <2>1, LengthOne
  <2> QED
    BY <1>2, <2>2 DEF Subscribed, Stored, Live
<1>3. DOMAIN rows = {1} /\ rows[1].id \in Ids /\ left[rows[1].id] > 0 /\ rows[1].id \notin gone
  BY <1>1, OneRow DEF Live
<1>4. CASE UNCHANGED <<rows, left, gone>>
  BY <1>1, <1>2, <1>3, <1>4 DEF Live
<1>5. ASSUME NEW h \in Callers, CallReturns(h)
      PROVE  Subscribed'
  <2>0. h = "timer" /\ CallTrue /\ RowTrue
    BY <1>5 DEF CallReturns, EnsureStep, Reread, DeleteAtGraph, RenewAtGraph, SaveRenewal, Clear,
                CreateAtGraph, Insert, Calm, At, Callers
  <2>1. ~DeleteAtGraph("timer") /\ ~CreateAtGraph("timer") /\ ~Insert("timer")
    BY <1>1, <2>0 DEF DeleteAtGraph, CreateAtGraph, Insert, CallTrue, At
  <2>2. ~Clear("timer")
    BY <1>1, <1>3, <2>0 DEF Clear, CallTrue, RowTrue, At
  <2>3. CASE Reread("timer")
    BY <1>4, <2>3 DEF Reread
  <2>4. CASE RenewAtGraph("timer")
    <3>1. UNCHANGED <<rows, gone>>
            /\ (left' = left \/ left' = [left EXCEPT ![job["timer"].id] = Life])
      BY <2>4 DEF RenewAtGraph
    <3>2. left'[rows[1].id] > 0
      <4>1. left \in [Ids -> Nat] /\ Life > 0
        BY <1>1, Bounds DEF SubscriptionTypeOK
      <4>2. CASE left' = [left EXCEPT ![job["timer"].id] = Life]
        <5>1. left'[rows[1].id] = Life \/ left'[rows[1].id] = left[rows[1].id]
          BY <1>3, <4>1, <4>2
        <5> QED
          BY <1>3, <4>1, <5>1
      <4> QED
        BY <1>3, <3>1, <4>2
    <3> QED
      BY <1>1, <1>2, <1>3, <3>1, <3>2 DEF Live
  <2>5. CASE SaveRenewal("timer")
    <3>1. rows' = [n \in DOMAIN rows |-> IF rows[n].id = job["timer"].id
                                         THEN [rows[n] EXCEPT !.left = Life] ELSE rows[n]]
            /\ UNCHANGED <<left, gone>>
      BY <2>5 DEF SaveRenewal, Mishap
    <3>2. rows'[1].id = rows[1].id /\ 1 \in DOMAIN rows'
      BY <1>1, <1>3, <3>1 DEF RowType
    <3>3. rows' # <<>>
      BY <3>2
    <3> QED
      BY <1>2, <1>3, <3>1, <3>2, <3>3 DEF Live
  <2> QED
    BY <1>5, <2>0, <2>1, <2>2, <2>3, <2>4, <2>5 DEF CallReturns, EnsureStep
<1>6. CASE Days
  <2>1. checked /\ At("timer", "idle") /\ Renewed
    BY <1>6 DEF Days, Age, Callers, Calm
  <2>2. rows[1].left > RenewBelow /\ rows[1].left = left[rows[1].id]
    BY <1>1, <2>1 DEF Renewed, RowTrue, Calm, At
  <2>3. /\ left' = [i \in Ids |-> Less(left[i])] /\ UNCHANGED gone
        /\ rows' = [n \in DOMAIN rows |-> [rows[n] EXCEPT !.left = Less(@)]]
    BY <1>6 DEF Days, Age
  <2>4. left'[rows[1].id] > 0
    BY <1>1, <1>3, <2>2, <2>3, Bounds DEF Less, SubscriptionTypeOK
  <2>5. rows'[1].id = rows[1].id /\ 1 \in DOMAIN rows'
    BY <1>1, <1>3, <2>3 DEF RowType
  <2>6. rows' # <<>>
    BY <2>5
  <2> QED
    BY <1>2, <1>3, <2>3, <2>4, <2>5, <2>6 DEF Live
<1>7. GraphDrops => FALSE
  <2>1. GraphDrops => mishaps' = mishaps + 1
    BY DEF GraphDrops, Drop, Mishap
  <2> QED
    BY <2>1
<1>8. RenewTick \/ Webhook \/ ServerStops => UNCHANGED <<rows, left, gone>>
  BY DEF RenewTick, Fire, Webhook, Notification, ServerStops, SubscriptionForgets, subVars
<1>9. Tick \/ Scheduler \/ CommandLine \/ Administrator \/ WatchdogTick \/ Mailboxes
        \/ ServerStarts \/ UNCHANGED vars => UNCHANGED <<rows, left, gone>>
  BY DEF vars, subVars, Tick, Scheduler, CommandLine, Administrator, WatchdogTick, Mailboxes,
         ServerStarts, InReports, InWatchdog
<1> QED
  BY <1>4, <1>5, <1>6, <1>7, <1>8, <1>9 DEF Next

(* As long as calls to Graph and the database succeed, Graph drops nothing   *)
(* and the server runs, a subscription that points here is renewed before it *)
(* lapses, for any lifetime and any margin of at least one firing of the     *)
(* timer (ensureSubscription, startLifecycle): no restart at the same        *)
(* address, and no interleaving of the calls, leaves it unrenewed.           *)
THEOREM NeverLapsesHolds == Spec => NeverLapses
<1>1. ASSUME CalmInv, CalmInv', [Next]_vars,
             Subscribed, Stored.url = url, up, mishaps' = 0
      PROVE  Subscribed'
  <2>1. mishaps \in Nat /\ mishaps = 0
    BY <1>1, MishapsGrow DEF CalmInv
  <2> QED
    BY <1>1, <2>1, StaysSubscribed DEF CalmInv
<1>2. CalmInv /\ CalmInv' /\ [Next]_vars =>
        [Subscribed /\ Stored.url = url /\ up /\ mishaps' = 0 => Subscribed']_vars
  BY <1>1
<1> QED
  BY <1>2, CalmInvHolds, PTL DEF Spec, NeverLapses
=============================================================================
