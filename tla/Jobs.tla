-------------------------------- MODULE Jobs ---------------------------------
(***************************************************************************)
(* The background jobs of the server's process that no other module has    *)
(* (startBackgroundJobs): scheduled reports, the ingestion watchdog and    *)
(* the Graph subscription.  The process may stop and start again.  The     *)
(* jobs share nothing but the process, so a behaviour exercises one        *)
(* `part', and TLC explores the parts side by side.                        *)
(***************************************************************************)
EXTENDS Reports, Watchdog, Subscription

CONSTANTS
  MaxNow,    \* the last instant of a behaviour
  MaxStops,  \* how often the process stops
  Starts     \* where behaviours begin: [part, zone, now, runners]

Parts == {"reports", "watchdog", "subscription"}

ASSUME JobsAssumption ==
  /\ MaxNow \in Nat /\ MaxStops \in Nat
  /\ \A s \in Starts : /\ s.part \in Parts
                       /\ s.zone \in Zones
                       /\ s.now \in Nat
                       /\ s.runners \in SUBSET Runners

VARIABLES
  part,   \* what this behaviour exercises
  up,     \* is the server's process running?
  stops   \* how often it has stopped

procVars == <<part, up, stops>>
vars     == <<now, reportVars, watchVars, subVars, procVars>>

Init ==
  \E s \in Starts :
    /\ part = s.part /\ up = TRUE /\ stops = 0
    /\ now = s.now
    /\ ReportsInit(s.zone, s.runners)
    /\ WatchdogInit
    /\ SubscriptionInit

InReports      == part = "reports" /\ UNCHANGED <<watchVars, subVars, procVars>>
InWatchdog     == part = "watchdog" /\ UNCHANGED <<now, reportVars, subVars, procVars>>
InSubscription == part = "subscription" /\ UNCHANGED <<now, reportVars, watchVars, procVars>>

Tick == InReports /\ now < MaxNow /\ now' = now + 1 /\ UNCHANGED reportVars

(* The timer lives in the server, the command line in a process of its own. *)
Scheduler == InReports /\ up /\ (StartPass \/ RunStep("timer")) /\ UNCHANGED now

CommandLine ==
  /\ InReports /\ UNCHANGED now
  /\ (\E k \in Kinds : StartCli(k)) \/ RunStep("cli") \/ (run["cli"] # Rest /\ Stop("cli"))

Administrator == InReports /\ ChangeRecipients /\ UNCHANGED now

WatchdogTick == InWatchdog /\ up /\ (CheckIngestion \/ Tell)

Mailboxes == InWatchdog /\ (Wait \/ \E s \in Sources : (up /\ Poll(s)) \/ Toggle(s))

RenewTick == InSubscription /\ up /\ Fire

Webhook == InSubscription /\ up /\ Notification

CallReturns(h) == InSubscription /\ up /\ EnsureStep(h)

Days == InSubscription /\ Age(up)

GraphDrops == InSubscription /\ \E i \in Ids : Drop(i)

(* Everything but the database and Graph is forgotten. *)
ServerStops ==
  /\ up /\ stops < MaxStops
  /\ up' = FALSE /\ stops' = stops + 1
  /\ IF part = "reports" THEN Stop("timer") ELSE UNCHANGED reportVars
  /\ IF part = "watchdog" THEN WatchdogForgets ELSE UNCHANGED watchVars
  /\ IF part = "subscription" THEN SubscriptionForgets ELSE UNCHANGED subVars
  /\ UNCHANGED <<now, part>>

ServerStarts ==
  /\ ~up /\ up' = TRUE
  /\ UNCHANGED <<now, reportVars, watchVars, subVars, part, stops>>

Next ==
  \/ Tick \/ Scheduler \/ CommandLine \/ Administrator
  \/ WatchdogTick \/ Mailboxes
  \/ RenewTick \/ Webhook \/ (\E h \in Callers : CallReturns(h)) \/ Days \/ GraphDrops
  \/ ServerStops \/ ServerStarts

Spec == Init /\ [][Next]_vars

(* The process is started again, timers fire and calls return; days go by.  *)
(* (Only one of the three jobs is ever enabled in a behaviour.)  Nobody     *)
(* runs the command line, and nothing makes a mailbox answer. *)
Fairness ==
  /\ WF_vars(ServerStarts)
  /\ WF_vars(Scheduler \/ WatchdogTick \/ RenewTick)
  /\ \A h \in Callers : WF_vars(CallReturns(h))
  /\ WF_vars(Days)

FairSpec == Spec /\ Fairness

-----------------------------------------------------------------------------
(* A report that is due is sent, "a server that was down over the moment    *)
(* catches up on the first tick after start", failed mails are tried again: *)
(* unless its week or month ends first or nobody is to receive it. *)
Awaited(k, i) ==
  /\ part = "reports" /\ "timer" \in runners /\ up /\ recipients
  /\ Previous(k, now) = <<k, i>> /\ now >= SendMoment(k, now)

ReportArrives ==
  \A k \in Kinds : \A i \in 0 .. MaxNow \div (DayLength * Length(k)) :
    Awaited(k, i) ~> (<<k, i>> \in recorded \/ ~Awaited(k, i))

(* A mailbox that has fallen silent is reported to the administrators       *)
(* ("this job makes the silence loud"): the last they were told is a stall, *)
(* or they could not be told, or it has been polled again. *)
SilenceIsLoud ==
  \A s \in Sources :
    part = "watchdog" /\ up /\ Stalled(s)
      ~> (told \in {"stalled", "unheard"} \/ ~Stalled(s) \/ ~up)

(* "A watchdog failure is logged and retried by the next tick"              *)
(* (ingestionWatchdog.js:21): so even the alarm that could not be delivered *)
(* is. *)
AlarmRetried ==
  \A s \in Sources :
    part = "watchdog" /\ up /\ Stalled(s) ~> (told = "stalled" \/ ~Stalled(s) \/ ~up)

(* However a subscription is lost - dropped, expired while the server was   *)
(* down, pointing at an old address, or half created - there is one again   *)
(* ("recreate rather than leaving the system silently without              *)
(* notifications"). *)
SubscriptionReturns == [](part = "subscription" => <>Subscribed)

(* A subscription is renewed before it lapses, as long as calls succeed     *)
(* and the server runs. *)
NeverLapses ==
  [][Subscribed /\ Stored.url = url /\ up /\ mishaps' = 0
       => Subscribed']_vars
=============================================================================
