------------------------------- MODULE Reports -------------------------------
(***************************************************************************)
(* The scheduled reports (server/src/reportScheduler.js): the server's     *)
(* timer and the command line (scripts/send-scheduled-report.js) send the  *)
(* report of the previous week or month; a `report.sent' audit event says  *)
(* that a period has been delivered.  Audit events and settings survive a  *)
(* restart, runs do not.                                                   *)
(***************************************************************************)
EXTENDS Calendar, Sequences

CONSTANTS
  MonthLength,  \* days in a month
  SendDay,      \* of each kind, the day of its week or month (0 the first) ...
  SendHour,     \* ... and the hour when reports are due
  MaxSlips      \* mails and audit events that fail, and runs that are killed

Kinds   == {"weekly", "monthly"}
Runners == {"timer", "cli"}

(* A period is named by its kind and the number of its week or month. *)
Periods == Kinds \X Int

ASSUME ReportsAssumption ==
  /\ MonthLength \in Nat \ {0}
  /\ SendDay \in [Kinds -> Nat]
  /\ SendHour \in 0 .. DayLength - 1
  /\ MaxSlips \in Nat

VARIABLES
  zone,        \* settings: slaTimezone
  runners,     \* who sends reports in this behaviour
  recipients,  \* settings: are there any recipients?
  run,         \* of each runner, what it is at
  recorded,    \* the periods with a `report.sent' event
  mailed,      \* the periods whose report has gone out ...
  repeated,    \* ... and those whose report has gone out more than once
  slips,       \* faults so far
  unrecorded   \* reports that went out without a `report.sent' event

reportVars == <<zone, runners, recipients, run, recorded, mailed, repeated, slips, unrecorded>>
staticVars == <<zone, runners>>

(* The kinds a run still has to send, and the `now' it was started with. *)
Rest == [step |-> "idle", kinds |-> <<>>, at |-> 0]

Length(k) == IF k = "weekly" THEN WeekLength ELSE MonthLength

Current(k, t) == DayOf(zone, t) \div Length(k)

(* previousWeekPeriod, previousMonthPeriod. *)
Previous(k, t) == <<k, Current(k, t) - 1>>

(* weeklySendMoment, monthlySendMoment. *)
SendMoment(k, t) == FromWall(zone, Current(k, t) * Length(k) + SendDay[k], SendHour)

(* Mutant: only at the very moment. *)
DueSharp(k, t) == t = SendMoment(k, t)

Due(k, t) == t >= SendMoment(k, t)

(* A pass sends the weekly report first. *)
DueKinds(t) ==
  (IF Due("weekly", t) THEN <<"weekly">> ELSE <<>>)
    \o (IF Due("monthly", t) THEN <<"monthly">> ELSE <<>>)

Subject(r) == Previous(Head(run[r].kinds), run[r].at)

Goto(r, step) == run' = [run EXCEPT ![r].step = step]

(* sendScheduledReport returns: the timer goes on to the monthly report. *)
NextKind(r) ==
  run' = [run EXCEPT ![r] = IF Len(run[r].kinds) > 1
                            THEN [step |-> "check", kinds |-> Tail(run[r].kinds), at |-> run[r].at]
                            ELSE Rest]

Slip == slips < MaxSlips /\ slips' = slips + 1

(* A tick: `sweepRunning' keeps it to one pass at a time, and without       *)
(* recipients the pass ends at once. *)
StartPass ==
  /\ "timer" \in runners
  /\ run["timer"] = Rest
  /\ recipients /\ DueKinds(now) # <<>>
  /\ run' = [run EXCEPT !["timer"] = [step |-> "check", kinds |-> DueKinds(now), at |-> now]]
  /\ UNCHANGED <<staticVars, recipients, recorded, mailed, repeated, slips, unrecorded>>

(* The command line sends a kind without waiting for its moment. *)
StartCli(k) ==
  /\ "cli" \in runners
  /\ run["cli"] = Rest
  /\ run' = [run EXCEPT !["cli"] = [step |-> "check", kinds |-> <<k>>, at |-> now]]
  /\ UNCHANGED <<staticVars, recipients, recorded, mailed, repeated, slips, unrecorded>>

(* Mutant: without alreadySent. *)
CheckRecipients(r) ==
  /\ run[r].step = "check"
  /\ IF recipients THEN Goto(r, "mail") ELSE NextKind(r)
  /\ UNCHANGED <<staticVars, recipients, recorded, mailed, repeated, slips, unrecorded>>

(* alreadySent, then the recipients. *)
Check(r) ==
  /\ run[r].step = "check"
  /\ IF recipients /\ Subject(r) \notin recorded THEN Goto(r, "mail") ELSE NextKind(r)
  /\ UNCHANGED <<staticVars, recipients, recorded, mailed, repeated, slips, unrecorded>>

SendMail(r) ==
  /\ run[r].step = "mail"
  /\ \/ /\ mailed' = mailed \cup {Subject(r)}
        /\ repeated' = repeated \cup ({Subject(r)} \cap mailed)
        /\ Goto(r, "record")
        /\ UNCHANGED slips
     \/ Slip /\ NextKind(r) /\ UNCHANGED <<mailed, repeated>>
  /\ UNCHANGED <<staticVars, recipients, recorded, unrecorded>>

Record(r) ==
  /\ run[r].step = "record"
  /\ \/ recorded' = recorded \cup {Subject(r)} /\ UNCHANGED <<slips, unrecorded>>
     \/ Slip /\ unrecorded' = unrecorded + 1 /\ UNCHANGED recorded
  /\ NextKind(r)
  /\ UNCHANGED <<staticVars, recipients, mailed, repeated>>

(* The process of a runner ends in the middle of a run. *)
Stop(r) ==
  /\ Slip
  /\ run' = [run EXCEPT ![r] = Rest]
  /\ unrecorded' = unrecorded + IF run[r].step = "record" THEN 1 ELSE 0
  /\ UNCHANGED <<staticVars, recipients, recorded, mailed, repeated>>

ChangeRecipients ==
  /\ recipients' = ~recipients
  /\ UNCHANGED <<staticVars, run, recorded, mailed, repeated, slips, unrecorded>>

ReportsInit(z, who) ==
  /\ zone = z /\ runners = who
  /\ recipients = TRUE
  /\ run = [r \in Runners |-> Rest]
  /\ recorded = {} /\ mailed = {} /\ repeated = {}
  /\ slips = 0 /\ unrecorded = 0

RunStep(r) == Check(r) \/ SendMail(r) \/ Record(r)

-----------------------------------------------------------------------------
(* A report goes out once for each period, if one runner sends them and no  *)
(* report that went out is left without its audit event (alreadySent). *)
MailedOnce ==
  (\E r \in Runners : runners = {r}) /\ unrecorded = 0 => repeated = {}

(* "Replaying a period (server restart, overlapping ticks, a re-run CLI)    *)
(* can never send twice" (reportScheduler.js:25). *)
NeverTwice == repeated = {}
=============================================================================
