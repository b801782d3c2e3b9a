------------------------------ MODULE Watchdog ------------------------------
(***************************************************************************)
(* The ingestion watchdog (server/src/ingestionWatchdog.js) over the       *)
(* operational snapshots of the mailbox pollers (imapStatus, graphStatus). *)
(* All of it but the notices is memory of the server's process.            *)
(***************************************************************************)
EXTENDS Naturals

CONSTANTS
  Sources,    \* the ingestion paths that are configured
  StallAfter  \* units of time a poll may stay silent (STALL_MS)

ASSUME WatchdogAssumption == StallAfter \in Nat \ {0}

VARIABLES
  answers,   \* the sources whose mailbox answers
  silent,    \* time since lastPollAt, up to StallAfter + 1; that much if never polled
  incident,  \* activeIncident
  notice,    \* what the pass in progress is about to tell the administrators
  told       \* what they were told last, or "unheard": an alarm that was lost

watchVars == <<answers, silent, incident, notice, told>>

(* Silent for longer than the window, or never polled. *)
Stalled(s) == silent[s] > StallAfter

(* A poller's cycle completes (recordPollCycle). *)
Poll(s) ==
  /\ s \in answers /\ silent[s] > 0
  /\ silent' = [silent EXCEPT ![s] = 0]
  /\ UNCHANGED <<answers, incident, notice, told>>

(* A mailbox stops answering, or answers again: cycles fail meanwhile. *)
Toggle(s) ==
  /\ answers' = IF s \in answers THEN answers \ {s} ELSE answers \cup {s}
  /\ UNCHANGED <<silent, incident, notice, told>>

(* Time passes.  The window is many polling intervals long, so a mailbox    *)
(* that answers has been polled before the window ends. *)
Wait ==
  /\ \A s \in answers : silent[s] < StallAfter
  /\ \E s \in Sources : ~Stalled(s)
  /\ silent' = [s \in Sources |-> IF Stalled(s) THEN silent[s] ELSE silent[s] + 1]
  /\ UNCHANGED <<answers, incident, notice, told>>

(* Mutant: a recovery does not end the incident. *)
CheckIngestionSticky ==
  /\ notice = "none"
  /\ \/ /\ \E s \in Sources : Stalled(s)
        /\ ~incident /\ incident' = TRUE
        /\ notice' = "stalled"
     \/ /\ \A s \in Sources : ~Stalled(s)
        /\ incident /\ UNCHANGED incident
        /\ notice' = "recovered"
  /\ UNCHANGED <<answers, silent, told>>

(* checkIngestion up to its first await: one alarm per incident, and one    *)
(* recovery.  `running' keeps passes apart. *)
CheckIngestion ==
  /\ notice = "none"
  /\ \/ /\ \E s \in Sources : Stalled(s)
        /\ ~incident /\ incident' = TRUE
        /\ notice' = "stalled"
     \/ /\ \A s \in Sources : ~Stalled(s)
        /\ incident /\ incident' = FALSE
        /\ notice' = "recovered"
  /\ UNCHANGED <<answers, silent, told>>

(* raiseAlarm and clearAlarm: every active administrator is told, unless    *)
(* loading them fails. *)
Tell ==
  /\ notice # "none" /\ notice' = "none"
  /\ \/ told' = notice
     \/ told' = IF notice = "stalled" THEN "unheard" ELSE told
  /\ UNCHANGED <<answers, silent, incident>>

(* The process starts anew: nothing has been polled, no incident is known. *)
WatchdogForgets ==
  /\ silent' = [s \in Sources |-> StallAfter + 1]
  /\ incident' = FALSE /\ notice' = "none"
  /\ UNCHANGED <<answers, told>>

WatchdogInit ==
  /\ answers = Sources
  /\ silent = [s \in Sources |-> StallAfter + 1]
  /\ incident = FALSE /\ notice = "none" /\ told = "nothing"
=============================================================================
