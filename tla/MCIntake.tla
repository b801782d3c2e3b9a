------------------------------- MODULE MCIntake -------------------------------
(* Instances of Intake for TLC. *)
EXTENDS Intake, TLC

(* Two messages of one conversation, the second of which answers the first. *)
Reply   == 1 :> {} @@ 2 :> {1}
OneTalk == [m \in 1 .. 2 |-> 1]

(* One mailbox fed by two sources, Graph with its webhook, and one poller.   *)
Sourced  == ImapPollers \cup GraphPollers
Notified == GraphPollers \cup Webhooks
Singles  == {ImapPollers, GraphPollers}

Start(c, l, k) == [channels |-> c, limit |-> l, kind |-> k]

(* Both messages to become tickets or activities, or one that is screened    *)
(* away, is refused or never decodes; batches that take both messages or one. *)
Both     == <<"plain", "plain">>
Poisoned == {<<"poison", "plain">>, <<"plain", "poison">>}
Dropping == {<<"junk", "plain">>, <<"refused", "plain">>}

MailStarts ==
  {Start(Sourced, 1, k) : k \in {Both} \cup Poisoned}
    \cup {Start(Notified, 2, k) : k \in {Both} \cup Poisoned}
    \cup {Start(c, 2, k) : c \in {Sourced, Notified}, k \in Dropping}
    \cup {Start(c, l, k) : c \in Singles, l \in {1, 2}, k \in {Both} \cup Poisoned}

(* Two plain messages, over two sources or with notifications. *)
TwoSources == {Start(Sourced, 2, Both)}
Pushed     == {Start(Notified, 2, Both)}
=============================================================================
