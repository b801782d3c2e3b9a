------------------------------- MODULE MCJobs --------------------------------
(* Instances of Jobs for TLC: days of four hours, weeks of three days,      *)
(* months of two weeks. *)
EXTENDS Jobs

East   == [before |-> 1, after |-> 1, at |-> 0]
West   == [before |-> -1, after |-> -1, at |-> 0]
MCZones == {East, West}

Begin(p, z, t, who) == [part |-> p, zone |-> z, now |-> t, runners |-> who]

MCStarts ==
  {Begin("reports", z, 20, {"timer"}) : z \in {East, West}}
    \cup {Begin("reports", East, 20, {"cli"})}
    \cup {Begin("watchdog", East, 0, {})}
    \cup {Begin("subscription", East, 0, {})}

(* Both the timer and the command line: see NeverTwice. *)
BothStarts == {Begin("reports", East, 22, Runners)}

MCSendDay == [k \in {"weekly", "monthly"} |-> 0]
=============================================================================
