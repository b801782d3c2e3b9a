------------------------------- MODULE MCDesk --------------------------------
(* Instances of Desk for TLC. *)
EXTENDS Desk, TLC

Row(i, a, g, l) == [id |-> i, agent |-> a, team |-> g, lead |-> l]

(* Agent 1 leads group 1, agent 2 belongs to both groups, agent 3 to the     *)
(* second. *)
Homes   == 1 :> 1 @@ 2 :> 1 @@ 3 :> 2
Members == {Row(1, 1, 1, TRUE), Row(2, 2, 1, FALSE), Row(3, 2, 2, FALSE), Row(4, 3, 2, FALSE)}

Begin(ops, staff, on, home, rows, who, where, st) ==
  [mix |-> ops, crew |-> staff, on |-> on, home |-> home, rows |-> rows,
   owner |-> who, group |-> where, state |-> st]

AllIn(x) == [t \in Tickets |-> x]

(* Two handlers on the sessions of two tickets, of which agent 2 has the     *)
(* first; and one handler at a time on those of one ticket, while it is      *)
(* worked on or taken and accounts change.  Agent 3 is disabled. *)
RemoteStarts ==
  {Begin(m[1], m[2], {1, 2}, Homes, Members,
         [t \in Tickets |-> IF t = 1 THEN 2 ELSE 1], AllIn(1),
         [t \in Tickets |-> IF t \in m[3] THEN "NEW" ELSE "none"]) :
     m \in {<<{"remote"}, {1, 2}, {1, 2}>>,
            <<{"remote", "progress"}, {1}, {1}>>,
            <<{"remote", "presence", "take"}, {1}, {1}>>}}

(* Two transactions on the groups. *)
GroupStarts ==
  {Begin({"groups"}, {1, 2}, Agents, home, {Row(1, 1, 1, TRUE), Row(2, 3, 2, FALSE)},
         AllIn(0), AllIn(1), AllIn("none")) :
     home \in {1 :> 1 @@ 2 :> 0 @@ 3 :> 2}}

(* Two balancers, from every distribution of three tickets over the agents,  *)
(* all new, or one of them started or resolved. *)
BalanceStarts ==
  {Begin({"rebalance"}, {1, 2}, Agents, Homes, Members, who, where, st) :
     who \in [Tickets -> Agents],
     where \in {AllIn(1), [t \in Tickets |-> IF t = 1 THEN 1 ELSE 2]},
     st \in {AllIn("NEW"), [AllIn("NEW") EXCEPT ![1] = "IN_PROGRESS"],
            [AllIn("NEW") EXCEPT ![2] = "RESOLVED"]}}

(* One handler after the other: new tickets, and work taken, shed, handed    *)
(* out and rebalanced. *)
SerialMixes == {{"arrive", "accounts", "presence"},
                {"arrive", "leave", "take", "progress"},
                {"regroup", "progress", "assign"},
                {"regroup", "leave", "presence", "progress"},
                {"accounts", "take", "progress"},
                {"rebalance", "accounts", "presence", "progress"}}
SerialStarts ==
  {Begin(ops, {1}, Agents, Homes, Members,
         [t \in Tickets |-> IF t = 1 THEN who ELSE 0],
         [t \in Tickets |-> IF t = 3 THEN 2 ELSE 1],
         [t \in Tickets |-> IF t = 2 THEN "none" ELSE "NEW"]) :
     ops \in SerialMixes, who \in {2, 3}}

(* Agent 2, who goes unavailable, has a ticket that has left its own group;  *)
(* meanwhile it is taken. *)
StrayStarts ==
  {Begin({"take", "leave"}, {1, 2}, Agents, Homes, Members,
         [t \in Tickets |-> IF t = 3 THEN 2 ELSE 0],
         [t \in Tickets |-> IF t = 3 THEN 2 ELSE 1], AllIn("NEW"))}

AllStarts == RemoteStarts \cup GroupStarts \cup BalanceStarts \cup SerialStarts

Bars == 1 :> 1 @@ 2 :> 2 @@ 3 :> 1
=============================================================================
