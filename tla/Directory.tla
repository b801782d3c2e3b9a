------------------------------ MODULE Directory ------------------------------
(***************************************************************************)
(* The rows that the group membership service, the workload service and    *)
(* the remote access service all read: agents, their assignment groups and *)
(* the tickets they own (server/prisma/schema.prisma).  Each service is a  *)
(* module of its own that extends this one; Desk composes them.            *)
(*                                                                         *)
(* A behaviour exercises a `mix' of the operations with a `crew' of        *)
(* handlers in flight, both fixed at the start: TLC explores the mixes     *)
(* side by side instead of multiplying them.                               *)
(***************************************************************************)
EXTENDS Naturals, FiniteSets

CONSTANTS
  Agents,      \* Agent.id of the staff; ids order the ties the code breaks by id
  Admins,      \* those of them who are administrators
  Teams,       \* the assignment groups, all active
  Tickets,     \* Ticket.id, in the order of createdAt
  Urgent,      \* the tickets of priority high or critical
  Workers,     \* handlers that may be in flight at once
  Operations,  \* every operation a mix may name
  Starts       \* where behaviours begin: see Init

Null == 0

Owners    == Agents \cup {Null}
Groups    == Teams \cup {Null}
OpenState == {"NEW", "IN_PROGRESS"}
States    == OpenState \cup {"none", "RESOLVED"}   \* "none": not created yet

(* A TeamMembership row. *)
Rows == [id : Nat \ {0}, agent : Agents, team : Teams, lead : BOOLEAN]

ASSUME DirectoryAssumption ==
  /\ Agents \subseteq Nat \ {0}
  /\ Teams \subseteq Nat \ {0}
  /\ Tickets \subseteq Nat \ {0}
  /\ Admins \subseteq Agents
  /\ Urgent \subseteq Tickets
  /\ \A s \in Starts : /\ s.mix \in SUBSET Operations
                       /\ s.crew \in SUBSET Workers
                       /\ s.on \in SUBSET Agents
                       /\ s.home \in [Agents -> Groups]
                       /\ s.rows \in SUBSET Rows
                       /\ s.owner \in [Tickets -> Owners]
                       /\ s.group \in [Tickets -> Groups]
                       /\ s.state \in [Tickets -> States]

VARIABLES
  mix, crew,   \* what this behaviour exercises, and with which handlers
  active,      \* Agent.isActive: may sign in
  available,   \* Agent.isAvailable: accepts new work
  primary,     \* Agent.teamId, the primary group
  member,      \* the TeamMembership rows
  owner,       \* Ticket.assignedAgentId
  group,       \* Ticket.teamId
  state        \* Ticket.state; "RESOLVED" stands for CLOSED too

fixedVars   == <<mix, crew>>
accountVars == <<active, available>>
ticketVars  == <<owner, group, state>>

(* Is there a row that makes a a member of g?  (The agent's primary group   *)
(* need not have one.) *)
HasRow(a, g) == \E r \in member : r.agent = a /\ r.team = g

Open(t) == state[t] \in OpenState

DirectoryTypeOK ==
  /\ mix \in SUBSET Operations
  /\ crew \in SUBSET Workers
  /\ active \in [Agents -> BOOLEAN]
  /\ available \in [Agents -> BOOLEAN]
  /\ primary \in [Agents -> Groups]
  /\ member \in SUBSET Rows
  /\ owner \in [Tickets -> Owners]
  /\ group \in [Tickets -> Groups]
  /\ state \in [Tickets -> States]

DirectoryInit ==
  \E s \in Starts :
    /\ mix = s.mix
    /\ crew = s.crew
    /\ active = [a \in Agents |-> a \in s.on]
    /\ available = [a \in Agents |-> TRUE]
    /\ primary = s.home
    /\ member = s.rows
    /\ owner = s.owner
    /\ group = s.group
    /\ state = s.state
=============================================================================
