------------------------------ MODULE Workload -------------------------------
(***************************************************************************)
(* Who works on a ticket: the assignment engine                            *)
(* (server/src/services/assignmentEngine.js), taking, shedding and         *)
(* rebalancing work (workloadService.js), and the routes of tickets,       *)
(* agents and availability that move tickets or change who may have them.  *)
(*                                                                         *)
(* A handler reads, decides, and writes in a later statement.  moveTicket  *)
(* writes only if the owner is still the one it was given and the ticket   *)
(* is open; other writes are unconditional.  What a decision reads is read *)
(* in one step.                                                            *)
(***************************************************************************)
EXTENDS Directory

CONSTANTS
  Skill,       \* Agent.skillLevel
  Bar,         \* the skill a ticket's routing rule and priority ask for
  Boost,       \* the skill its priority alone asks for
  Routed,      \* the group its routing rule names
  Preferred,   \* the agent that rule prefers, or Null
  Origin,      \* Ticket.originatingTeamId
  Aged,        \* the tickets past the unattended threshold
  Cap,         \* maxActiveTicketsPerAgent
  Threshold,   \* IMBALANCE_THRESHOLD
  MaxMoves,    \* MAX_MOVES_PER_CYCLE
  Movers       \* bound: the agents whose account, presence or group changes

(* A threshold of 1 would move a ticket back and forth for ever. *)
ASSUME WorkloadAssumption ==
  /\ Skill \in [Agents -> Nat]
  /\ Bar \in [Tickets -> Nat] /\ Boost \in [Tickets -> Nat]
  /\ Routed \in [Tickets -> Teams] /\ Origin \in [Tickets -> Teams]
  /\ Preferred \in [Tickets -> Owners]
  /\ Aged \subseteq Tickets
  /\ Movers \subseteq Agents
  /\ Cap \in Nat /\ MaxMoves \in Nat
  /\ Threshold \in Nat /\ Threshold >= 2

VARIABLE work   \* per worker: the handler in flight and what it has read

Rest == [step |-> "idle", kind |-> "none", agent |-> Null, ticket |-> Null,
         from |-> Null, to |-> Null, team |-> Null, left |-> 0, todo |-> {},
         strays |-> {}]
Kinds == {"rebalance", "take", "leave", "shed", "assign", "regroup", "arrive"}
Works == [step : {"idle", "weigh", "move", "list", "return", "replace", "away",
                  "write", "unassign"},
          kind : Kinds \cup {"none"}, agent : Owners, ticket : Tickets \cup {Null},
          from : Owners, to : Owners, team : Groups, left : 0 .. MaxMoves,
          todo : SUBSET Tickets, strays : SUBSET Tickets]

WorkloadTypeOK == work \in [Workers -> Works]
WorkloadInit   == work = [w \in Workers |-> Rest]

Ready(w, name)  == name \in mix /\ w \in crew /\ work[w].step = "idle"
Become(w, job)  == work' = [work EXCEPT ![w] = job]
Done(w)         == Become(w, Rest)
Step(w, label)  == [work[w] EXCEPT !.step = label]

-----------------------------------------------------------------------------
(* The assignment engine *)

WorkOf(a, held) == {t \in Tickets : owner[t] = a /\ state[t] \in held}
Load(a)         == Cardinality(WorkOf(a, OpenState))

Fit(bar, except) == {a \in Agents \ except : active[a] /\ available[a] /\ Skill[a] >= bar}
UnderCap(S)      == {a \in S : Load(a) < Cap}
Lightest(S)      == {a \in S : \A b \in S : Load(a) <= Load(b)}

(* A member of g whose primary group is another one. *)
Supports(a, g) == primary[a] \notin {g, Null} /\ HasRow(a, g)

InGroup(t, g, fit) ==
  {a \in fit : primary[a] = g \/ (t \notin Urgent /\ Supports(a, g))}

(* Mutant: the fallback takes anybody from another group. *)
AnyElsewhere(t, g, fit) == {a \in fit : primary[a] \notin {g, Null}}

(* The fallback to other groups.  For urgent tickets it leaves out those    *)
(* who support the group, not those who have nothing to do with it. *)
Elsewhere(t, g, fit) ==
  {a \in fit : primary[a] \notin {g, Null} /\ (t \in Urgent => ~HasRow(a, g))}

(* The normal search: lightest load in the group, or else anywhere.  Ties   *)
(* go to whoever was assigned work longest ago; lastAssignedAt is left out, *)
(* so any of them may be picked. *)
Search(t, g, fit) ==
  LET near == UnderCap(InGroup(t, g, fit))
      far  == UnderCap(Elsewhere(t, g, fit))
  IN CASE near # {}             -> Lightest(near)
       [] near = {} /\ far # {} -> Lightest(far)
       [] OTHER                 -> {Null}

(* Named by the greeting or by the rule: taken first, if allowed. *)
Usable(a, t, g, fit) == a \in UnderCap(fit) /\ (primary[a] = g \/ t \notin Urgent)

(* assign() for a new ticket. *)
Assign(t, addressed) ==
  LET g   == Routed[t]
      fit == Fit(Bar[t], {})
  IN CASE Usable(addressed, t, g, fit)    -> {addressed}
       [] ~Usable(addressed, t, g, fit) /\ Usable(Preferred[t], t, g, fit)
                                          -> {Preferred[t]}
       [] OTHER                           -> Search(t, g, fit)

(* assign() inside a given group: rules, and the skill they ask for, are    *)
(* not consulted. *)
AssignIn(t, g, except) == Search(t, g, Fit(Boost[t], except))

(* A new ticket: POST /api/tickets, or intake.  It decides, then creates. *)
StartArrive(w, t, addressed) ==
  /\ Ready(w, "arrive")
  /\ state[t] = "none"
  /\ \A v \in Workers : work[v].ticket # t
  /\ \E a \in Assign(t, addressed) :
       Become(w, [Rest EXCEPT !.step = "write", !.kind = "arrive", !.ticket = t,
                              !.to = a, !.team = Routed[t]])
  /\ UNCHANGED <<ticketVars, accountVars, primary>>

Arrive(w) ==
  /\ work[w].step = "write" /\ work[w].kind = "arrive"
  /\ owner' = [owner EXCEPT ![work[w].ticket] = work[w].to]
  /\ group' = [group EXCEPT ![work[w].ticket] = work[w].team]
  /\ state' = [state EXCEPT ![work[w].ticket] = "NEW"]
  /\ Done(w)
  /\ UNCHANGED <<accountVars, primary>>

-----------------------------------------------------------------------------
(* moveTicket: the compare-and-set all careful moves go through *)

Moves(t, from) == owner[t] = from /\ Open(t)

MoveTo(t, from, to) ==
  owner' = IF Moves(t, from) THEN [owner EXCEPT ![t] = to] ELSE owner

(* POST /tickets/:id/take, judged by checkClaim. *)
StartTake(w, a, t) ==
  /\ Ready(w, "take")
  /\ active[a] /\ Open(t) /\ owner[t] # a
  /\ \/ a \in Admins
     \/ /\ available[a]
        /\ \/ group[t] \in {primary[a], Null}
           \/ HasRow(a, group[t]) /\ t \notin Urgent
        /\ owner[t] = Null \/ (state[t] = "NEW" /\ t \in Aged)
  /\ Become(w, [Rest EXCEPT !.step = "move", !.kind = "take", !.agent = a,
                            !.ticket = t, !.from = owner[t], !.to = a])
  /\ UNCHANGED <<ticketVars, accountVars, primary>>

Take(w) ==
  /\ work[w].step = "move" /\ work[w].kind = "take"
  /\ MoveTo(work[w].ticket, work[w].from, work[w].to)
  /\ Done(w)
  /\ UNCHANGED <<group, state, accountVars, primary>>

-----------------------------------------------------------------------------
(* The rebalancer *)

Rota == {a \in Agents : active[a] /\ available[a] /\ primary[a] # Null}

(* Most loaded, lowest id first. *)
Busiest == CHOOSE a \in Rota :
             \A b \in Rota \ {a} : Load(a) > Load(b) \/ (Load(a) = Load(b) /\ a < b)

(* Least loaded, the busiest agent's own group first, then whoever was      *)
(* assigned work longest ago: any of them. *)
Quietest == LET light == Lightest(Rota)
                same  == {a \in light : primary[a] = primary[Busiest]}
            IN IF same # {} THEN same ELSE light

Qualified(a, t) ==
  /\ Skill[a] >= Bar[t]
  /\ \/ group[t] \in {primary[a], Null}
     \/ HasRow(a, group[t]) /\ t \notin Urgent

(* What to move from b to q: a NEW ticket of q's group, another NEW one, or *)
(* one in progress; the oldest of them. *)
Candidates(b, q) ==
  LET fit    == {t \in WorkOf(b, OpenState) : Qualified(q, t)}
      own    == {t \in fit : state[t] = "NEW" /\ group[t] = primary[q]}
      new    == {t \in fit : state[t] = "NEW"}
      chosen == IF own # {} THEN own ELSE IF new # {} THEN new ELSE fit
  IN {t \in chosen : \A u \in chosen : t <= u}

(* Mutant: any gap counts. *)
MovesAtAnyGap ==
  IF Cardinality(Rota) < 2 THEN {}
  ELSE {m \in [ticket : Tickets, from : {Busiest}, to : Quietest \ {Busiest}] :
          /\ Load(m.from) > Load(m.to)
          /\ m.ticket \in Candidates(m.from, m.to)}

(* rebalanceOnce: the moves it may make now.  Empty: it stops. *)
NextMoves ==
  IF Cardinality(Rota) < 2 THEN {}
  ELSE {m \in [ticket : Tickets, from : {Busiest}, to : Quietest \ {Busiest}] :
          /\ Load(m.from) >= Load(m.to) + Threshold
          /\ m.ticket \in Candidates(m.from, m.to)}

(* The timer, or POST /api/workload/rebalance (which the timer's guard      *)
(* against overlapping cycles does not cover). *)
StartCycle(w) ==
  /\ Ready(w, "rebalance")
  /\ NextMoves # {}      \* a cycle that finds nothing changes nothing
  /\ Become(w, [Rest EXCEPT !.step = "weigh", !.kind = "rebalance", !.left = MaxMoves])
  /\ UNCHANGED <<ticketVars, accountVars, primary>>

(* Mutant: a cycle goes on for as long as it finds something. *)
WeighOn(w) ==
  /\ work[w].step = "weigh"
  /\ \/ NextMoves = {} /\ Done(w)
     \/ \E m \in NextMoves :
          Become(w, [work[w] EXCEPT !.step = "move", !.ticket = m.ticket,
                                    !.from = m.from, !.to = m.to])
  /\ UNCHANGED <<ticketVars, accountVars, primary>>

Weigh(w) ==
  /\ work[w].step = "weigh"
  /\ \/ /\ work[w].left = 0 \/ NextMoves = {}
        /\ Done(w)
     \/ /\ work[w].left > 0
        /\ \E m \in NextMoves :
             Become(w, [work[w] EXCEPT !.step = "move", !.ticket = m.ticket,
                                       !.from = m.from, !.to = m.to])
  /\ UNCHANGED <<ticketVars, accountVars, primary>>

(* The first move that fails ends the cycle. *)
Rebalance(w) ==
  /\ work[w].step = "move" /\ work[w].kind = "rebalance"
  /\ MoveTo(work[w].ticket, work[w].from, work[w].to)
  /\ \/ /\ Moves(work[w].ticket, work[w].from)
        /\ Become(w, [Rest EXCEPT !.step = "weigh", !.kind = "rebalance",
                                  !.left = work[w].left - 1])
     \/ /\ ~Moves(work[w].ticket, work[w].from)
        /\ Done(w)
  /\ UNCHANGED <<group, state, accountVars, primary>>

-----------------------------------------------------------------------------
(* Shedding work: reassignOpenTicketsFor, and who calls it *)

(* Self-service: refused while work is in progress; NEW tickets are handed  *)
(* on, then the presence is written, isActive with it. *)
StartLeave(w, a) ==
  /\ Ready(w, "leave")
  /\ active[a] /\ WorkOf(a, {"IN_PROGRESS"}) = {}
  /\ Become(w, [Rest EXCEPT !.step = "list", !.kind = "leave", !.agent = a])
  /\ UNCHANGED <<ticketVars, accountVars, primary>>

(* PATCH /agents/:id {isActive: false}, or {isAvailable: false} by force or *)
(* when nothing is in progress. *)
Disable(w, a) ==
  /\ Ready(w, "accounts")
  /\ active[a] /\ \E p \in Admins \ {a} : active[p]
  /\ active' = [active EXCEPT ![a] = FALSE]
  /\ Become(w, [Rest EXCEPT !.step = "list", !.kind = "shed", !.agent = a])
  /\ UNCHANGED <<ticketVars, available, primary>>

ForceAway(w, a) ==
  /\ Ready(w, "accounts")
  /\ available[a]
  /\ available' = [available EXCEPT ![a] = FALSE]
  /\ Become(w, [Rest EXCEPT !.step = "list", !.kind = "shed", !.agent = a])
  /\ UNCHANGED <<ticketVars, active, primary>>

(* The list, and the tickets on it that have left their own group. *)
Listed(w, held) ==
  LET list == WorkOf(work[w].agent, held)
  IN Become(w, [Step(w, "return") EXCEPT
                  !.todo = list, !.strays = {t \in list : group[t] # Origin[t]}])

(* Mutant: everybody hands on NEW tickets only. *)
ListNewOnly(w) ==
  /\ work[w].step = "list"
  /\ Listed(w, {"NEW"})
  /\ UNCHANGED <<ticketVars, accountVars, primary>>

List(w) ==
  /\ work[w].step = "list"
  /\ Listed(w, IF work[w].kind = "leave" THEN {"NEW"} ELSE OpenState)
  /\ UNCHANGED <<ticketVars, accountVars, primary>>

(* The loop is over. *)
ListEnds(w) ==
  /\ work[w].step = "return" /\ work[w].todo = {}
  /\ IF work[w].kind = "leave" THEN Become(w, Step(w, "away")) ELSE Done(w)
  /\ UNCHANGED <<ticketVars, accountVars, primary>>

(* The oldest ticket of the list.  returnToOriginatingGroup writes the      *)
(* group of a stray, by id, and goes on with the row as it is NOW, owner    *)
(* included. *)
ReturnToOrigin(w) ==
  /\ work[w].step = "return"
  /\ \E t \in work[w].todo :
       /\ \A u \in work[w].todo : t <= u
       /\ LET stray == t \in work[w].strays
          IN /\ group' = IF stray THEN [group EXCEPT ![t] = Origin[t]] ELSE group
             /\ Become(w, [Step(w, "replace") EXCEPT
                             !.ticket = t, !.todo = @ \ {t}, !.strays = @ \ {t},
                             !.from = IF stray THEN owner[t] ELSE work[w].agent])
  /\ UNCHANGED <<owner, state, accountVars, primary>>

(* findReplacement: the engine, in the ticket's group, without the agent    *)
(* who is leaving. *)
FindReplacement(w) ==
  /\ work[w].step = "replace"
  /\ \E a \in AssignIn(work[w].ticket, Origin[work[w].ticket], {work[w].agent}) :
       Become(w, [Step(w, "move") EXCEPT !.to = a])
  /\ UNCHANGED <<ticketVars, accountVars, primary>>

HandOn(w) ==
  /\ work[w].step = "move" /\ work[w].kind \in {"leave", "shed"}
  /\ MoveTo(work[w].ticket, work[w].from, work[w].to)
  /\ Become(w, [Step(w, "return") EXCEPT !.ticket = Null, !.from = Null, !.to = Null])
  /\ UNCHANGED <<group, state, accountVars, primary>>

(* STATE_COLUMNS.unavailable, isActive included: an account disabled in the *)
(* meantime is enabled again. *)
GoAway(w) ==
  /\ work[w].step = "away"
  /\ active' = [active EXCEPT ![work[w].agent] = TRUE]
  /\ available' = [available EXCEPT ![work[w].agent] = FALSE]
  /\ Done(w)
  /\ UNCHANGED <<ticketVars, primary>>

(* goAvailable; an administrator's presence change, which moves no ticket;  *)
(* PATCH {isActive: true} or {isAvailable: true}. *)
SetPresence(a, isActive, isAvailable) ==
  /\ "presence" \in mix
  /\ isAvailable => isActive
  /\ \/ isAvailable /\ active[a]
     \/ \E p \in Admins \ {a} : active[p]
  /\ active' = [active EXCEPT ![a] = isActive]
  /\ available' = [available EXCEPT ![a] = isAvailable]
  /\ UNCHANGED <<ticketVars, primary, work>>

Enable(a) ==
  /\ "presence" \in mix
  /\ \E p \in Admins : active[p]
  /\ \/ ~active[a] /\ active' = [active EXCEPT ![a] = TRUE] /\ UNCHANGED available
     \/ ~available[a] /\ available' = [available EXCEPT ![a] = TRUE] /\ UNCHANGED active
  /\ UNCHANGED <<ticketVars, primary, work>>

(* PATCH {teamKey}: the primary group, then the agent's NEW tickets are     *)
(* left without an owner.  No TeamMembership row is written. *)
SetPrimary(w, a, g) ==
  /\ Ready(w, "accounts")
  /\ primary[a] # g
  /\ primary' = [primary EXCEPT ![a] = g]
  /\ Become(w, [Rest EXCEPT !.step = "unassign", !.agent = a])
  /\ UNCHANGED <<ticketVars, accountVars>>

Unassign(w) ==
  /\ work[w].step = "unassign"
  /\ owner' = [t \in Tickets |-> IF t \in WorkOf(work[w].agent, {"NEW"}) THEN Null ELSE owner[t]]
  /\ Done(w)
  /\ UNCHANGED <<group, state, accountVars, primary>>

-----------------------------------------------------------------------------
(* Moves that are not compare-and-set *)

(* POST /tickets/:id/assign and /reassign, judged by checkTarget; only      *)
(* /assign refuses a RESOLVED ticket, so such a ticket has one path. *)
StartAssign(w, p, t, b) ==
  /\ Ready(w, "assign")
  /\ active[p] /\ active[b]
  /\ state[t] # "none" /\ owner[t] # b
  /\ \/ p \in Admins
     \/ /\ owner[t] = p
        /\ available[b]
        /\ group[t] # Null /\ primary[b] = group[t]
  /\ Become(w, [Rest EXCEPT !.step = "write", !.kind = "assign", !.ticket = t, !.to = b])
  /\ UNCHANGED <<ticketVars, accountVars, primary>>

AssignByHand(w) ==
  /\ work[w].step = "write" /\ work[w].kind = "assign"
  /\ owner' = [owner EXCEPT ![work[w].ticket] = work[w].to]
  /\ Done(w)
  /\ UNCHANGED <<group, state, accountVars, primary>>

(* PATCH /tickets/:id {assignmentGroup}: an owner outside the new group is  *)
(* dropped, and an open ticket without one goes through the engine, whose   *)
(* answer counts only if it is of the group. *)
StartRegroup(w, t, g) ==
  /\ Ready(w, "regroup")
  /\ state[t] # "none"
  /\ LET stays == owner[t] # Null /\ g # Null /\ primary[owner[t]] = g
         found == IF g # Null /\ Open(t) THEN AssignIn(t, g, {}) ELSE {Null}
     IN \E a \in IF stays THEN {owner[t]} ELSE found :
          Become(w, [Rest EXCEPT !.step = "write", !.kind = "regroup",
                       !.ticket = t, !.team = g, !.from = owner[t],
                       !.to = IF a # Null /\ primary[a] = g THEN a ELSE Null])
  /\ UNCHANGED <<ticketVars, accountVars, primary>>

(* The owner column is written only if it is to change. *)
Regroup(w) ==
  /\ work[w].step = "write" /\ work[w].kind = "regroup"
  /\ group' = [group EXCEPT ![work[w].ticket] = work[w].team]
  /\ owner' = IF work[w].to = work[w].from THEN owner
              ELSE [owner EXCEPT ![work[w].ticket] = work[w].to]
  /\ Done(w)
  /\ UNCHANGED <<state, accountVars, primary>>

(* Starting, resolving and reopening a ticket (see Lifecycle). *)
Progress(t, from, to) ==
  /\ "progress" \in mix
  /\ state[t] = from
  /\ state' = [state EXCEPT ![t] = to]
  /\ UNCHANGED <<owner, group, accountVars, primary, work>>

-----------------------------------------------------------------------------
MoveStep(w) ==
  \/ \E t \in Tickets :
       \/ \E a \in Owners : StartArrive(w, t, a)
       \/ \E a \in Agents : StartTake(w, a, t)
       \/ \E p, b \in Agents : StartAssign(w, p, t, b)
       \/ \E g \in Groups : StartRegroup(w, t, g)
  \/ Arrive(w) \/ Take(w) \/ AssignByHand(w) \/ Regroup(w)

ShedStep(w) ==
  \/ \E a \in Movers :
       \/ StartLeave(w, a) \/ Disable(w, a) \/ ForceAway(w, a)
       \/ \E g \in Groups : SetPrimary(w, a, g)
  \/ List(w) \/ ListEnds(w) \/ ReturnToOrigin(w) \/ FindReplacement(w) \/ HandOn(w)
  \/ GoAway(w) \/ Unassign(w)

Continue(w) == Weigh(w) \/ Rebalance(w)

WorkloadStep(w) == MoveStep(w) \/ ShedStep(w) \/ StartCycle(w) \/ Continue(w)

Surroundings ==
  \/ \E a \in Movers : \/ \E x, y \in BOOLEAN : SetPresence(a, x, y)
                       \/ Enable(a)
  \/ \E t \in Tickets : \/ Progress(t, "NEW", "IN_PROGRESS")
                        \/ Progress(t, "IN_PROGRESS", "RESOLVED")
                        \/ Progress(t, "RESOLVED", "IN_PROGRESS")

-----------------------------------------------------------------------------
(* While nothing but the balancer acts, on a timer and by hand at once, it  *)
(* reaches a distribution it leaves alone: no ticket is passed back and     *)
(* forth, and no overlap of two cycles keeps them going (workloadService.js *)
(* rebalanceOnce, rebalanceCycle). *)
BalanceReached == mix = {"rebalance"} => <>[](NextMoves = {})

(* No automatic decision gives a high or critical ticket to somebody who    *)
(* only supports its group (assignmentEngine.js, and the balancer's own     *)
(* rule in workloadService.js: `supporting members cannot receive           *)
(* high/critical tickets'). *)
UrgentKept ==
  \A w \in Workers :
    LET job == work[w]
        g   == CASE job.kind = "arrive"            -> job.team
                 [] job.kind \in {"leave", "shed"} -> Origin[job.ticket]
                 [] job.kind = "rebalance"         -> group[job.ticket]
    IN /\ job.step \in {"move", "write"}
       /\ job.kind \in {"arrive", "leave", "shed", "rebalance"}
       /\ job.ticket \in Urgent /\ job.to # Null
       => ~Supports(job.to, g)

(* An agent whose work is handed on has nothing open left when the handler  *)
(* that does it has run to its end alone: neither who goes unavailable, nor *)
(* who is disabled or sent away (goUnavailable, PATCH /api/agents/:id). *)
LeavesEmptyHanded ==
  [][\A w \in Workers :
       /\ crew = {w} /\ work[w].kind \in {"leave", "shed"}
       /\ work'[w].step = "idle"
       => Load(work[w].agent) = 0]_work

(* Handing on an agent's work takes tickets from that agent only: `if       *)
(* another worker moved the ticket first, zero rows match and we report the *)
(* conflict instead of overwriting their decision' (workloadService.js:14). *)
ShedsOwnOnly ==
  [][\A w \in Workers :
       LET job == work[w] IN
         /\ job.step = "move" /\ job.kind \in {"leave", "shed"} /\ work'[w] # job
         /\ owner'[job.ticket] # owner[job.ticket]
         => owner[job.ticket] = job.agent]_<<work, owner>>
=============================================================================
