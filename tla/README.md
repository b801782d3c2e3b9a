# Helpdesk: a TLA+ model of the server

This directory models the server of the Helpdesk system (`server/`): the
handover offers between agents, the lifecycle of a ticket with its SLA cycles and
sweeps, the intake of email from its channels, the desk (who works on what, who
belongs to which group, and who may open a remote session), the working-time
clock, and the background jobs. TLC checks the models on small instances; TLAPS
proves the most important invariants for every instance. Paths below are relative to the
repository.

* [1. The system](#1-the-system)
* [2. How the code becomes a model](#2-how-the-code-becomes-a-model)
* [3. Handover](#3-handover)
* [4. Lifecycle](#4-lifecycle)
* [5. Intake](#5-intake)
* [6. Desk](#6-desk)
* [7. Clock and jobs](#7-clock-and-jobs)
* [8. Runs and bounds](#8-runs-and-bounds)
* [9. Fairness](#9-fairness)
* [10. Proofs](#10-proofs)
* [11. What the runs found](#11-what-the-runs-found)
* [12. Plan](#12-plan)
* [13. Not modelled](#13-not-modelled)

## 1. The system

One Node process (Express, Prisma) in front of one PostgreSQL database, a React
client, a mailbox read by IMAP or Microsoft Graph, and half a dozen timers. All
state that matters is in the database. Components, the state each keeps, what
it does, and what would make it correct:

| Component | State | Operations | Correct when |
|---|---|---|---|
| Handovers (`services/handoverService.js`) | `HandoverRequest` rows: status, target, expiry clock | create, accept, decline, suggest, cancel, override, cancelForTicket, onAvailabilityChanged, onAgentDeactivated, promoteQueue, sweepExpired | an offer is answered once; the ticket moves exactly with an accepted offer; slots are bounded, the queue is FIFO and never stranded; the clock runs only while the recipient is there |
| Ticket moves and absence (`services/workloadService.js`) | `Ticket.assignedAgentId` | moveTicket, reassignOpenTicketsFor, availability routes, rebalancer | a move never overwrites a newer owner; who leaves, leaves nothing open; the balancer comes to rest |
| Agents, availability, pool (`services/userService.js`, `assignmentPoolService.js`) | `Agent.isActive`, `isAvailable`, `acceptsNewTickets`, availability periods | activate, deactivate, presence, history | offers and tickets follow the account; one open period per agent |
| Assignment engine and policy | none (queries) | assign, checkTarget, eligibility | only eligible agents are picked; urgent work stays with the primary members of its group |
| Ticket lifecycle (`routes/tickets.js`, `routes/public.js`, `resolutionSweeper.js`) | `Ticket.state`, `resolvedAt`, `closedAt`, `priority` | create, start, resolve, rework, close, confirm, auto-close, note, patch, assign, delete | CLOSED is left only by the requester's reply; a close never overwrites a reopening |
| SLA cycles and sweeper (`slaService.js`, `slaSweeper.js`) | `TicketSlaCycle`, `TicketSlaEvent`, mirrors on `Ticket` | startCycle, recordFirstResponse, finalizeOpenCycle, restartCycle, onPriorityChanged, sweepSla | one open cycle, of the newest number, exactly while the ticket is worked on; each event once; no breach lost and none invented |
| SLA clock (`slaClock.js`) | none; settings and `SlaHoliday` rows | addWorkingMs, workingMsBetween, nextWorkingMoment | agrees with the calendar hour by hour |
| Email intake (`services/ticketIntake.js`) and channels (`imap/`, `graph/`) | `graphMessageId` and `internetMessageId` of `Ticket` and `Comment`, the seen flags, the webhook's memory | dedupe, thread, comment, reopen, create; poll, webhook, renew | a message becomes one ticket or one comment however often its channel delivers it, and is acknowledged only then |
| Attachments (`services/attachment*.js`) | `Attachment` rows, a cache of bytes | store, clean up, sweep, read again | bytes a row names are removed by the cache's sweep alone |
| Routing (`routingService.js`) | rules | match | precedence |
| Assignment groups (`groupMembershipService.js`) | `TeamMembership`, `Agent.teamId` | add, remove | three groups at most, one lead per group |
| Remote access (`remoteAccessService.js`) | session rows and their audit trail | create, start, end, cancel, expire | one live session per ticket and per agent; a trail that is a legal history |
| Report scheduler (`reportScheduler.js`) | `report.sent` audit events | runDueReports, sendScheduledReport, the command line | what is due is sent, once a period |
| Ingestion watchdog (`ingestionWatchdog.js`) | the incident, in memory | checkIngestion, raiseAlarm, clearAlarm | silence is reported, once an incident |
| Graph subscription (`graph/subscriptionService.js`) | one `GraphSubscription` row; the subscription at Graph | ensure, create, renew, delete | there is a live one, renewed in time |
| Settings, audit, mail, auth, client | mostly none | – | – |

**How they interact.** Routes call services directly; services call each other
(`applyStateChange` calls `cancelForTicket`, then `finalizeOpenCycle` or
`restartCycle`; availability routes call `reassignOpenTicketsFor`, then
`onAvailabilityChanged`; `userService` calls `onAgentDeactivated`; intake asks the
assignment engine and starts or restarts SLA cycles). There are no
locks, no queues and no messages between components: they meet in the
database, where most statements are their own transaction at PostgreSQL's
default level READ COMMITTED.

**What is hard.** Every `await` is a point where another handler runs. A handler
reads rows, awaits, and then writes what it decided from what it read. Some
writes repeat the decision in their `where` clause (compare-and-set), others
update by id. A handler that throws, or a process that dies, leaves what it wrote
and does not do the rest. Timers sweep over lists they made earlier. The hazards
in `PROJECT.json` give the lines.

## 2. How the code becomes a model

A handler is a sequence of database statements. A *worker* runs one handler: `pc`
is the statement it executes next, `my` what it remembers from those before.
One statement is one action, named for what it does; the tests between two
statements belong to the action before or after them. With one worker handlers
run one after the other (each to its end, or to its failure); with two or more
they interleave at every `await`.

* Time is abstract. `Handover` keeps only whether a row's clock runs, is due or
  is paused; `Lifecycle` has a clock of a few instants, and targets of one or two
  units of it. The arithmetic of working time is in `SlaClock`, over days of a few
  hours and weeks of a few days.
* Notifications, mail, audit and history rows are written and never read by a
  handler: they are left out. A transaction that adds such rows to one update is
  that update.
* A failure is an action of its own (`Fail`), only after statements at which
  stopping matters. There is no difference between an exception and a crash:
  both leave the database as it is and drop the handler's locals.
* Definitions whose comment begins with `Mutant:` are no part of the
  specification. Each is a plausible mistake in the definition beside it and
  is used to see that a property does notice it.

## 3. Handover

`Handover.tla` is `handoverService.js` with the routes and services that call it.

| Variables | Code |
|---|---|
| `owner`, `state` | `Ticket.assignedAgentId`, `Ticket.state` (OPEN for NEW and IN_PROGRESS, DELETED for a removed row) |
| `active`, `available` | `Agent.isActive`, `Agent.isAvailable` |
| `limit` | the setting `handoverPendingLimit` |
| `nextId`, `status`, `ticketId`, `requestedBy`, `target`, `clock` | the `HandoverRequest` rows; `clock` is what `expiresAt`, `pausedAt` and `remainingMs` say together |
| `pc`, `my` | the handlers in flight |

| Actions | Code |
|---|---|
| StartCreate, CheckTarget, CheckExisting, CountSlots, Insert | `POST /tickets/:id/handover`, `createRequest` |
| StartAccept, ReadTicket, ClaimStale, ClaimAccepted, Move, Undo | `accept`: the claim, the move of the ticket in a transaction, and the claim undone when the ticket had left |
| StartDecline, Decline; StartCancel, Cancel | `decline` and `suggest`; `cancel` and the administrator's override |
| StartFinish, ListOffers, CancelOffers | resolving or closing a ticket, `cancelForTicket` |
| Count, Find, ReadTarget, Activate | `promoteQueue`, called by most of the others |
| SetState, StartGoUnavailable, GoUnavailable, Shed, ListPending, SetClocks | availability and `onAvailabilityChanged` |
| StartDeactivate … ListRaised, CancelRaised, ListReceived, PickReplacement, CountReplacement, MoveOffer | `onAgentDeactivated`: cancel what the agent raised, reroute what the agent received |
| StartSweep, Expire | `sweepExpired` and its timer |
| Reassign, DeleteTicket, Reopen, AutoClose, SetLimit, Reactivate, Elapse | single statements elsewhere, and time |

`HandoverOffer.tla` is what a handover promises, without queues, clocks or
statements: an offer is open, and then transferred, closed or deleted; it ends as
transferred in the step that takes its ticket from the agent who offered it, and who
still has it, to somebody else. `Handover` is checked to
implement it (`OfferKept`), and proved to. The refinement mapping maps an offer whose accept
has claimed the row and not yet moved the ticket to *open*: the claim is not yet
the transfer.

## 4. Lifecycle

`Lifecycle.tla` follows one ticket through its states and its SLA cycles.

| Variables | Code |
|---|---|
| `now` | the clock |
| `state`, `resolvedAt`, `target` | the `Ticket` row; `target` is the resolution target of its priority |
| `mirror` | `Ticket.dueAt`, whether `firstResponseAt` is set, `responseBreached` |
| `n`, `row` | the `TicketSlaCycle` rows 1 … n: start, whether ended, first response, due instants, breached flags |
| `events` | how many `TicketSlaEvent` rows each cycle has of each sort |
| `fresh` | per cycle, the sweeps that hold its present `updatedAt` |
| `pc`, `my` | the handlers in flight |

| Actions | Code |
|---|---|
| Create, InsertCycle, SyncTicket | creating a ticket, then `startCycle`; the unique index on `(ticketId, cycleNumber)` makes the loser of a race fail |
| StartChange, Write | `applyStateChange`: judged on the loaded row; only the force close writes with a condition |
| FindOpen, EndCycle, LatchTicket, CheckEvent, RecordEvent | `finalizeOpenCycle` |
| FindLatest, EndDangling (then InsertCycle, SyncTicket) | `restartCycle` |
| StartReply, Reopen | the reopening part of `intakeEmailMessage` |
| Confirm; StartAutoClose, AutoClose | the requester's confirmation; `sweepResolutions` |
| StartNote, ReadLatest, Answer, MirrorAnswer | a public note, `recordFirstResponse` |
| StartPatch, Patch, FindTarget, Retarget, MirrorDue | a new priority, `onPriorityChanged` |
| StartSweep, Scan, Claim, Notice | `sweepSla`: four scans, an optimistic claim, the insert |
| Tick, Fail | time; a statement that fails |

Abstractions: a quarter of a target ("approaching") is its last unit of time;
the calendar estimate that `PATCH` writes into `dueAt` before `onPriorityChanged`
replaces it is a value no working-time instant equals (`Estimate`);
`responseApproached` and `resolutionApproached` are not kept, since no handler
reads them; the auto-close sweep's list of tickets is this one ticket.

## 5. Intake

`Intake.tla` is `ticketIntake.js` with the three channels that call it: the IMAP
poller, the Graph poller and the Graph webhook. A message is named by its uid; a
worker (a poller's timer, a webhook call) has one delivery in hand.

| Variables | Code |
|---|---|
| `channels`, `limit` | which of the channels the environment turns on; `pollBatchSize` |
| `mail`, `kind`, `cites`, `aged` | the mailbox; what the pipeline makes of each message; the ticket number it quotes; whether it is past `GRAPH_INGEST_MAX_AGE_HOURS` |
| `seen` | `\Seen` / `isRead` |
| `tickets`, `comments` | the `Ticket` and `Comment` rows with the message and the source whose identity they store, the conversation, whether finished, whether an SLA cycle runs, the key of the attachment |
| `cached` | files in the attachment cache |
| `recent` | `recentOutcomes` of `webhookProcessor.js`, lost in a restart |
| `pc`, `batch`, `msg`, `thread`, `finished` | the deliveries in flight |

| Actions | Code |
|---|---|
| StartPoll, TakeMessage, Notify, Open | `pollUnread` of either channel, `processNotification`, `processOne` up to intake |
| FindTicket, FindComment | the two duplicate checks |
| Upload | `uploadAll`, before it is known what becomes of the message |
| ResolveThread | `resolveThread`, then screening and triage of what belongs to no ticket |
| AddComment, Reopen, StartClock | a reply: the insert, the reopening, `restartCycle` |
| CreateTicket, StartClock | a new ticket: the transaction, `startCycle` |
| MarkSeen, MarkFails | the acknowledgement, which may fail without a consequence |
| Fail, Restart | a statement throws; the process stops and starts |
| Arrive, GrowOld, FinishTicket, Evict, View | mail, age, agents, the cache's sweep, somebody opening an attachment |

Two sources give one message different identities, and neither recognises the
other's rows. IMAP stores the Message-ID as `graphMessageId` and as
`internetMessageId`. Graph has an id of its own, and `internetMessageId`, which is
meant to be the identity they share, is not among the fields its client selects
(`graphClient.js:88-89`): the adapter (`graphMailAdapter.js:72`) makes it null, and the
rows store null. So a row is known by its message and its `source` (`Matches`), a
reply header names rows of IMAP alone, and a ticket number is what leads from one
source to the ticket of another. The two tables have unique indexes on the
identities, and a lost race is whatever the index of *that* table refuses.

The rows of an activity's files are created by `createRows`, which looks first for
the message's files on that ticket (`FilesKnown`, `attachmentService.js:159-170`) and
then creates none: the activity has no key, and the bytes just uploaded for it
have no row. On a ticket that is being created there is nothing to be found.

What a message says (parsing, screening, triage, classification, routing) is given
per message: `plain`, `junk` (screened away unless it belongs to a ticket), `refused`
(rejected or self-addressed) or `poison` (never decodes).

## 6. Desk

Three services read and write the same few rows: agents, their groups and the
owners of tickets. `Directory.tla` declares these rows; `RemoteAccess.tla`,
`Groups.tla` and `Workload.tla` extend it with one service each; `Desk.tla` composes
them. A worker runs one handler of one service at a time; a step of one service
leaves the private variables of the others alone and may change the shared rows
under their feet.

The composition of all operations at once is far too large for TLC, and most
operations have nothing to say to each other. A behaviour therefore begins with a
*mix* of operations and a *crew* of handlers, two variables that never change:
one run explores many mixes side by side, each with every operation that can
disturb what it is about. The proofs are about every mix and crew, the full ones
included.

| Module | Variables | Code |
|---|---|---|
| `Directory` | `active`, `available`, `primary` | `Agent.isActive`, `isAvailable`, `teamId` |
| | `member` | the `TeamMembership` rows |
| | `owner`, `group`, `state` | `Ticket.assignedAgentId`, `teamId`, `state` |
| `RemoteAccess` | `session`, `call` | the `RemoteAccessSession` rows, each with the statuses its audit events record; the calls in flight |
| `Groups` | `nextRow`, `tx` | the sequence of ids; the transactions in flight and what they have read |
| `Workload` | `work` | the handlers in flight |

| Actions | Code |
|---|---|
| Request, InsertSession | `createSession`: the checks, then the insert that the partial unique indexes may refuse |
| LoadStart, LoadEnd, LoadCancel; StartSession, EndSession, CancelSession | the handlers that load a session and change it by a compare-and-set on its status |
| ListForTicket, ExpireSession, Lapse | lazy expiry: a stale request is expired by whoever starts it or reads the ticket's sessions |
| StartAdd, Demote, InsertMember | `addMember`, a transaction at READ COMMITTED: it reads, demotes the leads it sees, and commits its row unless an index refuses it |
| StartRemove, DeleteRow, CommitRemoval | `removeMember`; the delete waits for whoever holds the row |
| StartArrive, Arrive | a new ticket: the engine decides, then the ticket is created |
| StartTake, Take | claiming a ticket: `checkClaim`, then `moveTicket` |
| StartAssign, AssignByHand; StartRegroup, Regroup | assigning and moving to another group: judged, then written by id |
| StartCycle, Weigh, Rebalance | `rebalanceCycle`: weigh, move one ticket, weigh again |
| StartLeave, Disable, ForceAway; List, ReturnToOrigin, FindReplacement, HandOn, ListEnds, GoAway | going unavailable, disabling, sending away: `reassignOpenTicketsFor` over a list made at the start |
| SetPresence, Enable, SetPrimary, Unassign, Progress | presence and account routes, the primary group, and the lifecycle of a ticket (see `Lifecycle`) |

The engine is a handful of operators (`Fit`, `UnderCap`, `InGroup`, `Elsewhere`,
`Search`, `Usable`, `Assign`, `AssignIn`) that return the *set* of agents it may pick: ties
are broken by `lastAssignedAt`, which is left out, so each of them is possible.
The greeting's name, the rule's preferred agent, its group and its skill bar
are given per ticket.

Abstractions: RESOLVED stands for CLOSED too, since these services only ask whether
a ticket is open; ids order ages; a decision reads everything it needs in one
step, and only the write is later: what is stale is stale by the whole decision.

## 7. Clock and jobs

`Calendar.tla` is what `slaClock.js` and `reportScheduler.js` both derive from
`Intl`: the offset of a zone, the wall reading, day and hour of an instant, and
back (`FromWall`: one correction by the offset). Instants are hours. `SlaClock.tla`
and `Reports.tla` extend it.

`SlaClock.tla` is the working-time engine under one clock of an SLA cycle. `policy`
is what `loadSlaPolicy` returns with the holiday table, `cycle` the instants a
started cycle got, and `worked` counts the working hours that have really gone by:
time passes hour by hour (`Tick`), so a behaviour is itself the reference the
engine is compared with. `NextWorkingMoment`, `WorkingBetween` and `AddWorking` are
the three loops of `slaClock.js` over days. The first is the least of a set of days; the
other two go through the same `Horizon` days (`Span`) with a running sum (`Before`, a
recursive function), of the parts of the windows that lie between two instants (`Part`) and
of what the windows have left (`Available`). `HolidaysBetween`, `CycleHolidays` and `WarnAfter` are
`loadHolidaysBetween`, `holidaysForCycle` and the quarter of `computeTargets`.

`Jobs.tla` is the background jobs of `startBackgroundJobs` that no other module has.
`Reports`, `Watchdog` and `Subscription` extend nothing of each other; `Jobs`
composes them in a process that may stop (everything but the database and Graph
is forgotten) and start again. They share nothing but the process, so a behaviour
exercises one `part` and TLC explores the parts side by side.

| Module | Variables | Code |
|---|---|---|
| `SlaClock` | `policy`, `cycle`, `worked` | settings and `SlaHoliday` rows; `startedAt`, a due and an approach instant; working time gone by |
| `Reports` | `zone`, `recipients`, `run` | `slaTimezone`, `reportRecipients`; the timer's pass and the command line's |
| | `recorded` | the `report.sent` audit events |
| | `runners`, `mailed`, `repeated`, `slips`, `unrecorded` | who sends in this behaviour; what went out, and what went wrong |
| `Watchdog` | `answers`, `silent` | whether a mailbox answers; time since `lastPollAt` |
| | `incident`, `notice`, `told` | `activeIncident`; the pass in flight; what the administrators know |
| `Subscription` | `url`, `rows`, `job` | `WEBHOOK_PUBLIC_URL`; the `GraphSubscription` rows; the calls in flight |
| | `left`, `gone`, `notified` | the subscriptions at Graph, and a `subscriptionRemoved` notice |
| `Jobs` | `part`, `up`, `stops` | the process |

| Actions | Code |
|---|---|
| OpenCycle, Tick | `startCycle` with `computeTargets`; an hour |
| Scheduler: StartPass, Check, SendMail, Record | `startReportScheduler`, `runDueReports`, `sendScheduledReport`: the audit gate, the mail, the audit event |
| CommandLine: StartCli and the same statements | `scripts/send-scheduled-report.js` |
| Administrator | clearing or setting the recipients |
| WatchdogTick: CheckIngestion, Tell | `checkIngestion`; `raiseAlarm` and `clearAlarm` |
| Mailboxes: Poll, Toggle, Wait | a poller's cycle (`recordPollCycle`); a mailbox stops or resumes answering; time |
| RenewTick: Fire | `startLifecycle`: `ensureSubscription` at boot and from the timer |
| Webhook: Notification | `handleLifecycle` of a removal |
| CallReturns: Reread, DeleteAtGraph, RenewAtGraph, SaveRenewal, Clear, CreateAtGraph, Insert | the awaited calls of `ensureSubscription`, `renewSubscription`, `deleteSubscription` and `createSubscription`, any of which may fail |
| Days, GraphDrops | lifetimes run down; Graph drops a subscription of its own accord |
| ServerStops, ServerStarts | the process, which may come back under another address |

Abstractions: both kinds of report are always enabled (the settings that turn one
off are left out: it is then never due); Graph's `reauthorizationRequired`, which the
webhook answers as it does a removal (`webhookProcessor.js:106`), is not sent, only
`subscriptionRemoved`; `Elapsed` is the working time itself, before `clampIntMs`
(`slaService.js:387`) caps what is stored at the width of an integer column, some 24
days. What is in a report and how it is
rendered is left out; a month is a fixed number of days. The reading of the settings
and of the audit gate is one step, since nothing between them changes what they
decide together. The watchdog's and the subscription's time is counted in units,
so that a mailbox that answers is polled well within the stall window (the
defaults are 2 and 30 minutes) and the renewal timer fires within each unit
(half an hour against a lifetime of almost three days and a margin of twelve
hours). Ids at Graph are reused once nothing names them.

## 8. Runs and bounds

Each passing run checks its properties over every reachable state of the
instance; the violating run checks a statement of the documentation that the code
does not keep. Section 11 has more of these, with the constants that show them.

| Run | Workers | Instance | Shows |
|---|---|---|---|
| `handover_serial` | 1 | 3 agents, 2 tickets, 2 offers, limit 1 | NoStrandedQueue, PausedWhileAway, NoOfferOnFinished |
| `handover_queue` | 1, may fail anywhere | 3 agents, 3 tickets, 3 offers, limits 1 and 2, deactivation | TypeOK, OneOffer, SlotLimit, FifoPromotion |
| `handover_concurrent` | 2 | 3 agents, 1 ticket, 2 offers, limit 1 | AnsweredOnce, AnswersFinal, OfferKept |
| `handover_live` | 1, fair | 2 agents, 2 tickets, 2 offers | PendingEnds, QueueMoves |
| `lifecycle_serial` | 1, the sweep may die before its insert | 2 cycles, instants 0 to 3, two priorities, every handler | TypeOK, OpenIffWorking, MirrorMatches, NoFalseBreach, RecordedOnce |
| `lifecycle_live` | 1, fair, the sweep may die before its insert | 2 cycles, instants 0 to 3, one priority | BreachReported |
| `lifecycle_concurrent` | 2, may fail around every cycle write | 3 cycles, instants 0 to 2, a window of 2 | OnlyLatestOpen, CloseFromResolved, AutoCloseEarned |
| `intake` | 2, fair pollers: IMAP and Graph, or Graph with its webhook; or one poller | 2 messages of one conversation, the second a reply; batches of 1 and 2; one attachment; 5 mixtures of kinds; 1 fault, 2 notifications | TypeOK, SeenMeansKept, RetriesRecordOnce, ClockStarted, NoOrphanedBytes, BytesKept, AllHandled |
| `desk` | 2 for sessions, groups and balancers; 1 for the rest; fair | 3 agents, 2 groups, 3 tickets, 2 sessions, cap 2, threshold 2, one move a cycle, 2 groups per agent | TypeOK, TrailTells, UrgentKept, LedStaysLed, BalanceReached, LeavesEmptyHanded |
| `clock` | – | days of 4 hours, weeks of 3 days, 5 zones, 3 windows, 2 working weeks, holidays, targets of 1, 2 and 5 hours, 9 starts | ClockExact |
| `jobs` | the timers, the command line, the webhook; fair | days of 4 hours, weeks of 3 days, months of 2 weeks; 2 mailboxes; lifetimes of 3 units; 1 report fault, 2 Graph mishaps, 1 stop of the server | MailedOnce, ReportArrives, SilenceIsLoud, SubscriptionReturns, NeverLapses |
| `lifecycle_final` | 2 | the smallest that shows it | ClosedIsFinal violated |

What the properties say:

* **AnsweredOnce**, **AnswersFinal**: of several handlers that answer an offer one
  is past its claim, and a finished offer keeps its outcome, except that the accept
  which won and then found the ticket gone cancels its own claim.
* **OfferKept**: the refinement of `HandoverOffer`.
* **SlotLimit**, **FifoPromotion**, **OneOffer**: no step gives a recipient more
  PENDING offers than the limit; the queue is by age; a ticket has one live offer.
  SlotLimit and OneOffer are true of handlers that do not overlap, and false of
  handlers that do.
* **NoStrandedQueue**: once handlers are done nobody queues for a recipient with a
  free slot. It leaves out deactivation, where it is false.
* **PausedWhileAway**: the clock of a pending offer is paused exactly while its
  recipient is away.
* **NoOfferOnFinished**: resolving or closing a ticket takes its queued and
  pending offers with it.
* **OnlyLatestOpen**: however reopenings and resolutions race, and wherever they fail,
  only the newest cycle is open.
* **CloseFromResolved**: every close, by whoever, happens to a ticket that is
  RESOLVED at that very statement.
* **OpenIffWorking**, **MirrorMatches**: a ticket at rest has an open cycle exactly
  while it is NEW or IN_PROGRESS, and the columns the dashboards filter on agree
  with that cycle.
* **NoFalseBreach**, **RecordedOnce**: a response in time is never reported late;
  one event per clock, sort and cycle, even when a sweep dies between claim and
  insert and the next one does it again.
* **AutoCloseEarned**: whatever else runs, the auto-close closes a ticket only when the
  window of its resolution had passed by the instant the sweep made its list, or
  when that resolution was made since. The exception is what the code allows: the write
  asks for RESOLVED and not for the `resolvedAt` it has read (`WindowKept`, section
  11). What must not happen is that a sweep acts on a list that was wrong from the
  start, or closes a ticket whose resolution it saw and whose window had not passed.
* **BreachReported**: a clock that has run out is reported in the end.
* **SeenMeansKept**: nothing is acknowledged that is neither kept nor meant to be
  dropped, whatever fails.
* **RetriesRecordOnce**: where one channel alone delivers, a message is one ticket or one
  activity, however often it is listed again: after an acknowledgement that failed, a
  statement that threw, a restart between the row and the acknowledgement. The
  duplicate checks come before threading, and must: the ticket the message has raised
  is of its conversation. For channels side by side it is false (section 11).
* **ClockStarted**: without a failure every open ticket has its SLA clock, or a delivery
  is about to start it. A failure between the ticket and its cycle does leave it
  without one, and the retry calls the message a duplicate.
* **BytesKept**, **NoOrphanedBytes**: no delivery's clean-up removes bytes that a row
  names, and without a failure no bytes are left that no row names, except the second upload of
  a message that two deliveries made a ticket and an activity on it.
* **AllHandled**: every message that decodes is acknowledged in the end: batches that
  are cut get to each, and fewer messages that never decode than fit a batch hold
  nothing up. Excepted is what no poller gets to (`Starved`): what lies behind a whole
  batch of such messages, which every poll lists again (section 11), or has grown
  too old for Graph's listing.
* **TrailTells**: the audit trail of a session is one legal way to its present
  status, however the handlers that judged it raced.
* **LedStaysLed**: a group that has a lead keeps having one, also when a promotion is
  refused half way.
* **UrgentKept**: no automatic decision gives a high or critical ticket to somebody
  who only supports its group, by any of the ways somebody can be picked.
* **BalanceReached**: while nothing but balancers act, two at once and from every
  distribution, no ticket is passed back and forth for ever.
* **LeavesEmptyHanded**: a handler that hands on an agent's work, alone, ends with the
  agent owning nothing open. With other handlers beside it the agent may be given
  work while the list is worked off; the property does not claim otherwise.
* **ClockExact**: the working time the engine counts from the start of a cycle is what
  has gone by, and the cycle is due, and warns, at the first instant at which that
  much has: early or late by nothing, over evenings, free days, holidays and a
  change of the clocks in a free night. Deadlines beyond the days whose holidays
  were loaded are excepted.
* **MailedOnce**: with one runner, no report goes out twice unless one went out and its
  audit event was lost.
* **ReportArrives**: a due report is sent although mails fail and the server was down,
  unless its week or month ends first or nobody is to receive it.
* **SilenceIsLoud**: a mailbox that stays silent is reported, once more after each
  recovery and after each restart, unless the alarm itself failed.
* **SubscriptionReturns**, **NeverLapses**: however the subscription was lost, there is
  one again; and none lapses while the server runs and its calls succeed.

Some properties are proved and no run repeats them: OneLiveSession,
SingleLead and HolidayHeld (section 10).

**Bounds.** `MaxRequests`, `MaxCycles` and `MaxNow` cap what would grow for ever;
they are guards of `Insert`, of the start of a reopening (`RoomForCycle`, so that
no handler gets stuck half way) and of `Tick`. `Movers` names the agents whose
account or presence changes; `Enabled` the handlers a run exercises; `MayFail` and
`FailAt` where a handler may stop; `ConfirmWindow`, `ResponseTarget` and
`ResolutionTargets` are durations in instants. One slot and two or three offers are
enough for a queue, a promotion, an overtaking and a rerouting; three agents for
an offerer, a recipient and a replacement; two workers for every race of two
handlers, which is what all the compare-and-sets are about. Two cycles are enough
for a cycle that is over and one that is current, three for two reopenings that
race for one number. Three instants let each clock be in time, approaching and
late, and a window of two instants pass, or be cut short, between 0 and 2.

In `intake`, `MaxMail`, `MaxFaults` and `MaxDeliveries` cap arrivals, failures and
notifications. Two workers and one message already race every statement of the
pipeline against every other; the second message is there to be a reply, to be
in one batch with the first, to be cut off by a batch of one, and to wait behind a
poisoned one: with batches of one it is then starved, with batches of two it must
not be. One fault, at any statement, is enough for every retry. `Starts` are the
workers turned on, the batch size and the kinds of the messages. `MailStarts` has
a mailbox with IMAP and Graph at once, Graph with its webhook, and one poller
alone.

In `desk`, `MaxSessions` and `MaxRows` cap the rows that are created; `Movers` names the
agent whose account, presence or group changes. Two sessions and two handlers
are every race for a slot and for a transition. Four membership ids let two
promotions start from a led group. Three tickets over three agents give
every shape of distribution that a threshold of two tells apart, and balancers
start from all of them. A cap of two is reached; one ticket is urgent, one is
old enough to be claimed. A limit of two groups per agent instead of three makes
the limit matter with two groups.

In `clock`, `LoadAhead` (6 days) stands for the 120 days of `HOLIDAY_HORIZON_MS` and
`Horizon` (24) for the 100 years of the day loops; `MaxNow` ends a behaviour after all due
instants of the settings. Windows that begin at midnight, end at midnight and lie within the
day, starts on every hour of two days, and targets that end within, on the edge of and
days after the first window are all among the 2106 combinations. The zone that changes its clocks does
so outside every window; inside is section 11's matter.

In `jobs`, `MaxNow` (27) lets two weeks and a month end after the start; `MaxSlips`, `MaxMishaps` and
`MaxStops` cap faults, so that each property holds in the end; one stop may come
between any two statements. `MaxIds` (4) is one more than can be named or live at
once. Lifetimes of three units, renewed at one, leave room for a renewal that
fails and one that comes too late.

**Symmetry and views.** Agents outside `Movers`, tickets and workers are
interchangeable in the safety runs (`Symmetry`). `MCHandover` gives a `View`
that forgets the columns of a finished offer nobody is settling: no handler
reads them. The live runs use neither.

**Deadlock** is checked in the handover runs and the passing lifecycle runs. It is not in
`lifecycle_final` (with no reply, no sweep and no time left a closed ticket has
nothing more to do), in the intake run (all mail is handled and no more arrives) and
in the desk run (a balanced desk, and sessions or ids that have run out), nor in `clock`
and `jobs`, where time ends at `MaxNow`.

## 9. Fairness

`FairSpec` of `Handover` and `Lifecycle` assumes:

* weak fairness of the continuation of a handler that has begun (`Continues`): the
  event loop resumes a handler after each statement;
* strong fairness of `StartSweep`: the timer fires for ever. Strong, because a
  worker of the model may be busy with other handlers whenever it is looked at,
  while in the code the timer needs no such slot;
* in `Lifecycle`, strong fairness of `Notice`: an insert that is tried again and
  again does not fail for ever;
* in `Handover`, weak fairness of `Elapse`: time passes.

`Intake` assumes weak fairness of each poller's next statement or poll
(`Continues` or `StartPoll`): the event loop resumes a delivery and `setInterval` fires again.
Nothing is assumed of the webhook, whose delivery may never go on: `AllHandled` rests on
the pollers alone. Nothing makes Graph notify, mail arrive or an acknowledgement succeed at the first
try; faults are finitely many by their bound. `Desk` assumes weak fairness of the
balancers' timer and of the balancers' own statements, which is all `BalanceReached`
needs.

`Jobs` assumes that the process is started again (a supervisor restarts it), that
timers fire and an awaited call returns, each as weak fairness, and that days go
by. Reports' own clock is not fair: its properties let the week end. Nobody runs
the command line, nothing makes a mailbox answer, and no call is promised to
succeed: failures are finitely many by their bounds.

Nothing makes a person create, answer, cancel, reply or come back, so the
properties do not promise it: `PendingEnds` and `QueueMoves` let an offer wait
while its recipient is away, `BreachReported` lets a clock stop when the ticket is
resolved, answered or given another target.

## 10. Proofs

All theorems are of `Spec`, without fairness, for any constants that satisfy the
named assumptions of the modules (`HandoverAssumption`, `LifecycleAssumption`,
`IntakeAssumption`; `DirectoryAssumption`, `RemoteAssumption`, `GroupsAssumption`,
`WorkloadAssumption`; `CalendarAssumption`, `SlaAssumption`, `ReportsAssumption`,
`WatchdogAssumption`, `SubscriptionAssumption`, `JobsAssumption`).

`HandoverProofs.tla`:

* `TypeCorrect` (`TypeOK`). TypeOK alone is not inductive. `TypeInv` adds that a
  loop of `promoteQueue` that goes on has turns left (`TriesLeft`), without which
  the countdown would leave the naturals, and that a row that exists names a ticket
  (`RowsHaveTickets`), without which a handler would load a row with no ticket.
* `AnsweredOnceHolds` (`AnsweredOnce`). `ClaimInv` adds that the ids at or above
  `nextId` have no row (`RowsBelow`), so that an insert cannot revive the row of a
  claimed offer, and that a handler which answers works on an id below it
  (`AnswersKnown`). A claim needs PENDING or QUEUED, a handler past its claim has
  ACCEPTED or a deleted row: so a second claim is impossible.
* `AnswersFinalHolds` (`AnswersFinal`). By cases of the step: every statement that
  writes a status expects one of the active ones, inserts above `nextId`, deletes
  with the ticket, or is the undo of the accept that holds the claim.

`HandoverRefinement.tla`:

* `OfferKeptHolds` (`OfferKept`), assuming `MayFail = FALSE`: `Handover` implements
  `HandoverOffer`. `RefInv` adds to the invariants above that every row ever created
  names a ticket and a recipient who is not the requester, and every id not yet
  used names none (`RowsNamed`); that a handler which accepts, raises or reroutes
  holds what the row says or will say (`Loaded`); and that loops go over rows that
  were created (`TodoKnown`). Most steps are one of two kinds, and one lemma maps
  each: a step that touches no row is a stutter or hands a ticket on
  (`FrameKept`), and a conditional update of an active row is a stutter or `Close`
  (`SwapKept`). `Insert` is `Raise`, `ClaimAccepted` a stutter, `Move` is
  `Transfer` (AnsweredOnce says that nobody else still holds the claim), `Undo` is
  `Close` and `DeleteTicket` is `Delete`. The assumption is needed: an accept that
  stops between claim and move leaves an ACCEPTED offer whose ticket did not move.

`HandoverSerialProofs.tla` is about handlers that run one after the other
(`Serial`: there is one worker at most), for any numbers of agents, tickets and offers. Each theorem has the
weakest further assumptions we found, and each of these has a reason in the code;
the constants of the run that checks the property satisfy them all.

* `OneOfferHolds` (`OneOffer`), `SlotLimitHolds` (`SlotLimit`) and
  `FifoPromotionHolds` (`FifoPromotion`), with handlers that may be abandoned, any limits and
  deactivation. `SerialInv` adds to the invariants above that a ticket has one live
  offer (`OneEach`), and, for each label, that what the handler has read is still so
  (`Reading`): the count that decides between PENDING and QUEUED, the
  free slot of `promoteQueue` and that its offer is the oldest queued. The statements
  of other services (`Reassign`, `Reopen`, `SetLimit`, ...) are handlers of their own: with
  one worker they come between handlers, and only time (`Elapse`) passes inside one
  (`Between`).
* `NoOfferOnFinishedHolds` (`NoOfferOnFinished`), if no handler is abandoned:
  `FinishedInv` says that a live offer on a finished ticket is on the list of the
  handler that finished it, wherever that handler is, inside the promotions it
  calls included (`Cleaning`), and that an offer is only created for an open ticket.
* `PausedWhileAwayHolds` (`PausedWhileAway`), if moreover no account is deactivated:
  `AwayInv` says that a pending offer's clock fits its recipient's presence, or a
  handler that is to set the clocks of that recipient is on its way and has the
  offer on its list (`Knows`). Deactivation is left out because a disabled account
  that is still marked available has its queue promoted with frozen clocks, which
  nothing starts when the account is enabled again.
* `NoStrandedQueueHolds` (`NoStrandedQueue`), if moreover the limit stays as it is and no ticket
  is deleted: `ServedInv` says that a recipient with a queue has no free slot, or a
  handler owes the promotion (`Owed`), and that `promoteQueue` has as many turns left
  as there are slots free. A raised limit, a deleted ticket and a deactivated
  recipient leave slots that no statement fills.

`LifecycleProofs.tla`:

* `InvariantHolds`: the inductive invariant `IInv` is TypeOK, OnlyLatestOpen and
  `AllFit`: a handler that works on a row it found before still finds it; a
  handler about to insert cycle c + 1 has c at most n, and row c has ended; a
  priority change holds a priority. OnlyLatestOpen is not inductive without it,
  since other handlers write rows between `FindLatest` and `InsertCycle`. What
  makes the proof go through is that no statement ever reopens a row, and that
  the unique index lets only one handler insert after row n.
* `LifecycleTypeCorrect` (`TypeOK`), `OnlyLatestOpenHolds` (`OnlyLatestOpen`) from it.
* `CloseFromResolvedHolds` (`CloseFromResolved`), directly from the actions: the
  only writes of CLOSED are the force close, the confirmation and the auto-close,
  and each repeats RESOLVED in its condition.
* `RowLeftForCycle`, for finitely many workers and at least one row: the code numbers cycles without end,
  the model up to MaxCycles, and no handler on its way to insert a cycle is ever stopped
  by that. `RoomInv` counts the handlers bound to insert one (`Wanting`): rows and
  claims together stay within MaxCycles, since `RoomForCycle` admits a claim only while
  there is room for it, each insert turns one claim into one row, and a failure or a lost race only
  gives a claim up. That `Wanting` moves by at most one at a step is a lemma on cardinalities (`WantingMoves`).

* `AutoCloseEarnedHolds` (`AutoCloseEarned`), for any number of handlers. `Stamped` says that the
  instant a sweep has in hand is no later than now, `Earned` that a sweep about to close holds a
  list in which the window had passed, or that the ticket's resolution is not older than
  the list: a new resolution is stamped with now.

The other theorems of this module assume `Serial`. With two handlers they are false: a note
and a sweep that judge one row by what each has read record a breach twice, or beside an
answer in time, and a rework meets a reply.

* `NoFalseBreachHolds` (`NoFalseBreach`) and `RecordedOnceHolds` (`RecordedOnce`), wherever
  handlers fail. `RecordInv` says that a breach is on record only of a row whose
  answer is late, or missing when it is too late (`Recorded`), and what each handler holds
  against its row (`Holds`): whoever is about to record has seen no event, which is
  still so, and whoever has judged a row late still finds it late, since time and
  answers only make it later.
* `OpenIffWorkingHolds` (`OpenIffWorking`) and `MirrorMatchesHolds` (`MirrorMatches`), if
  there is a handler at all and nothing fails but the sweep's insert (`FailAt \subseteq {"notice"}`): `PhaseInv` says for each label how the
  open rows fit the state between the statements (`Phase`), and what the handler has still to
  copy to the ticket (`Mirrored`). A handler cut off between the change of state and
  its cycle leaves the two apart, as the code does.

`IntakeProofs.tla`:

* The inductive invariant `IInv` is TypeOK, SeenMeansKept and two parts more.
  `RowsFit`: the tickets that comments and messages name exist. `WorkOK`, for each
  worker: what its statement knows of the message in hand, above all that whoever
  is about to acknowledge (`mark`) holds a message that is recorded or to be
  dropped. The proof has one case per action.
* `IntakeTypeCorrect` (`TypeOK`) and `SeenMeansKeptHolds` (`SeenMeansKept`) are parts of it. A
  worker comes to `mark` from an insert, from finding a row with the same identity, or
  from a deliberate drop.
* `RetriesRecordOnceHolds` (`RetriesRecordOnce`), for any mailbox, faults and restarts. `SoleInv` says
  that, with one channel on, no other worker leaves its rest, every row has that
  channel's source, and what the duplicate checks have ruled out for the message in
  hand is still so. Rows of the one source are what `Matches` recognises; those of
  another would pass the checks, which is why two channels record twice (section 11).
* `BytesKeptHolds` (`BytesKept`), for any number of deliveries and any faults.
  `KeyInv` says that a key names the delivery's worker and message wherever a row holds it, and that
  the key a delivery stores its files under is in no row while it is before its insert
  (`OwnKey`): a row with that key is of the delivery's own source, and the duplicate
  checks would have seen it.
* `NoOrphanedBytesHolds` (`NoOrphanedBytes`) from `IInv` and `KeyInv`: uploads come from a delivery that is going
  to insert or clean up, a key that a row names stays named, and an activity whose
  files `createRows` refused (`CommentNames`) is of a message whose ticket it is on, and
  stays so (`RefusedStays`), or repeats one that the check before it would have found.
* `ClockStartedHolds` (`ClockStarted`) from `IInv`: a worker at `startClock` leaves it only by starting
  the clock of its thread, and only such a worker, or the end of the ticket, has a
  clock stopped. Both say nothing after a fault: a restart drops who was to clean up
  or to start the clock.

`DeskProofs.tla` (for every mix and crew, `UrgentKeptHolds` apart):

* `OneLiveSessionHolds` (a ticket and an agent have one live session each), `TrailTellsHolds` from `RemoteInv`, which is both together with the
  types: a status is written only where it still is what was judged, and its
  audit row with it.
* `SingleLeadHolds` (a group has one lead at most) and `LedStaysLedHolds` from `GroupsInv`: the rows satisfy the unique indexes,
  ids lie below the sequence, and `TxOK`: what a transaction has seen to demote is
  of its own group and only while it inserts a lead, and the row it deletes is no
  lead. Leads are demoted only in a commit that inserts one.
* `DeskTypeCorrect` (`TypeOK`) from `DeskInv`: these, and that a balancer at its move has moves
  left (without it the countdown would leave the naturals) and only handlers that
  shed work go over lists.
* `LeavesEmptyHandedHolds` from `SoleInv`: with a crew of one, whatever the agent still owns
  is on the list or in hand, and nothing gives the agent work in between.
* `UrgentKeptHolds` (`UrgentKept`), for starts whose mix and crew are `Settled`: a crew of
  one; or no operation of the mix writes memberships and primary groups, nor, beside
  the balancer, the groups of tickets (`Still`); or nothing in the mix decides by itself (`Undeciding`).
  `SpareInv` says that handlers in flight are of the mix (`InMix`) and that a decision
  in flight does not give an urgent ticket to a supporting member (`Sparing`), from lemmas on what the
  engine's operators return (`SearchSpares`, `AssignSpares`). The starts of the
  run are all settled. Without the assumption it is false: a lead can become a
  supporting member between the decision and the write.

`JobsProofs.tla`:

* `MailedOnceHolds` (`MailedOnce`). `ReportInv` adds that only who sends reports is ever
  at a step of a run (`OthersRest`), and, while one runner sends and nothing is
  unrecorded, that what has gone out is exactly what is recorded and the report
  the runner has just mailed, and that a report about to be mailed is not recorded
  (`Accounted`). Two runners break the last part: what one has checked the other
  may record.
* `NeverLapsesHolds` (`NeverLapses`), for any lifetime, margin, addresses and number of restarts. `CalmInv` says
  that, as long as no call has failed and Graph has dropped nothing, only the timer calls Graph,
  there is one row at most and it agrees with Graph, except between the two halves of a
  renewal (`RowTrue`); that each step of a call works on that row, or finds none
  (`CallTrue`); and that once the timer has fired and its calls have returned, a row that points here has more than
  a unit left (`Renewed`). After a failure the row and Graph may disagree, and that
  one comes back is liveness (`SubscriptionReturns`).

`SlaClockProofs.tla`:

* `HolidayHeldEast` (`HolidayHeld`), for zones with offsets of 0 to a day: a date of the
  holiday table is read as an instant, UTC midnight, whose local day is then the
  date itself (`KeysAreDates`, from the division lemma `SameDay`). The assumption is needed:
  west of UTC that instant is still the day before.
* `ClockExactHolds` (`ClockExact`), for every calendar, holiday table, target and start
  that is `Ordinary`. The argument has four parts.
  - *Windows.* On a day of the working week an instant is between `Opens` and `Closes` exactly
    if the zone's clocks show that day and an hour of the window (`WindowHolds`), windows come one
    after the other (`WindowsInOrder`), and `NextWorkingMoment` is the first working
    moment not before the start (`RollsForward`).
  - *Counting.* Over an hour, the part of one day's window only grows, by one, if it is that day
    and the hour is worked (`PartStep`); so `WorkingBetween` starts at 0 and moves by
    exactly the hours worked (`BetweenStarts`, `BetweenStep`).
  - *Adding.* The days looked ahead use up the amount (`UsedGrows`), so the loop returns;
    it returns the end of a worked hour, and `WorkingBetween` up to there is the amount
    (`Lands`).
  - *The clock.* `ClockInv` adds that `worked` is `WorkingBetween` with the whole holiday table and
    that the due instants are what `AddWorking` gave with the holidays loaded for the cycle:
    `ClockExact` speaks of `worked` and of two instants, which alone say nothing of how
    they came about. Holidays loaded for fewer days make the same hours count
    (`HolidaysLoaded`, `BetweenAgrees`), so the two counts agree up to now (`ElapsedIs`) and
    up to the due instant (`ReachedIs`).

  The running sums are recursive functions. That they exist and what they add up to is
  induction over days, and agreement of two counts is induction over hours; both go by the least
  element of a set that would break it (`LeastInt`, `SameSteps`, `LargerSteps`, `BeforeIs`).

  What `Ordinary` assumes of the settings, each of which the statement needs:
  `Steady`: one offset rules each working day and is the one `FromWall` reads at its edges, that is,
  no change of the clocks within a working day or an offset's width of it; `InOrder`:
  the local date never goes back (a change at midnight sharp could); `KeysKept`: no holidays, or
  offsets of 0 to a day, as above; `Fits`: the `Horizon` days ahead (36600 in the code,
  which throws otherwise) have room for the target with the holidays of the table; `InReach`: a
  behaviour ends within those days. A change of the clocks on a Sunday night with
  Sunday and Monday morning's first hours free is allowed. All 234 settings of
  `clock` are `Ordinary`, and `ClockInv` was checked on that run before it was proved.
* `ClockExactFixedZones` (`ClockExact`): zones that keep one offset east of UTC are `Steady`
  and `InOrder` (`FixedZone`), so that only `Fits` and `InReach` remain. The default,
  `Africa/Lagos`, is such a zone.
* `AddIsInverse`: `WorkingBetween` gives back what `AddWorking` added, for any start, amount and set of
  holidays, if both are given the same set. `TargetRecoveredNoHolidays` (`TargetRecovered`): so the
  dashboard recovers a cycle's target when the table is empty; section 11 says what it
  shows otherwise.

Only model-checked: the liveness properties (PendingEnds, QueueMoves, BreachReported,
AllHandled, BalanceReached, ReportArrives, SilenceIsLoud, SubscriptionReturns). Liveness
under fairness, and ENABLED, are outside the prover's reach.

Every other property of a passing run is a theorem. The concurrent
counterparts of the theorems that assume `Serial` cannot be theorems: sections 8 and 11
and the reasons above name behaviours that break them.

## 11. What the runs found

* `lifecycle_final`: "CLOSED is final" is not so under a race. A start or rework is
  an update by id, so it overwrites a confirmation or an auto-close that came
  between its read and its write.

More disagreements show with the same modules and other constants (keep the
rest of the named `.cfg`):

| Statement | What happens | To see it |
|---|---|---|
| `docs/handovers.md:27-30`: when a slot frees up the oldest queued request is activated | deactivating an agent with three raised offers can leave an offer QUEUED for a recipient with a free slot: `cancel` decides from the caller's snapshot whether it freed a slot (`handoverService.js:597`), and an earlier cancellation of the same loop has promoted the offer meanwhile | `handover_queue.cfg` with `Limits = {1}`, `MayFail = FALSE`, `INVARIANT NoStrandedQueue` |
| `handoverService.js:284-285`: two simultaneous requests cannot both claim the last slot | READ COMMITTED lets both count before either inserts | `handover_concurrent.cfg` with two tickets, `Enabled = {"create"}`, `PROPERTY SlotLimit` |
| `slaSweeper.js:41-44`: a sweep and `finalizeOpenCycle` can never both write | the latter checks for the event and inserts it between the sweep's claim and the sweep's insert | `lifecycle_final.cfg` with `MaxCycles = 1`, `MaxNow = 2`, `ResponseTarget = 1`, `ConfirmWindow = 1`, `Enabled = {"create", "change", "sweep"}`, `INVARIANT RecordedOnce` |
| `schema.prisma:609-611`: a cycle's row is never rewritten after it ended | a first public note on a resolved ticket writes into the ended cycle; no race is needed | `lifecycle_serial.cfg` with `Enabled = {"create", "change", "note"}`, `PROPERTY EndedRowFinal` |
| `resolutionSweeper.js:4-7`: the sweep closes RESOLVED tickets once their confirmation window has passed | the write asks for RESOLVED alone: a ticket reopened and resolved again after the sweep made its list is closed without a new window | `lifecycle_concurrent.cfg` with `PROPERTY WindowKept` |
| `ticketIntake.js:69-73`, `schema.prisma:279-282`: the identity is shared, and one mailbox fed by two sources can never double-ticket; `imap/mailService.js:19-21`: retrying can never duplicate a ticket or a comment | Graph's client never asks for `internetMessageId` (`graphClient.js:88-89`), so its rows and its duplicate checks have none: a message that both channels read before either flags it becomes two tickets, one after the other, without any race of statements | `intake.cfg` with `SPECIFICATION Spec`, no `PROPERTIES`, `Starts <- TwoSources`, `INVARIANT RecordedOnce` |
| the same, of one source | poller and webhook both pass the duplicate checks, one creates the ticket, and the other's `resolveThread` finds that ticket by its conversation: the message is a ticket *and* an activity on it; the two unique indexes are of two tables | `intake.cfg` with `SPECIFICATION Spec`, no `PROPERTIES`, `Starts <- Pushed`, `INVARIANT RecordedOnce` |
| `attachmentService.js:17-18`: uploads are cleaned up, so no orphaned binaries accumulate (`ticketIntake.js:759-761` likewise) | in the race of the row before, `createRows` finds the ticket's attachment of the same message, name and size and creates no row; nothing has failed, so nobody removes the second upload | `intake.cfg` with `SPECIFICATION Spec`, no `PROPERTIES`, `Starts <- Pushed`, `INVARIANT NoOrphans` |
| `imap/mailService.js:215`: per-message failures are contained inside `processOne` | a message that never decodes stays unseen, and each poll lists the first `pollBatchSize` unseen messages (243): as many such messages as a batch holds keep the poller from all that come after (before, for Graph's newest-first listing) | `intake.cfg` with no `INVARIANTS`, `PROPERTY Contained` |
| `workloadService.js:14-17`: if another worker moved the ticket first, zero rows match | for a ticket that has left its own group `returnToOriginatingGroup` (408) reads the row again and `moveTicket` then expects the *new* owner: the ticket a colleague has just taken is handed to somebody else | `desk.cfg` with `SPECIFICATION Spec`, `Starts <- StrayStarts`, no `INVARIANTS`, `PROPERTY ShedsOwnOnly` |
| `reportScheduler.js:23-26`: overlapping ticks or a re-run CLI can never send twice | the timer and the command line both find no `report.sent` event, and both send | `jobs.cfg` with `SPECIFICATION Spec`, `Starts <- BothStarts`, no `PROPERTIES`, `INVARIANT NeverTwice` |
| `ingestionWatchdog.js:20-22`: a watchdog failure is retried by the next tick | the incident is noted before the administrators are loaded; if loading fails the alarm is dropped, and later ticks stay quiet for the rest of the incident | `jobs.cfg` with no `INVARIANT`, `PROPERTY AlarmRetried` |
| `webhookProcessor.js:97-99`: a vanished subscription is fixed by the ordinary ensure/renew path | `ensureSubscription` looks at the row, which is neither expired nor near it, and calls the subscription current; the loss lasts until the next renewal | `jobs.cfg` with no `INVARIANT`, `PROPERTY RemovalFixed` |
| `slaClock.js:136-138`: holidays compare against the zone's calendar days | `dayKey` of a date's UTC midnight is, west of UTC, the day before: the day before the holiday is free and the holiday is worked | `clock.cfg` with `Policies <- AllPolicies`, `INVARIANT HolidayHeld` |
| `slaService.js:764-765`, `slaReport.js:17-19`: `addWorkingMs` and `workingMsBetween` are inverses, so the target is recovered exactly | both callers count without the holidays the due instant was computed with, so a cycle over a holiday shows a longer target than it got | `clock.cfg` with `INVARIANT TargetRecovered` |

While modelling, more behaviours were seen that no document speaks about, or only
a comment:

* an accept that fails between its claim and the move of the ticket leaves an
  ACCEPTED offer and the ticket where it was;
* two simultaneous creations can put two live offers on one ticket;
* a reply whose reopening fails is a duplicate at the retry: the activity is
  there and the ticket stays finished;
* going unavailable writes `isActive: true` with the presence, which enables an account
  that was disabled while its tickets were being handed on;
* a claim is checked on a NEW ticket and written on any open one of the same owner;
* the cap and the limit of groups are read and written apart, so two at once
  exceed them, and changing a primary group writes no membership and counts none;
* the fallback's comment (`assignmentEngine.js:424-427`) says every agent of another
  group is blocked for urgent tickets; the query blocks those with a membership
  in the ticket's group;
* holidays are loaded 120 days ahead ("comfortably beyond the longest target",
  `slaService.js:47`), while the settings allow targets of 2160 working hours: a
  deadline beyond that misses the holidays in between. `ClockExact` excuses it by the
  first condition of `Reached`;
* `fromWall` and `wallToInstant` ("2-pass DST-safe") correct once, by the offset at the
  reading taken for UTC: for a reading within an offset's width of a change of the clocks the
  instant is an hour off. Only a window edge or a send moment in those hours is
  touched;
* a lapsed remote request keeps its agent's only slot until somebody looks.

## 12. Plan

Modules, in the order they are worth writing:

1. `Handover`, `HandoverOffer`, `HandoverProofs`, `HandoverRefinement`,
   `HandoverSerialProofs` – done.
2. `Lifecycle`, `LifecycleProofs` – done.
3. `Intake`, `IntakeProofs` – done.
4. `Directory`, `RemoteAccess`, `Groups`, `Workload`, `Desk`, `DeskProofs` – done.
5. `Calendar`, `SlaClock`, `SlaClockProofs` – done.
6. `Reports`, `Watchdog`, `Subscription`, `Jobs`, `JobsProofs` – done.
7. The availability periods and the precedence of routing rules.

Theorems worth having next: `NoOfferOnFinished` and
`NoStrandedQueue` with deactivation, once the code promotes where section 11 says
it does not.

## 13. Not modelled

Email parsing and relevance triage (string heuristics and an external model), the
wire protocols of IMAP and Graph with their tokens, the precedence of routing
rules, the aggregation behind reports, outbound mail, authentication, rate limits and headers, and the React client, which leaves every
decision to the server. They, with the test scripts (`server/scripts/`), are most of
the repository's lines and keep no state that handlers race for.

In the parts that are modelled: `setLead` and the membership backfill (called by no
route), `lastAssignedAt` (any of the tied agents may be picked), the deletion of
tickets and accounts outside `Handover`, the availability periods, the limits on
attachments, the wording of histories, editing a ticket's text, the SLA
backfill script, the report-enabled settings, Graph's `reauthorizationRequired`
notice and the cap on stored durations (section 7).
