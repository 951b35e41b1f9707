# kandev: a verification development of unattended launches and durable delivery

kandev is a control plane for coding agents. A Go backend keeps tasks, workflows,
agents and their sessions in a SQL database (SQLite by default, PostgreSQL as an
option) and starts agent processes; a TypeScript web application and a Rust desktop
shell drive it. Two parts of it have to be right when nobody looks. The part called
*Office* lets agents work unattended, and a handful of gates around one table, `runs`,
stop it from launching itself into the ground. And *agentctl*, the process beside each
agent, hands every prompt to the agent and every event of the agent to the backend
across crashes, lost connections and full journals. This directory models both in TLA+,
model-checks them with TLC, and proves the main safety properties with TLAPS. Paths
below are relative to `src/apps/backend/internal/` unless they start with `docs/`.

## How a launch happens

1. A producer (a comment, an assignment, a routine fire, a workflow step, another
   agent) calls `QueueRun` of `runs/service`. It deduplicates by key, merges the request
   into a queued run, or resolves what caused it and inserts a `queued` row.
2. The scheduler of `office/service` wakes on a signal or a ticker and calls
   `ClaimNextEligibleRun`. One transaction scans due rows in claim order, evaluates
   ceilings and budgets for each, moves the first that clears them to `claimed` and
   appends a row to `office_launch_ledger`.
3. The scheduler prepares the launch: pause gate, agent status, task checkout, prompt,
   provider routing, a second pause gate, process start.
4. Completion events, launch errors, retries, provider parks, recovery sweeps, operator
   cancels, workspace pauses and the host's session ceiling each move the row somewhere,
   each in a transaction of its own and several without looking at its status.

5. The launched agent's prompts go through agentctl's journal of submissions, and its
   events come back over a stream that the backend acknowledges only when they are safe.

`RunAdmission` models step 1, `RunQueue` steps 2 and 4, `WorkspacePause` step 3 as far as
a pause can meet it, with the launches that the session ceiling defers and replays, and
`PromptSubmission`, `StreamWriter`, `AgentDelivery` and `DurabilityBarrier` step 5.

## Inventory

### Runs queue (`runs/repository/sqlite`, `office/repository/sqlite/run_routing.go`)

State: the row of every run (status, priority class, requested, claimed and retry
times, routing block), the append-only launch ledger, and `max_concurrent_sessions` of
the agent profiles. Operations: insert, claim, finish, fail, cancel by selector, two
kinds of retry, requeue for the next provider candidate, the recovery sweep, two parks,
three lifts, and the settlements of the session ceiling. It is correct when claims never
exceed the three ceilings, when no rolling hour exceeds a budget, and when claim order is
respected among runs that the same gates decide on. The hard part is that some fifteen
writers share one status column and only some of them compare before they set.

### Admission (`runs/service`, `runs/repository/sqlite/enqueue_tx.go`, `causation.go`)

State: the identity of a row (idempotency key, wake wave), its lineage (root, parent,
depth, human-rooted flag, routine, actor), and its payload. Operations: the enqueue
transaction and, as far as the gates read it, the later life of the row including its
deletion by retention. It is correct when an identity is admitted once, a merged request
still has its launch ahead, an agent cannot wake itself beyond its allowances, and lineage
survives every way a cause can be found. The hard parts are PostgreSQL's interleaving of
enqueues for different agents, and history that disappears.

### Scheduler and launch pipeline (`office/service/scheduler_integration.go` and others)

State: the claimed run as read at the claim (a snapshot that ages), the task checkout,
the agent's working status. Operations: `processRun`, `prepareAndLaunch`, the finish
handlers and the stale sweep. It is correct when a checkout has at most one holder, when
it is released on each early return, and when an agent's working status is cleared by the
run that set it. The hard part: every step is a separate transaction, and a cancel, a
pause or the recovery sweep may come between any two.

### Workspace pause (`office/pause`)

State: one pause record per workspace, and the sweep that follows it. A pause stops
queued work at three gates (dispatch, admission, just before the launch) and halts live
work by cancelling runs, releasing checkouts and stopping task executions, one call after
the other, any of which may fail and be tried again. Correct when a pause lets through
nothing but the launch that was already past its last gate, and when a sweep that met
none reaches whatever executes. Hard: the agent itself is stopped by a goroutine that nobody
waits for, and the session ceiling replays launches on its own.

### Assignments deferred by a pause (`office/repository/sqlite/deferred_assignments.go`, `office/service/paused_assignment_replay.go`)

State: one row per task with the assignment whose wake the pause refused. Operations:
record (with precedence rules for overwriting), replay on resume, replay by a recovery tick
that takes the first few rows, resolve. Correct when a recorded assignment that is still
the task's latest has a run or a pending row, and when no row waits for ever. The hard
part: each of them reads a row or a task and acts on it later.

### Provider routing (`office/scheduler`)

State: provider health, route attempts of a run, the parks. A run whose providers are
all unavailable is parked with a retry time or until somebody acts. Correct when each
park is lifted by the event it waits for. Parks and lifts are actions of `RunQueue`.

### Session ceiling (`system/sessioncapacity`, `office/service/ceiling_deferred_settlement.go`)

State: the host's live sessions and a deferred launch per task. A launch over the
host's capacity is deferred, its run is parked, and when a slot frees the launch is
replayed and the run settled straight to `claimed`. Correct when a deferred launch is
replayed or dropped once, and when what stops a launch also stops its replay.

### Retention (`office/retention`)

Deletes runs that completed before a window, above a floor per agent, in batches that
re-check eligibility at the delete. Other gates read the history it deletes.

### Producers (`office/wakeup`, `office/routines`, `scheduler/cron`, `office/scheduler/reactivity.go`)

Each decides whether and why to wake an agent, and what it knows of the cause. They are
the set `Requests` of the admission model.

### Durable agent delivery (`agentctl/journal`, `agentctl/server/api`, `agent/runtime/lifecycle`, `task/repository/sqlite/agent_delivery*.go`)

State: agentctl's journal of events with its acknowledged watermark; the backend's inbox
of receipts with projected and retired cursors; a processor per connection, which holds
chunks back to write them in batches; a worker that acknowledges. Operations: append,
replay, receive, batch, project, tell the orchestrator, wait for the durability barrier,
acknowledge, retire. Correct when the journal deletes only what would survive a power loss
of the backend, in order, and heard by the orchestrator, and when everything is deleted in
the end, for a full journal stops the agent. Hard: two processors overlap at a reconnect,
and the backend's SQLite commits are not synced.

### Stream writer (`agentctl/server/api/agent.go`)

State: a cursor per connection, one wake token shared by all. Each writer drains pages,
looks at the high water again, then waits. Correct when no commit falls between drain and
wait. Hard: the writer of a dead connection waits for the same token.

### Durability barrier (`db/durability_barrier.go`)

State: how many calls have arrived and how many are covered, one FULL commit under way.
Callers of `Await` share commits; the first leads a run, callers may give up. Correct when
a successful `Await` covers all commits before it, and when every call returns.

### Prompt submissions (`agentctl/journal/journal_submissions.go`, `agentctl/server/process`)

State: the journal row of each submission (received, accepted, dispatching, running, an
outcome), its retained terminal event, a dispatch lock, a sticky write failure. Correct
when an agent is called at most once per submission and an outcome is final, although the
dispatcher, the terminal event and a cancellation each record it and a restart classifies
what was in flight.

### Plugin delivery (`plugins/delivery`, `events/bus`)

State: the handlers that the bus has still to call for each event, a worker per plugin with
a queue, a ring buffer for the time the plugin is in error, and a cached status. Correct
when live events arrive in order and buffering makes no copies. Hard: a handler may publish
while others have still to be called, refreshes read the registry outside the lock, and
each concerns all plugins.

### Elsewhere in the backend

`orchestrator/messagequeue` holds prompts for busy sessions; `workflow/engine` moves tasks
through steps and decides quorums; `clarification` lets an agent wait for an answer;
`agent/runtime/dynamic` routes models with a circuit breaker. Each has protocol logic
worth a module; see the plan. The orchestrator, the rest of the runtime lifecycle,
worktrees, integrations, the gateway and the applications are mostly effects on the
outside world.

## Modules

| module | what it is |
|---|---|
| `LaunchGovernor` | abstract specification: running launches under three ceilings, a launch log under two budgets |
| `RunQueue` | the runs table: one action per transaction; implements `LaunchGovernor` |
| `RunQueueProofs` | types, ceilings, budgets, claim order and the refinement, proved |
| `MCRunQueue` | instances of `RunQueue` |
| `RunAdmission` | the enqueue transaction, causation and retention |
| `RunAdmissionProofs` | types, self-trigger allowances, chains and identities, proved |
| `ReliableStream` | abstract specification: events are consumed in order, power loss may undo only what can be replayed |
| `AgentDelivery` | one stream of events from append to acknowledgement; implements `ReliableStream` |
| `AgentDeliveryProofs` | acknowledged is durable, projected without gaps, told before forgotten, and the refinement, proved |
| `StreamWriter` | the writers of agentctl's event stream and their wake token |
| `DurabilityBarrier` | `Await`, `lead` and `run` of the barrier |
| `DurabilityBarrierProofs` | the barrier's types and coverage, and nobody stranded, proved |
| `WorkspacePause` | the launch pipeline and the ceiling's replays against pause, halt sweep and resume |
| `WorkspacePauseProofs` | one late launch, and what a clean sweep reaches, proved |
| `DeferredAssignments` | assignments refused by a pause, and their replays |
| `DeferredAssignmentsProofs` | no deferral is lost, proved |
| `PromptSubmission` | a prompt from the WebSocket to its outcome |
| `PromptSubmissionProofs` | one harness call per submission, final outcomes, proved |
| `PluginDelivery` | the bus as one plugin sees it, and the plugin's event worker |
| `PluginDeliveryProofs` | order of live events, no copies, proved |
| `MC...` | the instance of each component for TLC |

### RunQueue and the code

An action is one SQL transaction. SQLite has a single writer, and on PostgreSQL the claim
takes a lock, so each is atomic and everything between two of them interleaves. A
statement that compares status before it sets it is an action with that guard; one that
does not (`ScheduleRetry`, `ParkRunForProviderCapacity`, `RequeueRunForNextCandidate`,
`ClearAllParkedRoutingForWorkspace`) is an action without it, limited only to what its
callers can hold: a run that was claimed at some time. This is what makes a retry after a
cancel, or a lift after a finish, part of the model. Columns that are written once are
constants. `earliest_retry_at` follows `scheduled_retry_at` and shares its variable.
`ReadFaults` lets any gate fail to read its input, in which case the candidate is passed
over, as `claimGateBlocks` does.

`replayed` is the one history variable. A run that the session ceiling settles to
`claimed` did not go through the gates; it stays in `replayed` until it leaves `claimed`.
Ceilings and the refinement speak of `Governed`, the claimed runs that are not replayed;
the run `replay` shows what happens when they are counted too.

### RunAdmission and the code

`QueueRun` is `enqueueLocked` up to the insert, `CommitInsert` the insert and the commit.
On SQLite nothing comes between; on PostgreSQL the advisory lock keeps out only enqueues
of the same agent, so `open[a]` may hold a decision while other agents commit, rows are
claimed, and history is deleted. `Causes` lists what a producer may pass as the cause:
nothing, a run of the acting agent, the deepest run it holds (reactivity), or the carrier
of a task, which can outlive the run it names. Refusals and duplicates change no row and
are not steps. A merge is two steps too: `QueueRun` chooses the row, `CommitCoalesce`
updates it. The statement is one UPDATE, but its subselect and its write are not one
instant on PostgreSQL: under READ COMMITTED the write waits for a transaction that has the
row and then checks the id again and nothing else (`runs.go:709-723`). Deleted rows keep
their place with status `deleted` so that properties can still speak of them; no gate
reads them.

### AgentDelivery and the code

The journal is `HighWater`, `acked` and the kinds of the events; it is synced at every
append, so a crash of agentctl is the same as a disconnect. The backend's database is a
record of cursors and receipts, and there are two of it: `db`, what SQLite answers, and
`disk`, what a power loss leaves, which is where `synchronous=NORMAL` lives.
`AwaitBarrier` copies the one to the other; `BackgroundSync` may do so at any time. A
chunk is held in the processor's batch, a set of sequences that a duplicate does not
touch; another event flushes the batch first, a plain event's callback (`Notify`) comes
before its projection (`ProjectEvent`): the order of `stream_event_processor.go`. The
client forgets its connection before it drains the old processor (`agentctl/agent.go`), so
two may run; each connection has its own. The received cursor is left out: it is not read
by what is modelled. The refusal of a gap (`NoGap`) is kept as a guard although ordered
sending makes it unreachable, which `AgentDeliveryProofs` proves (`ConnSound`). After a
power loss that took the cursor row itself, the backend refuses events until it
bootstraps; `Bootstrap` says whether it may. Capacity counts events of unit size, with a
reserve for terminal events.

### WorkspacePause and the code

One workspace. The scheduler is one goroutine and its phases are the places where
`processRun` and `prepareAndLaunch` read or write the database. Operators run
`Pause` with its insert, its reread and one retry, then the sweep in the order of
`runHaltSweep`, with every sub-step free to fail.

A launch ends in one of four ways. `LaunchAgent` starts the agent and its session.
`DeferLaunch` is `ErrLaunchDeferredByCapacity`: the orchestrator stores the launch on the
task, the checkout is released and the run is parked whatever its status, or the park
fails and is only logged. `LaunchConflicts`: the task holds the record of another launch, so
this one is a failure. `HandleRunFailure` retries. A record is later replayed
(`ReplayDeferredLaunch`: no gate is read, the run is settled only if it is still parked) or
dropped. Stopping an execution is two steps. `CancelTaskExecution` marks the task's session
cancelled and hands the agent to a goroutine; it may find no session, which the sweep
counts as done. `StopAgent` is that goroutine, and may fail, which is only logged.

`late`, `replayed` and `backlog` are history: what the scheduler let through under the
active pause, what the ceiling replayed under it, and what was on record when it began.
`missed` of a request is history too: what executes although the sweep's own call has
passed its task by. Ages, timeouts and capacity are nondeterministic. Left out: runs
without a task, tasks of heavy routines, sessions that outlive their agent, the lift of a
park by provider health and the recovery of stale claims (both in `RunQueue`); a replay
that fails or is deferred again changes nothing here; a settlement that fails and is
repeated by a later event is one step with the replay. That a sweep delayed past a resume
can stop newer work is the third window the design documents.

### DeferredAssignments and the code

A wake goes through gate, read and write, a replay through list, validate, queue, insert
and resolve, each a step. The queries order rows by `created_at`, a wall clock that may
stand still or go back and has no tie-breaker, so `Pending` is any list of the pending
rows and the tick takes the first `ReplayLimit` of it. A row without an actor is replayed
by the service, which reports a stopped agent as `ErrAgentNotRunnable`, and the row is
dropped (`DropRefused`). A row with an actor is replayed by the scheduler, whose
`guardAgentStatus` reports it as a plain error, and the row stays (`Skip`). A wake below a
chain at its depth limit (`deep`) is refused at admission for good; that too leaves the
row. `owed` and `excused` are history. `StopAgent` is permanent, the worst case: agents
that start again are not modelled, nor are deleted agents, whose rows both paths drop.
`ReplayLimit` is five in the code and one here. A run that a replay queues may be finished
by the gate of a newer pause, and one that a newer assignment has overtaken is cancelled
by the scheduler's staleness check; both are after the row is resolved and not part of
this model.

### PromptSubmission and the code

Two requests may carry the same submission. `DispatchDeliverySubmission` takes the dispatch
lock; the transitions are those of `validSubmissionTransition`. The agent may end a turn
before or after its call returns, with or without an error. A terminal event that the
journal refuses sets the sticky failure that `deliveryBlocked` reads. Steered prompts are
not modelled. An error event for a submission refused at dispatch leaves it accepted with
a retained terminal event, and a call that reports an error and returns nil ends
completed or failed by race: both are in the model, and `OutcomeIsFinal` holds of them.

### StreamWriter, DurabilityBarrier, PluginDelivery and the code

`StreamWriter` separates the commit from its wake signal, and the drain from the check and
the wait. Each WebSocket has a writer of its own, and a writer whose reader is gone lives
on until a write or a read fails; all take the same token. `DurabilityBarrier` makes every
critical section of the mutex a step; the nil barrier of PostgreSQL returns at once and is
left out. In `PluginDelivery` `Publish` is the snapshot of the bus and `invokeHandler` its
call of the plugin's handler: between the two other handlers run and may publish, and
other goroutines may, so the calls outstanding are a set in which any may be next.
`before` is history: the pairs of events of which the bus was through with the first when
the second was published. A subscription that ends takes its outstanding calls with it, or
some of them. A change of status that the registry makes and then reports as an error is
followed by no refresh. Each refresh reads, updates, resubscribes and flushes in separate
steps, as do the worker's status read and buffer write. A manual `Enable` does not flush.
Between unsubscribing and subscribing an event reaches nobody; that loss is in the model
and forbidden by nothing.

### Abstraction of data

A request, a key, a wave, a task, a payload and a prompt are model values; an event is its
number and its kind. Time is a counter, and windows are numbers of ticks; what matters is
which of two windows is longer, which the assumptions state. Counters of observability,
logs and error texts are left out.

## Runs

| run | checks | result |
|---|---|---|
| `ceilings` | `TypeOK`, `CeilingsHold`, `ImplementsGovernor` | holds, 175,860 states |
| `order` | `BudgetsHold`, `NoOvertaking` | holds, 1.9 million states |
| `replay` | `InstanceCeilingHolds` | violated |
| `admission` | `TypeOK`, `IdentityOnce`, `SelfTriggerBounded`, `ChainsSound` | holds, 3.4 million states |
| `delivery` | `AckedIsDurable`, `ProjectedInOrder`, `AckedWasTold`, `ImplementsStream`, `EventuallyAcknowledged` | holds, 580,436 states |
| `stale_writer` | `CommitNotLost` | violated |
| `barrier` | `AwaitCovers`, `WaitersHaveARun`, `EveryCallReturns` | holds, 292,623 states |
| `pause` | `LateLaunches`, `CleanSweepReaches` | holds, 5.9 million states |
| `deferral_kept` | `DeferralNotLost` | holds, 4.5 million states |
| `deferral_replayed` | `EventuallyReplayed` | holds, 1.2 million states |
| `prompt_once` | `CalledAtMostOnce`, `OutcomeIsFinal` | holds, 838,000 states |
| `plugin_delivery` | `LiveEventsInOrder`, `ReplayedOnce` | holds, 606,438 states |

**ceilings** has three runs. Two belong to an agent that serves two workspaces, as a
global profile does, so that the agent's own limit of two would exceed the workspace
ceiling of one if it were not clamped; the third competes for the same workspace. The
clock stands still, which removes retries and the recovery of stale claims and keeps
parks, lifts, settlements and profile edits. Retries and recoveries are in `order`, which
in turn has no parks; that ceilings and budgets survive all of them together is what the
theorems show.

**order** has one agent and workspace, a clock of three ticks, a window of two, a retry
delay, and runs of three classes, of which two pass the same gates and one is exempt from
budgets. Three launches fit, one more than the larger budget, so a window that is one tick
too narrow is noticed.

**admission** has eight requests that between them use every source of a cause and every
way to be a duplicate or to merge. A human's key goes to one agent and, by a run of that
agent, to another at the same time; a routine's wave, a comment's key, a task and a
malformed task meet within one coalescing window; one agent wakes itself for two reasons
under an allowance of one. Retention may delete after two ticks, so that a key is legally
admitted twice in some behaviours. Three rows make a root, a child and a grandchild, or
two roots and a child that could confuse them; a chain that would exceed its depth needs a
fourth, and the limit is shown by the proof.

**delivery** has two connections, two events of any of the kinds chunk, plain and terminal,
room for two with one reserved, and two faults out of disconnect, failed processor, refused
event, failed acknowledgement, expired cursor, crash and power loss. Two events suffice for
a held chunk and the event that must not pass it; two connections for an overlap; two
faults for a power loss after a retry.

**stale_writer** has two writers, pages of two and four events, so that a drain takes two
pages, and two lost connections. **barrier** has three callers: a leader, one that it
covers, and one that comes too late, with failing runs and cancellations.

**pause** has two runs of one task, which contend for its checkout and for its record of a
deferred launch, two operators, two pause records and one fault, so that two sweeps, a
sweep and a resume, or a resume and a second pause overlap, and any one read of a gate,
sub-step of a sweep or stop of an agent fails. The operators are symmetric.

**deferral_kept** has one task, two symmetric agents, two generations and two pauses.
**deferral_replayed** has two tasks and a tick that takes one row, so that a row that
cannot be replayed could starve the other. A task may be created unassigned and assigned by
an actor, so rows of both kinds are there.

**prompt_once** has two submissions, two requests that may carry either, two generations of
the stream and a restart. **plugin_delivery** has two events, a queue and a buffer of two,
two attempts, four status reports, so that the plugin fails and recovers twice, an enabling
by hand and a refresh for another plugin. The order is a statement about two events; for
any number of them there is the theorem.

### Bounds

`MaxRows`, `MaxLaunches`, `MaxTime`, `MaxSeq`, `MaxEvents`, `MaxPauses`, `MaxGeneration`,
`MaxReports` and `MaxFaults` cap what would grow forever; they appear only in guards.
Three rows suffice for every pair of identities with a third row between them, for a chain
with a grandchild, and for one launch more than each budget or allowance that is under
test. `MaxFaults` is one or two: what a fault undoes is repeated by the same code, so a
second matters only while the first is being repaired. The proofs do not depend on
the bounds.

### Deadlock and fairness

All runs switch deadlock checking off: an idle system at its bounds has nothing to do,
and that is how the bounded system ends. That a component is not stuck for another reason
is what the liveness properties say.

Fairness is weak and per goroutine. `delivery`: the processor of a connection and the
acknowledgement worker go on, and agentctl handles what it receives. Connecting is not
fair: only an expired cursor makes the client connect again by itself
(`agent/runtime/lifecycle/streams.go:467-492`), while a lost stream marks the execution
failed (`manager_events.go:963-1114` beside it) and a dial that fails is only logged, so
`EventuallyAcknowledged` has the connection as its premise. Faults are never fair, and
there are finitely many. `barrier`: the run's goroutine and each caller.
`deferral_replayed`: the recovery tick, a cron job, and each replay once begun. There is no
fairness of operators, agents or producers.

Eventual launch of a queued run is left out on purpose: the scan cap, closed budgets and
parks without a retry time each let a run wait indefinitely, by design.

## Properties

`CeilingsHold` and `BudgetsHold` are stated in `LaunchGovernor` over a set of running
launches and a log, and hold for every window, wherever it ends, although the code only
looks back from the moment of a claim. `NoOvertaking` is an action property: a claim of
one run while another, due and unparked and judged by the same gates, comes first in claim
order is a violation. It needs gates that can read their inputs, since a failed read
passes a candidate over.

`IdentityOnce` allows a second row with the same key only after more than the retention
window. Two mechanisms share the work: a lookup that reaches back a day, and a unique index
that lasts as long as the row.

`SelfTriggerBounded` counts deleted rows too, so it fails if retention is short enough to
let the gate forget. `ChainsSound` ties five columns of a row to the root of its chain.

`AckedIsDurable` compares the watermark of one machine with the synced disk of another.
`ProjectedInOrder` says that projected receipts have no hole, on disk and in memory, with
two processors at work. `AckedWasTold`: a released event's callback was not skipped by a
crash. `ImplementsStream` says the three together are a reliable stream: a watermark never
goes back nor passes what is projected, and power loss undoes only what can be replayed.
`EventuallyAcknowledged` is the reason a journal does not fill up for ever: if the stream is
up again and again, then again and again all that was appended is acknowledged. After a
restart with everything projected and no event coming, only the connection itself makes the
worker acknowledge.

`AwaitCovers` and `EveryCallReturns` are what callers of the barrier rely on.
`WaitersHaveARun` is the part of the second that concerns states: a failed run, or a leader
that gives up, never leaves a caller asleep with nobody to wake it.

`LateLaunches` permits exactly the one run that had passed its last gate before the pause
existed, and says that the ceiling replays nothing under a pause but that run and what it
had on record; that it does replay those is a disagreement listed below.
`CleanSweepReaches` is what repeating a pause request is for: whatever executes after a
clean sweep is being stopped, or its stop failed, or the sweep's own call passed it by.
`DeferralNotLost` relates the task, the row, the runs and what was once recorded.
`EventuallyReplayed` says that a row waits for ever only if each replay leaves it as it is
(`Stuck`), or if as many rows are stuck as a tick takes; that there are such rows is listed
below too.

`CalledAtMostOnce` survives a restart between any two commits because a dispatch that was
in flight is classified, not repeated. `LiveEventsInOrder` and `ReplayedOnce` are what is
left of the plugin's ordering promise: order among events that were not buffered and were
not under way in the bus together, and no copies. `CommitNotLost` and
`InstanceCeilingHolds` are the two that are refuted.

Each property that holds has a mutant, an operator beside the definition it would replace,
that breaks it: an unclamped agent ceiling, a claim without its ledger row, a window one
tick short, claims by age alone, an index with the lookup's window, a human's request that
continues the chain it happened in, an allowance only per reason, an acknowledgement
without the barrier, a projection before the flush, a connection that does not schedule the
acknowledgement, a barrier that counts late arrivals, one whose failed run wakes nobody or
is tried again without end, a gate that does not know the pause, a sweep of the snapshot
only, a resolve that does not compare, a dispatch without the lock, a drain that copies.

## Findings

Each is the counterexample of a run that checks what a comment or a document says.

### Settled without a ceiling (`replay`)

`SettleCeilingDeferredRun` (`office/repository/sqlite/run_routing.go:139`) moves a
parked run to `claimed` without evaluating a ceiling and without a launch record.
`docs/specs/office/requirements/unattended-launch-safety.md:124` says that when a run is
claimed the system evaluates three ceilings and claims only if every one has spare
capacity; `docs/specs/office/requirements/launch-budgets.md:60` asks for one launch record
whenever a run transitions to `claimed`. The counterexample of run `replay`: a run is
claimed and parked by the session ceiling, a second run takes the single slot, and the
settlement of the first makes two claimed runs under an instance ceiling of one. The host's
session ceiling still bounds live sessions, so this is a disagreement about what `claimed`
counts, not about how many agents run.

### A wake taken by a dead connection (`stale_writer`)

The writer of a dead connection takes the only wake token and the live one waits behind the
high water until another event is committed. `agentctl/server/api/agent.go:451` says "a
racing commit cannot be lost between drain and wait".

## Other disagreements met while modelling

Each of the following is stated as a property beside its component, named in the heading,
and is not part of a run: the code does not keep it. To see the counterexample, name the
property in the configuration of the component (`SweptStaysCancelled`,
`HeadOfLineNotBlocked` and `MergedBeforeTheLaunch` as PROPERTY, the others as INVARIANT):
`WorkspacePause.cfg`, `DeferredAssignmentsReplayed.cfg`, `PluginDelivery.cfg`, and
`RunAdmission.cfg` with `Requests <- MergingRequests`. What the runs show instead is said
at each.

### Merged into a run that has started (`MergedBeforeTheLaunch`)

`coalesceRun` (`runs/repository/sqlite/runs.go:709`) finds a queued row in a subselect and
updates it by id. On PostgreSQL a claim may take the row in between: the payload of a
claimed run is replaced after its launch has read it, and the request counts as coalesced.
`runs/service/service.go:413` says that coalesced rows are merged into an existing queued
row. On SQLite, with one writer, it cannot happen. The properties of `admission` hold with
such merges.

### Launches replayed under a pause (`EveryLaunchPathIsGated`)

`retryOneDeferredCeilingLaunch` (`orchestrator/ceiling_replay.go:133`) reads neither the
pause of the workspace nor the status of the run. A launch that the session ceiling
deferred before the pause starts its agent under it.
`docs/specs/office/requirements/workspace-kill-switch.md:70` requires that every launch
path is gated. `LateLaunches` bounds the damage to what was on record when the pause began,
and one run more.

### A failed stop is forgotten (`FailedStopCanBeRetried`)

The sweep's `CancelTaskExecution` marks the session cancelled and stops the agent in a
goroutine whose error is only logged (`orchestrator/executor/executor_interaction.go:406`).
If the stop fails, neither the run nor the session is active any more, and a repeated pause
does not list the task. `office/repository/sqlite/workspace_pauses.go:242` says that the
list of active sessions is there so that "a failed stop can be retried", and
`docs/specs/office/system-design/workspace-kill-switch-02.md:64` builds the operator's
retry on it. `CleanSweepReaches` names the failed stop as one of the three exceptions.

### A launch behind the sweep (`CancellationCoversTheWindow`)

A launch that passed the last gate starts its agent after the sweep has stopped the task's
executions, and the agent goes on in the paused workspace.
`docs/specs/office/system-design/workspace-kill-switch-02.md:148` says the execution
cancellation covers it. `LateLaunches` shows that it is one launch at most, and
`CleanSweepReaches` speaks of sweeps that began without it.

### A cancelled run comes back (`SweptStaysCancelled`)

`ScheduleRetry` (`runs/repository/sqlite/runs.go:806`) sets `queued` whatever the status
was. A run waits for the checkout of its task, a pause's sweep cancels it,
`requeueContendedCheckout` queues it again. The comment at line 820 of the same file says
that an owner of a claimed row "must not resurrect a row a concurrent writer already
terminalized", and `docs/specs/office/requirements/workspace-kill-switch.md:221` that the
system shall "not restore runs cancelled by the halt sweep". `LateLaunches` shows that the
run does not launch while the pause holds; after the resume it does.

### The recovery tick is blocked (`HeadOfLineNotBlocked`)

A row with an actor whose agent is stopped is refused by `guardAgentStatus`
(`office/scheduler/run.go:541`) with an error that does not wrap `ErrAgentNotRunnable`, so
the replay keeps it, and the tick takes it first each time. The comment at
`office/service/paused_assignment_replay.go:198` says why such rows must be dropped: one
left pending "would head-of-line-block the bounded recovery-tick backstop forever". The
other way into such a row is a wake that admission refuses for the depth of its chain. In
the code the tick takes five rows, so five of them are needed. `EventuallyReplayed` has the
case as its exception.

### Order on the bus (`BusPreservesOrdering`)

`Publish` (`events/bus/memory.go:162`) calls its handlers one after the other, and a
handler may publish: a run queued by the handler of a comment announces itself before the
comment has reached the plugin. Line 173 says that synchronous delivery preserves ordering.
`LiveEventsInOrder` is what remains: events that the bus has not under way together.

### Flushed late, or not at all (`FlushedInOrder`, `RecoveryEmptiesBuffer`)

A flush puts events behind what is queued; and an event that the worker decided to buffer
before the drain is added after it and stays until the next recovery. The comment at
`plugins/delivery/deliverer.go:238` and `docs/specs/plugins/system-design/plugins-04.md:70`
say otherwise. `ReplayedOnce` shows that none is delivered twice.

## Proofs

Eight modules hold theorems, all checked to the last leaf. Every theorem holds for every
value of the constants that satisfies the assumptions listed below, so the bounds of the
runs do not limit it. The inductive invariants were checked by TLC on the instances above
before they were proved.

### The ceilings (`CeilingInvariant`, `CeilingsTheorem`)

The inductive invariant is `TypeOK`, `CeilingsHold`, and `ReplayedAreClaimed`: a replayed
run is claimed. The last is needed because a claim adds a run to `Claimed`, and only if
that run is not in `replayed` does it enter `Governed`, which is the set that the ceilings
bound. `StepShape` reduces all the actions to two cases, a claim or a step that takes
no slot; the rest is counting with `FiniteSetTheorems`. The gates count all of `Claimed`,
a superset of `Governed`, so room for the one is room for the other.

### The refinement (`Refinement`)

With the same invariant and the fact that no ledger row lies in the future, a claim maps to
`Start`, a tick to `Advance`, and all else to `Stop` or a stutter. The governor's clamp of
the agent ceiling is looser than the profile's own limit, so profile edits are stutters.

### The budgets (`BudgetsTheorem`)

The property speaks of all windows that end by now; a claim at time `now` belongs only to
windows that end at `now`, which is the one the gate counted, and as the clock moves a
window can only lose launches. The invariant adds that ledger rows are in the past.

### Claim order (`ClaimsInOrder`)

Proved for `ReadFaults = FALSE`: a gate that cannot read its input passes over the run it
was asked about, so an overtaking is then what the code does. Four facts carry it. Only a
claim appends to the ledger (`OnlyClaimsAppend`). Claim order is total and transitive. The
scan visits every run that precedes one that it visits (`ScanReachesAll`), so that the cap
on one attempt cuts off only the end of the order. And two runs with the same agent,
workspace, routine and kind of root see the same gates (`GatesAgree`), so the earlier one
would have been taken.

### Admission (`AdmissionTypeCorrect`)

`StepShape` of this module has three cases: the rows keep their frozen fields, an enqueue
resolves, an enqueue inserts. The type theorem shows that depth and root are
natural numbers although no guard checks them.

### Self-trigger allowances (`SelfTriggerTheorem`)

The invariant `SelfInv` adds to the bound of every window: rows are in the past; what
retention deleted lies outside the current window (`WindowKept`, which uses
`SelfTriggerWindow <= RetentionWindow`); and the room that an open enqueue saw is still
there (`PendingWithin`). The last is the point of the advisory lock: between check and
insert, only the same agent's enqueues could use up the room, and they are locked out.

### Chains (`ChainsTheorem`)

`ChainInv` adds that each pending row starts a chain or continues a sound one. A cause may
be deleted between the resolve and the insert; the lineage is copied, not looked up again,
so it does not matter.

### Identities (`IdentityTheorem`)

`IdentityInv` adds to `IdentityOnce` that rows are in the past, that a deleted row is older
than the retention window (`HistoryKept`), and that an open insert is not a deleted row
(`PendingLive`). The unique indexes refuse the identity of every row that is still there, so
what an insert repeats was deleted, and is as old as `HistoryKept` says. The idempotency
check before the insert is not used: it may be stale when the insert comes. A merge
changes only a payload, in whatever state the row is by then, and falls under the first case
of `StepShape`.

### The barrier (`BarrierTypes`, `BarrierCovers`, `NobodyIsStranded`)

`BarrierSound` has, beside the types, one conjunct per call (`CallSound`): a ticket was
given out before the counter passed it; a ticket below the covered counter has its commits
on disk; while a successful run waits to be published, so has every ticket below the run's
own; and a leader's ticket is below its run's once the window has closed. Coverage is
recorded when a run is published, not when it commits, so the invariant has to follow the
run through both. It holds for any set of callers. `NobodyIsStranded` uses two more
conjuncts: the flag `running` is up exactly while the run's goroutine is under way, and who
waits or leads has such a run. A caller goes to sleep only after it has seen the flag, in
the same critical section; `Publish` lowers the flag and wakes everybody in one. With it,
all that `EveryCallReturns` still needs is fairness.

### Prompt submissions (`HarnessCalledOnce`, `OutcomesAreFinal`)

The invariant has the two halves of the argument. `LockIsHeld`: a request between the check
of a submission's state and its settlement holds `deliverySubmissionMu`, so no two are
there at once. `UndispatchedNotCalled`: a submission in a state from which it can be
dispatched has not been given to the harness; the journal never returns to such a state,
also not over restarts of agentctl. `AboutToCall` follows a request through the section:
from the check to the call there has been no call, and the dispatch is in the journal
before the call. `OutcomesAreFinal` is the action theorem that the journal does not leave a
settled state, whichever of request, forwarder and recovery writes.

### Durable delivery (`AckedSurvives`, `ProjectionHasNoGap`, `ForgottenWasTold`)

One invariant serves the three. `DbSound`, for the committed and for the synced database:
the marked receipts are exactly those between the retired and the projected cursor.
`Synced`: acknowledged is at most projected on disk, which is at most projected.
`ConnSound`: whatever a processor has taken is projected or in its own batch. This is what
makes two processors at once harmless, because the one may find that the other has
projected what it holds. `WorkerSound` and `NetSound`: the worker keeps only what is
projected, and what it sends, and what is under way, the barrier has synced. `ToldSound`:
a plain event is projected only after its callback. A power loss takes `db` back to
`disk`, and all connections and the worker's snapshot with it; that is why the invariant
speaks of requests in the network, which survive.

The first attempt at this proof failed, and the model was wrong, not the code: the batch was
a count of events back from the last one taken, and a duplicate shifted it. It is now the
set of events held, as in the code.

### The stream (`Refinement` of `AgentDeliveryProofs`)

With the same invariant, an append maps to `Produce`, a projection to `Consume`, an
acknowledgement that reaches the journal to `Release`, a power loss to `Undo`, and all else
to a stutter.

### The pause (`OneLateLaunch`, `SweepReaches`)

`LateSound` says that while a pause holds at most one run was let through, that a
scheduler which is past its last gate then has a run that it claimed before and nothing
was let through yet, and that every record of a deferred launch is of that run or older
than the pause; so is what was replayed. `RunsSound` keeps that run from coming back: a
run that was let through is neither queued again nor in the scheduler's hands.
`AgentsSound` says that what executes has an active session, or a stop that is under way
or failed; without it the list of active sessions, from which the sweep works, would say
nothing of what executes. `HaltSound` follows one operator's clean sweep: while its own
pause is the active one, nothing is past the last gate, from the stop phase on everything
that executes belongs to a task still on the sweep's list or is accounted for, and after
the sweep the list is empty. `PausesSound` numbers the pauses, so that a later pause is
never taken for the sweep's own.

### Deferred assignments (`DeferralsAreKept`)

The record of a deferral, a reassignment and two replays each act on what they read before.
The invariant says what survives of such a read. `Follows`: a row, a wake that is about to
write one, and a row in a replay's hands are never newer than the task, and name its
assignee if they have its generation; so a late write cannot put an older assignment over a
newer one and be taken for it. `RowsSound`: a pending row names a recorded assignment.
`OwedPast`: what was recorded is not newer than the task, so an assignment that is made now
owes nothing yet. `ReplaySound`: a replay about to resolve a row has created its run, or
has found it moot (`Moot`: the task archived, the agent stopped, or the task assigned
again). The step that could lose a deferral is the resolution. It changes only a row that is
as it was read (`Unchanged`), so of the same generation; then either the run is there, or,
as the generation is the latest, the task is archived or the agent stopped, and the loss is
excused. Everything a replay has found stays true because of `Forward`: generations only
grow, archiving, stopping and created runs are not taken back.

The order in which a query returns the rows plays no part in it.

### Plugin delivery (`LiveOrder`, `NoCopies`)

An event can be in five places: among the calls that the bus has still to make, with the
worker, in the queue, in the buffer, in a flush. `Apart` says that it is in at most one of
them and there once, `OneFlush` that only the supervisor's refresh flushes,
`OnceDelivered` that what was delivered is in none but for a retry of the worker's own
event, and `Ordered` that delivered, in hand, queued and still to be called are in an
order that does not contradict `before` for the events that were never buffered. An event
still to be called is before nothing, which is why the nesting of publishers does no harm
to it. Which queue and which buffer size does not matter.

### Assumptions

`RunsAssumption`, `AttributesAssumption`, `LimitsAssumption` and `NoneAssumption` of
`RunQueue` type the constants and say that limits are at least one, which
`effectiveClaimLimits` ensures by replacing smaller values with defaults.
`RequestsAssumption` of `RunAdmission` types requests and says that only a routine fire,
which has no causing run, names a routine. `WindowsAssumption` says that retention keeps at
least a day (`minWindowDays`), which covers both the idempotency window and the
self-trigger hour. `BarrierAssumption` types the bounds of the barrier. The two
`DeliveryAssumption`s, `PauseAssumption` and `SubmissionAssumption` type the bounds and say
that the values for "no run", "no submission" and "no request" are none; queue, buffer and
attempts of a plugin are at least one. `DeferralAssumption` says that there are finitely
many tasks, that the tick is no operator and "no agent" no agent, and that a tick may take
at least one row and a task be assigned at least once. `ReadFaults = FALSE` is a hypothesis
of `ClaimsInOrder` alone. TLC evaluates those of a module in every run of that module.

### What is only model-checked

Every safety invariant and every action property of the passing runs is a theorem.
`EventuallyAcknowledged`, `EveryCallReturns` and `EventuallyReplayed` stay with TLC:
liveness under fairness and `ENABLED` are out of the prover's reach. `StreamWriter` has no
theorem: its claim is refuted.

## Not modelled, and why

- Prompt assembly, provider selection, working status, taskless runs and heavy-routine
  tasks of the scheduler: they do not take part in the races with a pause that are modelled.
- The inline enqueue of `office/service/run.go`, used only when no runs service is wired.
- `ClaimRun` and `CleanExpired`, which nothing outside the tests calls.
- Stream rollover; the recovery of a retained stream over HTTP, which acknowledges without the
  barrier (`retained_delivery_recovery.go:49`, `agentctl/journal/retained.go:305`) and suppresses
  callbacks (`durable_delivery_stream.go:75`), so that `AckedIsDurable` and `AckedWasTold` are
  statements about the live stream; payload compaction, and streams without a
  journal; `projectReceivedDeliveryPrefix`, which has nothing to do while the watermark is
  at most the projected cursor.
- Steered prompts and the backpressure of agentctl's producer.
- Disabling and uninstalling plugins, several subject patterns (a plugin whose patterns overlap
  gets an event once per pattern), queue subscriptions, the NATS bus.
- The other kinds of launch that the session ceiling can defer (prompts, resumes, workflow
  steps); only the start of a task by a run is modelled.
- Metrics, gate-outcome records, logs, notifications: nothing here reads them.
- Everything listed as `not_modelled` among the components: transport, processes,
  containers, git and external services have little state of their own that a model checker
  could explore, or are planned for later. The repository is large, and most of it is such
  code, generated code, or the applications' views.

## Plan

Components to add: `MessageQueue` (queued prompts of a session under take, requeue, edit
and clear, with a crash between take and delivery), `WorkflowQuorum` (decisions that arrive
after a step was entered again), `Clarification` (an answer, a timeout and a cancellation
that meet), `CircuitBreaker` (half-open under concurrent probes).

## Running

`tlc -workers 2 -config RunQueueCeilings.cfg MCRunQueue` and likewise for the other
configurations, each with the `MC` module of its component; `tlapm RunQueueProofs.tla` and
likewise for the other proof modules. The longest runs (`order`, `delivery`, `pause`,
`admission`) take two to three minutes each on two workers, each proof module under two
minutes.
