---------------------------- MODULE WorkspacePause ----------------------------
(***************************************************************************)
(* The kill switch of one Office workspace.  A pause record, once durable, *)
(* is what the launch paths of Office read; the request that wrote it then *)
(* sweeps what is in flight: runs, task checkouts and, by task, the        *)
(* executions, whose stops are only scheduled.  The scheduler, on one      *)
(* goroutine, takes one run at a time through two reads of the gate to a   *)
(* launch, which the session ceiling may defer: the orchestrator keeps a   *)
(* record by task and replays it, without reading the gate.  Dispatchers   *)
(* read the gate before they queue a run.  All of this interleaves freely. *)
(***************************************************************************)
EXTENDS Naturals, FiniteSets

CONSTANTS
  Runs, Tasks,
  Task,            \* the task in each run's payload
  Operators,       \* requests to pause or resume
  NoRun,
  MaxPauses,       \* bound: pause records
  MaxFaults        \* bound: reads, writes, sub-steps, launches and stops that fail

ASSUME PauseAssumption ==
  /\ Task \in [Runs -> Tasks] /\ NoRun \notin Runs
  /\ MaxPauses \in Nat /\ MaxFaults \in Nat

VARIABLES
  active,          \* the unreleased pause record, or 0
  pauses,          \* records created
  status,          \* the runs' rows
  claimedUnder,    \* the pause active when a run was last claimed
  checkout,        \* each task's checkout_run_id
  deferred,        \* each task's deferred_launch record: the run it will launch
  live,            \* runs whose agent executes
  session,         \* runs whose session is active in the database
  stopping,        \* runs whose detached stop is under way
  failed,          \* executing runs whose last stop failed
  scheduler,
  dispatched,      \* runs a dispatcher has read the gate for
  request,         \* the operators' requests
  late,            \* runs the scheduler launched or deferred while the active pause held
  replayed,        \* runs a replay launched while the active pause held
  backlog,         \* runs with a record when the active pause was created
  faults

vars == <<active, pauses, status, claimedUnder, checkout, deferred, live, session, stopping,
          failed, scheduler, dispatched, request, late, replayed, backlog, faults>>

(* A parked run is a queued row with routing_blocked_status, which no claim *)
(* takes.                                                                  *)
Inflight == {r \in Runs : status[r] \in {"queued", "parked", "claimed"}}

SchedulerType ==
  [phase : {"idle", "claimed", "admitted", "checkedout", "launching"},
   run : Runs \cup {NoRun}]

RequestType ==
  [phase : {"none", "insert", "reread", "list", "cancel", "release", "tasks", "stop",
            "swept", "resume"},
   attempt : 0..1,
   pause : Nat,             \* the record the request returns or releases
   runs : SUBSET Runs,      \* the snapshot of the sweep
   tasks : SUBSET Tasks,    \* the executions still to cancel
   missed : SUBSET Runs,    \* executing runs the sweep passed by
   clean : BOOLEAN]         \* begun with no launch under way, and no failure reported

(* Every variable has its type.                                            *)
TypeOK ==
  /\ active \in Nat /\ pauses \in Nat /\ faults \in Nat
  /\ status \in [Runs -> {"absent", "queued", "parked", "claimed", "cancelled", "finished"}]
  /\ claimedUnder \in [Runs -> Nat]
  /\ checkout \in [Tasks -> Runs \cup {NoRun}]
  /\ deferred \in [Tasks -> Runs \cup {NoRun}]
  /\ live \subseteq Runs /\ session \subseteq Runs /\ stopping \subseteq Runs
  /\ failed \subseteq Runs /\ dispatched \subseteq Runs
  /\ late \subseteq Runs /\ replayed \subseteq Runs /\ backlog \subseteq Runs
  /\ scheduler \in SchedulerType
  /\ request \in [Operators -> RequestType]

Quiet == [phase |-> "idle", run |-> NoRun]

NoRequest ==
  [phase |-> "none", attempt |-> 0, pause |-> 0, runs |-> {}, tasks |-> {},
   missed |-> {}, clean |-> FALSE]

Init ==
  /\ active = 0 /\ pauses = 0 /\ faults = 0
  /\ status = [r \in Runs |-> "absent"]
  /\ claimedUnder = [r \in Runs |-> 0]
  /\ checkout = [t \in Tasks |-> NoRun]
  /\ deferred = [t \in Tasks |-> NoRun]
  /\ live = {} /\ session = {} /\ stopping = {} /\ failed = {}
  /\ dispatched = {} /\ late = {} /\ replayed = {} /\ backlog = {}
  /\ scheduler = Quiet
  /\ request = [o \in Operators |-> NoRequest]

pauseState == <<active, pauses>>
underPause == <<late, replayed, backlog>>
agents == <<live, session, stopping, failed>>
rows == <<status, claimedUnder, checkout>>
runState == <<rows, deferred, agents, underPause>>

Fault == faults < MaxFaults /\ faults' = faults + 1

-----------------------------------------------------------------------------
(* A gate that does not know the active record.                            *)
GateIgnoresPause(answer) ==
  \/ answer = "running" /\ UNCHANGED faults
  \/ answer = "error" /\ Fault

(* Reading the gate: what it says, or an error, which is neither.          *)
pauseGateState(answer) ==
  \/ answer = "paused" /\ active # 0 /\ UNCHANGED faults
  \/ answer = "running" /\ active = 0 /\ UNCHANGED faults
  \/ answer = "error" /\ Fault

(* A dispatcher: the gate first, the row later.                            *)
CheckPauseGate(r) ==
  /\ status[r] = "absent" /\ r \notin dispatched
  /\ active = 0
  /\ dispatched' = dispatched \cup {r}
  /\ UNCHANGED <<pauseState, runState, scheduler, request, faults>>

CreateRun(r) ==
  /\ r \in dispatched
  /\ dispatched' = dispatched \ {r}
  /\ status' = [status EXCEPT ![r] = "queued"]
  /\ UNCHANGED <<pauseState, claimedUnder, checkout, deferred, agents, underPause,
                 scheduler, request, faults>>

-----------------------------------------------------------------------------
(* The scheduler.                                                          *)
ClaimNextRun(r) ==
  /\ scheduler.phase = "idle" /\ status[r] = "queued"
  /\ status' = [status EXCEPT ![r] = "claimed"]
  /\ claimedUnder' = [claimedUnder EXCEPT ![r] = active]
  /\ scheduler' = [phase |-> "claimed", run |-> r]
  /\ UNCHANGED <<pauseState, checkout, deferred, agents, underPause, dispatched,
                 request, faults>>

(* FinishRun and RequeueClaimedRun write a run that is still claimed.      *)
IfClaimed(r, next) ==
  status' = [status EXCEPT ![r] = IF @ = "claimed" THEN next ELSE @]

(* What a task's checkout becomes when run r gives it up.                  *)
ReleasedBy(r) ==
  [checkout EXCEPT ![Task[r]] = IF @ = r THEN NoRun ELSE @]

AdmitRunAgent ==
  LET r == scheduler.run
  IN  /\ scheduler.phase = "claimed"
      /\ \/ /\ pauseGateState("paused")
            /\ IfClaimed(r, "finished")
            /\ scheduler' = Quiet
         \/ /\ pauseGateState("error")
            /\ IfClaimed(r, "queued")
            /\ scheduler' = Quiet
         \/ /\ pauseGateState("running")
            /\ scheduler' = [scheduler EXCEPT !.phase = "admitted"]
            /\ UNCHANGED status
      /\ UNCHANGED <<pauseState, claimedUnder, checkout, deferred, agents, underPause,
                     dispatched, request>>

CheckoutTaskForRun ==
  LET r == scheduler.run
  IN  /\ scheduler.phase = "admitted"
      /\ checkout[Task[r]] \in {NoRun, r}
      /\ checkout' = [checkout EXCEPT ![Task[r]] = r]
      /\ scheduler' = [scheduler EXCEPT !.phase = "checkedout"]
      /\ UNCHANGED <<pauseState, status, claimedUnder, deferred, agents, underPause,
                     dispatched, request, faults>>

(* ScheduleRetry does not look at the status of the row.                   *)
ScheduleRetry(r) == status' = [status EXCEPT ![r] = "queued"]

RequeueContendedCheckout ==
  LET r == scheduler.run
  IN  /\ scheduler.phase = "admitted"
      /\ checkout[Task[r]] \notin {NoRun, r}
      /\ ScheduleRetry(r)
      /\ scheduler' = Quiet
      /\ UNCHANGED <<pauseState, claimedUnder, checkout, deferred, agents, underPause,
                     dispatched, request, faults>>

(* prepareAndLaunch's last read of the gate.                               *)
FinalGate ==
  LET r == scheduler.run
  IN  /\ scheduler.phase = "checkedout"
      /\ \/ /\ pauseGateState("paused")
            /\ checkout' = ReleasedBy(r)
            /\ IfClaimed(r, "finished")
            /\ scheduler' = Quiet
         \/ /\ pauseGateState("error")
            /\ checkout' = ReleasedBy(r)
            /\ IfClaimed(r, "queued")
            /\ scheduler' = Quiet
         \/ /\ pauseGateState("running")
            /\ scheduler' = [scheduler EXCEPT !.phase = "launching"]
            /\ UNCHANGED <<status, checkout>>
      /\ UNCHANGED <<pauseState, claimedUnder, deferred, agents, underPause,
                     dispatched, request>>

(* What the active pause lets through, if there is one.                    *)
NotedUnderPause(noted, r) == IF active = 0 THEN noted ELSE noted \cup {r}

LaunchAgent ==
  LET r == scheduler.run
  IN  /\ scheduler.phase = "launching"
      /\ live' = live \cup {r} /\ session' = session \cup {r}
      /\ late' = NotedUnderPause(late, r)
      /\ scheduler' = Quiet
      /\ UNCHANGED <<pauseState, rows, deferred, stopping, failed, replayed, backlog,
                     dispatched, request, faults>>

(***************************************************************************)
(* The session ceiling refuses the launch and the orchestrator stores the  *)
(* task's record of it; the run is parked, whatever its row says by now,   *)
(* or the write fails and is only logged.                                  *)
(***************************************************************************)
DeferLaunch ==
  LET r == scheduler.run
  IN  /\ scheduler.phase = "launching"
      /\ deferred[Task[r]] \in {NoRun, r}
      /\ deferred' = [deferred EXCEPT ![Task[r]] = r]
      /\ checkout' = ReleasedBy(r)
      /\ \/ status' = [status EXCEPT ![r] = "parked"] /\ UNCHANGED faults
         \/ Fault /\ UNCHANGED status
      /\ late' = NotedUnderPause(late, r)
      /\ scheduler' = Quiet
      /\ UNCHANGED <<pauseState, claimedUnder, agents, replayed, backlog, dispatched,
                     request>>

(* The record of another launch is kept, and this one is a failure.        *)
LaunchConflicts ==
  LET r == scheduler.run
  IN  /\ scheduler.phase = "launching"
      /\ deferred[Task[r]] \notin {NoRun, r}
      /\ checkout' = ReleasedBy(r)
      /\ ScheduleRetry(r)
      /\ scheduler' = Quiet
      /\ UNCHANGED <<pauseState, claimedUnder, deferred, agents, underPause,
                     dispatched, request, faults>>

(* A step before or of the launch fails: HandleRunFailure retries.         *)
HandleRunFailure ==
  LET r == scheduler.run
  IN  /\ scheduler.phase \in {"admitted", "checkedout", "launching"} /\ Fault
      /\ checkout' = IF scheduler.phase = "admitted" THEN checkout ELSE ReleasedBy(r)
      /\ ScheduleRetry(r)
      /\ scheduler' = Quiet
      /\ UNCHANGED <<pauseState, claimedUnder, deferred, agents, underPause,
                     dispatched, request>>

(* The end of an execution finishes a run that is still claimed.           *)
HandleAgentCompleted(r) ==
  /\ r \in live
  /\ live' = live \ {r} /\ session' = session \ {r}
  /\ stopping' = stopping \ {r} /\ failed' = failed \ {r}
  /\ IfClaimed(r, "finished")
  /\ checkout' = IF status[r] = "claimed" THEN ReleasedBy(r) ELSE checkout
  /\ UNCHANGED <<pauseState, claimedUnder, deferred, underPause, scheduler,
                 dispatched, request, faults>>

ReapStaleCheckouts(t) ==
  /\ checkout[t] # NoRun /\ checkout[t] \notin Inflight
  /\ checkout' = [checkout EXCEPT ![t] = NoRun]
  /\ UNCHANGED <<pauseState, status, claimedUnder, deferred, agents, underPause,
                 scheduler, dispatched, request, faults>>

-----------------------------------------------------------------------------
(* The ceiling sweep of the orchestrator reads neither the gate nor the    *)
(* status of the run: capacity is enough for it to launch.                 *)
IfParked(r, next) ==
  status' = [status EXCEPT ![r] = IF @ = "parked" THEN next ELSE @]

(* A sweep that is past task t does not see what starts there.             *)
PassedBy(o, t) == request[o].phase \in {"stop", "swept"} /\ t \notin request[o].tasks

ReplayDeferredLaunch(t) ==
  LET r == deferred[t]
  IN  /\ r # NoRun
      /\ deferred' = [deferred EXCEPT ![t] = NoRun]
      /\ live' = live \cup {r} /\ session' = session \cup {r}
      /\ IfParked(r, "claimed")
      /\ replayed' = NotedUnderPause(replayed, r)
      /\ request' = [o \in Operators |->
           [request[o] EXCEPT !.missed = IF PassedBy(o, t) THEN @ \cup {r} ELSE @]]
      /\ UNCHANGED <<pauseState, claimedUnder, checkout, stopping, failed, late,
                     backlog, scheduler, dispatched, faults>>

(* The task is archived or cancelled, or the launch can never succeed.     *)
DropDeferredLaunch(t) ==
  LET r == deferred[t]
  IN  /\ r # NoRun
      /\ deferred' = [deferred EXCEPT ![t] = NoRun]
      /\ IfParked(r, "finished")
      /\ UNCHANGED <<pauseState, claimedUnder, checkout, agents, underPause,
                     scheduler, dispatched, request, faults>>

-----------------------------------------------------------------------------
(* Pausing: insert, or find out which record is active.                    *)
RequestPause(o) ==
  /\ request[o].phase \in {"none", "swept"}
  /\ request' = [request EXCEPT ![o] = [NoRequest EXCEPT !.phase = "insert"]]
  /\ UNCHANGED <<pauseState, runState, scheduler, dispatched, faults>>

(* The sweep of pause p begins.                                            *)
Sweeping(o, p) ==
  request' = [request EXCEPT ![o] =
    [NoRequest EXCEPT !.phase = "list", !.pause = p,
       !.clean = scheduler.phase # "launching"]]

CreateWorkspacePause(o) ==
  /\ request[o].phase = "insert"
  /\ \/ /\ active = 0 /\ pauses < MaxPauses
        /\ pauses' = pauses + 1
        /\ active' = pauses + 1
        /\ late' = {} /\ replayed' = {}
        /\ backlog' = {deferred[t] : t \in Tasks} \ {NoRun}
        /\ Sweeping(o, pauses + 1)
     \/ /\ active # 0
        /\ request' = [request EXCEPT ![o].phase = "reread"]
        /\ UNCHANGED <<pauseState, underPause>>
  /\ UNCHANGED <<rows, deferred, agents, scheduler, dispatched, faults>>

(* A resume since the insert failed: one more try, then the request fails. *)
GetActiveWorkspacePause(o) ==
  /\ request[o].phase = "reread"
  /\ \/ active # 0 /\ Sweeping(o, active)
     \/ /\ active = 0 /\ request[o].attempt = 0
        /\ request' = [request EXCEPT ![o].phase = "insert", ![o].attempt = 1]
     \/ /\ active = 0 /\ request[o].attempt = 1
        /\ request' = [request EXCEPT ![o] = NoRequest]
  /\ UNCHANGED <<pauseState, runState, scheduler, dispatched, faults>>

(* Sub-steps of the sweep; each may fail and the sweep goes on.            *)
ListInflightRuns(o) ==
  /\ request[o].phase = "list"
  /\ request' = [request EXCEPT ![o].phase = "cancel", ![o].runs = Inflight]
  /\ UNCHANGED <<pauseState, runState, scheduler, dispatched, faults>>

CancelRunsForWorkspace(o) ==
  LET cancelled == request[o].runs \cap Inflight
  IN  /\ request[o].phase = "cancel"
      /\ status' = [r \in Runs |-> IF r \in cancelled THEN "cancelled" ELSE status[r]]
      /\ request' = [request EXCEPT ![o].phase = "release"]
      /\ UNCHANGED <<pauseState, claimedUnder, checkout, deferred, agents, underPause,
                     scheduler, dispatched, faults>>

ReleaseCheckoutsForWorkspace(o) ==
  /\ request[o].phase = "release"
  /\ checkout' = [t \in Tasks |->
       IF checkout[t] \in request[o].runs THEN NoRun ELSE checkout[t]]
  /\ request' = [request EXCEPT ![o].phase = "tasks"]
  /\ UNCHANGED <<pauseState, status, claimedUnder, deferred, agents, underPause,
                 scheduler, dispatched, faults>>

(* The executions of the snapshot's tasks alone.                           *)
SnapshotTasks(o) == {Task[r] : r \in request[o].runs}

(* Those, and every task with an active session of an Office agent.        *)
TasksToStop(o) == SnapshotTasks(o) \cup {Task[r] : r \in session}

ListLiveOfficeTasks(o) ==
  /\ request[o].phase = "tasks"
  /\ request' = [request EXCEPT ![o].phase = "stop", ![o].tasks = TasksToStop(o),
                                      ![o].runs = {}]
  /\ UNCHANGED <<pauseState, runState, scheduler, dispatched, faults>>

(***************************************************************************)
(* StopByTaskID cancels the sessions of what executes when it is called    *)
(* and schedules their stops; it does not wait for them.  A failed list or *)
(* lookup leaves executions out and is reported as nothing to stop; a      *)
(* failed write of the session is only logged.                             *)
(***************************************************************************)
CancelTaskExecution(o, t) ==
  LET executing == {r \in live : Task[r] = t}
  IN  /\ request[o].phase = "stop" /\ t \in request[o].tasks
      /\ \E found \in SUBSET executing, kept \in SUBSET executing :
           /\ kept \subseteq found
           /\ IF found = executing /\ kept = {} THEN UNCHANGED faults ELSE Fault
           /\ stopping' = stopping \cup found
           /\ failed' = failed \ found
           /\ session' = session \ (found \ kept)
           /\ request' = [request EXCEPT ![o].tasks = @ \ {t},
                            ![o].missed = @ \cup (executing \ found)]
      /\ UNCHANGED <<pauseState, rows, deferred, live, underPause, scheduler, dispatched>>

(* The detached stop ends the execution, or its error is only logged.      *)
StopAgent(r) ==
  /\ r \in stopping
  /\ stopping' = stopping \ {r}
  /\ \/ live' = live \ {r} /\ UNCHANGED <<failed, faults>>
     \/ Fault /\ failed' = failed \cup {r} /\ UNCHANGED live
  /\ UNCHANGED <<pauseState, rows, deferred, session, underPause, scheduler, dispatched,
                 request>>

SweepDone(o) ==
  /\ request[o].phase = "stop" /\ request[o].tasks = {}
  /\ request' = [request EXCEPT ![o].phase = "swept"]
  /\ UNCHANGED <<pauseState, runState, scheduler, dispatched, faults>>

SubStepFails(o) ==
  /\ Fault
  /\ \/ /\ request[o].phase = "list"
        /\ request' = [request EXCEPT ![o].phase = "tasks", ![o].clean = FALSE]
     \/ /\ request[o].phase = "cancel"
        /\ request' = [request EXCEPT ![o].phase = "release", ![o].clean = FALSE]
     \/ /\ request[o].phase = "release"
        /\ request' = [request EXCEPT ![o].phase = "tasks", ![o].clean = FALSE]
     \/ /\ request[o].phase = "tasks"
        /\ request' = [request EXCEPT ![o].phase = "stop", ![o].clean = FALSE,
                         ![o].tasks = SnapshotTasks(o), ![o].runs = {}]
     \/ \E t \in request[o].tasks :
          /\ request[o].phase = "stop"
          /\ request' = [request EXCEPT ![o].clean = FALSE, ![o].tasks = @ \ {t}]
  /\ UNCHANGED <<pauseState, runState, scheduler, dispatched>>

(* Resuming: the active record is read, then released by its id.           *)
RequestResume(o) ==
  /\ request[o].phase \in {"none", "swept"} /\ active # 0
  /\ request' = [request EXCEPT ![o] = [NoRequest EXCEPT !.phase = "resume", !.pause = active]]
  /\ UNCHANGED <<pauseState, runState, scheduler, dispatched, faults>>

ReleaseWorkspacePause(o) ==
  /\ request[o].phase = "resume"
  /\ active' = IF active = request[o].pause THEN 0 ELSE active
  /\ IF active = request[o].pause
       THEN late' = {} /\ replayed' = {} /\ backlog' = {}
       ELSE UNCHANGED underPause
  /\ request' = [request EXCEPT ![o] = NoRequest]
  /\ UNCHANGED <<pauses, rows, deferred, agents, scheduler, dispatched, faults>>

-----------------------------------------------------------------------------
SchedulerStep ==
  \/ \E r \in Runs : ClaimNextRun(r)
  \/ AdmitRunAgent \/ CheckoutTaskForRun \/ RequeueContendedCheckout
  \/ FinalGate \/ LaunchAgent \/ DeferLaunch \/ LaunchConflicts \/ HandleRunFailure

RequestStep(o) ==
  \/ RequestPause(o) \/ CreateWorkspacePause(o) \/ GetActiveWorkspacePause(o)
  \/ ListInflightRuns(o) \/ CancelRunsForWorkspace(o) \/ ReleaseCheckoutsForWorkspace(o)
  \/ ListLiveOfficeTasks(o) \/ (\E t \in Tasks : CancelTaskExecution(o, t)) \/ SweepDone(o)
  \/ SubStepFails(o)
  \/ RequestResume(o) \/ ReleaseWorkspacePause(o)

Next ==
  \/ \E r \in Runs :
       CheckPauseGate(r) \/ CreateRun(r) \/ HandleAgentCompleted(r) \/ StopAgent(r)
  \/ SchedulerStep
  \/ \E t \in Tasks :
       ReapStaleCheckouts(t) \/ ReplayDeferredLaunch(t) \/ DropDeferredLaunch(t)
  \/ \E o \in Operators : RequestStep(o)

Spec == Init /\ [][Next]_vars

-----------------------------------------------------------------------------
(***************************************************************************)
(* Under a pause the scheduler lets at most one run through, to a launch   *)
(* or to a record of the ceiling: the one it had past its last gate, which *)
(* was claimed before the pause existed.  A run queued or claimed under    *)
(* the pause is never let through, whatever reads of the gate fail.  The   *)
(* replays that start agents meanwhile are of that run or of records older *)
(* than the pause; none is added.                                          *)
(***************************************************************************)
LateLaunches ==
  active # 0 =>
    /\ Cardinality(late) <= 1
    /\ \A r \in late : claimedUnder[r] # active
    /\ replayed \subseteq late \cup backlog

(***************************************************************************)
(* When a sweep is over that began with no launch under way and reported   *)
(* no failure, whatever still executes while its pause holds is being      *)
(* stopped, or its stop failed, or the sweep's own call passed it by: it   *)
(* was not found, or a replay started it behind the sweep.  In particular  *)
(* a repeated pause reaches what an earlier sweep did not find, although   *)
(* that sweep has cancelled the runs.                                      *)
(***************************************************************************)
CleanSweepReaches ==
  \A o \in Operators :
    request[o].phase = "swept" /\ request[o].clean /\ active = request[o].pause =>
      live \subseteq stopping \cup failed \cup request[o].missed

(***************************************************************************)
(* The requirement's title, "Every launch path is gated": a paused         *)
(* workspace launches nothing but the run that was past its last gate.     *)
(***************************************************************************)
EveryLaunchPathIsGated == active # 0 => replayed = {}

(***************************************************************************)
(* The claim about the list of active sessions: after a sweep has          *)
(* cancelled the runs, a failed stop can be retried, because a repeated    *)
(* pause finds the task by its session (or by a run in flight).            *)
(***************************************************************************)
FailedStopCanBeRetried ==
  \A r \in failed : \E q \in session \cup Inflight : Task[q] = Task[r]

(***************************************************************************)
(* The design's claim about its second window: a launch that slips past    *)
(* the last gate is covered by the execution cancellation of the sweep, so *)
(* once the sweep of a pause is over that agent is being stopped.          *)
(***************************************************************************)
CancellationCoversTheWindow ==
  \A o \in Operators :
    request[o].phase = "swept" /\ active = request[o].pause /\ faults = 0 =>
      late \cap live \subseteq stopping \cup replayed

(***************************************************************************)
(* A run the sweep has cancelled is not requeued by the goroutine that was *)
(* processing it.                                                          *)
(***************************************************************************)
SweptStaysCancelled ==
  [][\A r \in Runs : status[r] = "cancelled" => status'[r] = "cancelled"]_vars
=============================================================================
