------------------------- MODULE WorkspacePauseProofs -------------------------
(***************************************************************************)
(* Proofs about WorkspacePause, for any number of runs, tasks, operators,  *)
(* pauses and faults: the scheduler lets at most one run through under a   *)
(* pause and replays add none, and a clean sweep reaches what executes.    *)
(***************************************************************************)
EXTENDS WorkspacePause, FiniteSetTheorems, TLAPS

(* The statuses of a run that has been claimed and is not queued again.    *)
Started == {"claimed", "parked", "cancelled", "finished"}

(* The phases of a request that owns a sweep.                              *)
SweepPhases == {"list", "cancel", "release", "tasks", "stop", "swept"}

(* A dispatcher's run has no row; a run that was let through is not queued *)
(* again, and is not in the scheduler's hands.  A record is of its task.   *)
RunsSound ==
  /\ \A r \in dispatched : status[r] = "absent"
  /\ \A r \in late : status[r] \in Started
  /\ scheduler.phase # "idle" =>
       scheduler.run \in Runs \ late /\ status[scheduler.run] \in Started
  /\ \A t \in Tasks : deferred[t] # NoRun => Task[deferred[t]] = t

(* Pauses are numbered, and a sweep that counts as clean knows its own.    *)
PausesSound ==
  /\ active <= pauses
  /\ \A r \in Runs : claimedUnder[r] <= pauses
  /\ \A o \in Operators :
       request[o].clean => /\ request[o].pause \in 1..pauses
                           /\ request[o].phase \in SweepPhases

(* The one run that may come late has passed its last gate before the      *)
(* pause, and every record is of that run or older than the pause.         *)
LateSound ==
  active # 0 =>
    /\ \A r, s \in late : r = s
    /\ \A r \in late : claimedUnder[r] # active
    /\ scheduler.phase = "launching" => late = {} /\ claimedUnder[scheduler.run] # active
    /\ replayed \subseteq late \cup backlog
    /\ \A t \in Tasks : deferred[t] \in late \cup backlog \cup {NoRun}

(* What executes has an active session, or a stop that is under way or     *)
(* failed.                                                                 *)
AgentsSound == live \subseteq session \cup stopping \cup failed

(* While the pause of a clean sweep holds, nothing is past the last gate,  *)
(* and what executes is still on the sweep's list or is accounted for.     *)
HaltSound(o) ==
  request[o].clean /\ active = request[o].pause =>
    /\ scheduler.phase # "launching"
    /\ request[o].phase \in {"stop", "swept"} =>
         \A r \in live : \/ Task[r] \in request[o].tasks
                         \/ r \in stopping \cup failed \cup request[o].missed
    /\ request[o].phase = "swept" => request[o].tasks = {}

Inv ==
  /\ TypeOK
  /\ RunsSound /\ PausesSound /\ LateSound /\ AgentsSound
  /\ \A o \in Operators : HaltSound(o)


-----------------------------------------------------------------------------
(* Conditions under which the parts of the invariant are kept.             *)

(* A request that a step leaves alone keeps what its sweep has reached.    *)
LEMMA OtherRequests ==
  ASSUME Inv, NEW o \in Operators, request'[o] = request[o],
         active' \in {active, 0, pauses + 1},
         \/ scheduler.phase = "launching"
         \/ \A r \in live' : /\ r \in live
                             /\ r \in stopping \cup failed => r \in stopping' \cup failed',
         scheduler'.phase = "launching" => scheduler.phase = "launching" \/ active = 0
  PROVE  HaltSound(o)'
<1> SUFFICES ASSUME request[o].clean, active' = request[o].pause
             PROVE  /\ scheduler'.phase # "launching"
                    /\ request[o].phase \in {"stop", "swept"} =>
                         \A r \in live' :
                           \/ Task[r] \in request[o].tasks
                           \/ r \in stopping' \cup failed' \cup request[o].missed
                    /\ request[o].phase = "swept" => request[o].tasks = {}
  BY DEF HaltSound
<1>1. pauses \in Nat /\ request[o].pause \in 1..pauses
  BY DEF Inv, TypeOK, PausesSound
<1>2. active = request[o].pause /\ active # 0
  BY <1>1
<1> QED
  BY <1>2 DEF Inv, HaltSound

(* A step that is not about pauses keeps their numbering.                  *)
LEMMA SamePauses ==
  ASSUME Inv, UNCHANGED <<active, pauses, request>>,
         \A r \in Runs : claimedUnder'[r] \in {claimedUnder[r], active}
  PROVE  PausesSound'
BY DEF Inv, PausesSound

(* A step that claims and launches nothing keeps the late launches.        *)
LEMMA SameLate ==
  ASSUME Inv, UNCHANGED <<active, late, replayed, backlog, claimedUnder, deferred>>,
         scheduler'.phase = "launching" => scheduler' = scheduler \/ active = 0
  PROVE  LateSound'
BY DEF Inv, LateSound

-----------------------------------------------------------------------------
(* The dispatchers, the end of an execution, and the reaper.               *)
LEMMA RunSteps ==
  ASSUME Inv, NEW r \in Runs, CheckPauseGate(r) \/ CreateRun(r) \/ HandleAgentCompleted(r)
                                      \/ StopAgent(r)
  PROVE  Inv'
<1> USE PauseAssumption
<1>1. /\ TypeOK /\ RunsSound
      /\ UNCHANGED <<active, pauses, claimedUnder, scheduler, request, late, replayed, backlog,
                     deferred>>
      /\ \A s \in live' : /\ s \in live /\ (s \in session => s \in session')
                          /\ s \in stopping \cup failed => s \in stopping' \cup failed'
  BY DEF Inv, CheckPauseGate, CreateRun, HandleAgentCompleted, StopAgent, runState, pauseState,
         rows, agents, underPause
<1>2. PausesSound' /\ LateSound' /\ AgentsSound' /\ \A o \in Operators : HaltSound(o)'
  <2>1. PausesSound' /\ LateSound'
    BY <1>1, SamePauses, SameLate
  <2>2. \A o \in Operators : HaltSound(o)'
    BY <1>1, OtherRequests
  <2>3. AgentsSound'
    BY <1>1 DEF Inv, AgentsSound
  <2> QED
    BY <2>1, <2>2, <2>3
<1>3. CASE CheckPauseGate(r)
  BY <1>1, <1>2, <1>3 DEF CheckPauseGate, runState, pauseState, rows, agents, underPause,
                         TypeOK, RunsSound, Inv
<1>4. CASE CreateRun(r)
  <2>1. /\ status' = [status EXCEPT ![r] = "queued"] /\ status[r] = "absent"
        /\ dispatched' = dispatched \ {r}
        /\ UNCHANGED <<checkout, live, session, stopping, failed, faults>>
    BY <1>1, <1>4 DEF CreateRun, RunsSound, agents
  <2>2. TypeOK'
    BY <1>1, <2>1 DEF TypeOK
  <2>3. r \notin late /\ (scheduler.phase # "idle" => scheduler.run # r)
    BY <1>1, <2>1 DEF RunsSound, Started
  <2>4. RunsSound'
    BY <1>1, <2>1, <2>3 DEF TypeOK, RunsSound
  <2> QED
    BY <1>2, <2>2, <2>4 DEF Inv
<1>5. CASE HandleAgentCompleted(r)
  <2>1. /\ status' = [status EXCEPT ![r] = IF @ = "claimed" THEN "finished" ELSE @]
        /\ UNCHANGED <<dispatched, faults>> /\ live' = live \ {r}
        /\ session' = session \ {r} /\ stopping' = stopping \ {r} /\ failed' = failed \ {r}
        /\ checkout' \in {checkout, ReleasedBy(r)}
    BY <1>5 DEF HandleAgentCompleted, IfClaimed
  <2>2. checkout' \in [Tasks -> Runs \cup {NoRun}]
    BY <1>1, <2>1 DEF TypeOK, ReleasedBy
  <2>3. TypeOK'
    BY <1>1, <2>1, <2>2 DEF TypeOK
  <2>4. RunsSound'
    BY <1>1, <2>1 DEF TypeOK, RunsSound, Started
  <2> QED
    BY <1>2, <2>3, <2>4 DEF Inv
<1>6. CASE StopAgent(r)
  <2>1. /\ UNCHANGED <<status, checkout, session, dispatched>>
        /\ stopping' \subseteq stopping /\ live' \subseteq live /\ failed' \subseteq failed \cup {r}
        /\ faults' \in Nat
    BY <1>1, <1>6 DEF StopAgent, rows, Fault, TypeOK
  <2>2. TypeOK' /\ RunsSound'
    BY <1>1, <2>1 DEF TypeOK, RunsSound
  <2> QED
    BY <1>2, <2>2 DEF Inv
<1> QED
  BY <1>3, <1>4, <1>5, <1>6

(* The reaper touches checkouts only.                                      *)
LEMMA ReapStep ==
  ASSUME Inv, NEW t \in Tasks, ReapStaleCheckouts(t)
  PROVE  Inv'
<1>1. /\ UNCHANGED <<active, pauses, claimedUnder, scheduler, request, late, replayed, backlog,
                     deferred, live, session, stopping, failed, faults, status, dispatched>>
      /\ checkout' = [checkout EXCEPT ![t] = NoRun]
  BY DEF ReapStaleCheckouts, pauseState, agents, underPause
<1>2. PausesSound' /\ LateSound' /\ \A o \in Operators : HaltSound(o)'
  BY <1>1, SamePauses, SameLate, OtherRequests
<1>3. TypeOK' /\ RunsSound' /\ AgentsSound'
  BY <1>1 DEF Inv, TypeOK, RunsSound, AgentsSound
<1> QED
  BY <1>2, <1>3 DEF Inv

-----------------------------------------------------------------------------
(* The scheduler.                                                          *)

(* Giving up: the run in hand is written, and the scheduler is idle.       *)
LEMMA GivesUp ==
  ASSUME Inv, scheduler.phase # "idle", scheduler' = Quiet,
         UNCHANGED <<pauseState, claimedUnder, deferred, agents, underPause, dispatched, request>>,
         faults' \in Nat,
         NEW s \in {"absent", "queued", "parked", "claimed", "cancelled", "finished"},
         status' = [status EXCEPT ![scheduler.run] = s], s # "absent",
         checkout' \in {checkout, ReleasedBy(scheduler.run)}
  PROVE  Inv'
<1> USE PauseAssumption
<1> DEFINE r == scheduler.run
<1>1. /\ TypeOK /\ RunsSound /\ r \in Runs \ late /\ status[r] # "absent"
      /\ UNCHANGED <<active, pauses, live, session, stopping, failed, late, replayed, backlog>>
  BY DEF Inv, RunsSound, Started, pauseState, agents, underPause
<1>2. PausesSound' /\ LateSound' /\ AgentsSound' /\ \A o \in Operators : HaltSound(o)'
  BY <1>1, SamePauses, SameLate, OtherRequests DEF Quiet, AgentsSound, Inv
<1>3. checkout' \in [Tasks -> Runs \cup {NoRun}]
  BY <1>1 DEF TypeOK, ReleasedBy
<1>4. TypeOK'
  BY <1>1, <1>3 DEF TypeOK, Quiet, SchedulerType
<1>5. RunsSound'
  BY <1>1 DEF TypeOK, RunsSound, Quiet
<1> QED
  BY <1>2, <1>4, <1>5 DEF Inv

(* Going on: the next phase, which is past the last gate only without a    *)
(* pause.                                                                  *)
LEMMA GoesOn ==
  ASSUME Inv, scheduler.phase # "idle",
         NEW p \in {"admitted", "checkedout", "launching"},
         scheduler' = [scheduler EXCEPT !.phase = p], p = "launching" => active = 0,
         UNCHANGED <<pauseState, claimedUnder, deferred, agents, underPause, dispatched, request,
                     status>>,
         faults' \in Nat,
         checkout' \in {checkout, [checkout EXCEPT ![Task[scheduler.run]] = scheduler.run]}
  PROVE  Inv'
<1> USE PauseAssumption
<1>1. /\ TypeOK /\ RunsSound /\ scheduler.run \in Runs
      /\ UNCHANGED <<active, pauses, live, session, stopping, failed, late, replayed, backlog>>
  BY DEF Inv, RunsSound, pauseState, agents, underPause
<1>2. scheduler' \in SchedulerType /\ scheduler'.phase = p /\ scheduler'.run = scheduler.run
  BY <1>1 DEF TypeOK, SchedulerType
<1>3. PausesSound' /\ LateSound' /\ AgentsSound' /\ \A o \in Operators : HaltSound(o)'
  BY <1>1, <1>2, SamePauses, SameLate, OtherRequests DEF AgentsSound, Inv
<1>4. checkout' \in [Tasks -> Runs \cup {NoRun}]
  BY <1>1 DEF TypeOK
<1>5. TypeOK'
  BY <1>1, <1>2, <1>4 DEF TypeOK
<1>6. RunsSound'
  BY <1>1, <1>2 DEF RunsSound
<1> QED
  BY <1>3, <1>5, <1>6 DEF Inv

(* Every step of the scheduler keeps the invariant.                        *)
LEMMA SchedulerSteps ==
  ASSUME Inv, SchedulerStep
  PROVE  Inv'
<1> USE PauseAssumption
<1> DEFINE r == scheduler.run
<1>1. TypeOK /\ RunsSound /\ (scheduler.phase # "idle" => r \in Runs /\ status[r] \in Started)
  BY DEF Inv, RunsSound
<1>2. ASSUME NEW q \in Runs, ClaimNextRun(q) PROVE Inv'
  <2>1. /\ status[q] = "queued" /\ status' = [status EXCEPT ![q] = "claimed"]
        /\ claimedUnder' = [claimedUnder EXCEPT ![q] = active]
        /\ scheduler' = [phase |-> "claimed", run |-> q]
        /\ UNCHANGED <<active, pauses, checkout, deferred, live, session, stopping, failed, late,
                       replayed, backlog, dispatched, request, faults>>
    BY <1>2 DEF ClaimNextRun, pauseState, agents, underPause
  <2>2. TypeOK'
    BY <1>1, <2>1 DEF TypeOK, SchedulerType
  <2>3. q \notin late
    BY <1>1, <2>1 DEF RunsSound, Started
  <2>4. RunsSound'
    BY <1>1, <2>1, <2>3 DEF TypeOK, RunsSound, Started
  <2>5. PausesSound'
    BY <1>1, <2>1, SamePauses DEF TypeOK
  <2>6. LateSound'
    BY <1>1, <2>1, <2>3 DEF Inv, TypeOK, LateSound
  <2>7. AgentsSound' /\ \A o \in Operators : HaltSound(o)'
    BY <2>1, OtherRequests DEF Inv, AgentsSound
  <2> QED
    BY <2>2, <2>4, <2>5, <2>6, <2>7 DEF Inv
<1>3. ASSUME NEW a \in {"paused", "error", "running"}, pauseGateState(a) PROVE faults' \in Nat
  BY <1>1, <1>3 DEF pauseGateState, Fault, TypeOK
<1>4. ASSUME IfClaimed(r, "finished") \/ IfClaimed(r, "queued"), scheduler.phase # "idle"
      PROVE  \E s \in {"queued", "parked", "claimed", "cancelled", "finished"} :
               status' = [status EXCEPT ![r] = s]
  BY <1>1, <1>4 DEF IfClaimed, Started
<1>5. CASE AdmitRunAgent
  <2>1. CASE pauseGateState("running") /\ scheduler' = [scheduler EXCEPT !.phase = "admitted"]
             /\ UNCHANGED status
    BY <1>3, <1>5, <2>1, GoesOn DEF AdmitRunAgent
  <2>2. CASE (IfClaimed(r, "finished") \/ IfClaimed(r, "queued")) /\ scheduler' = Quiet
    BY <1>3, <1>4, <1>5, <2>2, GivesUp DEF AdmitRunAgent
  <2> QED
    BY <1>5, <2>1, <2>2 DEF AdmitRunAgent
<1>6. CASE CheckoutTaskForRun
  BY <1>1, <1>6, GoesOn DEF CheckoutTaskForRun, TypeOK
<1>7. CASE RequeueContendedCheckout
  BY <1>1, <1>7, GivesUp DEF RequeueContendedCheckout, ScheduleRetry, TypeOK
<1>8. CASE FinalGate
  <2>1. CASE /\ pauseGateState("running") /\ scheduler' = [scheduler EXCEPT !.phase = "launching"]
             /\ UNCHANGED <<status, checkout>>
    <3>1. active = 0
      BY <2>1 DEF pauseGateState
    <3> QED
      BY <1>3, <1>8, <2>1, <3>1, GoesOn DEF FinalGate
  <2>2. CASE /\ IfClaimed(r, "finished") \/ IfClaimed(r, "queued")
             /\ scheduler' = Quiet /\ checkout' = ReleasedBy(r)
    BY <1>3, <1>4, <1>8, <2>2, GivesUp DEF FinalGate
  <2> QED
    BY <1>8, <2>1, <2>2 DEF FinalGate
<1>9. CASE LaunchAgent
  <2>1. /\ scheduler.phase = "launching" /\ scheduler' = Quiet
        /\ live' = live \cup {r} /\ session' = session \cup {r}
        /\ late' = IF active = 0 THEN late ELSE late \cup {r}
        /\ UNCHANGED <<active, pauses, status, claimedUnder, checkout, deferred, stopping, failed,
                       replayed, backlog, dispatched, request, faults>>
    BY <1>9 DEF LaunchAgent, NotedUnderPause, pauseState, rows
  <2>2. TypeOK'
    BY <1>1, <2>1 DEF TypeOK, Quiet, SchedulerType
  <2>3. RunsSound' /\ AgentsSound'
    BY <1>1, <2>1 DEF RunsSound, Quiet, Inv, AgentsSound
  <2>4. PausesSound'
    BY <2>1, SamePauses
  <2>5. LateSound'
    BY <2>1 DEF Inv, LateSound, Quiet
  <2>6. \A o \in Operators : HaltSound(o)'
    BY <2>1, OtherRequests DEF Quiet
  <2> QED
    BY <2>2, <2>3, <2>4, <2>5, <2>6 DEF Inv
<1>11. CASE DeferLaunch
  <2>1. /\ scheduler.phase = "launching" /\ scheduler' = Quiet
        /\ deferred' = [deferred EXCEPT ![Task[r]] = r]
        /\ checkout' = ReleasedBy(r)
        /\ status' \in {status, [status EXCEPT ![r] = "parked"]}
        /\ faults' \in Nat
        /\ late' = IF active = 0 THEN late ELSE late \cup {r}
        /\ UNCHANGED <<active, pauses, claimedUnder, live, session, stopping, failed,
                       replayed, backlog, dispatched, request>>
    BY <1>1, <1>11 DEF DeferLaunch, NotedUnderPause, pauseState, agents, Fault, TypeOK
  <2>2. checkout' \in [Tasks -> Runs \cup {NoRun}] /\ deferred' \in [Tasks -> Runs \cup {NoRun}]
    BY <1>1, <2>1 DEF TypeOK, ReleasedBy
  <2>3. TypeOK'
    BY <1>1, <2>1, <2>2 DEF TypeOK, Quiet, SchedulerType
  <2>4. RunsSound'
    BY <1>1, <2>1 DEF TypeOK, RunsSound, Quiet, Started
  <2>5. PausesSound'
    BY <2>1, SamePauses
  <2>6. LateSound'
    BY <1>1, <2>1 DEF Inv, TypeOK, LateSound, Quiet
  <2>7. AgentsSound' /\ \A o \in Operators : HaltSound(o)'
    BY <2>1, OtherRequests DEF Quiet, Inv, AgentsSound
  <2> QED
    BY <2>3, <2>4, <2>5, <2>6, <2>7 DEF Inv
<1>12. CASE LaunchConflicts
  BY <1>1, <1>12, GivesUp DEF LaunchConflicts, ScheduleRetry, TypeOK
<1>10. CASE HandleRunFailure
  BY <1>1, <1>10, GivesUp DEF HandleRunFailure, ScheduleRetry, Fault, TypeOK
<1> QED
  BY <1>2, <1>5, <1>6, <1>7, <1>8, <1>9, <1>10, <1>11, <1>12 DEF SchedulerStep

-----------------------------------------------------------------------------
(* The replays of the ceiling.                                             *)

(* A record of the task is launched or dropped; what a replay starts is    *)
(* beyond the sweeps that have passed the task.                            *)
LEMMA ReplaySteps ==
  ASSUME Inv, NEW t \in Tasks, ReplayDeferredLaunch(t) \/ DropDeferredLaunch(t)
  PROVE  Inv'
<1> USE PauseAssumption
<1> DEFINE r == deferred[t]
<1>1. /\ TypeOK /\ RunsSound /\ PausesSound /\ LateSound /\ AgentsSound
      /\ r \in Runs /\ deferred' = [deferred EXCEPT ![t] = NoRun]
      /\ UNCHANGED <<active, pauses, claimedUnder, checkout, stopping, failed, late, backlog,
                     scheduler, dispatched, faults>>
      /\ IfParked(r, "claimed") \/ IfParked(r, "finished")
      /\ request \in [Operators -> RequestType]
  BY DEF Inv, TypeOK, ReplayDeferredLaunch, DropDeferredLaunch, pauseState, agents, underPause
<1>2. /\ RunsSound'
      /\ status' \in [Runs -> {"absent", "queued", "parked", "claimed", "cancelled", "finished"}]
  BY <1>1 DEF TypeOK, RunsSound, IfParked, Started
<1>3. CASE ReplayDeferredLaunch(t)
  <2>1. /\ live' = live \cup {r} /\ session' = session \cup {r}
        /\ replayed' = IF active = 0 THEN replayed ELSE replayed \cup {r}
        /\ request' = [o \in Operators |->
             [request[o] EXCEPT !.missed = IF PassedBy(o, t) THEN @ \cup {r} ELSE @]]
    BY <1>3 DEF ReplayDeferredLaunch, NotedUnderPause
  <2>2. ASSUME NEW o \in Operators
        PROVE  /\ request'[o] \in RequestType
               /\ request'[o].clean = request[o].clean /\ request'[o].pause = request[o].pause
               /\ request'[o].phase = request[o].phase /\ request'[o].tasks = request[o].tasks
               /\ request[o].missed \subseteq request'[o].missed
               /\ PassedBy(o, t) => r \in request'[o].missed
    <3> DEFINE ms == IF PassedBy(o, t) THEN request[o].missed \cup {r} ELSE request[o].missed
    <3>1. request[o] \in RequestType /\ ms \subseteq Runs /\ request[o].missed \subseteq ms
          /\ (PassedBy(o, t) => r \in ms)
      BY <1>1 DEF RequestType
    <3>2. request'[o] = [request[o] EXCEPT !.missed = ms]
      BY <2>1
    <3> HIDE DEF ms
    <3> QED
      BY <3>1, <3>2 DEF RequestType
  <2>3. request' \in [Operators -> RequestType]
    BY <2>1, <2>2
  <2>4. TypeOK'
    BY <1>1, <1>2, <2>1, <2>3 DEF TypeOK
  <2>5. PausesSound'
    BY <1>1, <2>2 DEF PausesSound
  <2>6. LateSound'
    BY <1>1, <2>1 DEF TypeOK, LateSound
  <2>7. AgentsSound'
    BY <1>1, <2>1 DEF AgentsSound
  <2>8. ASSUME NEW o \in Operators PROVE HaltSound(o)'
    <3> SUFFICES ASSUME request[o].clean, active = request[o].pause
                 PROVE  /\ scheduler.phase # "launching"
                        /\ request[o].phase \in {"stop", "swept"} =>
                             \A s \in live' :
                               \/ Task[s] \in request[o].tasks
                               \/ s \in stopping \cup failed \cup request'[o].missed
                        /\ request[o].phase = "swept" => request[o].tasks = {}
      BY <1>1, <2>2 DEF HaltSound
    <3>1. HaltSound(o)
      BY DEF Inv
    <3>2. request[o].phase \in {"stop", "swept"} =>
            \/ t \in request[o].tasks
            \/ r \in request'[o].missed
      BY <2>2 DEF PassedBy
    <3>3. Task[r] = t /\ live' = live \cup {r} /\ request[o].missed \subseteq request'[o].missed
      BY <1>1, <2>1, <2>2 DEF RunsSound
    <3> QED
      BY <3>1, <3>2, <3>3 DEF HaltSound
  <2> QED
    BY <1>2, <2>4, <2>5, <2>6, <2>7, <2>8 DEF Inv
<1>4. CASE DropDeferredLaunch(t)
  <2>1. UNCHANGED <<live, session, replayed, request>>
    BY <1>4 DEF DropDeferredLaunch, agents, underPause
  <2>2. TypeOK'
    BY <1>1, <1>2, <2>1 DEF TypeOK
  <2>3. PausesSound' /\ AgentsSound'
    BY <1>1, <2>1, SamePauses DEF AgentsSound
  <2>4. LateSound'
    BY <1>1, <2>1 DEF TypeOK, LateSound
  <2>5. \A o \in Operators : HaltSound(o)'
    BY <1>1, <2>1, OtherRequests
  <2> QED
    BY <1>2, <2>2, <2>3, <2>4, <2>5 DEF Inv
<1> QED
  BY <1>3, <1>4


-----------------------------------------------------------------------------
(* The requests.                                                           *)

(***************************************************************************)
(* A request goes on and nothing else changes but that runs are cancelled, *)
(* checkouts released and stops scheduled; its sweep, if it still counts   *)
(* as clean, was clean before.                                             *)
(***************************************************************************)
LEMMA RequestGoesOn ==
  ASSUME Inv, NEW o \in Operators, NEW n \in RequestType,
         request' = [request EXCEPT ![o] = n],
         UNCHANGED <<active, pauses, claimedUnder, deferred, live, late, replayed, backlog,
                     scheduler, dispatched>>,
         faults' \in Nat, session' \subseteq Runs, stopping' \subseteq Runs, failed' \subseteq Runs,
         stopping \cup failed \subseteq stopping' \cup failed', AgentsSound',
         NEW cancelled \in SUBSET Inflight,
         status' = [r \in Runs |-> IF r \in cancelled THEN "cancelled" ELSE status[r]],
         checkout' \in [Tasks -> Runs \cup {NoRun}],
         n.clean => /\ request[o].clean /\ n.pause = request[o].pause
                    /\ n.phase \in SweepPhases,
         n.clean /\ n.phase \in {"stop", "swept"} =>
           \/ \A r \in live : Task[r] \in n.tasks \/ r \in stopping' \cup failed'
           \/ /\ request[o].phase \in {"stop", "swept"}
              /\ request[o].missed \subseteq n.missed
              /\ \A r \in live : Task[r] \in request[o].tasks =>
                   Task[r] \in n.tasks \/ r \in stopping' \cup failed' \cup n.missed,
         n.phase = "swept" => n.tasks = {}
  PROVE  Inv'
<1>1. /\ TypeOK /\ RunsSound /\ PausesSound /\ HaltSound(o)
      /\ request'[o] = n /\ \A p \in Operators \ {o} : request'[p] = request[p]
  BY DEF Inv, TypeOK
<1>2. TypeOK'
  BY <1>1 DEF TypeOK
<1>3. RunsSound'
  BY <1>1 DEF TypeOK, RunsSound, Started, Inflight
<1>4. PausesSound'
  BY <1>1 DEF PausesSound
<1>5. LateSound'
  BY SameLate
<1>6. ASSUME NEW p \in Operators \ {o} PROVE HaltSound(p)'
  BY <1>1, OtherRequests
<1>7. HaltSound(o)'
  BY <1>1 DEF HaltSound
<1> QED
  BY <1>2, <1>3, <1>4, <1>5, <1>6, <1>7 DEF Inv

(* The sweep of an active pause begins; the pause may be a new one.        *)
LEMMA SweepBegins ==
  ASSUME Inv, NEW o \in Operators,
         UNCHANGED <<rows, deferred, agents, scheduler, dispatched, faults>>,
         \/ /\ active = 0 /\ active' = pauses + 1 /\ pauses' = pauses + 1
            /\ late' = {} /\ replayed' = {} /\ backlog' = {deferred[t] : t \in Tasks} \ {NoRun}
         \/ active # 0 /\ UNCHANGED <<active, pauses, underPause>>,
         Sweeping(o, active')
  PROVE  Inv'
<1> DEFINE n == [NoRequest EXCEPT !.phase = "list", !.pause = active',
                   !.clean = scheduler.phase # "launching"]
<1>1. /\ TypeOK /\ RunsSound /\ PausesSound /\ LateSound
      /\ active \in Nat /\ pauses \in Nat /\ active <= pauses
  BY DEF Inv, TypeOK, PausesSound
<1>2. active' \in Nat /\ pauses' \in Nat /\ active' \in 1..pauses' /\ pauses <= pauses'
  BY <1>1
<1>0. /\ UNCHANGED <<status, claimedUnder, checkout, live, session, stopping, failed>>
      /\ late' \subseteq late /\ replayed' \subseteq Runs /\ backlog' \subseteq Runs
  BY <1>1 DEF rows, agents, underPause, TypeOK
<1>3. /\ n \in RequestType /\ request' = [request EXCEPT ![o] = n]
      /\ n.phase = "list" /\ n.pause = active' /\ (n.clean => scheduler.phase # "launching")
  <2>1. request' = [request EXCEPT ![o] = n]
    BY DEF Sweeping
  <2>2. NoRequest \in RequestType
    BY DEF NoRequest, RequestType
  <2>3. ASSUME NEW b \in BOOLEAN, NEW m,
               m = [NoRequest EXCEPT !.phase = "list", !.pause = active', !.clean = b]
        PROVE  m \in RequestType /\ m.phase = "list" /\ m.pause = active' /\ m.clean = b
    BY <1>2, <2>2, <2>3 DEF RequestType
  <2>4. (scheduler.phase # "launching") \in BOOLEAN
    OBVIOUS
  <2> QED
    BY <2>1, <2>3, <2>4
<1> HIDE DEF n
<1>4. request'[o] = n /\ \A p \in Operators \ {o} : request'[p] = request[p]
  BY <1>1, <1>3 DEF TypeOK
<1>5. TypeOK'
  BY <1>0, <1>1, <1>2, <1>3 DEF TypeOK
<1>6. RunsSound' /\ AgentsSound'
  BY <1>0, <1>1 DEF RunsSound, Inv, AgentsSound
<1>7. PausesSound'
  <2>1. \A r \in Runs : claimedUnder[r] \in Nat /\ claimedUnder[r] <= pauses'
    BY <1>1, <1>2 DEF TypeOK, PausesSound
  <2>2. ASSUME NEW p \in Operators, request'[p].clean
        PROVE  request'[p].pause \in 1..pauses' /\ request'[p].phase \in SweepPhases
    BY <1>1, <1>2, <1>3, <1>4, <2>2 DEF PausesSound, SweepPhases
  <2> QED
    BY <1>0, <1>2, <2>1, <2>2 DEF PausesSound
<1>8. LateSound'
  <2>1. CASE active # 0
    BY <1>0, <1>1, <2>1 DEF LateSound, underPause
  <2>2. CASE active = 0
    <3>1. /\ late' = {} /\ replayed' = {} /\ active' = pauses + 1
          /\ \A t \in Tasks : deferred'[t] \in backlog' \cup {NoRun}
      BY <2>2
    <3>2. scheduler.phase = "launching" => claimedUnder[scheduler.run] # pauses + 1
      BY <1>1 DEF RunsSound, PausesSound, TypeOK
    <3> QED
      BY <1>0, <3>1, <3>2 DEF LateSound
  <2> QED
    BY <2>1, <2>2
<1>9. ASSUME NEW p \in Operators PROVE HaltSound(p)'
  <2>1. CASE p # o
    BY <1>0, <1>1, <1>4, <2>1, OtherRequests
  <2>2. CASE p = o
    BY <1>0, <1>3, <1>4, <2>2 DEF HaltSound
  <2> QED
    BY <2>1, <2>2
<1> QED
  BY <1>5, <1>6, <1>7, <1>8, <1>9 DEF Inv

(* A resume: if it released the pause, every late launch is of the past.   *)
LEMMA ResumeStep ==
  ASSUME Inv, NEW o \in Operators, ReleaseWorkspacePause(o)
  PROVE  Inv'
<1>1. /\ TypeOK /\ RunsSound /\ PausesSound /\ LateSound
      /\ active \in Nat /\ pauses \in Nat /\ active <= pauses
  BY DEF Inv, TypeOK, PausesSound
<1>2. /\ \/ active' = 0 /\ late' = {} /\ replayed' = {} /\ backlog' = {}
         \/ active' = active /\ UNCHANGED <<late, replayed, backlog>>
      /\ request' = [request EXCEPT ![o] = NoRequest]
      /\ UNCHANGED <<pauses, status, claimedUnder, checkout, deferred, live, session, stopping,
                     failed, scheduler, dispatched, faults>>
  BY DEF ReleaseWorkspacePause, rows, agents, underPause
<1>3. NoRequest \in RequestType /\ ~NoRequest.clean
  BY DEF NoRequest, RequestType
<1>4. request'[o] = NoRequest /\ \A p \in Operators \ {o} : request'[p] = request[p]
  BY <1>1, <1>2 DEF TypeOK
<1>5. TypeOK'
  BY <1>1, <1>2, <1>3 DEF TypeOK
<1>6. RunsSound' /\ AgentsSound'
  BY <1>1, <1>2 DEF RunsSound, Inv, AgentsSound
<1>7. PausesSound'
  BY <1>1, <1>2, <1>3, <1>4 DEF PausesSound
<1>8. LateSound'
  BY <1>1, <1>2 DEF LateSound
<1>9. ASSUME NEW p \in Operators PROVE HaltSound(p)'
  <2>1. CASE p # o
    BY <1>2, <1>4, <2>1, OtherRequests
  <2>2. CASE p = o
    BY <1>3, <1>4, <2>2 DEF HaltSound
  <2> QED
    BY <2>1, <2>2
<1> QED
  BY <1>5, <1>6, <1>7, <1>8, <1>9 DEF Inv

(* Every step of a request keeps the invariant.                            *)
LEMMA RequestSteps ==
  ASSUME Inv, NEW o \in Operators, RequestStep(o)
  PROVE  Inv'
<1> USE PauseAssumption
<1> DEFINE q == request[o]
<1>1. /\ TypeOK /\ PausesSound /\ HaltSound(o)
      /\ q \in RequestType /\ request \in [Operators -> RequestType] /\ faults \in Nat
      /\ status = [r \in Runs |-> IF r \in {} THEN "cancelled" ELSE status[r]]
  BY DEF Inv, TypeOK
<1>2. NoRequest \in RequestType /\ ~NoRequest.clean /\ NoRequest.tasks = {}
  BY DEF NoRequest, RequestType
<1>3. q.clean => q.phase \in SweepPhases
  BY <1>1 DEF PausesSound
(* Steps that leave the runs alone, and end or go on with the request.     *)
<1>4. ASSUME NEW m \in RequestType, request' = [request EXCEPT ![o] = m],
             UNCHANGED <<pauseState, runState, scheduler, dispatched>>, faults' \in Nat,
             m.clean => q.clean /\ m.pause = q.pause /\ m.phase \in SweepPhases,
             m.clean /\ m.phase \in {"stop", "swept"} =>
               \/ \A r \in live : Task[r] \in m.tasks \/ r \in stopping \cup failed
               \/ q.phase \in {"stop", "swept"} /\ m.tasks = q.tasks /\ m.missed = q.missed,
             m.phase = "swept" => m.tasks = {}
      PROVE  Inv'
  <2>1. {} \in SUBSET Inflight
    OBVIOUS
  <2>2. status' = [r \in Runs |-> IF r \in {} THEN "cancelled" ELSE status[r]]
    BY <1>1, <1>4 DEF runState, rows
  <2>3. /\ UNCHANGED <<active, pauses, claimedUnder, deferred, live, session, stopping, failed,
                       late, replayed, backlog, scheduler, dispatched>>
        /\ session' \subseteq Runs /\ stopping' \subseteq Runs /\ failed' \subseteq Runs
        /\ checkout' \in [Tasks -> Runs \cup {NoRun}] /\ AgentsSound'
    BY <1>1, <1>4 DEF pauseState, runState, rows, agents, underPause, TypeOK, Inv, AgentsSound
  <2> HIDE DEF q
  <2> QED
    BY <1>4, <2>1, <2>2, <2>3, RequestGoesOn DEF q
<1>5. CASE RequestPause(o)
  <2> DEFINE m == [NoRequest EXCEPT !.phase = "insert"]
  <2>1. m \in RequestType /\ m.phase = "insert" /\ m.clean = NoRequest.clean
    BY <1>2 DEF RequestType
  <2>2. request' = [request EXCEPT ![o] = m]
    BY <1>5 DEF RequestPause
  <2> HIDE DEF m
  <2> QED
    BY <1>1, <1>2, <1>4, <1>5, <2>1, <2>2 DEF RequestPause
<1>6. CASE CreateWorkspacePause(o)
  <2>1. CASE active = 0
    BY <1>6, <2>1, SweepBegins DEF CreateWorkspacePause
  <2>2. CASE active # 0
    <3>1. /\ [q EXCEPT !.phase = "reread"] \in RequestType /\ ~q.clean
          /\ request' = [request EXCEPT ![o] = [q EXCEPT !.phase = "reread"]]
      BY <1>1, <1>3, <1>6, <2>2 DEF CreateWorkspacePause, RequestType, SweepPhases
    <3>2. UNCHANGED <<pauseState, runState, scheduler, dispatched, faults>>
      BY <1>6, <2>2 DEF CreateWorkspacePause, runState, pauseState, rows
    <3> QED
      BY <1>1, <1>4, <3>1, <3>2 DEF RequestType
  <2> QED
    BY <2>1, <2>2
<1>7. CASE GetActiveWorkspacePause(o)
  <2>1. CASE active # 0
    BY <1>7, <2>1, SweepBegins DEF GetActiveWorkspacePause, runState, pauseState
  <2>2. CASE request' = [request EXCEPT ![o].phase = "insert", ![o].attempt = 1]
    <3> DEFINE m == [q EXCEPT !.phase = "insert", !.attempt = 1]
    <3>1. request' = [request EXCEPT ![o] = m]
      BY <1>1, <2>2
    <3>2. ~q.clean
      BY <1>3, <1>7 DEF GetActiveWorkspacePause, SweepPhases
    <3>3. 1 \in 0..1
      OBVIOUS
    <3>4. m \in RequestType /\ ~m.clean /\ m.phase = "insert"
      BY <1>1, <3>2, <3>3 DEF RequestType
    <3> HIDE DEF m
    <3> QED
      BY <1>1, <1>4, <1>7, <3>1, <3>4 DEF GetActiveWorkspacePause
  <2>3. CASE request' = [request EXCEPT ![o] = NoRequest]
    BY <1>1, <1>2, <1>4, <1>7, <2>3 DEF GetActiveWorkspacePause
  <2> QED
    BY <1>7, <2>1, <2>2, <2>3 DEF GetActiveWorkspacePause
<1>8. CASE ListInflightRuns(o)
  <2> DEFINE m == [q EXCEPT !.phase = "cancel", !.runs = Inflight]
  <2>1. /\ m \in RequestType /\ m.phase = "cancel" /\ m.clean = q.clean /\ m.pause = q.pause
        /\ request' = [request EXCEPT ![o] = m]
    BY <1>1, <1>8 DEF ListInflightRuns, RequestType, Inflight
  <2> HIDE DEF m
  <2> QED
    BY <1>1, <1>4, <1>8, <2>1 DEF ListInflightRuns, SweepPhases
<1>9. CASE CancelRunsForWorkspace(o)
  <2> DEFINE m == [q EXCEPT !.phase = "release"]
             c == q.runs \cap Inflight
  <2>1. /\ m \in RequestType /\ m.phase = "release" /\ m.clean = q.clean /\ m.pause = q.pause
        /\ request' = [request EXCEPT ![o] = m]
    BY <1>1, <1>9 DEF CancelRunsForWorkspace, RequestType
  <2>2. /\ c \in SUBSET Inflight
        /\ status' = [r \in Runs |-> IF r \in c THEN "cancelled" ELSE status[r]]
    BY <1>1, <1>9 DEF CancelRunsForWorkspace, TypeOK, Inflight
  <2>3. /\ UNCHANGED <<active, pauses, claimedUnder, deferred, live, session, stopping, failed,
                       late, replayed, backlog, scheduler, dispatched, faults>>
        /\ session' \subseteq Runs /\ stopping' \subseteq Runs /\ failed' \subseteq Runs
        /\ checkout' \in [Tasks -> Runs \cup {NoRun}] /\ AgentsSound'
    BY <1>1, <1>9 DEF CancelRunsForWorkspace, TypeOK, pauseState, agents, underPause, Inv, AgentsSound
  <2> HIDE DEF m, c
  <2> QED
    BY <1>1, <2>1, <2>2, <2>3, RequestGoesOn DEF SweepPhases
<1>10. CASE ReleaseCheckoutsForWorkspace(o)
  <2> DEFINE m == [q EXCEPT !.phase = "tasks"]
  <2>1. /\ m \in RequestType /\ m.phase = "tasks" /\ m.clean = q.clean /\ m.pause = q.pause
        /\ request' = [request EXCEPT ![o] = m]
    BY <1>1, <1>10 DEF ReleaseCheckoutsForWorkspace, RequestType
  <2>2. /\ UNCHANGED <<active, pauses, claimedUnder, deferred, live, session, stopping, failed,
                       late, replayed, backlog, scheduler, dispatched, faults, status>>
        /\ session' \subseteq Runs /\ stopping' \subseteq Runs /\ failed' \subseteq Runs
        /\ checkout' \in [Tasks -> Runs \cup {NoRun}] /\ AgentsSound'
    BY <1>1, <1>10 DEF ReleaseCheckoutsForWorkspace, TypeOK, pauseState, agents, underPause, Inv,
                       AgentsSound
  <2>3. {} \in SUBSET Inflight
    OBVIOUS
  <2>4. status' = [r \in Runs |-> IF r \in {} THEN "cancelled" ELSE status[r]]
    BY <1>1, <2>2
  <2> HIDE DEF m
  <2> QED
    BY <1>1, <2>1, <2>2, <2>3, <2>4, RequestGoesOn DEF SweepPhases
<1>11. CASE ListLiveOfficeTasks(o)
  <2> DEFINE m == [q EXCEPT !.phase = "stop", !.tasks = TasksToStop(o), !.runs = {}]
  <2>1. /\ TasksToStop(o) \subseteq Tasks
        /\ \A r \in live : Task[r] \in TasksToStop(o) \/ r \in stopping \cup failed
    BY <1>1 DEF TasksToStop, SnapshotTasks, RequestType, TypeOK, Inv, AgentsSound
  <2>2. /\ m \in RequestType /\ m.phase = "stop" /\ m.clean = q.clean /\ m.pause = q.pause
        /\ m.tasks = TasksToStop(o) /\ request' = [request EXCEPT ![o] = m]
    BY <1>1, <1>11, <2>1 DEF ListLiveOfficeTasks, RequestType
  <2> HIDE DEF m
  <2> QED
    <3>1. /\ UNCHANGED <<pauseState, runState, scheduler, dispatched>> /\ faults' \in Nat
          /\ \A r \in live : Task[r] \in m.tasks \/ r \in stopping \cup failed
      BY <1>1, <1>11, <2>1, <2>2 DEF ListLiveOfficeTasks
    <3> HIDE DEF q
    <3> QED
      BY <1>4, <2>2, <3>1 DEF SweepPhases
<1>12. ASSUME NEW t \in Tasks, CancelTaskExecution(o, t) PROVE Inv'
  <2> DEFINE ex == {r \in live : Task[r] = t}
  <2>1. PICK found \in SUBSET ex, kept \in SUBSET ex :
          /\ kept \subseteq found
          /\ IF found = ex /\ kept = {} THEN UNCHANGED faults ELSE Fault
          /\ stopping' = stopping \cup found
          /\ failed' = failed \ found
          /\ session' = session \ (found \ kept)
          /\ request' = [request EXCEPT ![o].tasks = @ \ {t}, ![o].missed = @ \cup (ex \ found)]
    BY <1>12 DEF CancelTaskExecution
  <2> DEFINE m == [q EXCEPT !.tasks = @ \ {t}, !.missed = @ \cup (ex \ found)]
  <2>2. /\ m \in RequestType /\ m.phase = "stop" /\ q.phase = "stop" /\ m.clean = q.clean
        /\ m.pause = q.pause /\ m.tasks = q.tasks \ {t} /\ m.missed = q.missed \cup (ex \ found)
        /\ request' = [request EXCEPT ![o] = m]
    BY <1>1, <1>12, <2>1 DEF CancelTaskExecution, RequestType, TypeOK
  <2>3. /\ UNCHANGED <<active, pauses, claimedUnder, deferred, live, late, replayed, backlog,
                       scheduler, dispatched, status, checkout>>
        /\ checkout' \in [Tasks -> Runs \cup {NoRun}] /\ faults' \in Nat
    BY <1>1, <1>12, <2>1 DEF CancelTaskExecution, TypeOK, pauseState, rows, underPause, Fault
  <2>4. /\ session' \subseteq Runs /\ stopping' \subseteq Runs /\ failed' \subseteq Runs
        /\ stopping \cup failed \subseteq stopping' \cup failed'
        /\ AgentsSound'
    BY <1>1, <2>1, <2>3 DEF TypeOK, Inv, AgentsSound
  <2>5. /\ q.missed \subseteq m.missed
        /\ \A r \in live : Task[r] \in q.tasks =>
             Task[r] \in m.tasks \/ r \in stopping' \cup failed' \cup m.missed
    BY <2>1, <2>2
  <2>6. {} \in SUBSET Inflight
    OBVIOUS
  <2>7. status' = [r \in Runs |-> IF r \in {} THEN "cancelled" ELSE status[r]]
    BY <1>1, <2>3
  <2> HIDE DEF m, ex
  <2> QED
    BY <1>1, <2>2, <2>3, <2>4, <2>5, <2>6, <2>7, RequestGoesOn DEF SweepPhases
<1>13. CASE SweepDone(o)
  <2> DEFINE m == [q EXCEPT !.phase = "swept"]
  <2>1. /\ m \in RequestType /\ m.phase = "swept" /\ q.phase = "stop" /\ m.clean = q.clean
        /\ m.pause = q.pause /\ m.tasks = q.tasks /\ q.tasks = {}
        /\ m.missed = q.missed
        /\ request' = [request EXCEPT ![o] = m]
    BY <1>1, <1>13 DEF SweepDone, RequestType
  <2> HIDE DEF m
  <2> QED
    BY <1>1, <1>4, <1>13, <2>1 DEF SweepDone, SweepPhases
<1>14. CASE SubStepFails(o)
  <2>1. ASSUME NEW m \in RequestType, request' = [request EXCEPT ![o] = m], ~m.clean, m.phase # "swept"
        PROVE  Inv'
    <3>1. UNCHANGED <<pauseState, runState, scheduler, dispatched>> /\ faults' \in Nat
      BY <1>1, <1>14 DEF SubStepFails, Fault
    <3> QED
      BY <1>4, <2>1, <3>1
  <2>2. ASSUME NEW p \in {"tasks", "release"},
               request' = [request EXCEPT ![o].phase = p, ![o].clean = FALSE]
        PROVE  Inv'
    <3> DEFINE m == [q EXCEPT !.phase = p, !.clean = FALSE]
    <3>1. m \in RequestType /\ ~m.clean /\ m.phase # "swept" /\ request' = [request EXCEPT ![o] = m]
      BY <1>1, <2>2 DEF RequestType
    <3> HIDE DEF m
    <3> QED
      BY <2>1, <3>1
  <2>3. ASSUME request' = [request EXCEPT ![o].phase = "stop", ![o].clean = FALSE,
                             ![o].tasks = SnapshotTasks(o), ![o].runs = {}]
        PROVE  Inv'
    <3> DEFINE S == SnapshotTasks(o)
               m == [q EXCEPT !.phase = "stop", !.clean = FALSE, !.tasks = S, !.runs = {}]
    <3>1. S \subseteq Tasks
      BY <1>1 DEF RequestType, SnapshotTasks
    <3>2. request' = [request EXCEPT ![o] = m]
      BY <1>1, <2>3
    <3> HIDE DEF S
    <3>3. m \in RequestType /\ ~m.clean /\ m.phase # "swept"
      BY <1>1, <3>1 DEF RequestType
    <3> HIDE DEF m
    <3> QED
      BY <2>1, <3>2, <3>3
  <2>4. ASSUME NEW t \in q.tasks, q.phase = "stop",
               request' = [request EXCEPT ![o].clean = FALSE, ![o].tasks = @ \ {t}]
        PROVE  Inv'
    <3> DEFINE m == [q EXCEPT !.clean = FALSE, !.tasks = @ \ {t}]
    <3>1. m \in RequestType /\ ~m.clean /\ m.phase # "swept" /\ request' = [request EXCEPT ![o] = m]
      BY <1>1, <2>4 DEF RequestType
    <3> HIDE DEF m
    <3> QED
      BY <2>1, <3>1
  <2> QED
    BY <1>14, <2>2, <2>3, <2>4 DEF SubStepFails
<1>15. CASE RequestResume(o)
  <2> DEFINE m == [NoRequest EXCEPT !.phase = "resume", !.pause = active]
  <2>1. active \in Nat
    BY <1>1 DEF TypeOK
  <2>2. m \in RequestType /\ m.clean = NoRequest.clean /\ m.phase = "resume"
    BY <1>2, <2>1 DEF RequestType
  <2>3. request' = [request EXCEPT ![o] = m]
    BY <1>15 DEF RequestResume
  <2> HIDE DEF m
  <2> QED
    BY <1>1, <1>2, <1>4, <1>15, <2>2, <2>3 DEF RequestResume
<1>16. CASE ReleaseWorkspacePause(o)
  BY <1>16, ResumeStep
<1> QED
  BY <1>5, <1>6, <1>7, <1>8, <1>9, <1>10, <1>11, <1>12, <1>13, <1>14, <1>15, <1>16 DEF RequestStep


-----------------------------------------------------------------------------
(* The invariant.                                                          *)

(* Before anything has happened it holds.                                  *)
LEMMA InitInv == Init => Inv
<1> SUFFICES ASSUME Init PROVE Inv
  OBVIOUS
<1>1. NoRequest \in RequestType /\ ~NoRequest.clean /\ Quiet \in SchedulerType
  BY DEF NoRequest, RequestType, Quiet, SchedulerType
<1>2. TypeOK
  BY <1>1 DEF Init, TypeOK
<1>3. RunsSound
  BY DEF Init, RunsSound, Quiet
<1>7. AgentsSound
  BY DEF Init, AgentsSound
<1>4. PausesSound
  BY <1>1 DEF Init, PausesSound
<1>5. LateSound
  BY DEF Init, LateSound
<1>6. \A o \in Operators : HaltSound(o)
  BY <1>1 DEF Init, HaltSound
<1> QED
  BY <1>2, <1>3, <1>4, <1>5, <1>6, <1>7 DEF Inv

(* Every step keeps it.                                                    *)
LEMMA StepInv == Inv /\ [Next]_vars => Inv'
<1> SUFFICES ASSUME Inv, [Next]_vars PROVE Inv'
  OBVIOUS
<1>1. CASE UNCHANGED vars
  BY <1>1 DEF vars, Inv, TypeOK, RunsSound, PausesSound, LateSound, AgentsSound, HaltSound
<1> QED
  BY <1>1, RunSteps, ReapStep, ReplaySteps, SchedulerSteps, RequestSteps DEF Next

(* The inductive invariant holds.                                          *)
LEMMA PauseInvariant == Spec => []Inv
BY InitInv, StepInv, PTL DEF Spec

-----------------------------------------------------------------------------
(***************************************************************************)
(* However pauses, sweeps, resumes, dispatchers, replays and the scheduler *)
(* interleave and whichever reads of the gate fail, the scheduler lets at  *)
(* most one run through under a pause, one claimed before the pause        *)
(* existed, and the replays under the pause are of that run or of records  *)
(* that are older than the pause.                                          *)
(***************************************************************************)
THEOREM OneLateLaunch == Spec => [](TypeOK /\ LateLaunches)
<1>1. ASSUME Inv PROVE LateLaunches
  <2> SUFFICES ASSUME active # 0
               PROVE  /\ Cardinality(late) <= 1
                      /\ \A r \in late : claimedUnder[r] # active
                      /\ replayed \subseteq late \cup backlog
    BY DEF LateLaunches
  <2>1. /\ \A r, s \in late : r = s
        /\ \A r \in late : claimedUnder[r] # active
        /\ replayed \subseteq late \cup backlog
    BY <1>1 DEF Inv, LateSound
  <2>2. CASE late = {}
    BY <2>1, <2>2, FS_EmptySet
  <2>3. CASE late # {}
    <3>1. PICK r \in late : late = {r}
      BY <2>1, <2>3
    <3>2. Cardinality(late) = 1
      BY <3>1, FS_Singleton
    <3> QED
      BY <2>1, <3>2
  <2> QED
    BY <2>2, <2>3
<1>2. Inv => TypeOK
  BY DEF Inv
<1> QED
  BY <1>1, <1>2, PauseInvariant, PTL

(***************************************************************************)
(* After a sweep that began with no launch under way and reported no       *)
(* failure, whatever executes while its pause holds is being stopped, or   *)
(* its stop failed, or the sweep passed it by.  While the sweep runs,      *)
(* nothing of the scheduler can pass the last gate, and what executes has  *)
(* a session that puts its task on the list or a stop of its own.          *)
(***************************************************************************)
THEOREM SweepReaches == Spec => []CleanSweepReaches
<1>1. ASSUME Inv PROVE CleanSweepReaches
  BY <1>1 DEF Inv, HaltSound, CleanSweepReaches
<1> QED
  BY <1>1, PauseInvariant, PTL

=============================================================================
