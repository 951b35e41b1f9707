-------------------------- MODULE DeferredAssignments --------------------------
(***************************************************************************)
(* Work assigned while a workspace is paused.  The wake of an assignment   *)
(* that the pause refuses is kept as a row per task; resuming replays the  *)
(* rows, and a recovery tick replays what a resume has missed.  Assigning, *)
(* waking, recording and both replays are requests of their own: each of   *)
(* them reads the task or the row, and acts on what it read later.         *)
(***************************************************************************)
EXTENDS Naturals, Sequences, FiniteSets

CONSTANTS
  Tasks, Agents, NoAgent,
  Operators,         \* requests to pause or resume
  Tick,              \* the recovery tick
  ReplayLimit,       \* rows one tick replays
  MaxGeneration,     \* bound: assignments of a task
  MaxPauses,         \* bound: pause records
  MaxFaults          \* bound: failed calls, redeliveries and crashes

ASSUME DeferralAssumption ==
  /\ IsFiniteSet(Tasks) /\ NoAgent \notin Agents /\ Tick \notin Operators
  /\ ReplayLimit \in Nat \ {0} /\ MaxGeneration \in Nat \ {0}
  /\ MaxPauses \in Nat /\ MaxFaults \in Nat

VARIABLES
  task,              \* assignee, assignment_generation, archived, and whether the chain
                     \* in its metadata is as deep as admission allows
  stopped,           \* agents that are not runnable
  active, pauses,    \* the active pause record or 0, records created
  row,               \* each task's deferred assignment; generation 0: none yet
  keys,              \* idempotency keys of the runs created
  wakes,             \* wakes under way
  replay,            \* replays under way
  owed,              \* assignments whose deferral was recorded
  excused,           \* ... and dropped: archived, or the agent not runnable
  faults

vars == <<task, stopped, active, pauses, row, keys, wakes, replay, owed, excused, faults>>

Replayers == Operators \cup {Tick}

(* The columns that identify an assignment, and those of a deferred one.   *)
RowType ==
  [task : Tasks, agent : Agents \cup {NoAgent}, generation : 0..MaxGeneration,
   pause : 0..MaxPauses, actor : BOOLEAN, pending : BOOLEAN]

WakeType ==
  [task : Tasks, agent : Agents, generation : 1..MaxGeneration, pause : 0..MaxPauses,
   actor : BOOLEAN,  \* the scheduler's wake, or else the event subscriber's
   stage : {"gate", "insert", "read", "write"}]

ReplayType ==
  [stage : {"idle", "list", "validate", "queue", "insert", "resolve"},
   rows : Seq(RowType),       \* read, not yet replayed
   dropped : BOOLEAN]         \* the outcome to resolve the first one with

(* Every variable has its type.                                            *)
TypeOK ==
  /\ task \in [Tasks -> [assignee : Agents \cup {NoAgent}, generation : 0..MaxGeneration,
                         archived : BOOLEAN, deep : BOOLEAN]]
  /\ stopped \subseteq Agents
  /\ active \in 0..MaxPauses /\ pauses \in 0..MaxPauses /\ faults \in 0..MaxFaults
  /\ row \in [Tasks -> RowType]
  /\ keys \subseteq Tasks \X Agents \X (1..MaxGeneration)
  /\ wakes \subseteq WakeType
  /\ replay \in [Replayers -> ReplayType]
  /\ owed \subseteq Tasks \X (1..MaxGeneration) /\ excused \subseteq owed

NoRow(t) ==
  [task |-> t, agent |-> NoAgent, generation |-> 0, pause |-> 0, actor |-> FALSE, pending |-> FALSE]

NoReplay == [stage |-> "idle", rows |-> <<>>, dropped |-> FALSE]

Init ==
  /\ task = [t \in Tasks |->
       [assignee |-> NoAgent, generation |-> 0, archived |-> FALSE, deep |-> FALSE]]
  /\ stopped = {}
  /\ active = 0 /\ pauses = 0 /\ faults = 0
  /\ row = [t \in Tasks |-> NoRow(t)]
  /\ keys = {} /\ wakes = {} /\ owed = {} /\ excused = {}
  /\ replay = [p \in Replayers |-> NoReplay]

Fault == faults < MaxFaults /\ faults' = faults + 1

workspace == <<active, pauses>>
rows == <<row, owed, excused>>

-----------------------------------------------------------------------------
(* Tasks and agents.                                                       *)
Wake(t, a, g, actor) ==
  [task |-> t, agent |-> a, generation |-> g, pause |-> 0, actor |-> actor, stage |-> "gate"]

(* Creating a task publishes an event, which names no actor; its metadata  *)
(* carries the chain of the run that created it.                           *)
CreateTask(t, a, deep) ==
  /\ task[t].generation = 0
  /\ task' = [task EXCEPT ![t] = [@ EXCEPT !.assignee = a, !.generation = 1, !.deep = deep]]
  /\ wakes' = wakes \cup {Wake(t, a, 1, FALSE)}
  /\ UNCHANGED <<stopped, workspace, rows, keys, replay, faults>>

(* Every committed call is a new generation, a repeated assignee included. *)
(* Generation 0 is a task that was created without an assignee, too.       *)
UpdateTaskAssignee(t, a) ==
  LET g == task[t].generation + 1
  IN  /\ task[t].generation < MaxGeneration
      /\ task' = [task EXCEPT ![t] = [@ EXCEPT !.assignee = a, !.generation = g]]
      /\ wakes' = IF a = NoAgent THEN wakes ELSE wakes \cup {Wake(t, a, g, TRUE)}
      /\ UNCHANGED <<stopped, workspace, rows, keys, replay, faults>>

Redeliver(t) ==
  /\ task[t].assignee # NoAgent /\ Fault
  /\ wakes' = wakes \cup {Wake(t, task[t].assignee, task[t].generation, FALSE)}
  /\ UNCHANGED <<task, stopped, workspace, rows, keys, replay>>

ArchiveTask(t) ==
  /\ task[t].generation > 0 /\ ~task[t].archived
  /\ task' = [task EXCEPT ![t].archived = TRUE]
  /\ UNCHANGED <<stopped, workspace, rows, keys, wakes, replay, faults>>

StopAgent(a) ==
  /\ a \notin stopped
  /\ stopped' = stopped \cup {a}
  /\ UNCHANGED <<task, workspace, rows, keys, wakes, replay, faults>>

-----------------------------------------------------------------------------
(* A wake: the agent's status and the gate, then the run or the deferral.  *)
Becomes(w, new) == wakes' = (wakes \ {w}) \cup new

guardWake(w) ==
  /\ w.stage = "gate"
  /\ \/ /\ w.agent \in stopped
        /\ Becomes(w, {}) /\ UNCHANGED faults
     \/ /\ w.agent \notin stopped /\ active = 0
        /\ Becomes(w, {[w EXCEPT !.stage = "insert"]}) /\ UNCHANGED faults
     \/ /\ w.agent \notin stopped /\ active # 0
        /\ Becomes(w, {[w EXCEPT !.stage = "read", !.pause = active]}) /\ UNCHANGED faults
     \/ Becomes(w, {}) /\ Fault
  /\ UNCHANGED <<task, stopped, workspace, rows, keys, replay>>

(* Admission takes the chain of a wake without an actor from the task, and *)
(* refuses it for ever where that is too deep.                             *)
Refuses(t, actor) == task[t].deep /\ ~actor

QueueRun(w) ==
  /\ w.stage = "insert"
  /\ keys' = IF Refuses(w.task, w.actor) THEN keys
              ELSE keys \cup {<<w.task, w.agent, w.generation>>}
  /\ Becomes(w, {})
  /\ UNCHANGED <<task, stopped, workspace, rows, replay, faults>>

(* What is recorded is the task's assignment at this read.  The scheduler's *)
(* wake expects its own generation.                                        *)
readTaskFields(w) ==
  LET f == task[w.task]
  IN  /\ w.stage = "read"
      /\ \/ /\ f.assignee = NoAgent \/ (w.actor /\ f.generation # w.generation)
            /\ Becomes(w, {}) /\ UNCHANGED faults
         \/ /\ f.assignee # NoAgent /\ (w.actor => f.generation = w.generation)
            /\ Becomes(w, {[w EXCEPT !.stage = "write", !.agent = f.assignee,
                                     !.generation = f.generation]})
            /\ UNCHANGED faults
         \/ Becomes(w, {}) /\ Fault
      /\ UNCHANGED <<task, stopped, workspace, rows, keys, replay>>

(* A pending row gives way to a newer assignment, or to the actor of its own. *)
Overwrites(w) ==
  LET r == row[w.task]
  IN  \/ ~r.pending
      \/ r.generation < w.generation
      \/ r.generation = w.generation /\ ~r.actor /\ w.actor

RecordDeferredAssignmentWithActor(w) ==
  /\ w.stage = "write"
  /\ row' = IF Overwrites(w)
            THEN [row EXCEPT ![w.task] =
                   [task |-> w.task, agent |-> w.agent, generation |-> w.generation,
                    pause |-> w.pause, actor |-> w.actor, pending |-> TRUE]]
            ELSE row
  /\ owed' = owed \cup {<<w.task, w.generation>>}
  /\ Becomes(w, {})
  /\ UNCHANGED <<task, stopped, workspace, keys, replay, excused, faults>>

RecordFails(w) ==
  /\ w.stage = "write" /\ Fault
  /\ Becomes(w, {})
  /\ UNCHANGED <<task, stopped, workspace, rows, keys, replay>>

-----------------------------------------------------------------------------
(* Pause and resume; the release and the replay are two steps.             *)
Pause ==
  /\ active = 0 /\ pauses < MaxPauses
  /\ active' = pauses + 1 /\ pauses' = pauses + 1
  /\ UNCHANGED <<task, stopped, rows, keys, wakes, replay, faults>>

Resume(o) ==
  /\ active # 0 /\ replay[o].stage = "idle"
  /\ active' = 0
  /\ replay' = [replay EXCEPT ![o].stage = "list"]
  /\ UNCHANGED <<task, stopped, pauses, rows, keys, wakes, faults>>

Waiting == {t \in Tasks : row[t].pending}

(* What a query for the pending rows returns: all of them.  It orders them *)
(* by created_at alone, a wall clock that may stand still or go back, so   *)
(* that nothing is said of their order.                                    *)
Pending ==
  {list \in [1..Cardinality(Waiting) -> {row[t] : t \in Waiting}] :
     \A i, j \in DOMAIN list : i # j => list[i] # list[j]}

First(list, limit) == SubSeq(list, 1, IF Len(list) < limit THEN Len(list) ELSE limit)

(* The rows still to replay; the first one is next.                        *)
Replaying(p, list) ==
  replay' = [replay EXCEPT ![p] =
    IF list = <<>> THEN NoReplay ELSE [NoReplay EXCEPT !.stage = "validate", !.rows = list]]

ReplayDeferredAssignments(o) ==
  /\ o # Tick /\ replay[o].stage = "list"
  /\ \E list \in Pending : Replaying(o, list)
  /\ UNCHANGED <<task, stopped, workspace, rows, keys, wakes, faults>>

ReplayPendingDeferredAssignments ==
  /\ replay[Tick].stage = "idle" /\ active = 0 /\ Waiting # {}
  /\ \E list \in Pending : Replaying(Tick, First(list, ReplayLimit))
  /\ UNCHANGED <<task, stopped, workspace, rows, keys, wakes, faults>>

Skip(p) == Replaying(p, Tail(replay[p].rows))

To(p, stage, dropped) ==
  replay' = [replay EXCEPT ![p].stage = stage, ![p].dropped = dropped]

StillAssigned(da) ==
  LET f == task[da.task]
  IN  ~f.archived /\ f.assignee = da.agent /\ f.generation = da.generation

Validate(p) ==
  /\ replay[p].stage = "validate"
  /\ \/ StillAssigned(Head(replay[p].rows)) /\ To(p, "queue", FALSE) /\ UNCHANGED faults
     \/ ~StillAssigned(Head(replay[p].rows)) /\ To(p, "resolve", TRUE) /\ UNCHANGED faults
     \/ Skip(p) /\ Fault
  /\ UNCHANGED <<task, stopped, workspace, rows, keys, wakes>>

(* The agent is not runnable: the row stays for the next replay.           *)
RetryRefused(p) == Skip(p)

(* The agent is not runnable, which no retry changes: the row is dropped.  *)
DropRefused(p) == To(p, "resolve", TRUE)

(***************************************************************************)
(* A row with an actor goes to the scheduler, whose refusal of an agent is *)
(* not the error the replay knows: the row stays, as after any other       *)
(* failure.  A row without one goes through the service, and is dropped.   *)
(***************************************************************************)
QueueDeferredAssignment(p) ==
  LET da == Head(replay[p].rows)
  IN  /\ replay[p].stage = "queue"
      /\ \/ /\ da.agent \in stopped /\ UNCHANGED faults
            /\ IF da.actor THEN Skip(p) ELSE DropRefused(p)
         \/ da.agent \notin stopped /\ active # 0 /\ Skip(p) /\ UNCHANGED faults
         \/ /\ da.agent \notin stopped /\ active = 0 /\ UNCHANGED faults
            /\ IF Refuses(da.task, da.actor) THEN Skip(p) ELSE To(p, "insert", FALSE)
         \/ Skip(p) /\ Fault                    \* rate limited, or a failed call
      /\ UNCHANGED <<task, stopped, workspace, rows, keys, wakes>>

InsertReplayedRun(p) ==
  LET da == Head(replay[p].rows)
  IN  /\ replay[p].stage = "insert"
      /\ keys' = keys \cup {<<da.task, da.agent, da.generation>>}
      /\ To(p, "resolve", FALSE)
      /\ UNCHANGED <<task, stopped, workspace, rows, wakes, faults>>

(* Any pending row of the task, whatever it says by now.                   *)
SameTask(da) == row[da.task].pending

(* The row as it was read, and pending still.                              *)
Unchanged(da) ==
  LET r == row[da.task]
  IN  /\ r.pending
      /\ r.generation = da.generation /\ r.agent = da.agent /\ r.pause = da.pause

ResolveDeferredAssignment(p) ==
  LET da == Head(replay[p].rows)
  IN  /\ replay[p].stage = "resolve"
      /\ \/ /\ Unchanged(da)
            /\ row' = [row EXCEPT ![da.task].pending = FALSE]
            /\ excused' = IF replay[p].dropped /\ (task[da.task].archived \/ da.agent \in stopped)
                          THEN excused \cup {<<da.task, da.generation>>}
                          ELSE excused
            /\ UNCHANGED faults
         \/ ~Unchanged(da) /\ UNCHANGED <<row, excused, faults>>
         \/ Fault /\ UNCHANGED <<row, excused>>
      /\ Skip(p)
      /\ UNCHANGED <<task, stopped, workspace, owed, keys, wakes>>

CrashBackend ==
  /\ Fault
  /\ wakes' = {}
  /\ replay' = [p \in Replayers |-> NoReplay]
  /\ UNCHANGED <<task, stopped, workspace, rows, keys>>

-----------------------------------------------------------------------------
WakeStep(w) ==
  \/ guardWake(w) \/ QueueRun(w) \/ readTaskFields(w)
  \/ RecordDeferredAssignmentWithActor(w) \/ RecordFails(w)

ReplayStep(p) ==
  \/ Validate(p) \/ QueueDeferredAssignment(p) \/ InsertReplayedRun(p)
  \/ ResolveDeferredAssignment(p)

Next ==
  \/ \E t \in Tasks :
       \/ \E a \in Agents, deep \in BOOLEAN : CreateTask(t, a, deep)
       \/ \E a \in Agents \cup {NoAgent} : UpdateTaskAssignee(t, a)
       \/ Redeliver(t) \/ ArchiveTask(t)
  \/ \E a \in Agents : StopAgent(a)
  \/ \E w \in wakes : WakeStep(w)
  \/ Pause \/ CrashBackend
  \/ \E o \in Operators : Resume(o) \/ ReplayDeferredAssignments(o)
  \/ ReplayPendingDeferredAssignments
  \/ \E p \in Replayers : ReplayStep(p)

Spec == Init /\ [][Next]_vars

(* The recovery tick is a cron job; a goroutine that runs goes on.         *)
FairSpec ==
  /\ Spec
  /\ WF_vars(ReplayPendingDeferredAssignments)
  /\ \A p \in Replayers : WF_vars(ReplayStep(p))

-----------------------------------------------------------------------------
(***************************************************************************)
(* An assignment whose wake a pause refused, and whose deferral was        *)
(* recorded, is not lost while it is the task's latest: its run exists, or *)
(* its row waits for a replay, unless a replay found the task archived or  *)
(* the agent not runnable.  Records, both replays and reassignments may    *)
(* overtake each other between their reads and their writes.               *)
(***************************************************************************)
DeferralNotLost ==
  \A t \in Tasks :
    LET f == task[t]
    IN  f.assignee # NoAgent /\ <<t, f.generation>> \in owed \ excused =>
          \/ <<t, f.assignee, f.generation>> \in keys
          \/ row[t].pending /\ row[t].generation = f.generation

(* Rows that every replay leaves as they are: still the task's assignment, *)
(* and refused for a reason that the replay takes for a passing one.       *)
Stuck ==
  {t \in Waiting : /\ StillAssigned(row[t])
                   /\ \/ row[t].actor /\ row[t].agent \in stopped
                      \/ Refuses(t, row[t].actor)}

(***************************************************************************)
(* In a running workspace with fewer stuck rows than a tick takes, no      *)
(* other row waits for ever: it is replayed, or dropped if its assignment  *)
(* is out of date or its agent not runnable.  A deferral may be recorded   *)
(* after the resume that would replay it has listed the rows, one tick     *)
(* takes only the first rows, and what comes first is up to a clock.       *)
(***************************************************************************)
EventuallyReplayed ==
  \A t \in Tasks :
    <>[](active = 0 /\ Cardinality(Stuck) < ReplayLimit) =>
      []<>(~row[t].pending \/ t \in Stuck)

(***************************************************************************)
(* The claim behind dropping refused rows: none is left pending that would *)
(* block the head of the line of the bounded recovery tick for ever.  So   *)
(* no row that can be replayed or dropped waits for ever.                  *)
(***************************************************************************)
HeadOfLineNotBlocked ==
  \A t \in Tasks :
    <>[](active = 0) => []<>(~row[t].pending \/ t \in Stuck)
================================================================================
