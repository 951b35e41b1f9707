----------------------- MODULE DeferredAssignmentsProofs -----------------------
(***************************************************************************)
(* Proofs about DeferredAssignments, for any number of tasks, agents,      *)
(* operators, pauses and faults: a deferred assignment is not lost while   *)
(* it is the task's latest.                                                *)
(***************************************************************************)
EXTENDS DeferredAssignments, FiniteSetTheorems, TLAPS

(***************************************************************************)
(* What was read of a task, by a wake or into a row, is not newer than the *)
(* task, and as long as the task has not been assigned again it names the  *)
(* same agent.                                                             *)
(***************************************************************************)
Follows(x) ==
  /\ x.generation <= task[x.task].generation
  /\ x.generation = task[x.task].generation => x.agent = task[x.task].assignee

(* What was recorded names an assignment.                                  *)
Recorded(x) == x.agent \in Agents /\ x.generation \in 1..MaxGeneration

RowsSound ==
  \A t \in Tasks :
    /\ row[t].task = t /\ Follows(row[t])
    /\ row[t].pending => Recorded(row[t]) /\ <<t, row[t].generation>> \in owed

WakesSound == \A w \in wakes : w.stage = "write" => Follows(w)

OwedPast == \A d \in owed : d[2] <= task[d[1]].generation

(* A task that was never assigned has no assignee.                         *)
Unassigned == \A t \in Tasks : task[t].generation = 0 => task[t].assignee = NoAgent

(* Why a replay may drop a row, from then on.                              *)
Moot(da) ==
  \/ task[da.task].archived
  \/ da.agent \in stopped
  \/ da.generation < task[da.task].generation

(* A replay that is about to resolve a row has created its run, or has     *)
(* found it moot.                                                          *)
ReplaySound(p) ==
  /\ \A i \in DOMAIN replay[p].rows : Follows(replay[p].rows[i]) /\ Recorded(replay[p].rows[i])
  /\ replay[p].stage \in {"validate", "queue", "insert", "resolve"} => replay[p].rows # <<>>
  /\ replay[p].stage = "resolve" =>
       LET da == Head(replay[p].rows)
       IN  IF replay[p].dropped THEN Moot(da) ELSE <<da.task, da.agent, da.generation>> \in keys

Inv ==
  /\ TypeOK
  /\ RowsSound /\ WakesSound /\ OwedPast /\ Unassigned
  /\ \A p \in Replayers : ReplaySound(p)
  /\ DeferralNotLost

-----------------------------------------------------------------------------
(* What steps of others leave true.                                        *)

(* Tasks are assigned again, archived, agents stopped and runs created;    *)
(* nothing of this is taken back.                                          *)
Forward ==
  /\ \A t \in Tasks :
       /\ \/ task'[t].generation > task[t].generation
          \/ task'[t].generation = task[t].generation /\ task'[t].assignee = task[t].assignee
       /\ task[t].archived => task'[t].archived
  /\ stopped \subseteq stopped' /\ keys \subseteq keys'

FollowsNext(x) ==
  /\ x.generation <= task'[x.task].generation
  /\ x.generation = task'[x.task].generation => x.agent = task'[x.task].assignee

(* What follows its task goes on to do so, and what is moot stays so.      *)
LEMMA StillFollows ==
  ASSUME TypeOK, TypeOK', Forward, NEW x, x.task \in Tasks, x.generation \in Nat, Follows(x)
  PROVE  FollowsNext(x)
<1>1. task[x.task].generation \in Nat /\ task'[x.task].generation \in Nat
  BY DEF TypeOK
<1> QED
  BY <1>1 DEF Forward, Follows, FollowsNext

(* What was found moot stays so.                                           *)
LEMMA StillMoot ==
  ASSUME TypeOK, TypeOK', Forward, NEW x, x.task \in Tasks, x.generation \in Nat, Moot(x)
  PROVE  \/ task'[x.task].archived
         \/ x.agent \in stopped'
         \/ x.generation < task'[x.task].generation
<1>1. task[x.task].generation \in Nat /\ task'[x.task].generation \in Nat
  BY DEF TypeOK
<1> QED
  BY <1>1 DEF Forward, Moot

(* The rows a replay has read are rows.                                    *)
LEMMA ReplayRows ==
  ASSUME TypeOK, NEW p \in Replayers
  PROVE  /\ replay[p].rows \in Seq(RowType)
         /\ \A i \in DOMAIN replay[p].rows :
              /\ replay[p].rows[i] \in RowType
              /\ replay[p].rows[i].task \in Tasks /\ replay[p].rows[i].generation \in Nat
         /\ replay[p].rows # <<>> =>
              /\ Head(replay[p].rows) = replay[p].rows[1] /\ 1 \in DOMAIN replay[p].rows
              /\ Head(replay[p].rows) \in RowType
              /\ Tail(replay[p].rows) \in Seq(RowType)
              /\ \A i \in DOMAIN Tail(replay[p].rows) :
                   i + 1 \in DOMAIN replay[p].rows
                   /\ Tail(replay[p].rows)[i] = replay[p].rows[i + 1]
<1>1. replay[p].rows \in Seq(RowType)
  BY DEF TypeOK, ReplayType
<1>2. \A i \in DOMAIN replay[p].rows : replay[p].rows[i] \in RowType
  BY <1>1
<1>3. \A r \in RowType : r.task \in Tasks /\ r.generation \in Nat
  BY DeferralAssumption DEF RowType
<1>4. ASSUME replay[p].rows # <<>>
      PROVE  /\ Head(replay[p].rows) = replay[p].rows[1] /\ 1 \in DOMAIN replay[p].rows
             /\ Tail(replay[p].rows) \in Seq(RowType)
             /\ \A i \in DOMAIN Tail(replay[p].rows) :
                  i + 1 \in DOMAIN replay[p].rows
                  /\ Tail(replay[p].rows)[i] = replay[p].rows[i + 1]
  BY <1>1, <1>4
<1> QED
  BY <1>1, <1>2, <1>3, <1>4

(* A replay that does not move stays sound.                                *)
LEMMA ReplayWaits ==
  ASSUME TypeOK, TypeOK', Forward, NEW p \in Replayers, ReplaySound(p), replay'[p] = replay[p]
  PROVE  ReplaySound(p)'
<1>1. ASSUME NEW i \in DOMAIN replay[p].rows PROVE FollowsNext(replay[p].rows[i])
  BY <1>1, StillFollows, ReplayRows DEF ReplaySound
<1>2. \A i \in DOMAIN replay'[p].rows : Follows(replay[p].rows[i])'
  BY <1>1 DEF Follows, FollowsNext
<1>3. ASSUME replay[p].stage = "resolve", replay[p].dropped
      PROVE  Moot(Head(replay[p].rows))'
  <2>1. /\ Moot(Head(replay[p].rows))
        /\ Head(replay[p].rows).task \in Tasks /\ Head(replay[p].rows).generation \in Nat
    BY <1>3, ReplayRows DEF ReplaySound
  <2> QED
    BY <2>1, StillMoot DEF Moot
<1> QED
  BY <1>2, <1>3 DEF ReplaySound, Forward, Recorded

(* A step that records and resolves nothing loses nothing.                 *)
LEMMA NotLostMeanwhile ==
  ASSUME Inv, TypeOK', Forward, UNCHANGED rows
  PROVE  RowsSound' /\ OwedPast' /\ Unassigned' /\ DeferralNotLost'
<1>0. TypeOK /\ UNCHANGED <<row, owed, excused>>
  BY DEF Inv, rows
<1>a. \A t \in Tasks : task[t].generation \in Nat /\ task'[t].generation \in Nat
  BY <1>0, DeferralAssumption DEF TypeOK
<1>b. \A t \in Tasks : row[t].generation \in Nat
  BY <1>0, DeferralAssumption DEF TypeOK, RowType
<1>1. \A t \in Tasks : task[t].generation \in Nat /\ task'[t].generation \in Nat
                       /\ row[t].generation \in Nat /\ row[t].task = t
  BY <1>a, <1>b DEF Inv, RowsSound
<1>2. \A t \in Tasks : FollowsNext(row[t])
  BY <1>0, <1>1, StillFollows DEF Inv, RowsSound
<1>3. RowsSound'
  BY <1>0, <1>1, <1>2 DEF Inv, RowsSound, Follows, FollowsNext, Recorded
<1>4. \A d \in owed : d[1] \in Tasks /\ d[2] \in Nat
  BY <1>0 DEF TypeOK
<1>5. OwedPast'
  BY <1>0, <1>1, <1>4 DEF Inv, OwedPast, Forward
<1>6. ASSUME NEW t \in Tasks, task'[t].assignee # NoAgent,
             <<t, task'[t].generation>> \in owed' \ excused'
      PROVE  task'[t].generation = task[t].generation /\ task'[t].assignee = task[t].assignee
  <2>1. task'[t].generation <= task[t].generation
    BY <1>0, <1>6 DEF Inv, OwedPast
  <2> QED
    BY <1>1, <2>1 DEF Forward
<1>7. DeferralNotLost'
  BY <1>0, <1>6 DEF Inv, DeferralNotLost, Forward
<1>8. Unassigned'
  BY <1>1 DEF Inv, Unassigned, Forward
<1> QED
  BY <1>3, <1>5, <1>7, <1>8

(* No wake of a step is at its write unless it was, and the replays wait.  *)
LEMMA Meanwhile ==
  ASSUME Inv, TypeOK', Forward, UNCHANGED rows,
         \A w \in wakes' : w.stage = "write" => w \in wakes \/ FollowsNext(w),
         \A p \in Replayers : replay'[p] = replay[p]
  PROVE  Inv'
<1>0. TypeOK
  BY DEF Inv
<1>1. RowsSound' /\ OwedPast' /\ Unassigned' /\ DeferralNotLost'
  BY NotLostMeanwhile
<1>2. \A p \in Replayers : ReplaySound(p)'
  BY <1>0, ReplayWaits DEF Inv
<1>3. ASSUME NEW w \in wakes', w.stage = "write" PROVE FollowsNext(w)
  <2>1. CASE w \in wakes
    <3>1. w.task \in Tasks /\ w.generation \in Nat
      BY <1>0, <2>1 DEF TypeOK, WakeType
    <3> QED
      BY <1>0, <1>3, <2>1, <3>1, StillFollows DEF Inv, WakesSound
  <2> QED
    BY <1>3, <2>1
<1>4. WakesSound'
  BY <1>3 DEF WakesSound, Follows, FollowsNext
<1> QED
  BY <1>1, <1>2, <1>4 DEF Inv

-----------------------------------------------------------------------------
(* Tasks, agents and pauses.                                               *)
TaskRow == [assignee : Agents \cup {NoAgent}, generation : 0..MaxGeneration, archived : BOOLEAN,
            deep : BOOLEAN]

(* A new wake starts at the gate.                                          *)
LEMMA NewWake ==
  ASSUME NEW t \in Tasks, NEW a \in Agents, NEW g \in 1..MaxGeneration, NEW b \in BOOLEAN
  PROVE  Wake(t, a, g, b) \in WakeType /\ Wake(t, a, g, b).stage = "gate"
BY DeferralAssumption DEF Wake, WakeType

(* Tasks are created, assigned again, announced again and archived.        *)
LEMMA TaskSteps ==
  ASSUME Inv, NEW t \in Tasks,
         \/ \E a \in Agents, deep \in BOOLEAN : CreateTask(t, a, deep)
         \/ \E a \in Agents \cup {NoAgent} : UpdateTaskAssignee(t, a)
         \/ Redeliver(t) \/ ArchiveTask(t)
  PROVE  Inv'
<1> USE DeferralAssumption
<1>1. /\ TypeOK /\ UNCHANGED <<stopped, active, pauses, row, owed, excused, keys, replay>>
      /\ UNCHANGED rows
  BY DEF Inv, CreateTask, UpdateTaskAssignee, Redeliver, ArchiveTask, rows, workspace
<1>2. task \in [Tasks -> TaskRow] /\ wakes \subseteq WakeType
  BY <1>1 DEF TypeOK, TaskRow
<1>3. ASSUME task' \in [Tasks -> TaskRow], wakes' \subseteq WakeType, faults' \in 0..MaxFaults
      PROVE  TypeOK'
  BY <1>1, <1>3 DEF TypeOK, TaskRow
<1>4. ASSUME NEW a \in Agents \cup {NoAgent}, NEW g \in 1..MaxGeneration, NEW b \in BOOLEAN,
             NEW n \in TaskRow, n.assignee = a, n.generation = g, n.archived = task[t].archived,
             g > task[t].generation, faults' = faults, task' = [task EXCEPT ![t] = n],
             \/ wakes' = wakes
             \/ a \in Agents /\ wakes' = wakes \cup {Wake(t, a, g, b)}
      PROVE  Inv'
  <2>2. task' \in [Tasks -> TaskRow]
    BY <1>2, <1>4
  <2>3. wakes' \subseteq WakeType /\ \A w \in wakes' : w.stage = "write" => w \in wakes
    <3>1. CASE wakes' = wakes
      BY <1>2, <3>1
    <3>2. CASE a \in Agents /\ wakes' = wakes \cup {Wake(t, a, g, b)}
      <4>1. Wake(t, a, g, b) \in WakeType /\ Wake(t, a, g, b).stage = "gate"
        BY <3>2, NewWake
      <4> QED
        BY <1>2, <3>2, <4>1
    <3> QED
      BY <1>4, <3>1, <3>2
  <2>4. TypeOK'
    BY <1>1, <1>3, <1>4, <2>2, <2>3 DEF TypeOK
  <2>5. Forward
    BY <1>1, <1>2, <1>4 DEF Forward, TaskRow
  <2> QED
    BY <1>1, <2>3, <2>4, <2>5, Meanwhile
<1>5. ASSUME NEW a \in Agents, NEW deep \in BOOLEAN, CreateTask(t, a, deep) PROVE Inv'
  <2> DEFINE n == [task[t] EXCEPT !.assignee = a, !.generation = 1, !.deep = deep]
  <2>1. 1 \in 1..MaxGeneration /\ 1 \in 0..MaxGeneration /\ a \in Agents \cup {NoAgent}
    OBVIOUS
  <2>2. 1 > task[t].generation
    <3>1. task[t].generation = 0
      BY <1>5, Zenon DEF CreateTask
    <3> QED
      BY <3>1
  <2>3. task[t] \in TaskRow
    BY <1>2
  <2>4. n \in TaskRow /\ n.assignee = a /\ n.generation = 1 /\ n.archived = task[t].archived
    BY <2>1, <2>3 DEF TaskRow
  <2>5. /\ task' = [task EXCEPT ![t] = n]
        /\ wakes' = wakes \cup {Wake(t, a, 1, FALSE)} /\ faults' = faults
    BY <1>5 DEF CreateTask
  <2> HIDE DEF n
  <2> QED
    BY <1>4, <2>1, <2>2, <2>4, <2>5, Zenon
<1>6. ASSUME NEW a \in Agents \cup {NoAgent}, UpdateTaskAssignee(t, a) PROVE Inv'
  <2>1. task[t] \in TaskRow /\ task[t].generation \in 0..MaxGeneration
    BY <1>2 DEF TaskRow
  <2>2. PICK g \in 1..MaxGeneration : g = task[t].generation + 1 /\ g > task[t].generation
    <3>1. task[t].generation < MaxGeneration
      BY <1>6, Zenon DEF UpdateTaskAssignee
    <3> QED
      BY <2>1, <3>1
  <2> DEFINE n == [task[t] EXCEPT !.assignee = a, !.generation = g]
  <2>3. n \in TaskRow /\ n.assignee = a /\ n.generation = g /\ n.archived = task[t].archived
    <3>1. g \in 0..MaxGeneration
      OBVIOUS
    <3> QED
      BY <2>1, <3>1 DEF TaskRow
  <2>4. /\ task' = [task EXCEPT ![t] = n]
        /\ \/ wakes' = wakes
           \/ a \in Agents /\ wakes' = wakes \cup {Wake(t, a, g, TRUE)}
        /\ faults' = faults
    BY <1>6, <2>2 DEF UpdateTaskAssignee
  <2> HIDE DEF n
  <2> QED
    BY <1>4, <2>2, <2>3, <2>4, Zenon
<1>7. CASE Redeliver(t)
  <2>1. PICK a \in Agents, g \in 0..MaxGeneration : a = task[t].assignee /\ g = task[t].generation
    BY <1>2, <1>7 DEF Redeliver, TaskRow
  <2>2. g # 0
    BY <1>7, <2>1 DEF Redeliver, Inv, Unassigned
  <2>3. /\ task' = task /\ faults' \in 0..MaxFaults
        /\ wakes' = wakes \cup {Wake(t, a, g, FALSE)}
    BY <1>1, <1>7, <2>1 DEF Redeliver, Fault, TypeOK
  <2>4. Wake(t, a, g, FALSE) \in WakeType /\ Wake(t, a, g, FALSE).stage = "gate"
    <3>1. g \in 1..MaxGeneration
      BY <2>2
    <3> QED
      BY <3>1, NewWake, Zenon
  <2>5. wakes' \subseteq WakeType /\ \A w \in wakes' : w.stage = "write" => w \in wakes
    BY <1>2, <2>3, <2>4
  <2>6. TypeOK'
    BY <1>2, <1>3, <2>3, <2>5
  <2>7. Forward
    BY <1>1, <2>3 DEF Forward
  <2> QED
    BY <1>1, <2>5, <2>6, <2>7, Meanwhile
<1>8. CASE ArchiveTask(t)
  <2>1. /\ task' = [task EXCEPT ![t].archived = TRUE] /\ UNCHANGED <<wakes, faults>>
    BY <1>8 DEF ArchiveTask
  <2>2. [task[t] EXCEPT !.archived = TRUE] \in TaskRow
    BY <1>2 DEF TaskRow
  <2>3. task' \in [Tasks -> TaskRow]
    BY <1>2, <2>1, <2>2
  <2>4. TypeOK'
    BY <1>1, <1>2, <1>3, <2>1, <2>3 DEF TypeOK
  <2>5. Forward
    BY <1>1, <1>2, <2>1 DEF Forward, TaskRow
  <2> QED
    BY <1>1, <2>1, <2>4, <2>5, Meanwhile
<1> QED
  BY <1>5, <1>6, <1>7, <1>8

(* Agents that stop, pauses and a resume touch no deferral.                *)
LEMMA StopAndPauseSteps ==
  ASSUME Inv, (\E a \in Agents : StopAgent(a)) \/ Pause
  PROVE  Inv'
<1> USE DeferralAssumption
<1>1. /\ TypeOK /\ UNCHANGED rows /\ UNCHANGED <<task, row, owed, excused, keys, wakes, replay, faults>>
      /\ stopped \subseteq stopped' /\ stopped' \subseteq Agents
  BY DEF Inv, StopAgent, Pause, rows, TypeOK
<1>2. active' \in 0..MaxPauses /\ pauses' \in 0..MaxPauses
  BY DEF Inv, TypeOK, StopAgent, Pause, workspace
<1>3. TypeOK'
  BY <1>1, <1>2 DEF TypeOK
<1>4. Forward
  BY <1>1 DEF Forward
<1> QED
  BY <1>1, <1>3, <1>4, Meanwhile

-----------------------------------------------------------------------------
(* Wakes.                                                                  *)

(* A wake that ends or goes on, and whose write, if that is next, follows  *)
(* the task.                                                               *)
LEMMA WakeGoesOn ==
  ASSUME Inv, NEW w \in wakes, NEW new \in SUBSET WakeType, Becomes(w, new),
         \A v \in new : v.stage = "write" => FollowsNext(v),
         UNCHANGED <<task, stopped, active, pauses, row, owed, excused, replay>>,
         keys \subseteq keys', keys' \subseteq Tasks \X Agents \X (1..MaxGeneration),
         faults' \in 0..MaxFaults
  PROVE  Inv'
<1>1. TypeOK
  BY DEF Inv
<1>2. wakes' \subseteq WakeType /\ \A v \in wakes' : v.stage = "write" => v \in wakes \/ FollowsNext(v)
  BY <1>1 DEF Becomes, TypeOK
<1>3. TypeOK'
  BY <1>1, <1>2 DEF TypeOK
<1>4. Forward /\ UNCHANGED rows
  BY DEF Forward, rows
<1> QED
  BY <1>2, <1>3, <1>4, Meanwhile

(* A wake up to its write.                                                 *)
LEMMA WakeSteps ==
  ASSUME Inv, NEW w \in wakes,
         guardWake(w) \/ QueueRun(w) \/ readTaskFields(w) \/ RecordFails(w)
  PROVE  Inv'
<1> USE DeferralAssumption
<1>1. TypeOK /\ w \in WakeType
  BY DEF Inv, TypeOK
<1>2. UNCHANGED <<task, stopped, active, pauses, row, owed, excused, replay>>
  BY DEF guardWake, QueueRun, readTaskFields, RecordFails, workspace, rows
<1>3. faults' \in 0..MaxFaults
  BY <1>1 DEF guardWake, QueueRun, readTaskFields, RecordFails, Fault, TypeOK
<1>4. keys \in SUBSET (Tasks \X Agents \X (1..MaxGeneration))
  BY <1>1 DEF TypeOK
<1>5. CASE Becomes(w, {}) /\ keys' = keys
  BY <1>2, <1>3, <1>4, <1>5, WakeGoesOn
<1>6. CASE guardWake(w)
  <2>1. ASSUME Becomes(w, {[w EXCEPT !.stage = "insert"]}) PROVE Inv'
    <3>1. [w EXCEPT !.stage = "insert"] \in WakeType /\ [w EXCEPT !.stage = "insert"].stage = "insert"
      BY <1>1 DEF WakeType
    <3>2. keys' = keys
      BY <1>6 DEF guardWake
    <3> QED
      BY <1>2, <1>3, <1>4, <2>1, <3>1, <3>2, WakeGoesOn
  <2>2. ASSUME Becomes(w, {[w EXCEPT !.stage = "read", !.pause = active]}) PROVE Inv'
    <3> DEFINE v == [w EXCEPT !.stage = "read", !.pause = active]
    <3>0. active \in 0..MaxPauses
      BY <1>1 DEF TypeOK
    <3>1. v \in WakeType /\ v.stage = "read"
      BY <1>1, <3>0 DEF WakeType
    <3>2. keys' = keys
      BY <1>6 DEF guardWake
    <3> QED
      BY <1>2, <1>3, <1>4, <2>2, <3>1, <3>2, WakeGoesOn
  <2>3. keys' = keys
    BY <1>6 DEF guardWake
  <2> QED
    BY <1>5, <1>6, <2>1, <2>2, <2>3 DEF guardWake
<1>7. CASE QueueRun(w)
  <2>1. <<w.task, w.agent, w.generation>> \in Tasks \X Agents \X (1..MaxGeneration)
    BY <1>1 DEF WakeType
  <2>2. /\ Becomes(w, {})
        /\ keys' = keys \/ keys' = keys \cup {<<w.task, w.agent, w.generation>>}
    BY <1>7 DEF QueueRun
  <2> QED
    BY <1>2, <1>3, <1>4, <2>1, <2>2, WakeGoesOn
<1>8. CASE readTaskFields(w)
  <2> DEFINE f == task[w.task]
             v == [w EXCEPT !.stage = "write", !.agent = f.assignee, !.generation = f.generation]
  <2>1. keys' = keys
    BY <1>8 DEF readTaskFields
  <2>2. ASSUME f.assignee # NoAgent, Becomes(w, {v}) PROVE Inv'
    <3>1. w.task \in Tasks
      BY <1>1 DEF WakeType
    <3>2. f.assignee \in Agents /\ f.generation \in 0..MaxGeneration
      BY <1>1, <2>2, <3>1 DEF TypeOK
    <3>3. f.generation # 0
      BY <2>2, <3>1 DEF Inv, Unassigned
    <3>4. f.generation \in 1..MaxGeneration
      BY <3>2, <3>3
    <3>5. v \in WakeType /\ v.task = w.task /\ v.agent = f.assignee /\ v.generation = f.generation
      BY <1>1, <3>2, <3>4 DEF WakeType
    <3>6. FollowsNext(v)
      BY <1>2, <3>2, <3>5 DEF FollowsNext
    <3> QED
      BY <1>2, <1>3, <1>4, <2>1, <2>2, <3>5, <3>6, WakeGoesOn
  <2> QED
    BY <1>5, <1>8, <2>1, <2>2 DEF readTaskFields
<1>9. CASE RecordFails(w)
  BY <1>5, <1>9 DEF RecordFails
<1> QED
  BY <1>6, <1>7, <1>8, <1>9

(***************************************************************************)
(* A record of the task's latest assignment leaves a pending row of that   *)
(* generation, its own or one that was there; a late record of an older    *)
(* one does not take the place of a pending row of the latest.             *)
(***************************************************************************)
LEMMA RecordSteps ==
  ASSUME Inv, NEW w \in wakes, RecordDeferredAssignmentWithActor(w)
  PROVE  Inv'
<1> USE DeferralAssumption
<1> DEFINE t == w.task
           new == [task |-> t, agent |-> w.agent, generation |-> w.generation,
                   pause |-> w.pause, actor |-> w.actor, pending |-> TRUE]
           d == <<t, w.generation>>
<1>1. TypeOK /\ w \in WakeType /\ t \in Tasks /\ w.generation \in 1..MaxGeneration
  BY DEF Inv, TypeOK, WakeType
<1>2. /\ UNCHANGED <<task, stopped, active, pauses, keys, replay, excused, faults>>
      /\ owed' = owed \cup {d} /\ wakes' = wakes \ {w}
      /\ w.stage = "write"
      /\ \/ Overwrites(w) /\ row' = [row EXCEPT ![t] = new]
         \/ ~Overwrites(w) /\ row' = row
  BY DEF RecordDeferredAssignmentWithActor, Becomes, workspace
<1>3. new \in RowType
  BY <1>1 DEF RowType, WakeType
<1>4. row' \in [Tasks -> RowType]
  BY <1>1, <1>2, <1>3 DEF TypeOK
<1>5. owed' \subseteq Tasks \X (1..MaxGeneration) /\ excused' \subseteq owed'
  BY <1>1, <1>2 DEF TypeOK
<1>6. TypeOK'
  BY <1>1, <1>2, <1>4, <1>5 DEF TypeOK
<1>7. Forward
  BY <1>2 DEF Forward
<1>8. /\ \A p \in Replayers : ReplaySound(p)'
      /\ WakesSound' /\ Unassigned'
  BY <1>1, <1>2, <1>6, <1>7, ReplayWaits DEF Inv, WakesSound, Unassigned, Follows
<1>9. Follows(w)
  BY <1>2 DEF Inv, WakesSound
<1>10. OwedPast'
  BY <1>2, <1>9 DEF Inv, OwedPast, Follows
<1>11. new.task = t /\ new.generation = w.generation /\ new.agent = w.agent /\ new.pending
  OBVIOUS
<1> HIDE DEF new
<1>12. RowsSound'
  <2> SUFFICES ASSUME NEW u \in Tasks
               PROVE  /\ row'[u].task = u /\ Follows(row[u])'
                      /\ row'[u].pending =>
                           Recorded(row[u])' /\ <<u, row'[u].generation>> \in owed'
    BY DEF RowsSound
  <2>1. CASE row'[u] = row[u]
    BY <1>2, <2>1 DEF Inv, RowsSound, Follows, Recorded
  <2>2. CASE u = t /\ row'[u] = new
    <3>1. w.agent \in Agents
      BY <1>1 DEF WakeType
    <3> QED
      BY <1>1, <1>2, <1>9, <1>11, <2>2, <3>1 DEF Follows, Recorded
  <2> QED
    BY <1>1, <1>2, <2>1, <2>2 DEF TypeOK
<1>13. DeferralNotLost'
  <2> SUFFICES ASSUME NEW u \in Tasks, task[u].assignee # NoAgent,
                      <<u, task[u].generation>> \in owed' \ excused
               PROVE  \/ <<u, task[u].assignee, task[u].generation>> \in keys
                      \/ row'[u].pending /\ row'[u].generation = task[u].generation
    BY <1>2 DEF DeferralNotLost
  <2>1. CASE u # t
    BY <1>1, <1>2, <2>1 DEF Inv, DeferralNotLost, TypeOK
  <2>2. CASE u = t /\ Overwrites(w)
    <3>1. row'[u] = new
      BY <1>1, <1>2, <2>2 DEF TypeOK
    <3>2. CASE w.generation = task[u].generation
      BY <1>11, <3>1, <3>2
    <3>3. CASE w.generation # task[u].generation
      <4>1. <<u, task[u].generation>> \in owed
        BY <1>2, <2>2, <3>3
      <4>2. \/ <<u, task[u].assignee, task[u].generation>> \in keys
            \/ row[u].pending /\ row[u].generation = task[u].generation
        BY <4>1 DEF Inv, DeferralNotLost
      <4>3. ~(row[u].pending /\ row[u].generation = task[u].generation)
        BY <1>1, <1>9, <2>2, <3>3 DEF Overwrites, Follows, TypeOK
      <4> QED
        BY <4>2, <4>3
    <3> QED
      BY <3>2, <3>3
  <2>3. CASE u = t /\ ~Overwrites(w)
    <3>1. row'[u] = row[u] /\ row[u].pending /\ ~(row[u].generation < w.generation)
      BY <1>2, <2>3 DEF Overwrites
    <3>2. row[u].generation <= task[u].generation
      BY <2>3 DEF Inv, RowsSound, Follows
    <3>3. CASE w.generation = task[u].generation
      <4>1. row[u].generation \in Nat
        BY <1>1, <2>3 DEF TypeOK, RowType
      <4> QED
        BY <1>1, <3>1, <3>2, <3>3, <4>1
    <3>4. CASE w.generation # task[u].generation
      BY <1>2, <2>3, <3>1, <3>4 DEF Inv, DeferralNotLost
    <3> QED
      BY <3>3, <3>4
  <2> QED
    BY <2>1, <2>2, <2>3
<1> QED
  BY <1>6, <1>8, <1>10, <1>12, <1>13 DEF Inv

-----------------------------------------------------------------------------
(* Replays.                                                                *)

(* A replay moves, and nothing else changes but that a run may be created. *)
LEMMA ReplayGoesOn ==
  ASSUME Inv, NEW p \in Replayers, NEW n \in ReplayType, replay' = [replay EXCEPT ![p] = n],
         UNCHANGED <<task, stopped, pauses, row, owed, excused, wakes>>,
         active' \in 0..MaxPauses, faults' \in 0..MaxFaults,
         keys \subseteq keys', keys' \subseteq Tasks \X Agents \X (1..MaxGeneration),
         ReplaySound(p)'
  PROVE  Inv'
<1>1. TypeOK
  BY DEF Inv
<1>2. TypeOK'
  BY <1>1 DEF TypeOK
<1>3. Forward /\ UNCHANGED rows
  BY DEF Forward, rows
<1>4. RowsSound' /\ OwedPast' /\ Unassigned' /\ DeferralNotLost'
  BY <1>2, <1>3, NotLostMeanwhile
<1>5. WakesSound'
  BY DEF Inv, WakesSound, Follows
<1>6. ASSUME NEW q \in Replayers PROVE ReplaySound(q)'
  <2>1. CASE q = p
    BY <2>1
  <2>2. CASE q # p
    <3>1. replay'[q] = replay[q] /\ ReplaySound(q)
      BY <1>1, <2>2 DEF TypeOK, Inv
    <3> QED
      BY <1>1, <1>2, <1>3, <3>1, ReplayWaits
  <2> QED
    BY <2>1, <2>2
<1> QED
  BY <1>2, <1>4, <1>5, <1>6 DEF Inv

(* Starting on a list of rows that follow their tasks.                     *)
LEMMA ReplayingSound ==
  ASSUME TypeOK, NEW p \in Replayers, NEW list \in Seq(RowType), Replaying(p, list),
         task' = task, \A i \in DOMAIN list : Follows(list[i]) /\ Recorded(list[i])
  PROVE  \E n \in ReplayType :
           /\ replay' = [replay EXCEPT ![p] = n] /\ replay'[p] = n
           /\ n.stage # "resolve" /\ ReplaySound(p)'
<1> DEFINE n == IF list = <<>> THEN NoReplay
                ELSE [NoReplay EXCEPT !.stage = "validate", !.rows = list]
<1>1. replay' = [replay EXCEPT ![p] = n] /\ replay'[p] = n
  BY DEF Replaying, TypeOK
<1>2. CASE list = <<>>
  <2>1. /\ NoReplay \in ReplayType /\ NoReplay.stage = "idle" /\ NoReplay.rows = <<>>
    BY DEF NoReplay, ReplayType
  <2>2. replay' = [replay EXCEPT ![p] = NoReplay] /\ replay'[p] = NoReplay
    BY <1>1, <1>2
  <2>3. ReplaySound(p)'
    BY <2>1, <2>2 DEF ReplaySound
  <2> QED
    BY <2>1, <2>2, <2>3
<1>3. CASE list # <<>>
  <2> DEFINE m == [stage |-> "validate", rows |-> list, dropped |-> FALSE]
  <2>1. m \in ReplayType /\ m.stage = "validate" /\ m.rows = list
    BY DEF ReplayType
  <2>2. replay' = [replay EXCEPT ![p] = m] /\ replay'[p] = m
    BY <1>1, <1>3 DEF NoReplay
  <2> HIDE DEF m
  <2>3. ReplaySound(p)'
    BY <1>3, <2>1, <2>2 DEF ReplaySound, Follows, Recorded
  <2> QED
    BY <2>1, <2>2, <2>3
<1> QED
  BY <1>2, <1>3

(* What the queries return are rows.                                       *)
LEMMA PendingRows ==
  ASSUME Inv, NEW list \in Pending
  PROVE  /\ list \in Seq(RowType)
         /\ \A i \in DOMAIN list : Follows(list[i]) /\ Recorded(list[i])
<1>1. IsFiniteSet(Waiting)
  BY DeferralAssumption, FS_Subset DEF Waiting
<1>2. PICK n \in Nat : n = Cardinality(Waiting)
  BY <1>1, FS_CardinalityType
<1>3. list \in [1..n -> {row[t] : t \in Waiting}]
  BY <1>2 DEF Pending
<1>4. \A x \in {row[t] : t \in Waiting} : x \in RowType /\ Follows(x) /\ Recorded(x)
  BY DEF Waiting, Inv, TypeOK, RowsSound
<1>5. list \in [1..n -> RowType]
  BY <1>3, <1>4
<1>6. list \in Seq(RowType)
  BY <1>5
<1> QED
  BY <1>3, <1>4, <1>6

(* What one tick takes of a list is rows of the list.                      *)
LEMMA FirstRows ==
  ASSUME NEW list \in Seq(RowType), \A i \in DOMAIN list : Follows(list[i]) /\ Recorded(list[i])
  PROVE  /\ First(list, ReplayLimit) \in Seq(RowType)
         /\ \A i \in DOMAIN First(list, ReplayLimit) :
              Follows(First(list, ReplayLimit)[i]) /\ Recorded(First(list, ReplayLimit)[i])
<1>1. PICK n \in 0..Len(list) : First(list, ReplayLimit) = SubSeq(list, 1, n)
  BY DeferralAssumption DEF First
<1>2. /\ SubSeq(list, 1, n) \in Seq(RowType)
      /\ \A i \in DOMAIN SubSeq(list, 1, n) : i \in DOMAIN list /\ SubSeq(list, 1, n)[i] = list[i]
  BY <1>1
<1> QED
  BY <1>1, <1>2

(* Resume and the two queries that begin a replay.                         *)
LEMMA ListSteps ==
  ASSUME Inv,
         \/ \E o \in Operators : Resume(o) \/ ReplayDeferredAssignments(o)
         \/ ReplayPendingDeferredAssignments
  PROVE  Inv'
<1> USE DeferralAssumption
<1>1. /\ TypeOK
      /\ UNCHANGED <<task, stopped, pauses, row, owed, excused, wakes, keys, faults>>
      /\ active' \in 0..MaxPauses
  BY DEF Inv, Resume, ReplayDeferredAssignments, ReplayPendingDeferredAssignments, rows,
         workspace, TypeOK
<1>2. /\ faults' \in 0..MaxFaults /\ keys \subseteq keys'
      /\ keys' \subseteq Tasks \X Agents \X (1..MaxGeneration)
  BY <1>1 DEF TypeOK
<1>3. ASSUME NEW p \in Replayers, NEW list \in Seq(RowType), Replaying(p, list),
             \A i \in DOMAIN list : Follows(list[i]) /\ Recorded(list[i])
      PROVE  Inv'
  BY <1>1, <1>2, <1>3, ReplayingSound, ReplayGoesOn
<1>4. ASSUME NEW o \in Operators, Resume(o) PROVE Inv'
  <2> DEFINE n == [replay[o] EXCEPT !.stage = "list"]
  <2>1. o \in Replayers /\ replay[o] \in ReplayType
    BY <1>1 DEF Replayers, TypeOK
  <2>2. n \in ReplayType /\ n.stage = "list" /\ n.rows = replay[o].rows
    BY <2>1 DEF ReplayType
  <2>3. replay' = [replay EXCEPT ![o] = n] /\ replay'[o] = n
    BY <1>1, <1>4, <2>1 DEF Resume, TypeOK
  <2> HIDE DEF n
  <2>4. ReplaySound(o)'
    BY <1>1, <2>1, <2>2, <2>3 DEF Inv, ReplaySound, Follows, Recorded
  <2> QED
    BY <1>1, <1>2, <2>1, <2>2, <2>3, <2>4, ReplayGoesOn
<1>5. ASSUME NEW o \in Operators, ReplayDeferredAssignments(o) PROVE Inv'
  BY <1>3, <1>5, PendingRows DEF ReplayDeferredAssignments, Replayers
<1>6. CASE ReplayPendingDeferredAssignments
  BY <1>3, <1>6, PendingRows, FirstRows DEF ReplayPendingDeferredAssignments, Replayers
<1> QED
  BY <1>4, <1>5, <1>6

(* A crash forgets wakes and replays, and nothing else.                    *)
LEMMA CrashStep == ASSUME Inv, CrashBackend PROVE Inv'
<1> USE DeferralAssumption
<1>1. /\ TypeOK /\ wakes' = {} /\ replay' = [p \in Replayers |-> NoReplay]
      /\ UNCHANGED <<task, stopped, active, pauses, row, owed, excused, keys>>
      /\ faults' \in 0..MaxFaults
  BY DEF Inv, CrashBackend, Fault, rows, workspace, TypeOK
<1>2. NoReplay \in ReplayType /\ NoReplay.stage = "idle" /\ NoReplay.rows = <<>>
  BY DEF NoReplay, ReplayType
<1>3. TypeOK'
  BY <1>1, <1>2 DEF TypeOK
<1>4. Forward /\ UNCHANGED rows
  BY <1>1 DEF Forward, rows
<1>5. RowsSound' /\ OwedPast' /\ Unassigned' /\ DeferralNotLost'
  BY <1>3, <1>4, NotLostMeanwhile
<1>6. ASSUME NEW p \in Replayers PROVE ReplaySound(p)'
  <2>1. replay'[p] = NoReplay
    BY <1>1
  <2> QED
    BY <1>2, <2>1 DEF ReplaySound
<1>7. WakesSound'
  BY <1>1 DEF WakesSound
<1> QED
  BY <1>3, <1>5, <1>6, <1>7 DEF Inv

(* Going on to the next row.                                               *)
LEMMA SkipSound ==
  ASSUME Inv, NEW p \in Replayers, replay[p].rows # <<>>, Skip(p), task' = task
  PROVE  \E n \in ReplayType :
           /\ replay' = [replay EXCEPT ![p] = n] /\ replay'[p] = n
           /\ n.stage # "resolve" /\ ReplaySound(p)'
<1> DEFINE list == Tail(replay[p].rows)
<1>1. TypeOK /\ ReplaySound(p)
  BY DEF Inv
<1>2. list \in Seq(RowType)
  BY <1>1, ReplayRows
<1>3. \A i \in DOMAIN list : Follows(list[i]) /\ Recorded(list[i])
  BY <1>1, ReplayRows DEF ReplaySound
<1>4. Replaying(p, list)
  BY DEF Skip
<1> HIDE DEF list
<1> QED
  BY <1>1, <1>2, <1>3, <1>4, ReplayingSound

(* Going on with the same row.                                             *)
LEMMA ToSound ==
  ASSUME Inv, NEW p \in Replayers, replay[p].rows # <<>>,
         NEW s \in {"queue", "insert", "resolve"}, NEW b \in BOOLEAN, To(p, s, b),
         UNCHANGED <<task, stopped>>,
         s = "resolve" => LET da == Head(replay[p].rows)
                          IN  IF b THEN Moot(da) ELSE <<da.task, da.agent, da.generation>> \in keys'
  PROVE  \E n \in ReplayType : replay' = [replay EXCEPT ![p] = n] /\ ReplaySound(p)'
<1> DEFINE n == [replay[p] EXCEPT !.stage = s, !.dropped = b]
<1>1. TypeOK /\ ReplaySound(p) /\ replay[p] \in ReplayType
  BY DEF Inv, TypeOK
<1>2. n \in ReplayType
  BY <1>1 DEF ReplayType
<1>3. replay' = [replay EXCEPT ![p] = n] /\ replay'[p] = n
  <2>1. replay' = [replay EXCEPT ![p] = n]
    BY DEF To
  <2> HIDE DEF n
  <2> QED
    BY <1>1, <2>1 DEF TypeOK
<1>4. n.stage = s /\ n.rows = replay[p].rows /\ n.dropped = b
  BY <1>1 DEF ReplayType
<1> HIDE DEF n
<1>5. ReplaySound(p)'
  BY SMTT(30), <1>1, <1>3, <1>4 DEF ReplaySound, Follows, Recorded, Moot
<1> QED
  BY <1>2, <1>3, <1>5

(* A replay up to the resolution of a row.                                 *)
LEMMA ReplaySteps ==
  ASSUME Inv, NEW p \in Replayers,
         Validate(p) \/ QueueDeferredAssignment(p) \/ InsertReplayedRun(p)
  PROVE  Inv'
<1> USE DeferralAssumption
<1> DEFINE da == Head(replay[p].rows)
<1>1. /\ TypeOK /\ ReplaySound(p)
      /\ UNCHANGED <<task, stopped, active, pauses, row, owed, excused, wakes>>
  BY DEF Inv, Validate, QueueDeferredAssignment, InsertReplayedRun, rows, workspace
<1>2. active' \in 0..MaxPauses /\ faults' \in 0..MaxFaults
  <2>1. active' \in 0..MaxPauses /\ faults \in 0..MaxFaults
    BY <1>1 DEF TypeOK
  <2>2. faults' = faults \/ Fault
    BY DEF Validate, QueueDeferredAssignment, InsertReplayedRun
  <2> QED
    BY <2>1, <2>2 DEF Fault
<1>3. replay[p].rows # <<>>
  BY <1>1 DEF ReplaySound, Validate, QueueDeferredAssignment, InsertReplayedRun
<1>4. da \in RowType /\ Follows(da) /\ Recorded(da)
  BY <1>1, <1>3, ReplayRows DEF ReplaySound
<1>5. da.task \in Tasks /\ da.generation \in Nat
  BY <1>4 DEF RowType
<1>6. keys \subseteq keys' /\ keys' \subseteq Tasks \X Agents \X (1..MaxGeneration)
  <2>1. keys' = keys \/ keys' = keys \cup {<<da.task, da.agent, da.generation>>}
    BY DEF Validate, QueueDeferredAssignment, InsertReplayedRun
  <2>2. <<da.task, da.agent, da.generation>> \in Tasks \X Agents \X (1..MaxGeneration)
    BY <1>4, <1>5 DEF Recorded
  <2>3. keys \subseteq Tasks \X Agents \X (1..MaxGeneration)
    BY <1>1 DEF TypeOK
  <2> QED
    BY <2>1, <2>2, <2>3
<1> HIDE DEF da
<1>7. ASSUME Skip(p) PROVE Inv'
  BY <1>1, <1>2, <1>3, <1>6, <1>7, SkipSound, ReplayGoesOn
<1>8. ASSUME NEW s \in {"queue", "insert", "resolve"}, NEW b \in BOOLEAN, To(p, s, b),
             s = "resolve" => IF b THEN Moot(da) ELSE <<da.task, da.agent, da.generation>> \in keys'
      PROVE  Inv'
  <2>1. \E n \in ReplayType : replay' = [replay EXCEPT ![p] = n] /\ ReplaySound(p)'
    BY <1>1, <1>3, <1>8, ToSound DEF da
  <2> QED
    BY <1>1, <1>2, <1>6, <2>1, ReplayGoesOn
<1>9. CASE Validate(p)
  <2>1. ASSUME ~StillAssigned(da) PROVE Moot(da)
    <3>1. task[da.task].generation \in Nat
      BY <1>1, <1>5 DEF TypeOK
    <3>2. \/ task[da.task].archived
          \/ task[da.task].assignee # da.agent
          \/ task[da.task].generation # da.generation
      BY <2>1 DEF StillAssigned
    <3>3. da.generation < task[da.task].generation \/ da.generation = task[da.task].generation
      BY <1>4, <1>5, <3>1 DEF Follows
    <3> QED
      BY <1>4, <3>2, <3>3 DEF Moot, Follows
  <2> QED
    BY <1>7, <1>8, <1>9, <2>1 DEF Validate, da
<1>10. CASE QueueDeferredAssignment(p)
  BY <1>7, <1>8, <1>10 DEF QueueDeferredAssignment, DropRefused, Moot, da
<1>11. CASE InsertReplayedRun(p)
  BY <1>8, <1>11 DEF InsertReplayedRun, da
<1> QED
  BY <1>9, <1>10, <1>11

(***************************************************************************)
(* A resolution takes the row that was read, or none.  If that is the      *)
(* task's latest assignment its run exists or the replay has found it      *)
(* moot, and moot can then only mean archived or not runnable.             *)
(***************************************************************************)
LEMMA ResolveStep ==
  ASSUME Inv, NEW p \in Replayers, ResolveDeferredAssignment(p)
  PROVE  Inv'
<1> USE DeferralAssumption
<1> DEFINE da == Head(replay[p].rows)
           t == da.task
<1>1. /\ TypeOK /\ ReplaySound(p) /\ replay[p].stage = "resolve" /\ Skip(p)
      /\ UNCHANGED <<task, stopped, active, pauses, owed, keys, wakes>>
  BY DEF Inv, ResolveDeferredAssignment, workspace
<1>2. replay[p].rows # <<>>
  BY <1>1 DEF ReplaySound
<1>3. da \in RowType /\ Follows(da) /\ Recorded(da) /\ t \in Tasks
  BY <1>1, <1>2, ReplayRows DEF ReplaySound
<1>4. PICK n \in ReplayType : replay' = [replay EXCEPT ![p] = n] /\ ReplaySound(p)'
  BY <1>1, <1>2, SkipSound
<1>5. faults' \in 0..MaxFaults
  <2>1. faults' = faults \/ Fault
    BY DEF ResolveDeferredAssignment
  <2> QED
    BY <1>1, <2>1 DEF TypeOK, Fault
<1>6. CASE UNCHANGED <<row, excused>>
  <2>1. /\ active' \in 0..MaxPauses /\ keys \subseteq keys'
        /\ keys' \subseteq Tasks \X Agents \X (1..MaxGeneration)
    BY <1>1 DEF TypeOK
  <2> QED
    BY <1>1, <1>4, <1>5, <1>6, <2>1, ReplayGoesOn
<1>7. CASE /\ Unchanged(da) /\ row' = [row EXCEPT ![t].pending = FALSE]
           /\ excused' = IF replay[p].dropped /\ (task[t].archived \/ da.agent \in stopped)
                         THEN excused \cup {<<t, da.generation>>} ELSE excused
  <2>1. row[t] \in RowType /\ row[t].pending /\ row[t].generation = da.generation
    BY <1>1, <1>3, <1>7 DEF TypeOK, Unchanged
  <2> HIDE DEF da
  <2>2. <<t, da.generation>> \in owed
    BY <1>3, <2>1 DEF Inv, RowsSound
  <2>3. [row[t] EXCEPT !.pending = FALSE] \in RowType
    BY <2>1 DEF RowType
  <2>4. row' = [row EXCEPT ![t] = [row[t] EXCEPT !.pending = FALSE]]
    BY <1>7
  <2>5. row' \in [Tasks -> RowType]
    BY <1>1, <2>3, <2>4 DEF TypeOK
  <2>6. excused \subseteq excused' /\ excused' \subseteq owed
    BY <1>1, <1>7, <2>2 DEF TypeOK
  <2>7. TypeOK'
    BY <1>1, <1>4, <1>5, <2>5, <2>6 DEF TypeOK
  <2>8. Forward
    BY <1>1 DEF Forward
  <2>9. ASSUME NEW q \in Replayers PROVE ReplaySound(q)'
    <3>1. CASE q = p
      BY <1>4, <3>1
    <3>2. CASE q # p
      <4>1. replay'[q] = replay[q] /\ ReplaySound(q)
        BY <1>1, <1>4, <3>2 DEF TypeOK, Inv
      <4> QED
        BY <1>1, <2>7, <2>8, <4>1, ReplayWaits
    <3> QED
      BY <3>1, <3>2
  <2>10. WakesSound' /\ OwedPast' /\ Unassigned'
    BY <1>1 DEF Inv, WakesSound, OwedPast, Unassigned, Follows
  <2>11. ASSUME NEW u \in Tasks
         PROVE  /\ row'[u].task = row[u].task /\ row'[u].generation = row[u].generation
                /\ row'[u].agent = row[u].agent
                /\ row'[u].pending => row[u].pending
                /\ u # t => row'[u] = row[u]
    BY <1>1, <1>3, <2>1, <2>4 DEF TypeOK, RowType
  <2>12. RowsSound'
    BY <1>1, <2>11 DEF Inv, RowsSound, Follows, Recorded
  <2>13. DeferralNotLost'
    <3> SUFFICES ASSUME NEW u \in Tasks, task[u].assignee # NoAgent,
                        <<u, task[u].generation>> \in owed \ excused'
                 PROVE  \/ <<u, task[u].assignee, task[u].generation>> \in keys
                        \/ row'[u].pending /\ row'[u].generation = task[u].generation
      BY <1>1 DEF DeferralNotLost
    <3>1. \/ <<u, task[u].assignee, task[u].generation>> \in keys
          \/ row[u].pending /\ row[u].generation = task[u].generation
      BY <2>6 DEF Inv, DeferralNotLost
    <3>2. CASE u = t /\ da.generation = task[u].generation
      <4>1. da.agent = task[u].assignee
        BY <1>3, <3>2 DEF Follows
      <4>2. CASE ~replay[p].dropped
        BY <1>1, <3>2, <4>1, <4>2 DEF ReplaySound, da
      <4>3. CASE replay[p].dropped
        <5>1. Moot(da)
          BY <1>1, <4>3 DEF ReplaySound, da
        <5>2. task[t].archived \/ da.agent \in stopped
          <6>1. da.generation \in Nat
            BY <1>3 DEF Recorded
          <6> QED
            BY <3>2, <5>1, <6>1 DEF Moot
        <5>3. <<u, task[u].generation>> \in excused'
          BY <1>7, <3>2, <4>3, <5>2
        <5> QED
          BY <5>3
      <4> QED
        BY <4>2, <4>3
    <3>3. CASE u # t
      BY <2>11, <3>1, <3>3
    <3>4. CASE u = t /\ da.generation # task[u].generation
      BY <2>1, <3>1, <3>4
    <3> QED
      BY <3>2, <3>3, <3>4
  <2> QED
    BY <2>7, <2>9, <2>10, <2>12, <2>13 DEF Inv
<1> QED
  BY <1>6, <1>7 DEF ResolveDeferredAssignment

-----------------------------------------------------------------------------
(* The invariant holds of a workspace nobody has used.                     *)
LEMMA InitInv == Init => Inv
<1> SUFFICES ASSUME Init PROVE Inv
  OBVIOUS
<1> USE DeferralAssumption
<1>1. \A t \in Tasks : /\ row[t] = NoRow(t) /\ NoRow(t) \in RowType
                       /\ NoRow(t).task = t /\ NoRow(t).agent = NoAgent
                       /\ NoRow(t).generation = 0 /\ ~NoRow(t).pending
  BY DEF Init, NoRow, RowType
<1>2. /\ NoReplay \in ReplayType /\ NoReplay.stage = "idle" /\ NoReplay.rows = <<>>
      /\ \A p \in Replayers : replay[p] = NoReplay
  BY DEF Init, NoReplay, ReplayType
<1>3. \A t \in Tasks : task[t] \in TaskRow /\ task[t].generation = 0 /\ task[t].assignee = NoAgent
  BY DEF Init, TaskRow
<1>4. task \in [Tasks -> TaskRow] /\ row \in [Tasks -> RowType] /\ replay \in [Replayers -> ReplayType]
  BY <1>1, <1>2, <1>3 DEF Init
<1>5. TypeOK
  BY <1>4 DEF Init, TypeOK, TaskRow
<1>6. RowsSound /\ WakesSound /\ OwedPast /\ Unassigned /\ DeferralNotLost
  BY <1>1, <1>3 DEF Init, RowsSound, WakesSound, OwedPast, Unassigned, DeferralNotLost, Follows
<1>7. \A p \in Replayers : ReplaySound(p)
  BY <1>2 DEF ReplaySound
<1> QED
  BY <1>5, <1>6, <1>7 DEF Inv

(* Every step keeps the invariant.                                         *)
LEMMA StepInv == Inv /\ [Next]_vars => Inv'
<1> SUFFICES ASSUME Inv, [Next]_vars PROVE Inv'
  OBVIOUS
<1>1. CASE UNCHANGED vars
  <2>1. TypeOK' /\ Forward /\ UNCHANGED rows /\ UNCHANGED <<wakes, replay>>
    BY <1>1 DEF vars, Inv, TypeOK, Forward, rows
  <2> QED
    BY <2>1, Meanwhile
<1>2. CASE Next
  <2>1. ASSUME NEW w \in wakes, WakeStep(w) PROVE Inv'
    BY <2>1, WakeSteps, RecordSteps DEF WakeStep
  <2>2. ASSUME NEW p \in Replayers, ReplayStep(p) PROVE Inv'
    BY <2>2, ReplaySteps, ResolveStep DEF ReplayStep
  <2> QED
    BY <1>2, <2>1, <2>2, TaskSteps, StopAndPauseSteps, ListSteps, CrashStep DEF Next
<1> QED
  BY <1>1, <1>2

(***************************************************************************)
(* A deferral that was recorded is not lost while its assignment is the    *)
(* task's latest, for any number of tasks, agents, operators, wakes,       *)
(* pauses and faults.  What carries it: a row, a wake at its write and a   *)
(* row in a replay's hands are never newer than the task, and of the same  *)
(* generation only if of the same agent; and a replay resolves only what   *)
(* has its run or was found moot, which it stays.                          *)
(***************************************************************************)
THEOREM DeferralsAreKept == Spec => [](TypeOK /\ DeferralNotLost)
<1>1. Inv => TypeOK /\ DeferralNotLost
  BY DEF Inv
<1> QED
  BY <1>1, InitInv, StepInv, PTL DEF Spec

================================================================================
