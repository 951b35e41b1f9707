-------------------------- MODULE RunAdmissionProofs --------------------------
(***************************************************************************)
(* Proofs about RunAdmission: types, self-trigger allowances, identities   *)
(* and causation chains, for every set of agents and requests, every       *)
(* window and every limit.                                                 *)
(***************************************************************************)
EXTENDS RunAdmission, FiniteSetTheorems, TLAPS

(***************************************************************************)
(* Every row of the table is a row.                                        *)
(***************************************************************************)
LEMMA RowsAreRows == TypeOK => \A i \in Ids : rows[i] \in RowType
  BY DEF TypeOK, Ids

(***************************************************************************)
(* A cause is no run or a row of the table.                                *)
(***************************************************************************)
LEMMA CausesAreRows ==
  ASSUME NEW s \in Requests, NEW c \in Causes(s)
  PROVE  c = 0 \/ c \in Ids
<1>1. s.source \in {"root", "run", "reactivity", "boundary"}
  BY RequestsAssumption DEF RequestType
<1> QED
  BY <1>1 DEF Causes, DeepestHeldBy, HeldBy

(***************************************************************************)
(* The row that resolveCausation and insertRun build has the type of a row. *)
(***************************************************************************)
LEMMA ResolvedType ==
  ASSUME TypeOK, NEW s \in Requests, NEW c \in Causes(s)
  PROVE  Resolved(s, c) \in RowType
<1>1. s \in RequestType
  BY RequestsAssumption
<1>2. c # 0 => c \in Ids /\ rows[c] \in RowType
  BY CausesAreRows DEF TypeOK, Ids
<1>3. ActorKind(s) \in {"user", "agent", "system"}
  BY <1>1 DEF ActorKind, RequestType
<1>4. ~Roots(s, c) => c # 0
  BY DEF Roots
<1>5. (IF Roots(s, c) THEN 0 ELSE rows[c].root) \in Nat
  BY <1>2, <1>4 DEF RowType
<1>6. (IF Roots(s, c) THEN 0 ELSE c) \in Nat
  BY <1>2, <1>4 DEF Ids, TypeOK
<1>7. (IF Roots(s, c) THEN 0 ELSE DepthBelow(c)) \in Nat
  BY <1>2, <1>4 DEF RowType, DepthBelow
<1>8. (IF Roots(s, c) THEN ActorKind(s) = "user" ELSE rows[c].human) \in BOOLEAN
  BY <1>2, <1>4 DEF RowType
<1>9. (IF c = 0 \/ (s.source # "boundary" /\ Roots(s, c))
       THEN s.routine ELSE rows[c].routine) \in Routines \cup {None}
  BY <1>1, <1>2 DEF RowType, RequestType
<1>10. (IF ActorKind(s) = s.kind THEN s.actor ELSE None) \in Agents \cup {None}
  BY <1>1 DEF RequestType
<1> QED
  BY <1>1, <1>3, <1>5, <1>6, <1>7, <1>8, <1>9, <1>10 DEF Resolved, RowType, RequestType

(***************************************************************************)
(* The fields of a row that no step changes once it is inserted.           *)
(***************************************************************************)
Frozen(old, new) ==
  /\ new.agent = old.agent /\ new.reason = old.reason
  /\ new.key = old.key /\ new.wave = old.wave
  /\ new.kind = old.kind /\ new.actor = old.actor /\ new.at = old.at
  /\ new.root = old.root /\ new.parent = old.parent /\ new.depth = old.depth
  /\ new.human = old.human /\ new.routine = old.routine

(***************************************************************************)
(* A merge writes the payload of a row and leaves its frozen fields.       *)
(***************************************************************************)
LEMMA PayloadOnly ==
  ASSUME NEW row \in RowType, NEW s \in Requests
  PROVE  LET new == [row EXCEPT !.payload = s]
         IN  Frozen(row, new) /\ new.status = row.status /\ new \in RowType
  BY DEF Frozen, RowType

(***************************************************************************)
(* Retention marks a row deleted and leaves its frozen fields.             *)
(***************************************************************************)
LEMMA DeletedOnly ==
  ASSUME NEW row \in RowType
  PROVE  LET new == [row EXCEPT !.status = "deleted"]
         IN  Frozen(row, new) /\ new.status = "deleted" /\ new \in RowType
  BY DEF Frozen, RowType

(* Only history older than the retention window is deleted.                *)
KeepsRecent(i) ==
  rows'[i].status = "deleted" =>
    rows[i].status = "deleted" \/ now - rows[i].at > RetentionWindow

(* A step of the life of the rows: a merge, a claim, a close, a re-queue,  *)
(* a deletion, or the clock.                                               *)
RowsKept ==
  /\ rows' \in Seq(RowType)
  /\ Len(rows') = Len(rows)
  /\ \A i \in Ids : Frozen(rows[i], rows'[i]) /\ KeepsRecent(i)
  /\ open' = open
  /\ now' \in {now, now + 1}

(* An enqueue decides to insert.                                           *)
Resolves ==
  \E s \in Requests : \E c \in Causes(s) :
    /\ open[s.agent] = None
    /\ Admitted(Resolved(s, c))
    /\ open' = [open EXCEPT ![s.agent] = Resolved(s, c)]
    /\ rows' = rows
    /\ now' = now

(* The row CommitInsert appends.                                           *)
Stamped(row) ==
  [row EXCEPT !.root = IF @ = 0 THEN Len(rows) + 1 ELSE @, !.at = now]

Inserts(a) ==
  /\ open[a] # None
  /\ open' = [open EXCEPT ![a] = None]
  /\ \/ rows' = rows
     \/ ~UniqueConflict(open[a]) /\ rows' = Append(rows, Stamped(open[a]))
  /\ now' = now

(***************************************************************************)
(* Every step of the specification is one of those three.                  *)
(***************************************************************************)
LEMMA StepShape ==
  ASSUME TypeOK, [Next]_vars
  PROVE  RowsKept \/ Resolves \/ \E a \in Agents : Inserts(a)
<1> USE DEF TypeOK
<1>1. \A i \in Ids : rows[i] \in RowType
  BY DEF Ids
<1>2. ASSUME NEW s \in Requests, QueueRun(s)
      PROVE  RowsKept \/ Resolves
  <2>1. CASE MayCoalesce(s) /\ ChooseTarget(s) /\ UNCHANGED open
    BY <1>1, <1>2, <2>1 DEF QueueRun, RowsKept, Frozen, KeepsRecent
  <2>2. CASE ResolveRow(s)
    BY <1>2, <2>2 DEF QueueRun, ResolveRow, Resolves
  <2> QED
    BY <1>2, <2>1, <2>2 DEF QueueRun
<1>8. ASSUME NEW a \in Agents, CommitCoalesce(a)
      PROVE  RowsKept \/ Resolves
  <2> DEFINE i == merging[a].into
             s == merging[a].request
  <2>1. i \in Ids /\ s \in Requests /\ open[s.agent] = None
    BY <1>8 DEF CommitCoalesce, MergingOK, Ids
  <2> HIDE DEF i, s
  <2>2. CASE rows' = [rows EXCEPT ![i].payload = s] /\ open' = open /\ now' = now
    <3>1. Len(rows') = Len(rows) /\ rows'[i] = [rows[i] EXCEPT !.payload = s]
      BY <2>1, <2>2 DEF Ids
    <3>2. \A j \in Ids : j # i => rows'[j] = rows[j]
      BY <2>1, <2>2 DEF Ids
    <3>3. /\ Frozen(rows[i], rows'[i]) /\ rows'[i].status = rows[i].status
          /\ rows'[i] \in RowType
      BY <1>1, <2>1, <3>1, PayloadOnly
    <3>4. \A j \in Ids : j # i => Frozen(rows[j], rows'[j]) /\ rows'[j].status = rows[j].status
      BY <3>2 DEF Frozen
    <3>5. rows' \in Seq(RowType)
      BY <2>1, <2>2, <3>1, <3>3 DEF Ids
    <3> QED
      BY <2>2, <3>1, <3>3, <3>4, <3>5 DEF RowsKept, KeepsRecent
  <2>3. CASE ResolveRow(s) /\ rows' = rows /\ now' = now
    BY <2>1, <2>3 DEF ResolveRow, Resolves
  <2>4. CASE open' = open /\ rows' = rows /\ now' = now
    BY <1>1, <2>4 DEF RowsKept, Frozen, KeepsRecent
  <2> QED
    BY <1>8, <2>2, <2>3, <2>4 DEF CommitCoalesce, i, s
<1>3. ASSUME NEW a \in Agents, CommitInsert(a)
      PROVE  Inserts(a)
  BY <1>3 DEF CommitInsert, Inserts, Stamped
<1>4. ASSUME NEW i \in Ids, NEW from, NEW to \in {"queued", "claimed", "done"},
             SetStatus(i, from, to)
      PROVE  RowsKept
  <2>1. rows' = [rows EXCEPT ![i].status = to, ![i].ran = @ \/ to = "claimed"]
    BY <1>4 DEF SetStatus
  <2>2. Len(rows') = Len(rows)
    BY <2>1 DEF Ids
  <2>3. rows'[i] = [rows[i] EXCEPT !.status = to, !.ran = @ \/ to = "claimed"]
    BY <2>1 DEF Ids
  <2>4. \A j \in Ids : j # i => rows'[j] = rows[j]
    BY <2>1 DEF Ids
  <2>5. (rows[i].ran \/ to = "claimed") \in BOOLEAN
    OBVIOUS
  <2>6. PICK ran \in BOOLEAN : rows'[i] = [rows[i] EXCEPT !.status = to, !.ran = ran]
    BY <2>3, <2>5, Zenon
  <2>7. Frozen(rows[i], rows'[i]) /\ rows'[i].status = to /\ rows'[i] \in RowType
    <3>1. to \in {"queued", "claimed", "done", "deleted"} /\ rows[i] \in RowType
      BY <1>1
    <3> QED
      BY <2>6, <3>1 DEF Frozen, RowType
  <2>8. \A j \in Ids : j # i => Frozen(rows[j], rows'[j]) /\ rows'[j].status = rows[j].status
    BY <2>4 DEF Frozen
  <2>9. rows' \in Seq(RowType)
    <3>1. rows' = [rows EXCEPT ![i] = rows'[i]]
      BY <2>1, <2>3 DEF Ids
    <3> QED
      BY <2>7, <3>1 DEF Ids
  <2> QED
    BY <1>4, <2>2, <2>7, <2>8, <2>9 DEF SetStatus, RowsKept, KeepsRecent
<1>5. ASSUME NEW i \in Ids, Claim(i) \/ Close(i) \/ Requeue(i)
      PROVE  RowsKept
  BY <1>4, <1>5 DEF Claim, Close, Requeue
<1>6. ASSUME DeleteRunBatch
      PROVE  RowsKept
  <2>1. PICK S \in SUBSET Prunable :
          rows' = [i \in Ids |-> IF i \in S THEN [rows[i] EXCEPT !.status = "deleted"]
                                 ELSE rows[i]]
    BY <1>6 DEF DeleteRunBatch
  <2>2. \A i \in S : i \in Ids /\ now - rows[i].at > RetentionWindow
    BY <2>1 DEF Prunable
  <2>3. Len(rows') = Len(rows) /\ DOMAIN rows' = Ids
    BY <2>1 DEF Ids
  <2>4. \A i \in S : Frozen(rows[i], rows'[i]) /\ rows'[i] \in RowType
    BY <1>1, <2>1, <2>2, DeletedOnly
  <2>5. \A i \in Ids \ S : rows'[i] = rows[i]
    BY <2>1
  <2>6. \A i \in Ids : Frozen(rows[i], rows'[i]) /\ rows'[i] \in RowType
    BY <1>1, <2>4, <2>5 DEF Frozen
  <2>7. rows' \in Seq(RowType)
    BY SMTT(30), <2>1, <2>3, <2>6 DEF Ids
  <2> QED
    BY <1>6, <2>2, <2>3, <2>5, <2>6, <2>7 DEF DeleteRunBatch, RowsKept, KeepsRecent
<1>7. ASSUME Tick \/ UNCHANGED vars
      PROVE  RowsKept
  BY <1>1, <1>7 DEF Tick, vars, RowsKept, Frozen, KeepsRecent, Ids
<1> QED
  BY <1>2, <1>3, <1>5, <1>6, <1>7, <1>8 DEF Next

-----------------------------------------------------------------------------
(* Types.                                                                  *)

(***************************************************************************)
(* The insert changes only the root and the time of the pending row.       *)
(***************************************************************************)
LEMMA StampedRow ==
  ASSUME TypeOK, NEW row \in RowType
  PROVE  LET new == Stamped(row)
         IN  /\ new \in RowType
             /\ new.agent = row.agent /\ new.kind = row.kind /\ new.actor = row.actor
             /\ new.reason = row.reason /\ new.status = row.status
             /\ new.key = row.key /\ new.wave = row.wave
             /\ new.parent = row.parent /\ new.depth = row.depth
             /\ new.human = row.human /\ new.routine = row.routine
             /\ new.at = now
             /\ new.root = IF row.root = 0 THEN Len(rows) + 1 ELSE row.root
<1>1. Len(rows) + 1 \in Nat /\ now \in Nat
  BY DEF TypeOK
<1> QED
  BY <1>1 DEF Stamped, RowType

(***************************************************************************)
(* An enqueue that has chosen a row to merge into keeps the agent's lock,  *)
(* and the row it has chosen keeps its place in the table.                 *)
(***************************************************************************)
LEMMA StepKeepsMerging ==
  ASSUME TypeOK, [Next]_vars, rows' \in Seq(RowType), Len(rows') >= Len(rows)
  PROVE  MergingOK'
<1>1. Ids \subseteq DOMAIN rows'
  BY DEF TypeOK, Ids
<1>a. \A a \in Agents : merging[a] # None =>
        open[a] = None /\ merging[a].into \in Ids /\ merging[a].request.agent = a
  BY DEF TypeOK, MergingOK, Ids
<1>2. ASSUME merging' = merging, open' = open PROVE MergingOK'
  BY <1>1, <1>2, <1>a DEF TypeOK, MergingOK
<1>3. ASSUME NEW s \in Requests, QueueRun(s) PROVE MergingOK'
  <2>0. s.agent \in Agents
    BY RequestsAssumption DEF RequestType
  <2>1. CASE MayCoalesce(s) /\ ChooseTarget(s) /\ UNCHANGED open
    <3>1. PICK i \in Newest(CoalesceTargets(s)) :
            merging' = [merging EXCEPT ![s.agent] = [into |-> i, request |-> s]]
      BY <2>1 DEF ChooseTarget
    <3>2. i \in Ids /\ i \in Nat
      BY DEF Newest, CoalesceTargets, TypeOK, Ids
    <3>3. open' = open /\ open[s.agent] = None
      BY <1>3, <2>1 DEF QueueRun
    <3>4. [into |-> i, request |-> s] \in [into : Nat, request : Requests]
      BY <3>2
    <3>5. merging' \in [Agents -> [into : Nat, request : Requests] \cup {None}]
      BY <3>1, <3>4 DEF TypeOK, MergingOK
    <3>6. ASSUME NEW a \in Agents, merging'[a] # None
          PROVE  /\ open'[a] = None /\ merging'[a].into \in Ids
                 /\ merging'[a].request.agent = a
      <4>1. CASE a = s.agent
        BY <2>0, <3>1, <3>2, <3>3, <4>1 DEF TypeOK, MergingOK
      <4>2. CASE a # s.agent
        BY <1>a, <3>1, <3>3, <3>6, <4>2 DEF TypeOK, MergingOK
      <4> QED
        BY <4>1, <4>2
    <3> QED
      BY <1>1, <3>5, <3>6 DEF MergingOK
  <2>2. CASE ResolveRow(s) /\ UNCHANGED merging
    BY <1>1, <1>3, <1>a, <2>0, <2>2 DEF QueueRun, ResolveRow, TypeOK, MergingOK
  <2> QED
    BY <1>3, <2>1, <2>2 DEF QueueRun
<1>4. ASSUME NEW a \in Agents, CommitCoalesce(a) PROVE MergingOK'
  <2>1. /\ merging' = [merging EXCEPT ![a] = None]
        /\ \A b \in Agents : b # a => open'[b] = open[b]
    BY <1>4, <1>a DEF CommitCoalesce, ResolveRow, TypeOK
  <2> QED
    BY <1>1, <1>a, <2>1 DEF TypeOK, MergingOK
<1>5. ASSUME NEW a \in Agents, CommitInsert(a) PROVE MergingOK'
  BY <1>1, <1>5, <1>a DEF CommitInsert, TypeOK, MergingOK
<1>6. ASSUME NEW i \in Ids, Claim(i) \/ Close(i) \/ Requeue(i) PROVE MergingOK'
  BY <1>2, <1>6 DEF Claim, Close, Requeue, SetStatus
<1>7. CASE DeleteRunBatch \/ Tick \/ UNCHANGED vars
  BY <1>2, <1>7 DEF DeleteRunBatch, Tick, vars
<1> QED
  BY <1>3, <1>4, <1>5, <1>6, <1>7 DEF Next

(***************************************************************************)
(* A step from a well-typed state leads to a well-typed state.             *)
(***************************************************************************)
LEMMA StepKeepsTypes ==
  ASSUME TypeOK, [Next]_vars
  PROVE  TypeOK'
<1>1. CASE RowsKept
  BY <1>1, StepKeepsMerging DEF RowsKept, TypeOK
<1>2. CASE Resolves
  <2>0. PICK s \in Requests : \E c \in Causes(s) :
          open' = [open EXCEPT ![s.agent] = Resolved(s, c)]
    BY <1>2 DEF Resolves
  <2>1. PICK c \in Causes(s) :
          open' = [open EXCEPT ![s.agent] = Resolved(s, c)]
    BY <2>0
  <2>2. Resolved(s, c) \in RowType
    BY ResolvedType
  <2>3. MergingOK'
    BY <1>2, StepKeepsMerging DEF Resolves, TypeOK
  <2> QED
    BY <1>2, <2>1, <2>2, <2>3 DEF Resolves, TypeOK
<1>3. ASSUME NEW a \in Agents, Inserts(a)
      PROVE  TypeOK'
  <2>1. open[a] \in RowType
    BY <1>3 DEF TypeOK, Inserts
  <2>2. Stamped(open[a]) \in RowType
    BY <2>1, StampedRow
  <2>3. rows' \in Seq(RowType)
    BY <1>3, <2>2 DEF TypeOK, Inserts
  <2>4. Len(rows') >= Len(rows)
    BY <1>3, <2>2 DEF TypeOK, Inserts
  <2> QED
    BY <1>3, <2>3, <2>4, StepKeepsMerging DEF TypeOK, Inserts
<1> QED
  BY <1>1, <1>2, <1>3, StepShape

(***************************************************************************)
(* The rows of the runs table, the pending rows and the clock keep their   *)
(* types: in particular every causation depth and root an enqueue computes *)
(* is a natural number, which no guard of the insert checks.               *)
(***************************************************************************)
THEOREM AdmissionTypeCorrect == Spec => []TypeOK
<1>1. Init => TypeOK
  BY DEF Init, TypeOK, MergingOK
<1>2. TypeOK /\ [Next]_vars => TypeOK'
  BY StepKeepsTypes
<1> QED
  BY <1>1, <1>2, PTL DEF Spec

-----------------------------------------------------------------------------
(* The self-trigger allowances.                                            *)

(* The self-triggered runs of a, for a reason in R, in the window to t.    *)
Counted(a, R, t) == {i \in SelfLaunches(a, t) : rows[i].reason \in R}

(* A kind of self-triggered runs and the allowance that bounds it.         *)
Allowance(R, b) ==
  \/ R = Reasons /\ b = SelfTriggerTotalAllowance
  \/ b = SelfTriggerAllowance /\ \E reason \in Reasons : R = {reason}

SelfTriggers(row, a, R) ==
  row.agent = a /\ row.kind = "agent" /\ row.actor = a /\ row.reason \in R

RowsPast == \A i \in Ids : rows[i].at <= now

(* Retention has deleted nothing that the current window can see.          *)
WindowKept == \A i \in Ids : ~Live(i) => now - rows[i].at >= SelfTriggerWindow

(* What the check of an open enqueue saw still holds when it inserts.      *)
PendingWithin ==
  \A a \in Agents : open[a] # None =>
    /\ open[a].agent = a
    /\ open[a].status # "deleted"
    /\ \A R \in SUBSET Reasons, b \in Nat :
         Allowance(R, b) /\ SelfTriggers(open[a], a, R) =>
           Cardinality(Counted(a, R, now)) < b

EveryWindow ==
  \A a \in Agents, R \in SUBSET Reasons, b \in Nat, t \in 0 .. now :
    Allowance(R, b) => Cardinality(Counted(a, R, t)) <= b

SelfInv == TypeOK /\ RowsPast /\ WindowKept /\ PendingWithin /\ EveryWindow

(***************************************************************************)
(* The windows are finite sets.                                            *)
(***************************************************************************)
LEMMA FiniteCounts ==
  ASSUME TypeOK, NEW a, NEW R, NEW t
  PROVE  IsFiniteSet(Counted(a, R, t)) /\ Cardinality(Counted(a, R, t)) \in Nat
<1>1. Ids = 1 .. Len(rows) /\ Len(rows) \in Nat
  BY DEF TypeOK, Ids
<1>2. IsFiniteSet(Ids)
  BY <1>1, FS_Interval
<1>3. Counted(a, R, t) \in SUBSET Ids
  BY DEF Counted, SelfLaunches
<1> QED
  BY <1>2, <1>3, FS_Subset, FS_CardinalityType

(***************************************************************************)
(* EveryWindow is the property SelfTriggerBounded, both allowances at once. *)
(***************************************************************************)
LEMMA EveryWindowBounds ==
  ASSUME TypeOK, EveryWindow
  PROVE  SelfTriggerBounded
<1> SUFFICES ASSUME NEW a \in Agents, NEW t \in 0 .. now
             PROVE  /\ Cardinality(SelfLaunches(a, t)) <= SelfTriggerTotalAllowance
                    /\ \A reason \in Reasons :
                         Cardinality({i \in SelfLaunches(a, t) : rows[i].reason = reason})
                           <= SelfTriggerAllowance
  BY DEF SelfTriggerBounded
<1>1. \A i \in Ids : rows[i].reason \in Reasons
  BY RowsAreRows DEF RowType
<1>2. Counted(a, Reasons, t) = SelfLaunches(a, t)
  BY <1>1 DEF Counted, SelfLaunches
<1>3. Cardinality(SelfLaunches(a, t)) <= SelfTriggerTotalAllowance
  <2>1. Allowance(Reasons, SelfTriggerTotalAllowance) /\ Reasons \in SUBSET Reasons
    BY DEF Allowance
  <2>2. SelfTriggerTotalAllowance \in Nat
    BY WindowsAssumption
  <2> QED
    BY <1>2, <2>1, <2>2 DEF EveryWindow
<1>4. ASSUME NEW reason \in Reasons
      PROVE  Cardinality({i \in SelfLaunches(a, t) : rows[i].reason = reason})
               <= SelfTriggerAllowance
  <2>1. Counted(a, {reason}, t) = {i \in SelfLaunches(a, t) : rows[i].reason = reason}
    BY DEF Counted
  <2>2. Allowance({reason}, SelfTriggerAllowance) /\ {reason} \in SUBSET Reasons
    BY DEF Allowance
  <2>3. SelfTriggerAllowance \in Nat
    BY WindowsAssumption
  <2> QED
    BY <2>1, <2>2, <2>3 DEF EveryWindow
<1> QED
  BY <1>3, <1>4

(***************************************************************************)
(* A merge, a change of status, a deletion or the clock moves no row into  *)
(* a window, so the bounds of every window and what the open enqueues saw  *)
(* still hold.                                                             *)
(***************************************************************************)
LEMMA KeptRowsKeepSelfInv ==
  ASSUME SelfInv, RowsKept, TypeOK'
  PROVE  SelfInv'
<1> USE DEF SelfInv
<1>1. Ids' = Ids
  BY DEF RowsKept, TypeOK, Ids
<1>2. \A i \in Ids : /\ rows'[i].agent = rows[i].agent /\ rows'[i].kind = rows[i].kind
                     /\ rows'[i].actor = rows[i].actor /\ rows'[i].at = rows[i].at
                     /\ rows'[i].reason = rows[i].reason
  BY DEF RowsKept, Frozen
<1>3. now \in Nat /\ now' \in {now, now + 1} /\ open' = open
  BY DEF RowsKept, TypeOK
<1>4. \A i \in Ids : rows[i].at \in Nat /\ rows[i].at <= now
  BY RowsAreRows DEF RowsPast, RowType
<1>5. RowsPast'
  BY <1>1, <1>2, <1>3, <1>4 DEF RowsPast
<1>6. WindowKept'
  <2> SUFFICES ASSUME NEW i \in Ids, rows'[i].status = "deleted"
               PROVE  now' - rows[i].at >= SelfTriggerWindow
    BY <1>1, <1>2 DEF WindowKept, Live
  <2>1. rows[i].status = "deleted" \/ now - rows[i].at > RetentionWindow
    BY DEF RowsKept, KeepsRecent
  <2>2. now - rows[i].at >= SelfTriggerWindow
    BY <2>1, <1>3, <1>4, WindowsAssumption DEF WindowKept, Live
  <2> QED
    BY <2>2, <1>3, <1>4, WindowsAssumption
<1>7. ASSUME NEW a \in Agents, NEW R \in SUBSET Reasons, NEW t \in 0 .. now'
      PROVE  \E u \in 0 .. now : Counted(a, R, t)' \in SUBSET Counted(a, R, u)
  <2>1. CASE t \in 0 .. now
    <3>1. Counted(a, R, t)' \in SUBSET Counted(a, R, t)
      BY <1>1, <1>2 DEF Counted, SelfLaunches
    <3> QED
      BY <1>3, <2>1, <3>1
  <2>2. CASE t = now + 1
    <3>1. Counted(a, R, t)' \in SUBSET Counted(a, R, now)
      BY <1>1, <1>2, <1>3, <1>4, <2>2, WindowsAssumption DEF Counted, SelfLaunches
    <3> QED
      BY <1>3, <3>1
  <2> QED
    BY <1>3, <2>1, <2>2
<1>8. EveryWindow'
  <2> SUFFICES ASSUME NEW a \in Agents, NEW R \in SUBSET Reasons, NEW b \in Nat,
                      NEW t \in 0 .. now', Allowance(R, b)
               PROVE  Cardinality(Counted(a, R, t)') <= b
    BY DEF EveryWindow, Allowance
  <2>1. PICK u \in 0 .. now : Counted(a, R, t)' \in SUBSET Counted(a, R, u)
    BY <1>7
  <2>2. Cardinality(Counted(a, R, u)) <= b
    BY DEF EveryWindow
  <2>3. /\ IsFiniteSet(Counted(a, R, u)) /\ Cardinality(Counted(a, R, u)) \in Nat
    BY FiniteCounts
  <2>4. Cardinality(Counted(a, R, t)') \in Nat
    BY <2>1, <2>3, FS_Subset, FS_CardinalityType
  <2>5. Cardinality(Counted(a, R, t)') <= Cardinality(Counted(a, R, u))
    BY <2>1, <2>3, FS_Subset
  <2> QED
    BY <2>2, <2>3, <2>4, <2>5
<1>9. PendingWithin'
  <2> SUFFICES ASSUME NEW a \in Agents, open[a] # None
               PROVE  /\ open[a].agent = a /\ open[a].status # "deleted"
                      /\ \A R \in SUBSET Reasons, b \in Nat :
                           Allowance(R, b) /\ SelfTriggers(open[a], a, R) =>
                             Cardinality(Counted(a, R, now)') < b
    BY <1>3 DEF PendingWithin, SelfTriggers, Allowance
  <2>1. ASSUME NEW R \in SUBSET Reasons, NEW b \in Nat, Allowance(R, b),
               SelfTriggers(open[a], a, R)
        PROVE  Cardinality(Counted(a, R, now)') < b
    <3>1. Counted(a, R, now)' \in SUBSET Counted(a, R, now)
      BY <1>1, <1>2, <1>3, <1>4, WindowsAssumption DEF Counted, SelfLaunches
    <3>2. Cardinality(Counted(a, R, now)) < b
      BY <2>1 DEF PendingWithin
    <3>3. /\ IsFiniteSet(Counted(a, R, now)) /\ Cardinality(Counted(a, R, now)) \in Nat
      BY FiniteCounts
    <3>4. /\ Cardinality(Counted(a, R, now)') \in Nat
          /\ Cardinality(Counted(a, R, now)') <= Cardinality(Counted(a, R, now))
      BY <3>1, <3>3, FS_Subset, FS_CardinalityType
    <3> QED
      BY <3>2, <3>3, <3>4
  <2> QED
    BY <2>1 DEF PendingWithin
<1> QED
  BY <1>5, <1>6, <1>8, <1>9

(***************************************************************************)
(* The check of checkSelfTriggerAllowance counts what its windows hold.    *)
(***************************************************************************)
LEMMA CheckCounts ==
  ASSUME SelfInv, NEW a \in Agents
  PROVE  /\ SelfTriggered(a) = Counted(a, Reasons, now)
         /\ \A reason : SelfTriggeredFor(a, reason) = Counted(a, {reason}, now)
<1>1. \A i \in Ids : /\ rows[i].reason \in Reasons
                     /\ rows[i].at \in Nat /\ rows[i].at <= now
                     /\ ~Live(i) => now - rows[i].at >= SelfTriggerWindow
  BY RowsAreRows DEF SelfInv, RowsPast, WindowKept, RowType
<1>2. now \in Nat /\ SelfTriggerWindow \in Nat
  BY WindowsAssumption DEF SelfInv, TypeOK
<1>3. SelfTriggered(a) = SelfLaunches(a, now)
  BY <1>1, <1>2 DEF SelfTriggered, SelfLaunches
<1> QED
  BY <1>1, <1>3 DEF SelfTriggeredFor, Counted, SelfLaunches

(***************************************************************************)
(* A step that leaves the rows and the clock leaves every window.          *)
(***************************************************************************)
LEMMA SameRows ==
  ASSUME SelfInv, rows' = rows, now' = now
  PROVE  /\ RowsPast' /\ WindowKept' /\ EveryWindow'
         /\ \A a, R : Counted(a, R, now)' = Counted(a, R, now)
<1>1. RowsPast' /\ WindowKept'
  BY DEF SelfInv, RowsPast, WindowKept, Ids, Live
<1>2. \A a, R : Counted(a, R, now)' = Counted(a, R, now)
  BY DEF Counted, SelfLaunches, Ids
<1>3. EveryWindow'
  <2> SUFFICES ASSUME NEW a \in Agents, NEW R \in SUBSET Reasons, NEW b \in Nat,
                      NEW t \in 0 .. now, Allowance(R, b)
               PROVE  Cardinality(Counted(a, R, t)') <= b
    BY DEF EveryWindow, Allowance
  <2>1. Counted(a, R, t)' = Counted(a, R, t)
    BY DEF Counted, SelfLaunches, Ids
  <2> QED
    BY <2>1 DEF EveryWindow, SelfInv
<1> QED
  BY <1>1, <1>2, <1>3

(***************************************************************************)
(* An enqueue that resolves changes no window, and its own check leaves    *)
(* room for the run it is about to insert.                                 *)
(***************************************************************************)
LEMMA ResolvingKeepsSelfInv ==
  ASSUME SelfInv, Resolves, TypeOK'
  PROVE  SelfInv'
<1> USE DEF SelfInv
<1>1. PICK s \in Requests : \E c \in Causes(s) :
        /\ open[s.agent] = None
        /\ Admitted(Resolved(s, c))
        /\ open' = [open EXCEPT ![s.agent] = Resolved(s, c)]
        /\ rows' = rows
        /\ now' = now
  BY DEF Resolves
<1>2. PICK c \in Causes(s) :
        /\ Admitted(Resolved(s, c))
        /\ open' = [open EXCEPT ![s.agent] = Resolved(s, c)]
  BY <1>1
<1>3. rows' = rows /\ now' = now
  BY <1>1
<1>4. RowsPast' /\ WindowKept' /\ EveryWindow'
  BY <1>3, SameRows
<1> DEFINE row == Resolved(s, c)
<1>5. row \in RowType /\ row.agent = s.agent /\ s.agent \in Agents /\ row.status = "queued"
  BY ResolvedType, RequestsAssumption DEF Resolved, RequestType
<1>6. WithinAllowance(row)
  BY <1>2 DEF Admitted
<1> HIDE DEF row
<1>7. \A a \in Agents : open'[a] = IF a = s.agent THEN row ELSE open[a]
  BY <1>2 DEF TypeOK, row
<1>8. ASSUME NEW R \in SUBSET Reasons, NEW b \in Nat, Allowance(R, b),
             SelfTriggers(row, s.agent, R)
      PROVE  Cardinality(Counted(s.agent, R, now)) < b
  <2>1. /\ Cardinality(SelfTriggeredFor(s.agent, row.reason)) < SelfTriggerAllowance
        /\ Cardinality(SelfTriggered(s.agent)) < SelfTriggerTotalAllowance
    BY <1>5, <1>6, <1>8 DEF WithinAllowance, SelfTriggers
  <2>2. CASE R = Reasons /\ b = SelfTriggerTotalAllowance
    BY <1>5, <2>1, <2>2, CheckCounts
  <2>3. CASE b = SelfTriggerAllowance /\ \E reason \in Reasons : R = {reason}
    <3>1. R = {row.reason}
      BY <1>8, <2>3 DEF SelfTriggers
    <3> QED
      BY <1>5, <2>1, <2>3, <3>1, CheckCounts
  <2> QED
    BY <1>8, <2>2, <2>3 DEF Allowance
<1>9. \A a, R : Counted(a, R, now)' = Counted(a, R, now)
  BY <1>3, SameRows
<1>10. PendingWithin'
  <2> SUFFICES ASSUME NEW a \in Agents, open'[a] # None
               PROVE  /\ open'[a].agent = a /\ open'[a].status # "deleted"
                      /\ \A R \in SUBSET Reasons, b \in Nat :
                           Allowance(R, b) /\ SelfTriggers(open'[a], a, R) =>
                             Cardinality(Counted(a, R, now)) < b
    BY <1>9 DEF PendingWithin, SelfTriggers, Allowance
  <2>1. CASE a = s.agent
    BY <1>5, <1>7, <1>8, <2>1
  <2>2. CASE a # s.agent
    BY <1>7, <2>2 DEF PendingWithin
  <2> QED
    BY <2>1, <2>2
<1> QED
  BY <1>4, <1>10

(***************************************************************************)
(* An insert adds at most its own run, and only to the window that ends    *)
(* now and to the counts of its own agent; those had room, since the lock  *)
(* kept every other enqueue of the agent out after the check.              *)
(***************************************************************************)
LEMMA InsertingKeepsSelfInv ==
  ASSUME SelfInv, NEW x \in Agents, Inserts(x), TypeOK'
  PROVE  SelfInv'
<1> USE DEF SelfInv
<1> DEFINE n == Len(rows) + 1
           row == Stamped(open[x])
<1>1. /\ now' = now /\ now \in Nat /\ open[x] \in RowType /\ open[x] # None
      /\ \A a \in Agents : open'[a] = IF a = x THEN None ELSE open[a]
  BY DEF Inserts, TypeOK
<1>2. /\ row \in RowType /\ row.at = now /\ row.agent = open[x].agent
      /\ row.kind = open[x].kind /\ row.actor = open[x].actor
      /\ row.reason = open[x].reason
  BY <1>1, StampedRow
<1>3. open[x].agent = x
  BY <1>1 DEF PendingWithin
<1>4. CASE rows' = rows
  <2>1. RowsPast' /\ WindowKept' /\ EveryWindow'
    BY <1>1, <1>4, SameRows
  <2>2. \A a, R : Counted(a, R, now)' = Counted(a, R, now)
    BY <1>1, <1>4, SameRows
  <2>3. PendingWithin'
    BY <1>1, <2>2 DEF PendingWithin, SelfTriggers, Allowance
  <2> QED
    BY <2>1, <2>3
<1>5. CASE rows' = Append(rows, row)
  <2>1. /\ Ids' = Ids \cup {n} /\ n \notin Ids
        /\ \A i \in Ids : rows'[i] = rows[i]
        /\ rows'[n] = row
    BY <1>5 DEF TypeOK, Ids
  <2> HIDE DEF n, row
  <2>2. RowsPast'
    BY <1>1, <1>2, <2>1 DEF RowsPast
  <2>3. WindowKept'
    <3>1. row.status # "deleted"
      BY <1>1, StampedRow DEF PendingWithin, row
    <3> QED
      BY <1>1, <2>1, <3>1 DEF WindowKept, Live
  <2>4. ASSUME NEW a, NEW R, NEW t, ~(SelfTriggers(row, a, R) /\ now <= t)
        PROVE  Counted(a, R, t)' = Counted(a, R, t)
    BY <1>2, <2>1, <2>4 DEF Counted, SelfLaunches, SelfTriggers
  <2>5. ASSUME NEW a, NEW R, NEW t
        PROVE  Counted(a, R, t)' \in SUBSET (Counted(a, R, t) \cup {n})
    BY <2>1 DEF Counted, SelfLaunches
  <2>6. EveryWindow'
    <3> SUFFICES ASSUME NEW a \in Agents, NEW R \in SUBSET Reasons, NEW b \in Nat,
                        NEW t \in 0 .. now, Allowance(R, b)
                 PROVE  Cardinality(Counted(a, R, t)') <= b
      BY <1>1 DEF EveryWindow, Allowance
    <3>1. CASE ~(SelfTriggers(row, a, R) /\ now <= t)
      BY <2>4, <3>1 DEF EveryWindow
    <3>2. CASE SelfTriggers(row, a, R) /\ now <= t
      <4>1. a = x /\ t = now /\ SelfTriggers(open[x], x, R)
        BY <1>1, <1>2, <1>3, <3>2 DEF SelfTriggers
      <4>2. Cardinality(Counted(a, R, t)) < b
        BY <1>1, <4>1 DEF PendingWithin
      <4>3. IsFiniteSet(Counted(a, R, t)) /\ Cardinality(Counted(a, R, t)) \in Nat
        BY FiniteCounts
      <4>4. /\ IsFiniteSet(Counted(a, R, t) \cup {n})
            /\ Cardinality(Counted(a, R, t) \cup {n}) <= Cardinality(Counted(a, R, t)) + 1
            /\ Cardinality(Counted(a, R, t) \cup {n}) \in Nat
        <5>1. /\ IsFiniteSet(Counted(a, R, t) \cup {n})
              /\ Cardinality(Counted(a, R, t) \cup {n}) =
                   IF n \in Counted(a, R, t) THEN Cardinality(Counted(a, R, t))
                   ELSE Cardinality(Counted(a, R, t)) + 1
          BY <4>3, FS_AddElement
        <5> QED
          BY <4>3, <5>1
      <4>5. /\ Cardinality(Counted(a, R, t)') <= Cardinality(Counted(a, R, t) \cup {n})
            /\ Cardinality(Counted(a, R, t)') \in Nat
        BY <2>5, <4>4, FS_Subset, FS_CardinalityType
      <4> QED
        BY <4>2, <4>3, <4>4, <4>5
    <3> QED
      BY <3>1, <3>2
  <2>7. PendingWithin'
    <3> SUFFICES ASSUME NEW a \in Agents, a # x, open[a] # None
                 PROVE  /\ open[a].agent = a /\ open[a].status # "deleted"
                        /\ \A R \in SUBSET Reasons, b \in Nat :
                             Allowance(R, b) /\ SelfTriggers(open[a], a, R) =>
                               Cardinality(Counted(a, R, now)') < b
      BY <1>1 DEF PendingWithin, SelfTriggers, Allowance
    <3>1. \A R : ~SelfTriggers(row, a, R)
      BY <1>2, <1>3 DEF SelfTriggers
    <3>2. \A R : Counted(a, R, now)' = Counted(a, R, now)
      BY <1>1, <2>1, <3>1 DEF Counted, SelfLaunches, SelfTriggers
    <3> QED
      BY <3>2 DEF PendingWithin
  <2> QED
    BY <2>2, <2>3, <2>6, <2>7
<1> QED
  BY <1>4, <1>5 DEF Inserts

(***************************************************************************)
(* No window of SelfTriggerWindow holds more self-triggered runs of an     *)
(* agent than checkSelfTriggerAllowance permits, for every window, every   *)
(* pair of allowances and any number of agents enqueueing at once.  The    *)
(* strengthening is that retention has deleted nothing the check still     *)
(* counts and that the room an open enqueue saw is still there.            *)
(***************************************************************************)
THEOREM SelfTriggerTheorem == Spec => []SelfTriggerBounded
<1>1. Init => SelfInv
  <2> SUFFICES ASSUME Init PROVE SelfInv
    OBVIOUS
  <2>1. TypeOK /\ Ids = {}
    BY DEF Init, TypeOK, MergingOK, Ids
  <2>2. RowsPast /\ WindowKept /\ PendingWithin
    BY <2>1 DEF Init, RowsPast, WindowKept, PendingWithin
  <2>3. ASSUME NEW a \in Agents, NEW R \in SUBSET Reasons, NEW b \in Nat, NEW t \in 0 .. now
        PROVE  Cardinality(Counted(a, R, t)) <= b
    <3>1. Counted(a, R, t) = {}
      BY <2>1 DEF Counted, SelfLaunches
    <3> QED
      BY <3>1, FS_EmptySet
  <2> QED
    BY <2>1, <2>2, <2>3 DEF SelfInv, EveryWindow
<1>2. SelfInv /\ [Next]_vars => SelfInv'
  <2> SUFFICES ASSUME SelfInv, [Next]_vars PROVE SelfInv'
    OBVIOUS
  <2>1. TypeOK'
    BY StepKeepsTypes DEF SelfInv
  <2>2. RowsKept \/ Resolves \/ \E a \in Agents : Inserts(a)
    BY StepShape DEF SelfInv
  <2> QED
    BY <2>1, <2>2, KeptRowsKeepSelfInv, ResolvingKeepsSelfInv, InsertingKeepsSelfInv
<1>3. SelfInv => SelfTriggerBounded
  BY EveryWindowBounds DEF SelfInv
<1> QED
  BY <1>1, <1>2, <1>3, PTL DEF Spec

-----------------------------------------------------------------------------
(* Causation chains.                                                       *)

(* ChainsSound for one row, at place i.                                    *)
SoundAt(i) ==
  /\ rows[i].depth <= MaxCausationDepth
  /\ rows[i].root \in 1 .. i
  /\ rows[rows[i].root].parent = 0
  /\ rows[i].human <=> rows[rows[i].root].kind = "user"
  /\ rows[i].kind = "user" => rows[i].root = i
  /\ rows[i].routine = rows[rows[i].root].routine

(* A pending row starts a chain or continues a sound one.                  *)
Starts(row) == row.root = 0 /\ row.parent = 0 /\ (row.human <=> row.kind = "user")

Continues(row) ==
  /\ row.root \in Ids
  /\ rows[row.root].parent = 0
  /\ row.human <=> rows[row.root].kind = "user"
  /\ row.kind # "user"
  /\ row.routine = rows[row.root].routine

PendingSound ==
  \A a \in Agents : open[a] # None =>
    open[a].depth <= MaxCausationDepth /\ (Starts(open[a]) \/ Continues(open[a]))

ChainInv == TypeOK /\ ChainsSound /\ PendingSound

(***************************************************************************)
(* The rows keep their lineage through merges, claims, deletions and time. *)
(***************************************************************************)
LEMMA KeptRowsKeepChains ==
  ASSUME ChainInv, RowsKept, TypeOK'
  PROVE  ChainInv'
<1> USE DEF ChainInv
<1>1. Ids' = Ids /\ open' = open /\ Ids = 1 .. Len(rows) /\ Len(rows) \in Nat
  BY DEF RowsKept, TypeOK, Ids
<1>2. \A i \in Ids : /\ rows'[i].root = rows[i].root /\ rows'[i].parent = rows[i].parent
                     /\ rows'[i].depth = rows[i].depth /\ rows'[i].kind = rows[i].kind
                     /\ rows'[i].human = rows[i].human /\ rows'[i].routine = rows[i].routine
  BY DEF RowsKept, Frozen
<1>3. ASSUME NEW i \in Ids
      PROVE  SoundAt(i)'
  <2>1. SoundAt(i) /\ rows[i].root \in Ids
    BY <1>1 DEF ChainsSound, SoundAt
  <2> QED
    BY <1>2, <2>1 DEF SoundAt
<1>4. ChainsSound'
  BY <1>1, <1>3 DEF ChainsSound, SoundAt
<1>5. ASSUME NEW a \in Agents, open[a] # None
      PROVE  open[a].depth <= MaxCausationDepth /\ (Starts(open[a])' \/ Continues(open[a])')
  <2>1. CASE Starts(open[a])
    BY <1>1, <1>5, <2>1 DEF Starts, PendingSound
  <2>2. CASE Continues(open[a])
    BY <1>1, <1>2, <1>5, <2>2 DEF Continues, PendingSound
  <2> QED
    BY <1>5, <2>1, <2>2 DEF PendingSound
<1>6. PendingSound'
  BY <1>1, <1>5 DEF PendingSound
<1> QED
  BY <1>4, <1>6

(***************************************************************************)
(* applyCausationLineage: the row it builds starts a chain or continues    *)
(* that of its cause.                                                      *)
(***************************************************************************)
LEMMA ResolvedContinues ==
  ASSUME ChainInv, NEW s \in Requests, NEW c \in Causes(s)
  PROVE  Starts(Resolved(s, c)) \/ Continues(Resolved(s, c))
<1>1. CASE Roots(s, c)
  BY <1>1 DEF Starts, Resolved
<1>2. CASE ~Roots(s, c)
  <2>1. c \in Ids /\ c # 0 /\ ActorKind(s) # "user"
    BY <1>2, CausesAreRows DEF Roots
  <2>2. Ids = 1 .. Len(rows) /\ Len(rows) \in Nat
    BY DEF ChainInv, TypeOK, Ids
  <2>3. /\ rows[c].root \in Ids
        /\ rows[rows[c].root].parent = 0
        /\ rows[c].human <=> rows[rows[c].root].kind = "user"
        /\ rows[c].routine = rows[rows[c].root].routine
    BY <2>1, <2>2 DEF ChainInv, ChainsSound
  <2>4. /\ Resolved(s, c).root = rows[c].root
        /\ Resolved(s, c).human = rows[c].human
        /\ Resolved(s, c).kind = ActorKind(s)
        /\ Resolved(s, c).routine = rows[c].routine
    BY <1>2, <2>1 DEF Resolved
  <2> QED
    BY <2>1, <2>3, <2>4 DEF Continues
<1> QED
  BY <1>1, <1>2

(***************************************************************************)
(* An enqueue that resolves leaves the rows and holds a sound row.         *)
(***************************************************************************)
LEMMA ResolvingKeepsChains ==
  ASSUME ChainInv, Resolves, TypeOK'
  PROVE  ChainInv'
<1> USE DEF ChainInv
<1>1. PICK s \in Requests : \E c \in Causes(s) :
        /\ Admitted(Resolved(s, c))
        /\ open' = [open EXCEPT ![s.agent] = Resolved(s, c)]
        /\ rows' = rows
  BY DEF Resolves
<1>2. PICK c \in Causes(s) :
        /\ Admitted(Resolved(s, c))
        /\ open' = [open EXCEPT ![s.agent] = Resolved(s, c)]
        /\ rows' = rows
  BY <1>1
<1> DEFINE row == Resolved(s, c)
<1>3. row.depth <= MaxCausationDepth /\ (Starts(row) \/ Continues(row))
  BY <1>2, ResolvedContinues DEF Admitted
<1> HIDE DEF row
<1>4. \A a \in Agents : open'[a] = row \/ open'[a] = open[a]
  BY <1>2 DEF TypeOK, row
<1>5. ChainsSound'
  BY <1>2 DEF ChainsSound, Ids
<1>6. ASSUME NEW a \in Agents, open'[a] # None
      PROVE  /\ open'[a].depth <= MaxCausationDepth
             /\ Starts(open'[a]) \/ Continues(open'[a])
  BY <1>3, <1>4, <1>6 DEF PendingSound
<1>7. PendingSound'
  BY <1>2, <1>6 DEF PendingSound, Starts, Continues, Ids
<1> QED
  BY <1>5, <1>7

(***************************************************************************)
(* An inserted row that starts a chain is its own root; one that continues *)
(* a chain has the chain's root, which is an earlier row.                  *)
(***************************************************************************)
LEMMA InsertingKeepsChains ==
  ASSUME ChainInv, NEW x \in Agents, Inserts(x), TypeOK'
  PROVE  ChainInv'
<1> USE DEF ChainInv
<1> DEFINE row == Stamped(open[x])
<1>0. PICK n \in Nat : n = Len(rows) + 1
  BY DEF TypeOK
<1>1. /\ open[x] \in RowType /\ open[x] # None
      /\ \A a \in Agents : open'[a] = None \/ open'[a] = open[a]
  BY DEF Inserts, TypeOK
<1>2. CASE rows' = rows
  <2>1. ChainsSound'
    BY <1>2 DEF ChainsSound, Ids
  <2>2. PendingSound'
    BY <1>1, <1>2 DEF PendingSound, Starts, Continues, Ids
  <2> QED
    BY <2>1, <2>2
<1>3. CASE rows' = Append(rows, row)
  <2>1. /\ Ids = 1 .. Len(rows) /\ Len(rows) \in Nat
        /\ Ids' = Ids \cup {n}
        /\ \A i \in Ids : rows'[i] = rows[i]
        /\ rows'[n] = row
    BY <1>0, <1>3 DEF TypeOK, Ids
  <2>2. /\ row.parent = open[x].parent /\ row.depth = open[x].depth
        /\ row.human = open[x].human /\ row.routine = open[x].routine
        /\ row.kind = open[x].kind
        /\ row.root = IF open[x].root = 0 THEN n ELSE open[x].root
    BY <1>0, <1>1, StampedRow
  <2> HIDE DEF row
  <2>3. open[x].depth <= MaxCausationDepth /\ (Starts(open[x]) \/ Continues(open[x]))
    BY <1>1 DEF PendingSound
  <2>4. ASSUME NEW i \in Ids
        PROVE  SoundAt(i)'
    <3>1. SoundAt(i) /\ rows[i].root \in Ids
      BY <2>1 DEF ChainsSound, SoundAt
    <3> QED
      BY <2>1, <3>1 DEF SoundAt
  <2>5. SoundAt(n)'
    <3>1. CASE Starts(open[x])
      BY <1>0, <2>1, <2>2, <2>3, <3>1 DEF SoundAt, Starts
    <3>2. CASE Continues(open[x])
      BY <1>0, <2>1, <2>2, <2>3, <3>2 DEF SoundAt, Continues
    <3> QED
      BY <2>3, <3>1, <3>2
  <2>6. ChainsSound'
    BY <2>1, <2>4, <2>5 DEF ChainsSound, SoundAt
  <2>7. PendingSound'
    <3>1. ASSUME NEW a \in Agents, open'[a] # None
          PROVE  /\ open'[a].depth <= MaxCausationDepth
                 /\ Starts(open'[a]) \/ Continues(open'[a])
      BY <1>1, <3>1 DEF PendingSound
    <3>2. \A pending : Continues(pending) =>
            /\ pending.root \in Ids' /\ rows'[pending.root] = rows[pending.root]
      BY <2>1 DEF Continues
    <3> QED
      BY <3>1, <3>2 DEF PendingSound, Starts, Continues
  <2> QED
    BY <2>6, <2>7
<1> QED
  BY <1>2, <1>3 DEF Inserts

(***************************************************************************)
(* Every chain of runs has the root, the depth, the human flag and the     *)
(* routine that resolveCausation means it to have, however many runs,      *)
(* agents and requests there are, and although the cause is read before    *)
(* the insert.  The strengthening says the same of the pending rows.       *)
(***************************************************************************)
THEOREM ChainsTheorem == Spec => []ChainsSound
<1>1. Init => ChainInv
  BY DEF Init, ChainInv, TypeOK, MergingOK, ChainsSound, PendingSound, Ids
<1>2. ChainInv /\ [Next]_vars => ChainInv'
  <2> SUFFICES ASSUME ChainInv, [Next]_vars PROVE ChainInv'
    OBVIOUS
  <2>1. TypeOK'
    BY StepKeepsTypes DEF ChainInv
  <2>2. RowsKept \/ Resolves \/ \E a \in Agents : Inserts(a)
    BY StepShape DEF ChainInv
  <2> QED
    BY <2>1, <2>2, KeptRowsKeepChains, ResolvingKeepsChains, InsertingKeepsChains
<1>3. ChainInv => ChainsSound
  BY DEF ChainInv
<1> QED
  BY <1>1, <1>2, <1>3, PTL DEF Spec


-----------------------------------------------------------------------------
(* Durable identities.                                                     *)

(* Retention forgets only what is older than its window.                   *)
HistoryKept == \A i \in Ids : ~Live(i) => now - rows[i].at > RetentionWindow

PendingLive == \A a \in Agents : open[a] # None => open[a].status # "deleted"

SameIdentity(row, other) ==
  \/ row.key # None /\ row.key = other.key
  \/ row.wave # None /\ row.wave = other.wave /\ row.agent = other.agent

IdentityInv == TypeOK /\ RowsPast /\ HistoryKept /\ PendingLive /\ IdentityOnce

(***************************************************************************)
(* Merges, claims, deletions and time change no identity, and forget a row *)
(* only when it is older than the retention window.                        *)
(***************************************************************************)
LEMMA KeptRowsKeepIdentity ==
  ASSUME IdentityInv, RowsKept, TypeOK'
  PROVE  IdentityInv'
<1> USE DEF IdentityInv
<1>1. Ids' = Ids /\ open' = open /\ now \in Nat /\ now' \in {now, now + 1}
  BY DEF RowsKept, TypeOK, Ids
<1>2. \A i \in Ids : /\ rows'[i].key = rows[i].key /\ rows'[i].wave = rows[i].wave
                     /\ rows'[i].agent = rows[i].agent /\ rows'[i].at = rows[i].at
                     /\ rows[i].at \in Nat /\ KeepsRecent(i)
  BY RowsAreRows DEF RowsKept, Frozen, RowType
<1>3. RowsPast'
  BY <1>1, <1>2 DEF RowsPast
<1>4. HistoryKept'
  BY <1>1, <1>2, WindowsAssumption DEF HistoryKept, KeepsRecent, Live
<1>5. PendingLive'
  BY <1>1 DEF PendingLive
<1>6. IdentityOnce'
  BY <1>1, <1>2 DEF IdentityOnce
<1> QED
  BY <1>3, <1>4, <1>5, <1>6

(***************************************************************************)
(* The unique indexes refuse the identity of every row that retention has  *)
(* not deleted, and what it has deleted is older than its window.          *)
(***************************************************************************)
LEMMA InsertingKeepsIdentity ==
  ASSUME IdentityInv, NEW x \in Agents, Inserts(x), TypeOK'
  PROVE  IdentityInv'
<1> USE DEF IdentityInv
<1> DEFINE row == Stamped(open[x])
<1>0. PICK n \in Nat : n = Len(rows) + 1
  BY DEF TypeOK
<1>1. /\ now' = now /\ now \in Nat /\ open[x] \in RowType /\ open[x] # None
      /\ \A a \in Agents : open'[a] = None \/ open'[a] = open[a]
  BY DEF Inserts, TypeOK
<1>2. PendingLive'
  BY <1>1 DEF PendingLive
<1>3. CASE rows' = rows
  BY <1>1, <1>2, <1>3 DEF RowsPast, HistoryKept, IdentityOnce, Ids, Live
<1>4. CASE ~UniqueConflict(open[x]) /\ rows' = Append(rows, row)
  <2>1. /\ Ids = 1 .. Len(rows) /\ Len(rows) \in Nat
        /\ Ids' = Ids \cup {n}
        /\ \A i \in Ids : rows'[i] = rows[i]
        /\ rows'[n] = row
    BY <1>0, <1>4 DEF TypeOK, Ids
  <2>2. /\ row.at = now /\ row.agent = open[x].agent /\ row.status # "deleted"
        /\ row.key = open[x].key /\ row.wave = open[x].wave
    BY <1>1, StampedRow DEF PendingLive
  <2> HIDE DEF row
  <2>3. RowsPast' /\ HistoryKept'
    BY <1>1, <2>1, <2>2 DEF RowsPast, HistoryKept, Live
  <2>4. ASSUME NEW i \in Ids, SameIdentity(rows[i], row)
        PROVE  row.at - rows[i].at > RetentionWindow
    <3>1. ~Live(i)
      BY <1>4, <2>2, <2>4 DEF SameIdentity, UniqueConflict
    <3> QED
      BY <2>2, <3>1 DEF HistoryKept
  <2>5. IdentityOnce'
    <3> SUFFICES ASSUME NEW i \in Ids', NEW j \in Ids', i < j, SameIdentity(rows'[i], rows'[j])
                 PROVE  rows'[j].at - rows'[i].at > RetentionWindow
      BY DEF IdentityOnce, SameIdentity
    <3>1. i \in Ids
      BY <1>0, <2>1
    <3>2. CASE j \in Ids
      BY <2>1, <3>1, <3>2 DEF IdentityOnce, SameIdentity
    <3>3. CASE j = n
      BY <2>1, <2>4, <3>1, <3>3
    <3> QED
      BY <2>1, <3>2, <3>3
  <2> QED
    BY <1>2, <2>3, <2>5
<1> QED
  BY <1>3, <1>4 DEF Inserts

(***************************************************************************)
(* An idempotency key, or a wave for an agent, is admitted again only when *)
(* retention has forgotten its run, for every retention window and however *)
(* many enqueues run at once.  The strengthening is that a row is deleted  *)
(* only when it is older than the window; the unique indexes do the rest,  *)
(* and the windowed lookup is not needed for it.                           *)
(***************************************************************************)
THEOREM IdentityTheorem == Spec => []IdentityOnce
<1>1. Init => IdentityInv
  BY DEF Init, IdentityInv, TypeOK, MergingOK, RowsPast, HistoryKept, PendingLive, IdentityOnce, Ids
<1>2. IdentityInv /\ [Next]_vars => IdentityInv'
  <2> SUFFICES ASSUME IdentityInv, [Next]_vars PROVE IdentityInv'
    OBVIOUS
  <2>1. TypeOK'
    BY StepKeepsTypes DEF IdentityInv
  <2>2. CASE Resolves
    <3>1. PICK s \in Requests : \E c \in Causes(s) :
            open' = [open EXCEPT ![s.agent] = Resolved(s, c)] /\ rows' = rows /\ now' = now
      BY <2>2 DEF Resolves
    <3>2. PICK c \in Causes(s) : open' = [open EXCEPT ![s.agent] = Resolved(s, c)]
      BY <3>1
    <3>3. Resolved(s, c).status = "queued"
      BY DEF Resolved
    <3>4. PendingLive'
      BY <3>2, <3>3 DEF PendingLive, IdentityInv, TypeOK
    <3> QED
      BY <2>1, <3>1, <3>4 DEF IdentityInv, RowsPast, HistoryKept, IdentityOnce, Ids, Live
  <2> QED
    BY <2>1, <2>2, StepShape, KeptRowsKeepIdentity, InsertingKeepsIdentity DEF IdentityInv
<1>3. IdentityInv => IdentityOnce
  BY DEF IdentityInv
<1> QED
  BY <1>1, <1>2, <1>3, PTL DEF Spec

=============================================================================
