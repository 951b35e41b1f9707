----------------------------- MODULE RunAdmission -----------------------------
(***************************************************************************)
(* Admission to the runs table: QueueRun of internal/runs/service, which   *)
(* deduplicates a wake request, merges it into a queued run, or resolves   *)
(* whose work caused it and inserts a run, or refuses it.                  *)
(*                                                                         *)
(* An enqueue runs in one transaction.  On SQLite the single writer makes  *)
(* it atomic; on PostgreSQL (READ COMMITTED) only the enqueues of the same *)
(* agent exclude each other, by an advisory lock, and the reads of one     *)
(* agent's enqueue interleave with the commits of others.  An enqueue is   *)
(* therefore two steps: QueueRun reads and decides, and CommitInsert       *)
(* inserts a row or CommitCoalesce merges into one; open[a] or merging[a]  *)
(* is agent a's transaction in between.  SQLite's behaviours are those in  *)
(* which the second step follows at once.                                  *)
(*                                                                         *)
(* The row of a run is a record of rows, at the index that is its id; a    *)
(* row that retention deletes keeps its place with status "deleted".       *)
(* A request is a member of the constant Requests; its payload is the      *)
(* request itself.  Requests that are deduplicated or refused change no    *)
(* row and are not steps.                                                  *)
(***************************************************************************)
EXTENDS Integers, Sequences, FiniteSets

CONSTANTS
  Agents,
  Reasons,
  Tasks,                 \* task ids a payload may name
  Untyped,               \* a task_id that is present and is not a string
  Keys,                  \* idempotency keys
  CommentKeys,           \* those with the task_comment prefix
  Waves,                 \* wake wave keys
  Routines,
  None,                  \* the empty string
  Requests,              \* the QueueRunRequests producers send
  IdempotencyWindow,     \* IdempotencyWindowHours
  CoalesceWindow,        \* CoalesceWindowSeconds
  SelfTriggerWindow,
  SelfTriggerAllowance,
  SelfTriggerTotalAllowance,
  MaxCausationDepth,
  RetentionWindow,       \* retention's window_days
  MaxRows,               \* bound: rows ever inserted
  MaxTime                \* bound: last value of the clock

(***************************************************************************)
(* source says where a request gets its causing run from: "run" names a    *)
(* run of the acting agent, "reactivity" looks up what the acting agent is *)
(* doing, "boundary" reads the carrier of a task, "root" has none.  The    *)
(* lookup precedes the transaction; one that is stale by then is a request *)
(* with source "run", or "root" if it had found nothing.  Only a routine   *)
(* fire, which has no causing run, names its own routine.  scoped is       *)
(* whether the profile or the request's task has a workspace.              *)
(***************************************************************************)
RequestType ==
  [agent : Agents, reason : Reasons, task : Tasks \cup {None, Untyped},
   key : Keys \cup {None}, wave : Waves \cup {None}, skipCoalesce : BOOLEAN,
   kind : {"user", "agent", "system"}, actor : Agents \cup {None},
   source : {"root", "run", "reactivity", "boundary"},
   routine : Routines \cup {None}, scoped : BOOLEAN]

ASSUME RequestsAssumption ==
  /\ Requests \subseteq RequestType
  /\ \A s \in Requests : s.routine # None => s.source = "root"
  /\ CommentKeys \subseteq Keys
  /\ None \notin Keys \cup Waves \cup Tasks \cup Agents \cup Routines
  /\ Untyped \notin Tasks

(***************************************************************************)
(* Limits below one are replaced by a default (clampToDefault).  Retention *)
(* keeps history for at least a day (minWindowDays), which is the          *)
(* idempotency window and longer than the self-trigger hour.               *)
(***************************************************************************)
ASSUME WindowsAssumption ==
  /\ {IdempotencyWindow, CoalesceWindow, SelfTriggerWindow} \subseteq Nat \ {0}
  /\ {SelfTriggerAllowance, SelfTriggerTotalAllowance, MaxCausationDepth} \subseteq Nat \ {0}
  /\ RetentionWindow \in Nat
  /\ SelfTriggerWindow <= RetentionWindow
  /\ IdempotencyWindow <= RetentionWindow
  /\ MaxRows \in Nat
  /\ MaxTime \in Nat

VARIABLES
  rows,  \* the runs table, by id
  open,  \* the resolved row an agent's enqueue is about to insert, or None
  merging, \* the row an agent's enqueue has chosen to merge into, or None
  now

vars == <<rows, open, merging, now>>

RowType ==
  [agent : Agents, reason : Reasons, key : Keys \cup {None},
   wave : Waves \cup {None}, kind : {"user", "agent", "system"},
   actor : Agents \cup {None}, root : Nat, parent : Nat, depth : Nat,
   human : BOOLEAN, routine : Routines \cup {None}, at : Nat,
   status : {"queued", "claimed", "done", "deleted"},
   ran : BOOLEAN, payload : Requests]

(* The agent's lock is held by one enqueue, of a request for that agent.   *)
MergingOK ==
  /\ merging \in [Agents -> [into : Nat, request : Requests] \cup {None}]
  /\ \A a \in Agents : merging[a] # None =>
       /\ open[a] = None
       /\ merging[a].into \in DOMAIN rows
       /\ merging[a].request.agent = a

TypeOK ==
  /\ rows \in Seq(RowType)
  /\ open \in [Agents -> RowType \cup {None}]
  /\ MergingOK
  /\ now \in Nat

Init ==
  /\ rows = <<>>
  /\ open = [a \in Agents |-> None]
  /\ merging = [a \in Agents |-> None]
  /\ now = 0

Ids == DOMAIN rows
Live(i) == rows[i].status # "deleted"

-----------------------------------------------------------------------------
(* Deduplication and coalescing.                                           *)

(* checkIdempotencyKey: the windowed lookup.                               *)
WindowedDuplicate(s) ==
  /\ s.key # None
  /\ \E i \in Ids : /\ Live(i)
                    /\ rows[i].key = s.key
                    /\ now - rows[i].at < IdempotencyWindow

(* shouldCoalesceRun                                                       *)
MayCoalesce(s) == ~s.skipCoalesce /\ s.wave = None /\ s.key \notin CommentKeys

(* The task buckets of coalesceRun: a task_id that is no string is in none. *)
SameTask(s, i) == s.task # Untyped /\ rows[i].payload.task = s.task

(* coalesceRun's WHERE clause.                                             *)
CoalesceTargets(s) ==
  {i \in Ids : /\ rows[i].agent = s.agent
               /\ rows[i].reason = s.reason
               /\ rows[i].status = "queued"
               /\ now - rows[i].at < CoalesceWindow
               /\ rows[i].key \notin CommentKeys
               /\ rows[i].wave = None
               /\ SameTask(s, i)}

(* ORDER BY requested_at DESC LIMIT 1; ties are the database's choice.     *)
Newest(S) == {i \in S : \A j \in S : rows[j].at <= rows[i].at}

(* The subselect of coalesceRun's UPDATE, in the statement's snapshot.     *)
ChooseTarget(s) ==
  \E i \in Newest(CoalesceTargets(s)) :
    merging' = [merging EXCEPT ![s.agent] = [into |-> i, request |-> s]]

-----------------------------------------------------------------------------
(* Causation.                                                              *)

(* normalizeActor: an agent that does not say which agent is the system.   *)
ActorKind(s) == IF s.kind = "agent" /\ s.actor = None THEN "system" ELSE s.kind

(* GetClaimedRunForCausationAttribution: the deepest run the actor holds.  *)
HeldBy(x) == {i \in Ids : rows[i].status = "claimed" /\ rows[i].agent = x}
DeepestHeldBy(x) ==
  {i \in HeldBy(x) : \A j \in HeldBy(x) : rows[j].depth <= rows[i].depth}

(* The runs a request may resolve as its cause; 0 when there is none.      *)
Causes(s) ==
  CASE s.source = "root" -> {0}
    [] s.source = "run" -> {i \in Ids : rows[i].ran /\ rows[i].agent = s.actor}
    [] s.source = "reactivity" ->
         IF s.kind = "agent" /\ HeldBy(s.actor) # {} THEN DeepestHeldBy(s.actor) ELSE {0}
    [] s.source = "boundary" -> {0} \cup {i \in Ids : rows[i].ran}

(* A causing run is read; a carrier stands in for a run that is gone.      *)
Readable(s, c) == c # 0 /\ s.source # "boundary" => Live(c)

RootsWhenUncaused(s, c) == c = 0

(* A human roots a chain, whatever the request happened inside.            *)
Roots(s, c) == c = 0 \/ ActorKind(s) = "user"

DepthAbove(c) == rows[c].depth - 1
DepthBelow(c) == rows[c].depth + 1

(* applyCausationLineage and the row insertRun builds; root 0 stands for   *)
(* the id the row has yet to get, and its time is stamped at the insert.   *)
Resolved(s, c) ==
  [agent |-> s.agent, reason |-> s.reason, key |-> s.key, wave |-> s.wave,
   kind |-> ActorKind(s), actor |-> IF ActorKind(s) = s.kind THEN s.actor ELSE None,
   root   |-> IF Roots(s, c) THEN 0 ELSE rows[c].root,
   parent |-> IF Roots(s, c) THEN 0 ELSE c,
   depth  |-> IF Roots(s, c) THEN 0 ELSE DepthBelow(c),
   human  |-> IF Roots(s, c) THEN ActorKind(s) = "user" ELSE rows[c].human,
   routine |-> IF c = 0 \/ (s.source # "boundary" /\ Roots(s, c))
               THEN s.routine ELSE rows[c].routine,
   at |-> 0, status |-> "queued", ran |-> FALSE, payload |-> s]

(* The self-triggered runs of agent a in the window that ends now.         *)
SelfTriggered(a) ==
  {i \in Ids : /\ Live(i)
               /\ rows[i].agent = a
               /\ rows[i].kind = "agent"
               /\ rows[i].actor = a
               /\ now - rows[i].at < SelfTriggerWindow}

SelfTriggeredFor(a, reason) == {i \in SelfTriggered(a) : rows[i].reason = reason}

PerReasonAllowance(row) ==
  row.kind = "agent" /\ row.actor = row.agent =>
    Cardinality(SelfTriggeredFor(row.agent, row.reason)) < SelfTriggerAllowance

(* checkSelfTriggerAllowance                                               *)
WithinAllowance(row) ==
  row.kind = "agent" /\ row.actor = row.agent =>
    /\ Cardinality(SelfTriggeredFor(row.agent, row.reason)) < SelfTriggerAllowance
    /\ Cardinality(SelfTriggered(row.agent)) < SelfTriggerTotalAllowance

Admitted(row) == row.depth <= MaxCausationDepth /\ WithinAllowance(row)

-----------------------------------------------------------------------------
(* The enqueue transaction.                                                *)

(* insertRun up to the insert.                                             *)
ResolveRow(s) ==
  /\ Len(rows) < MaxRows
  /\ s.scoped
  /\ \E c \in Causes(s) :
       /\ Readable(s, c)
       /\ Admitted(Resolved(s, c))
       /\ open' = [open EXCEPT ![s.agent] = Resolved(s, c)]

(* enqueueLocked up to its write, under the agent's lock.                  *)
QueueRun(s) ==
  /\ open[s.agent] = None /\ merging[s.agent] = None
  /\ ~WindowedDuplicate(s)
  /\ \/ MayCoalesce(s) /\ ChooseTarget(s) /\ UNCHANGED open
     \/ /\ ~(MayCoalesce(s) /\ CoalesceTargets(s) # {})
        /\ ResolveRow(s)
        /\ UNCHANGED merging
  /\ UNCHANGED <<rows, now>>

(***************************************************************************)
(* The rest of coalesceRun's UPDATE.  It waits for a transaction that has  *)
(* the row, then checks the id again and nothing else, so the row may have *)
(* been claimed or closed since it was chosen.  If retention has deleted   *)
(* it, no row is affected and the enqueue goes on to insert or is refused. *)
(***************************************************************************)
CommitCoalesce(a) ==
  /\ merging[a] # None
  /\ merging' = [merging EXCEPT ![a] = None]
  /\ \/ /\ Live(merging[a].into)
        /\ rows' = [rows EXCEPT ![merging[a].into].payload = merging[a].request]
        /\ UNCHANGED open
     \/ /\ ~Live(merging[a].into)
        /\ ResolveRow(merging[a].request) \/ UNCHANGED open
        /\ UNCHANGED rows
  /\ UNCHANGED now

WindowedConflict(row) ==
  \E i \in Ids : /\ Live(i)
                 /\ row.key # None /\ rows[i].key = row.key
                 /\ now - rows[i].at < IdempotencyWindow

(* idx_run_idempotency and idx_run_wake_wave.                              *)
UniqueConflict(row) ==
  \E i \in Ids : /\ Live(i)
                 /\ \/ row.key # None /\ rows[i].key = row.key
                    \/ /\ row.wave # None
                       /\ rows[i].wave = row.wave
                       /\ rows[i].agent = row.agent

(* CreateRunTx and the commit: the row, or nothing on a unique violation.  *)
CommitInsert(a) ==
  /\ open[a] # None
  /\ Len(rows) < MaxRows
  /\ open' = [open EXCEPT ![a] = None]
  /\ rows' = IF UniqueConflict(open[a])
             THEN rows
             ELSE Append(rows, [open[a] EXCEPT
                    !.root = IF @ = 0 THEN Len(rows) + 1 ELSE @,
                    !.at = now])
  /\ UNCHANGED <<merging, now>>

-----------------------------------------------------------------------------
(* The life of a row after admission, as far as admission reads it.        *)

SetStatus(i, from, to) ==
  /\ rows[i].status \in from
  /\ rows' = [rows EXCEPT ![i].status = to, ![i].ran = @ \/ to = "claimed"]
  /\ UNCHANGED <<open, merging, now>>

Claim(i) == SetStatus(i, {"queued"}, "claimed")

(* FinishRun, MarkRunFailed, CancelRunsWhere.                              *)
Close(i) == SetStatus(i, {"queued", "claimed"}, "done")

(* Retries, parks, the recovery sweep, and the lifting of a park; several  *)
(* of them have no guard on status.                                        *)
Requeue(i) == rows[i].ran /\ SetStatus(i, {"claimed", "done"}, "queued")

(***************************************************************************)
(* DeleteRunBatch: some of the history that completed before the window.   *)
(* finished_at is not kept here and is no earlier than requested_at; the   *)
(* floor of its agent, the batch limit and a pause recovery that refers to *)
(* it may each spare a row.  So the model may delete a row sooner than the *)
(* code, never later.                                                      *)
(***************************************************************************)
Prunable == {i \in Ids : rows[i].status = "done" /\ now - rows[i].at > RetentionWindow}

DeleteRunBatch ==
  /\ \E S \in SUBSET Prunable :
       /\ S # {}
       /\ rows' = [i \in Ids |-> IF i \in S THEN [rows[i] EXCEPT !.status = "deleted"]
                                 ELSE rows[i]]
  /\ UNCHANGED <<open, merging, now>>

Tick ==
  /\ now < MaxTime
  /\ now' = now + 1
  /\ UNCHANGED <<rows, open, merging>>

Next ==
  \/ \E s \in Requests : QueueRun(s)
  \/ \E a \in Agents : CommitInsert(a) \/ CommitCoalesce(a)
  \/ \E i \in Ids : Claim(i) \/ Close(i) \/ Requeue(i)
  \/ DeleteRunBatch
  \/ Tick

Spec == Init /\ [][Next]_vars

-----------------------------------------------------------------------------
(* Properties.                                                             *)

(* The self-triggered runs of a, deleted or not, that a window ending at t holds. *)
SelfLaunches(a, t) ==
  {i \in Ids : /\ rows[i].agent = a
               /\ rows[i].kind = "agent" /\ rows[i].actor = a
               /\ rows[i].at <= t
               /\ t - rows[i].at < SelfTriggerWindow}

(***************************************************************************)
(* An agent never wakes itself more often than the two allowances of       *)
(* checkSelfTriggerAllowance permit: no window, wherever it ends, holds    *)
(* more of its self-triggered runs, although the check and the insert are  *)
(* separate steps and retention deletes the rows that the check counts.    *)
(***************************************************************************)
SelfTriggerBounded ==
  \A a \in Agents, t \in 0 .. now :
    /\ Cardinality(SelfLaunches(a, t)) <= SelfTriggerTotalAllowance
    /\ \A reason \in Reasons :
         Cardinality({i \in SelfLaunches(a, t) : rows[i].reason = reason})
           <= SelfTriggerAllowance

(***************************************************************************)
(* Along any chain of runs, through direct causes, task carriers and runs  *)
(* that retention has deleted, the root is a run of the chain, a human's   *)
(* run starts a chain, the human-rooted flag that exempts from budgets     *)
(* holds exactly for the chains a human started, the routine to charge     *)
(* stays the root's, and no chain outgrows the depth limit.                *)
(***************************************************************************)
ChainsSound ==
  \A i \in Ids :
    /\ rows[i].depth <= MaxCausationDepth
    /\ rows[i].root \in 1 .. i
    /\ rows[rows[i].root].parent = 0
    /\ rows[i].human <=> rows[rows[i].root].kind = "user"
    /\ rows[i].kind = "user" => rows[i].root = i
    /\ rows[i].routine = rows[rows[i].root].routine

(***************************************************************************)
(* A durable identity, an idempotency key or a wave for an agent, is       *)
(* admitted again only after retention has forgotten it, even when two     *)
(* agents' enqueues carry the same key at once and although the lookup     *)
(* looks back no further than IdempotencyWindowHours.                      *)
(***************************************************************************)
IdentityOnce ==
  \A i, j \in Ids :
    /\ i < j
    /\ \/ rows[i].key # None /\ rows[i].key = rows[j].key
       \/ rows[i].wave # None /\ rows[i].wave = rows[j].wave /\ rows[i].agent = rows[j].agent
    => rows[j].at - rows[i].at > RetentionWindow

(***************************************************************************)
(* What enqueueLocked says of a merge: "Coalesced rows are merged into an  *)
(* existing queued row", so the merged request still has its launch ahead. *)
(***************************************************************************)
MergedBeforeTheLaunch ==
  [][\A i \in Ids : rows'[i].payload # rows[i].payload => rows[i].status = "queued"]_vars

=============================================================================
