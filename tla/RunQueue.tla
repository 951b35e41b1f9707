------------------------------- MODULE RunQueue -------------------------------
(***************************************************************************)
(* The runs table of the Office backend: the durable queue between the     *)
(* producers that wake an agent and the scheduler that launches it.        *)
(*                                                                         *)
(* One action is one SQL transaction of internal/runs/repository/sqlite or *)
(* of internal/office/repository/sqlite/run_routing.go.  SQLite has a      *)
(* single writer, so a transaction is atomic; everything between two       *)
(* transactions interleaves.  A statement with no WHERE guard on status is *)
(* an action with no guard on status, except that its callers hold a run   *)
(* the scheduler claimed at some earlier time (EverClaimed).               *)
(*                                                                         *)
(* Columns written once, at insert, are constants (Agent, Workspace,       *)
(* Routine, HumanRooted, EnqueuedClass); columns that no ceiling, budget   *)
(* or ordering rule reads are left out.  earliest_retry_at is written and  *)
(* cleared together with scheduled_retry_at wherever it is read, so one    *)
(* variable stands for both.                                               *)
(***************************************************************************)
EXTENDS Integers, Sequences, FiniteSets

CONSTANTS
  Runs,             \* run ids; a set of naturals because ORDER BY breaks ties on id
  Agents,           \* agent profiles
  Workspaces,
  Routines,
  None,             \* SQL NULL and the empty string
  Agent,            \* runs.agent_profile_id
  Workspace,        \* runs.workspace_id
  Routine,          \* runs.routine_id, None when the run is not chargeable
  HumanRooted,      \* runs.human_rooted
  EnqueuedClass,    \* runs.priority_class as stamped at insert
  ProfileWorkspace, \* agent_profiles.workspace_id, None for a global Kanban profile
  InstanceCeiling,  \* ClaimSafetyLimits.MaxConcurrentInstance
  WorkspaceCeiling, \* ClaimSafetyLimits.MaxConcurrentWorkspace
  WorkspaceBudget,  \* ClaimSafetyLimits.WorkspaceBudgetPerHour
  RoutineBudget,    \* ClaimSafetyLimits.RoutineBudgetPerHour
  BudgetWindow,     \* one hour, in clock units
  PromotionAge,     \* ClaimSafetyLimits.PromotionAge
  StaleAge,         \* staleClaimedRunAge
  ScanCap,          \* claimCandidateScanCap
  RetryDelays,      \* the delays a retry or a park may ask for
  ParkReasons,      \* the routing_blocked_status values in play
  SessionLimits,    \* the values max_concurrent_sessions may take, None for no profile
  ReadFaults,       \* TRUE when a gate may fail to read its input
  MaxTime,          \* bound: last value of the clock
  MaxLaunches       \* bound: length of the launch ledger

Human    == 0
Recovery == 1
Event    == 2
Periodic == 3

Statuses == {"absent", "queued", "claimed", "finished", "failed", "cancelled"}

Waiting         == "waiting_for_provider_capacity"
ActionRequired  == "blocked_provider_action_required"
SessionRecovery == "session_recovery_required"

(***************************************************************************)
(* Both limits are clamped to a documented default of at least one before  *)
(* they are read (effectiveClaimLimits).                                   *)
(***************************************************************************)
ASSUME RunsAssumption ==
  /\ Runs \subseteq Nat
  /\ IsFiniteSet(Runs)

ASSUME AttributesAssumption ==
  /\ Agent \in [Runs -> Agents]
  /\ Workspace \in [Runs -> Workspaces]
  /\ Routine \in [Runs -> Routines \cup {None}]
  /\ HumanRooted \in [Runs -> BOOLEAN]
  /\ EnqueuedClass \in [Runs -> Human .. Periodic]
  /\ ProfileWorkspace \in [Agents -> Workspaces \cup {None}]

ASSUME LimitsAssumption ==
  /\ InstanceCeiling \in Nat \ {0}
  /\ WorkspaceCeiling \in Nat \ {0}
  /\ WorkspaceBudget \in Nat \ {0}
  /\ RoutineBudget \in Nat \ {0}
  /\ BudgetWindow \in Nat \ {0}
  /\ PromotionAge \in Nat \ {0}
  /\ StaleAge \in Nat
  /\ ScanCap \in Nat \ {0}
  /\ RetryDelays \subseteq Nat
  /\ ParkReasons \subseteq {Waiting, ActionRequired, SessionRecovery}
  /\ SessionLimits \subseteq Int \cup {None}
  /\ ReadFaults \in BOOLEAN
  /\ MaxTime \in Nat
  /\ MaxLaunches \in Nat

ASSUME NoneAssumption ==
  /\ None \notin Routines
  /\ None \notin Nat
  /\ None \notin Int
  /\ None \notin {Waiting, ActionRequired, SessionRecovery}

VARIABLES
  status,         \* runs.status, "absent" before the insert
  priorityClass,  \* runs.priority_class
  requestedAt,    \* runs.requested_at
  claimedAt,      \* runs.claimed_at
  retryAt,        \* runs.scheduled_retry_at and earliest_retry_at
  blocked,        \* runs.routing_blocked_status
  ledger,         \* office_launch_ledger, in append order
  maxSessions,    \* agent_profiles.max_concurrent_sessions, None for no row
  now,            \* the wall clock
  replayed        \* history: claims made by the session ceiling, not by a claim

vars == <<status, priorityClass, requestedAt, claimedAt, retryAt, blocked,
          ledger, maxSessions, now, replayed>>

TypeOK ==
  /\ status \in [Runs -> Statuses]
  /\ priorityClass \in [Runs -> Human .. Periodic]
  /\ requestedAt \in [Runs -> Nat]
  /\ claimedAt \in [Runs -> Nat \cup {None}]
  /\ retryAt \in [Runs -> Nat \cup {None}]
  /\ blocked \in [Runs -> {None, Waiting, ActionRequired, SessionRecovery}]
  /\ ledger \in Seq([run : Runs, at : Nat])
  /\ maxSessions \in [Agents -> Int \cup {None}]
  /\ now \in Nat
  /\ replayed \in SUBSET Runs

Init ==
  /\ status = [r \in Runs |-> "absent"]
  /\ priorityClass = EnqueuedClass
  /\ requestedAt = [r \in Runs |-> 0]
  /\ claimedAt = [r \in Runs |-> None]
  /\ retryAt = [r \in Runs |-> None]
  /\ blocked = [r \in Runs |-> None]
  /\ ledger = <<>>
  /\ maxSessions \in [Agents -> SessionLimits \ {None}]
  /\ now = 0
  /\ replayed = {}

-----------------------------------------------------------------------------
(* Claiming.                                                               *)

Claimed == {r \in Runs : status[r] = "claimed"}
ClaimedBy(a) == {r \in Claimed : Agent[r] = a}
ClaimedIn(w) == {r \in Claimed : Workspace[r] = w}

EverClaimed(r) == \E i \in DOMAIN ledger : ledger[i].run = r

MinInt(a, b) == IF a < b THEN a ELSE b

UnclampedAgentCeiling(a) ==
  IF maxSessions[a] = None THEN 0
  ELSE IF maxSessions[a] < 1 THEN 1 ELSE maxSessions[a]

(* agentCeiling: a missing profile reads as 0, a stored value below 1 as 1. *)
AgentCeiling(a) ==
  IF maxSessions[a] = None
  THEN 0
  ELSE MinInt(IF maxSessions[a] < 1 THEN 1 ELSE maxSessions[a],
              MinInt(WorkspaceCeiling, InstanceCeiling))

NarrowBudgetWindow(i) == now - ledger[i].at < BudgetWindow - 1

(* countLedger over the rolling window: claimed_at > now - BudgetWindow.   *)
InBudgetWindow(i) == now - ledger[i].at < BudgetWindow
WorkspaceLaunches(w) ==
  {i \in DOMAIN ledger : Workspace[ledger[i].run] = w /\ InBudgetWindow(i)}
RoutineLaunches(u) ==
  {i \in DOMAIN ledger : Routine[ledger[i].run] = u /\ InBudgetWindow(i)}

UnderCeilings(r) ==
  /\ Cardinality(ClaimedBy(Agent[r])) < AgentCeiling(Agent[r])
  /\ Cardinality(ClaimedIn(Workspace[r])) < WorkspaceCeiling
  /\ Cardinality(Claimed) < InstanceCeiling

UnderBudgets(r) ==
  \/ HumanRooted[r]
  \/ /\ Routine[r] # None =>
          Cardinality(RoutineLaunches(Routine[r])) < RoutineBudget
     /\ Cardinality(WorkspaceLaunches(Workspace[r])) < WorkspaceBudget

(* claimGateBlocks, negated.                                               *)
ClearsGates(r) == UnderCeilings(r) /\ UnderBudgets(r)

(* The candidate query: due, not parked, in claim order.                   *)
Candidates ==
  {r \in Runs : /\ status[r] = "queued"
                /\ retryAt[r] = None \/ retryAt[r] <= now
                /\ blocked[r] = None}

PromotedClass(r) ==
  IF now - requestedAt[r] > PromotionAge /\ priorityClass[r] > Recovery
  THEN priorityClass[r] - 1
  ELSE priorityClass[r]

ClaimsBefore(q, r) ==
  \/ PromotedClass(q) < PromotedClass(r)
  \/ /\ PromotedClass(q) = PromotedClass(r)
     /\ \/ requestedAt[q] < requestedAt[r]
        \/ requestedAt[q] = requestedAt[r] /\ q < r

(* The rows the pages of one attempt reach.                                *)
Scanned ==
  {r \in Candidates :
     Cardinality({q \in Candidates : ClaimsBefore(q, r)}) < ScanCap}

CommitUnrecordedClaim(r) ==
  /\ status' = [status EXCEPT ![r] = "claimed"]
  /\ claimedAt' = [claimedAt EXCEPT ![r] = now]
  /\ UNCHANGED <<priorityClass, requestedAt, retryAt, blocked, ledger,
                 maxSessions, now, replayed>>

(***************************************************************************)
(* commitClaim: the compare-and-swap on 'queued' and the ledger append,    *)
(* one transaction.                                                        *)
(***************************************************************************)
CommitClaim(r) ==
  /\ status' = [status EXCEPT ![r] = "claimed"]
  /\ claimedAt' = [claimedAt EXCEPT ![r] = now]
  /\ ledger' = Append(ledger, [run |-> r, at |-> now])
  /\ UNCHANGED <<priorityClass, requestedAt, retryAt, blocked, maxSessions,
                 now, replayed>>

ClaimOldestEligibleRun ==
  /\ Len(ledger) < MaxLaunches
  /\ LET open == {r \in Scanned : ClearsGates(r)}
     IN  \E r \in open :
           /\ \A q \in open : requestedAt[r] <= requestedAt[q]
           /\ CommitClaim(r)

(***************************************************************************)
(* ClaimNextEligibleRun: the first scanned candidate that clears every     *)
(* gate.  A gate that cannot read its input fails closed: that candidate   *)
(* is passed over (unreadable).  An attempt that claims nothing changes    *)
(* no row of the queue.                                                    *)
(***************************************************************************)
ClaimNextEligibleRun ==
  /\ Len(ledger) < MaxLaunches
  /\ \E unreadable \in IF ReadFaults THEN SUBSET Scanned ELSE {{}} :
       LET open == {r \in Scanned \ unreadable : ClearsGates(r)}
       IN  \E r \in open :
             /\ \A q \in open : q = r \/ ClaimsBefore(r, q)
             /\ CommitClaim(r)

-----------------------------------------------------------------------------
(* Producers and the operator.                                             *)

(* CreateRunTx: a fresh row, queued.  Admission is RunAdmission's subject. *)
CreateRun(r) ==
  /\ status[r] = "absent"
  /\ status' = [status EXCEPT ![r] = "queued"]
  /\ requestedAt' = [requestedAt EXCEPT ![r] = now]
  /\ UNCHANGED <<priorityClass, claimedAt, retryAt, blocked, ledger,
                 maxSessions, now, replayed>>

(* CancelRunsWhere with a selector that matches S; routing_blocked_status  *)
(* and the retry times are left as they are.                               *)
CancelRuns(S) ==
  LET hit == {r \in S : status[r] \in {"queued", "claimed"}}
  IN  /\ hit # {}
      /\ status' = [r \in Runs |-> IF r \in hit THEN "cancelled" ELSE status[r]]
      /\ replayed' = replayed \ hit
      /\ UNCHANGED <<priorityClass, requestedAt, claimedAt, retryAt, blocked,
                     ledger, maxSessions, now>>

(* An operator edits an agent profile, or deletes its row (n = None) with  *)
(* its agent or its workspace.                                             *)
EditMaxSessions(a, n) ==
  /\ maxSessions[a] # None
  /\ maxSessions' = [maxSessions EXCEPT ![a] = n]
  /\ UNCHANGED <<status, priorityClass, requestedAt, claimedAt, retryAt,
                 blocked, ledger, now, replayed>>

-----------------------------------------------------------------------------
(* Leaving 'claimed'.                                                      *)

(* FinishRun and MarkRunFailed, both guarded on 'claimed'.                 *)
FinishRun(r, final) ==
  /\ status[r] = "claimed"
  /\ status' = [status EXCEPT ![r] = final]
  /\ replayed' = replayed \ {r}
  /\ UNCHANGED <<priorityClass, requestedAt, claimedAt, retryAt, blocked,
                 ledger, maxSessions, now>>

PromotedOnRequeue(r) == priorityClass[r] - 1

(* A re-queued run becomes recovery work unless it is human work.          *)
Restamped(r) == IF priorityClass[r] = Human THEN Human ELSE Recovery

RequeueClaimedRun(r) ==
  /\ status[r] = "claimed"
  /\ status' = [status EXCEPT ![r] = "queued"]
  /\ claimedAt' = [claimedAt EXCEPT ![r] = None]
  /\ replayed' = replayed \ {r}
  /\ UNCHANGED <<priorityClass, requestedAt, retryAt, blocked, ledger,
                 maxSessions, now>>

(* The SET clause ScheduleRetry and ScheduleRetryIfClaimed share.          *)
SetRetry(r, d) ==
  /\ status' = [status EXCEPT ![r] = "queued"]
  /\ retryAt' = [retryAt EXCEPT ![r] = now + d]
  /\ claimedAt' = [claimedAt EXCEPT ![r] = None]
  /\ priorityClass' = [priorityClass EXCEPT ![r] = Restamped(r)]
  /\ replayed' = replayed \ {r}
  /\ UNCHANGED <<requestedAt, blocked, ledger, maxSessions, now>>

ScheduleRetry(r, d) == EverClaimed(r) /\ SetRetry(r, d)

ScheduleRetryIfClaimed(r, d) == status[r] = "claimed" /\ SetRetry(r, d)

RequeueRunForNextCandidate(r) ==
  /\ EverClaimed(r)
  /\ status' = [status EXCEPT ![r] = "queued"]
  /\ claimedAt' = [claimedAt EXCEPT ![r] = None]
  /\ priorityClass' = [priorityClass EXCEPT ![r] = Restamped(r)]
  /\ replayed' = replayed \ {r}
  /\ UNCHANGED <<requestedAt, retryAt, blocked, ledger, maxSessions, now>>

(* RecoverStale: one UPDATE over every row claimed too long ago.           *)
RecoverStale ==
  LET stale == {r \in Claimed : now - claimedAt[r] > StaleAge}
  IN  /\ stale # {}
      /\ status' = [r \in Runs |-> IF r \in stale THEN "queued" ELSE status[r]]
      /\ claimedAt' = [r \in Runs |-> IF r \in stale THEN None ELSE claimedAt[r]]
      /\ priorityClass' = [r \in Runs |-> IF r \in stale THEN Restamped(r)
                                          ELSE priorityClass[r]]
      /\ replayed' = replayed \ stale
      /\ UNCHANGED <<requestedAt, retryAt, blocked, ledger, maxSessions, now>>

-----------------------------------------------------------------------------
(* Parking a run and lifting the park.                                     *)

(* ParkRunForProviderCapacity; d is None for a park with no retry time.    *)
ParkRunForProviderCapacity(r, reason, d) ==
  /\ EverClaimed(r)
  /\ reason # SessionRecovery
  /\ status' = [status EXCEPT ![r] = "queued"]
  /\ blocked' = [blocked EXCEPT ![r] = reason]
  /\ retryAt' = [retryAt EXCEPT ![r] = IF d = None THEN None ELSE now + d]
  /\ claimedAt' = [claimedAt EXCEPT ![r] = None]
  /\ priorityClass' = [priorityClass EXCEPT ![r] = Restamped(r)]
  /\ replayed' = replayed \ {r}
  /\ UNCHANGED <<requestedAt, ledger, maxSessions, now>>

ParkRunForSessionRecovery(r) ==
  /\ EverClaimed(r)
  /\ SessionRecovery \in ParkReasons
  /\ status' = [status EXCEPT ![r] = "queued"]
  /\ blocked' = [blocked EXCEPT ![r] = SessionRecovery]
  /\ retryAt' = [retryAt EXCEPT ![r] = None]
  /\ claimedAt' = [claimedAt EXCEPT ![r] = None]
  /\ replayed' = replayed \ {r}
  /\ UNCHANGED <<priorityClass, requestedAt, ledger, maxSessions, now>>

(* ClearRoutingBlock: LiftParkedRuns and redispatchWaitingRuns.            *)
ClearRoutingBlock(r) ==
  /\ blocked[r] \in {Waiting, ActionRequired}
  /\ blocked' = [blocked EXCEPT ![r] = None]
  /\ retryAt' = [retryAt EXCEPT ![r] = None]
  /\ UNCHANGED <<status, priorityClass, requestedAt, claimedAt, ledger,
                 maxSessions, now, replayed>>

(* ClearSessionRecoveryPark: status is set, not compared.                  *)
ClearSessionRecoveryPark(r) ==
  /\ blocked[r] = SessionRecovery
  /\ status' = [status EXCEPT ![r] = "queued"]
  /\ blocked' = [blocked EXCEPT ![r] = None]
  /\ retryAt' = [retryAt EXCEPT ![r] = None]
  /\ replayed' = replayed \ {r}
  /\ UNCHANGED <<priorityClass, requestedAt, claimedAt, ledger, maxSessions, now>>

(* ClearAllParkedRoutingForWorkspace: every parked row of an agent whose    *)
(* profile belongs to the workspace, whatever the row's status.            *)
ClearAllParkedRoutingForWorkspace(w) ==
  LET parked == {r \in Runs : /\ maxSessions[Agent[r]] # None
                              /\ ProfileWorkspace[Agent[r]] = w
                              /\ blocked[r] \in {Waiting, ActionRequired}}
  IN  /\ parked # {}
      /\ status' = [r \in Runs |-> IF r \in parked THEN "queued" ELSE status[r]]
      /\ blocked' = [r \in Runs |-> IF r \in parked THEN None ELSE blocked[r]]
      /\ retryAt' = [r \in Runs |-> IF r \in parked THEN None ELSE retryAt[r]]
      /\ priorityClass' = [r \in Runs |-> IF r \in parked THEN Restamped(r)
                                          ELSE priorityClass[r]]
      /\ replayed' = replayed \ parked
      /\ UNCHANGED <<requestedAt, claimedAt, ledger, maxSessions, now>>

-----------------------------------------------------------------------------
(* The session ceiling settles a launch it had deferred.                   *)

CeilingDeferred(r) == status[r] = "queued" /\ blocked[r] = ActionRequired

SettleCeilingDeferredRun(r) ==
  /\ CeilingDeferred(r)
  /\ status' = [status EXCEPT ![r] = "claimed"]
  /\ claimedAt' = [claimedAt EXCEPT ![r] = now]
  /\ blocked' = [blocked EXCEPT ![r] = None]
  /\ retryAt' = [retryAt EXCEPT ![r] = None]
  /\ replayed' = replayed \cup {r}
  /\ UNCHANGED <<priorityClass, requestedAt, ledger, maxSessions, now>>

(* FailCeilingDeferredRun and FinishCeilingDeferredRunOnCompletion.        *)
CloseCeilingDeferredRun(r, final) ==
  /\ CeilingDeferred(r)
  /\ status' = [status EXCEPT ![r] = final]
  /\ claimedAt' = IF final = "finished" /\ claimedAt[r] = None
                  THEN [claimedAt EXCEPT ![r] = now]
                  ELSE claimedAt
  /\ blocked' = [blocked EXCEPT ![r] = None]
  /\ retryAt' = [retryAt EXCEPT ![r] = None]
  /\ UNCHANGED <<priorityClass, requestedAt, ledger, maxSessions, now, replayed>>

Tick ==
  /\ now < MaxTime
  /\ now' = now + 1
  /\ UNCHANGED <<status, priorityClass, requestedAt, claimedAt, retryAt,
                 blocked, ledger, maxSessions, replayed>>

-----------------------------------------------------------------------------
Leave(r) ==
  \/ \E final \in {"finished", "failed"} : FinishRun(r, final)
  \/ RequeueClaimedRun(r)
  \/ \E d \in RetryDelays : ScheduleRetry(r, d) \/ ScheduleRetryIfClaimed(r, d)
  \/ RequeueRunForNextCandidate(r)

ParkAndLift(r) ==
  \/ \E reason \in ParkReasons, d \in RetryDelays \cup {None} :
       ParkRunForProviderCapacity(r, reason, d)
  \/ ParkRunForSessionRecovery(r)
  \/ ClearRoutingBlock(r)
  \/ ClearSessionRecoveryPark(r)

SessionCeiling(r) ==
  \/ SettleCeilingDeferredRun(r)
  \/ \E final \in {"finished", "failed"} : CloseCeilingDeferredRun(r, final)

Next ==
  \/ ClaimNextEligibleRun
  \/ \E r \in Runs : CreateRun(r) \/ Leave(r) \/ ParkAndLift(r) \/ SessionCeiling(r)
  \/ \E S \in SUBSET Runs : CancelRuns(S)
  \/ \E a \in Agents, n \in SessionLimits : EditMaxSessions(a, n)
  \/ \E w \in Workspaces : ClearAllParkedRoutingForWorkspace(w)
  \/ RecoverStale
  \/ Tick

Spec == Init /\ [][Next]_vars

-----------------------------------------------------------------------------
(* Properties.                                                             *)

(* The runs whose claim went through ClaimNextEligibleRun.                 *)
Governed == Claimed \ replayed

Governor == INSTANCE LaunchGovernor
              WITH running <- Governed, launches <- ledger, clock <- now

(***************************************************************************)
(* The queue, with its priorities, parks, retries, recovery sweeps and     *)
(* cancels, never starts a launch the ceilings and budgets forbid: seen    *)
(* through the claims that ClaimNextEligibleRun made, every behaviour of   *)
(* the runs table is a behaviour of the governor.                          *)
(***************************************************************************)
ImplementsGovernor == Governor!GovernorSpec

(***************************************************************************)
(* The ceilings of claimGateBlocks bound the runs that hold a claim of     *)
(* ClaimNextEligibleRun, for the instance, for each workspace and for each *)
(* agent, whatever max_concurrent_sessions is edited to meanwhile.         *)
(***************************************************************************)
CeilingsHold == Governor!CeilingsHold

(***************************************************************************)
(* The rolling budgets hold over every window, not only over the window    *)
(* that ended when a claim was made, and across retries of the same run.   *)
(***************************************************************************)
BudgetsHold == Governor!BudgetsHold

(* Runs that the same gates decide on.                                     *)
SameGates(q, r) ==
  /\ Agent[q] = Agent[r]
  /\ Workspace[q] = Workspace[r]
  /\ Routine[q] = Routine[r]
  /\ HumanRooted[q] = HumanRooted[r]

(***************************************************************************)
(* A claim never overtakes: of two due, unparked runs that the same gates  *)
(* decide on, the one that claim order puts first is claimed first, even   *)
(* when the other was re-queued, lifted or promoted in between.  Holds     *)
(* when every gate can read its input; a failed read passes a run over.    *)
(***************************************************************************)
NoOvertaking ==
  [][\A q, r \in Runs :
       /\ ledger' # ledger /\ ledger'[Len(ledger')].run = r
       /\ q \in Candidates \ {r}
       /\ SameGates(q, r)
       => ClaimsBefore(r, q)]_vars

(***************************************************************************)
(* AC-OFFICE-LAUNCH-SAFETY-001.1 read literally: no more runs in status    *)
(* 'claimed' than the instance ceiling.                                    *)
(***************************************************************************)
InstanceCeilingHolds == Cardinality(Claimed) <= InstanceCeiling

=============================================================================
