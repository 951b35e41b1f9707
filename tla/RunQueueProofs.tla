---------------------------- MODULE RunQueueProofs ----------------------------
(***************************************************************************)
(* Theorems about RunQueue, for every set of runs, agents and workspaces   *)
(* and every value of the ceilings and budgets.                            *)
(***************************************************************************)
EXTENDS RunQueue, FiniteSetTheorems, TLAPS

-----------------------------------------------------------------------------
(* Type correctness.                                                       *)

(***************************************************************************)
(* The status columns, the ledger and the clock keep their types: every    *)
(* statement of the repository writes a value the readers expect.          *)
(***************************************************************************)
THEOREM TypeCorrect == Spec => []TypeOK
<1>1. Init => TypeOK
  <2> SUFFICES ASSUME Init
               PROVE  TypeOK
    OBVIOUS
  <2>1. maxSessions \in [Agents -> Int \cup {None}]
    BY LimitsAssumption DEF Init
  <2>2. ledger \in Seq([run : Runs, at : Nat])
    BY DEF Init
  <2>3. status \in [Runs -> Statuses]
    BY DEF Init, Statuses
  <2>4. priorityClass \in [Runs -> Human .. Periodic]
    BY AttributesAssumption DEF Init
  <2> QED
    BY <2>1, <2>2, <2>3, <2>4 DEF Init, TypeOK
<1>2. TypeOK /\ [Next]_vars => TypeOK'
  <2> SUFFICES ASSUME TypeOK, [Next]_vars
               PROVE  TypeOK'
    OBVIOUS
  <2> USE LimitsAssumption
  <2>0. \A r \in Runs : Restamped(r) \in Human .. Periodic
    BY DEF Restamped, Human, Recovery, Periodic
  <2>1. CASE ClaimNextEligibleRun
    <3>1. PICK r \in Runs : CommitClaim(r)
      BY <2>1 DEF ClaimNextEligibleRun, Scanned, Candidates
    <3>2. [run |-> r, at |-> now] \in [run : Runs, at : Nat]
      BY DEF TypeOK
    <3> QED
      BY <3>1, <3>2 DEF CommitClaim, TypeOK, Statuses
  <2>2. ASSUME NEW r \in Runs, CreateRun(r)
        PROVE  TypeOK'
    BY <2>2 DEF CreateRun, TypeOK, Statuses
  <2>3. ASSUME NEW r \in Runs, Leave(r)
        PROVE  TypeOK'
    <3>1. ASSUME NEW final \in {"finished", "failed"}, FinishRun(r, final)
          PROVE  TypeOK'
      BY <3>1 DEF FinishRun, TypeOK, Statuses
    <3>2. CASE RequeueClaimedRun(r)
      BY <3>2 DEF RequeueClaimedRun, TypeOK, Statuses
    <3>3. ASSUME NEW d \in RetryDelays, SetRetry(r, d)
          PROVE  TypeOK'
      BY <3>3, <2>0 DEF SetRetry, TypeOK, Statuses
    <3>4. CASE RequeueRunForNextCandidate(r)
      BY <3>4, <2>0 DEF RequeueRunForNextCandidate, TypeOK, Statuses
    <3> QED
      BY <2>3, <3>1, <3>2, <3>3, <3>4
         DEF Leave, ScheduleRetry, ScheduleRetryIfClaimed
  <2>4. ASSUME NEW r \in Runs, ParkAndLift(r)
        PROVE  TypeOK'
    <3>1. ASSUME NEW reason \in ParkReasons, NEW d \in RetryDelays \cup {None},
                 ParkRunForProviderCapacity(r, reason, d)
          PROVE  TypeOK'
      BY <3>1, <2>0 DEF ParkRunForProviderCapacity, TypeOK, Statuses
    <3>2. CASE ParkRunForSessionRecovery(r)
      BY <3>2 DEF ParkRunForSessionRecovery, TypeOK, Statuses
    <3>3. CASE ClearRoutingBlock(r)
      BY <3>3 DEF ClearRoutingBlock, TypeOK
    <3>4. CASE ClearSessionRecoveryPark(r)
      BY <3>4 DEF ClearSessionRecoveryPark, TypeOK, Statuses
    <3> QED
      BY <2>4, <3>1, <3>2, <3>3, <3>4 DEF ParkAndLift
  <2>5. ASSUME NEW r \in Runs, SessionCeiling(r)
        PROVE  TypeOK'
    <3>1. CASE SettleCeilingDeferredRun(r)
      BY <3>1 DEF SettleCeilingDeferredRun, TypeOK, Statuses
    <3>2. ASSUME NEW final \in {"finished", "failed"},
                 CloseCeilingDeferredRun(r, final)
          PROVE  TypeOK'
      BY <3>2 DEF CloseCeilingDeferredRun, TypeOK, Statuses
    <3> QED
      BY <2>5, <3>1, <3>2 DEF SessionCeiling
  <2>6. ASSUME NEW S \in SUBSET Runs, CancelRuns(S)
        PROVE  TypeOK'
    BY <2>6 DEF CancelRuns, TypeOK, Statuses
  <2>7. ASSUME NEW a \in Agents, NEW n \in SessionLimits, EditMaxSessions(a, n)
        PROVE  TypeOK'
    BY <2>7 DEF EditMaxSessions, TypeOK
  <2>8. ASSUME NEW w \in Workspaces, ClearAllParkedRoutingForWorkspace(w)
        PROVE  TypeOK'
    BY <2>8, <2>0 DEF ClearAllParkedRoutingForWorkspace, TypeOK, Statuses
  <2>9. CASE RecoverStale
    BY <2>9, <2>0 DEF RecoverStale, TypeOK, Statuses
  <2>10. CASE Tick
    BY <2>10 DEF Tick, TypeOK
  <2>11. CASE UNCHANGED vars
    BY <2>11 DEF vars, TypeOK
  <2> QED
    BY <2>1, <2>2, <2>3, <2>4, <2>5, <2>6, <2>7, <2>8, <2>9, <2>10, <2>11 DEF Next
<1> QED
  BY <1>1, <1>2, PTL DEF Spec

-----------------------------------------------------------------------------
(* What a step of the queue is, to the governor.                           *)

(* A claim of the session ceiling is a claim.                              *)
ReplayedAreClaimed == replayed \subseteq Claimed

Claims(r) ==
  /\ status[r] = "queued"
  /\ ClearsGates(r)
  /\ CommitClaim(r)

Releases ==
  /\ Governed' \subseteq Governed
  /\ UNCHANGED <<ledger, now>>

Ages ==
  /\ Governed' = Governed
  /\ ledger' = ledger
  /\ now' = now + 1

QueueStep == (\E r \in Runs : Claims(r)) \/ Releases \/ Ages

(***************************************************************************)
(* Every step of the runs table claims one run through the gates, gives    *)
(* slots back, or lets time pass; no requeue, park, lift, sweep or replay  *)
(* takes a slot.                                                           *)
(***************************************************************************)
LEMMA StepShape ==
  ASSUME TypeOK, ReplayedAreClaimed, [Next]_vars
  PROVE  QueueStep /\ ReplayedAreClaimed'
<1> USE DEF ReplayedAreClaimed, Governed, Claimed
<1> DEFINE Goal == QueueStep /\ ReplayedAreClaimed'
<1>1. CASE ClaimNextEligibleRun
  <2>1. PICK r \in Runs : status[r] = "queued" /\ ClearsGates(r) /\ CommitClaim(r)
    BY <1>1 DEF ClaimNextEligibleRun, Scanned, Candidates
  <2>2. Claims(r)
    BY <2>1 DEF Claims
  <2>3. ReplayedAreClaimed'
    BY <2>1 DEF CommitClaim, TypeOK
  <2> QED
    BY <2>2, <2>3 DEF QueueStep
<1>2. ASSUME NEW r \in Runs, CreateRun(r)
      PROVE  Goal
  BY <1>2 DEF CreateRun, TypeOK, QueueStep, Releases
<1>3. ASSUME NEW r \in Runs, Leave(r)
      PROVE  Goal
  <2>1. ASSUME NEW final \in {"finished", "failed"}, FinishRun(r, final)
        PROVE  Goal
    BY <2>1 DEF FinishRun, TypeOK, QueueStep, Releases
  <2>2. CASE RequeueClaimedRun(r)
    BY <2>2 DEF RequeueClaimedRun, TypeOK, QueueStep, Releases
  <2>3. ASSUME NEW d \in RetryDelays, SetRetry(r, d)
        PROVE  Goal
    BY <2>3 DEF SetRetry, TypeOK, QueueStep, Releases
  <2>4. CASE RequeueRunForNextCandidate(r)
    BY <2>4 DEF RequeueRunForNextCandidate, TypeOK, QueueStep, Releases
  <2> QED
    BY <1>3, <2>1, <2>2, <2>3, <2>4 DEF Leave, ScheduleRetry, ScheduleRetryIfClaimed
<1>4. ASSUME NEW r \in Runs, ParkAndLift(r)
      PROVE  Goal
  <2>1. ASSUME NEW reason \in ParkReasons, NEW d \in RetryDelays \cup {None},
               ParkRunForProviderCapacity(r, reason, d)
        PROVE  Goal
    BY <2>1 DEF ParkRunForProviderCapacity, TypeOK, QueueStep, Releases
  <2>2. CASE ParkRunForSessionRecovery(r)
    BY <2>2 DEF ParkRunForSessionRecovery, TypeOK, QueueStep, Releases
  <2>3. CASE ClearRoutingBlock(r)
    BY <2>3 DEF ClearRoutingBlock, TypeOK, QueueStep, Releases
  <2>4. CASE ClearSessionRecoveryPark(r)
    BY <2>4 DEF ClearSessionRecoveryPark, TypeOK, QueueStep, Releases
  <2> QED
    BY <1>4, <2>1, <2>2, <2>3, <2>4 DEF ParkAndLift
<1>5. ASSUME NEW r \in Runs, SessionCeiling(r)
      PROVE  Goal
  <2>1. CASE SettleCeilingDeferredRun(r)
    BY <2>1 DEF SettleCeilingDeferredRun, TypeOK, QueueStep, Releases
  <2>2. ASSUME NEW final \in {"finished", "failed"}, CloseCeilingDeferredRun(r, final)
        PROVE  Goal
    BY <2>2 DEF CloseCeilingDeferredRun, CeilingDeferred, TypeOK, QueueStep, Releases
  <2> QED
    BY <1>5, <2>1, <2>2 DEF SessionCeiling
<1>6. ASSUME NEW S \in SUBSET Runs, CancelRuns(S)
      PROVE  Goal
  BY <1>6 DEF CancelRuns, TypeOK, QueueStep, Releases
<1>7. ASSUME NEW a \in Agents, NEW n \in SessionLimits, EditMaxSessions(a, n)
      PROVE  Goal
  BY <1>7 DEF EditMaxSessions, TypeOK, QueueStep, Releases
<1>8. ASSUME NEW w \in Workspaces, ClearAllParkedRoutingForWorkspace(w)
      PROVE  Goal
  BY <1>8 DEF ClearAllParkedRoutingForWorkspace, TypeOK, QueueStep, Releases
<1>9. CASE RecoverStale
  BY <1>9 DEF RecoverStale, TypeOK, QueueStep, Releases
<1>10. CASE Tick
  BY <1>10 DEF Tick, TypeOK, QueueStep, Ages
<1>11. CASE UNCHANGED vars
  BY <1>11 DEF vars, QueueStep, Releases
<1> QED
  BY <1>1, <1>2, <1>3, <1>4, <1>5, <1>6, <1>7, <1>8, <1>9, <1>10, <1>11 DEF Next

-----------------------------------------------------------------------------
(* Counting.                                                               *)

(* A subset of a set with room for one more, and one more, still fits.     *)
LEMMA RoomForOne ==
  ASSUME NEW S, IsFiniteSet(S), NEW T \in SUBSET S, NEW x, NEW U \in SUBSET (T \cup {x}),
         NEW c \in Nat, Cardinality(S) < c
  PROVE  Cardinality(U) <= c
<1>1. Cardinality(T) \in Nat /\ Cardinality(T) <= Cardinality(S) /\ IsFiniteSet(T)
  BY FS_Subset, FS_CardinalityType
<1>2. IsFiniteSet(T \cup {x}) /\ Cardinality(T \cup {x}) <= Cardinality(T) + 1
  <2>1. /\ IsFiniteSet(T \cup {x})
        /\ Cardinality(T \cup {x}) = IF x \in T THEN Cardinality(T) ELSE Cardinality(T) + 1
    BY <1>1, FS_AddElement, Zenon
  <2> QED
    BY <1>1, <2>1
<1>3. Cardinality(U) <= Cardinality(T \cup {x})
  BY <1>2, FS_Subset
<1>4. Cardinality(S) \in Nat /\ Cardinality(T \cup {x}) \in Nat /\ Cardinality(U) \in Nat
  BY <1>2, FS_Subset, FS_CardinalityType
<1> QED
  BY <1>1, <1>2, <1>3, <1>4

(* A smaller set stays under the same bound.                               *)
LEMMA Fewer ==
  ASSUME NEW S, IsFiniteSet(S), NEW T \in SUBSET S, NEW c \in Nat, Cardinality(S) <= c
  PROVE  Cardinality(T) <= c
<1>1. Cardinality(T) \in Nat /\ Cardinality(S) \in Nat /\ Cardinality(T) <= Cardinality(S)
  BY FS_Subset, FS_CardinalityType
<1> QED
  BY <1>1

(* The governor counts as the queue does.                                  *)
LEMMA SameCardinality == \A S : Governor!Cardinality(S) = Cardinality(S)
  BY DEF Governor!Cardinality, Cardinality

(***************************************************************************)
(* Every set of runs the ceilings count is finite.                         *)
(***************************************************************************)
LEMMA FiniteRuns == \A S \in SUBSET Runs : IsFiniteSet(S)
  BY RunsAssumption, FS_Subset

-----------------------------------------------------------------------------
(* The ceilings.                                                           *)

(***************************************************************************)
(* The effective ceiling of an agent never exceeds the workspace's or the  *)
(* instance's, whatever max_concurrent_sessions says (agentCeiling).       *)
(***************************************************************************)
LEMMA AgentCeilingClamped ==
  ASSUME TypeOK, NEW a \in Agents
  PROVE  /\ AgentCeiling(a) \in Nat
         /\ AgentCeiling(a) <= Governor!Lesser(WorkspaceCeiling, InstanceCeiling)
  BY LimitsAssumption, NoneAssumption
     DEF AgentCeiling, MinInt, TypeOK, Governor!Lesser

CeilingInv == TypeOK /\ ReplayedAreClaimed /\ CeilingsHold

(* A claim that passes the gates leaves every ceiling standing.            *)
LEMMA ClaimKeepsCeilings ==
  ASSUME CeilingInv, NEW r \in Runs, Claims(r)
  PROVE  CeilingsHold'
<1> DEFINE clamp == Governor!Lesser(WorkspaceCeiling, InstanceCeiling)
<1>1. Governed' \in SUBSET (Governed \cup {r}) /\ Governed \in SUBSET Claimed
  BY DEF Governed, Claimed, Claims, CommitClaim, CeilingInv, TypeOK
<1>2. UnderCeilings(r)
  BY DEF Claims, ClearsGates
<1>3. Cardinality(Governed') <= InstanceCeiling
  <2>1. IsFiniteSet(Claimed)
    BY FiniteRuns DEF Claimed
  <2> QED
    BY <1>1, <1>2, <2>1, RoomForOne, LimitsAssumption DEF UnderCeilings
<1>4. ASSUME NEW w \in Workspaces
      PROVE  Cardinality(Governed' \cap Governor!InWorkspace(w)) <= WorkspaceCeiling
  <2>1. IsFiniteSet(ClaimedIn(w)) /\ IsFiniteSet(Governed \cap Governor!InWorkspace(w))
    BY FiniteRuns DEF ClaimedIn, Claimed, Governed
  <2>2. CASE Workspace[r] = w
    <3>1. Governed \cap Governor!InWorkspace(w) \in SUBSET ClaimedIn(w)
      BY <1>1 DEF ClaimedIn, Governor!InWorkspace
    <3>2. Governed' \cap Governor!InWorkspace(w)
            \in SUBSET ((Governed \cap Governor!InWorkspace(w)) \cup {r})
      BY <1>1
    <3> QED
      BY <1>2, <2>1, <2>2, <3>1, <3>2, RoomForOne, LimitsAssumption DEF UnderCeilings
  <2>3. CASE Workspace[r] # w
    <3>1. Governed' \cap Governor!InWorkspace(w)
            \in SUBSET (Governed \cap Governor!InWorkspace(w))
      BY <1>1, <2>3 DEF Governor!InWorkspace
    <3> QED
      BY <2>1, <3>1, Fewer, SameCardinality, LimitsAssumption
         DEF CeilingInv, CeilingsHold, Governor!CeilingsHold
  <2> QED
    BY <2>2, <2>3
<1>5. ASSUME NEW a \in Agents
      PROVE  Cardinality(Governed' \cap Governor!OfAgent(a)) <= clamp
  <2>1. IsFiniteSet(ClaimedBy(a)) /\ IsFiniteSet(Governed \cap Governor!OfAgent(a))
    BY FiniteRuns DEF ClaimedBy, Claimed, Governed
  <2>2. clamp \in Nat
    BY LimitsAssumption DEF Governor!Lesser
  <2>3. CASE Agent[r] = a
    <3>1. Governed \cap Governor!OfAgent(a) \in SUBSET ClaimedBy(a)
      BY <1>1 DEF ClaimedBy, Governor!OfAgent
    <3>2. Governed' \cap Governor!OfAgent(a)
            \in SUBSET ((Governed \cap Governor!OfAgent(a)) \cup {r})
      BY <1>1
    <3>3. AgentCeiling(a) \in Nat /\ AgentCeiling(a) <= clamp
      BY AgentCeilingClamped DEF CeilingInv
    <3>4. Cardinality(ClaimedBy(a)) \in Nat
      BY <2>1, FS_CardinalityType
    <3>5. Cardinality(ClaimedBy(a)) < clamp
      BY <1>2, <2>2, <2>3, <3>3, <3>4 DEF UnderCeilings
    <3> QED
      BY <2>1, <2>2, <3>1, <3>2, <3>5, RoomForOne
  <2>4. CASE Agent[r] # a
    <3>1. Governed' \cap Governor!OfAgent(a) \in SUBSET (Governed \cap Governor!OfAgent(a))
      BY <1>1, <2>4 DEF Governor!OfAgent
    <3> QED
      BY <2>1, <2>2, <3>1, Fewer, SameCardinality
         DEF CeilingInv, CeilingsHold, Governor!CeilingsHold
  <2> QED
    BY <2>3, <2>4
<1> QED
  BY <1>3, <1>4, <1>5, SameCardinality DEF CeilingsHold, Governor!CeilingsHold

(* A step that takes no slot leaves every ceiling standing.                *)
LEMMA ReleaseKeepsCeilings ==
  ASSUME CeilingInv, Governed' \in SUBSET Governed
  PROVE  CeilingsHold'
<1>1. IsFiniteSet(Governed)
  BY FiniteRuns DEF Governed, Claimed
<1>2. Cardinality(Governed') <= InstanceCeiling
  BY <1>1, Fewer, SameCardinality, LimitsAssumption
     DEF CeilingInv, CeilingsHold, Governor!CeilingsHold
<1>3. ASSUME NEW w \in Workspaces
      PROVE  Cardinality(Governed' \cap Governor!InWorkspace(w)) <= WorkspaceCeiling
  <2>1. IsFiniteSet(Governed \cap Governor!InWorkspace(w))
    BY FiniteRuns DEF Governed, Claimed
  <2>2. Governed' \cap Governor!InWorkspace(w) \in SUBSET (Governed \cap Governor!InWorkspace(w))
    OBVIOUS
  <2> QED
    BY <2>1, <2>2, Fewer, SameCardinality, LimitsAssumption
       DEF CeilingInv, CeilingsHold, Governor!CeilingsHold
<1>4. ASSUME NEW a \in Agents
      PROVE  Cardinality(Governed' \cap Governor!OfAgent(a))
               <= Governor!Lesser(WorkspaceCeiling, InstanceCeiling)
  <2>1. IsFiniteSet(Governed \cap Governor!OfAgent(a))
    BY FiniteRuns DEF Governed, Claimed
  <2>2. Governed' \cap Governor!OfAgent(a) \in SUBSET (Governed \cap Governor!OfAgent(a))
    OBVIOUS
  <2>3. Governor!Lesser(WorkspaceCeiling, InstanceCeiling) \in Nat
    BY LimitsAssumption DEF Governor!Lesser
  <2> QED
    BY <2>1, <2>2, <2>3, Fewer, SameCardinality
       DEF CeilingInv, CeilingsHold, Governor!CeilingsHold
<1> QED
  BY <1>2, <1>3, <1>4, SameCardinality DEF CeilingsHold, Governor!CeilingsHold

(***************************************************************************)
(* The inductive invariant behind the ceilings: the bounds together with   *)
(* the types and the fact that a replayed launch is a claimed one, without *)
(* which a claim could hide behind the history variable.                   *)
(***************************************************************************)
THEOREM CeilingInvariant == Spec => []CeilingInv
<1>1. Init => ReplayedAreClaimed /\ CeilingsHold
  <2> SUFFICES ASSUME Init
               PROVE  ReplayedAreClaimed /\ CeilingsHold
    OBVIOUS
  <2>1. Governed = {} /\ ReplayedAreClaimed
    BY DEF Init, Governed, Claimed, ReplayedAreClaimed
  <2>2. Governor!Lesser(WorkspaceCeiling, InstanceCeiling) \in Nat
    BY LimitsAssumption DEF Governor!Lesser
  <2>3. \A S : Governed \cap S = {}
    BY <2>1
  <2> QED
    BY <2>1, <2>2, <2>3, FS_EmptySet, SameCardinality, LimitsAssumption
       DEF CeilingsHold, Governor!CeilingsHold
<1>2. TypeOK' /\ CeilingInv /\ [Next]_vars => CeilingInv'
  <2> SUFFICES ASSUME TypeOK', CeilingInv, [Next]_vars
               PROVE  CeilingInv'
    OBVIOUS
  <2>1. QueueStep /\ ReplayedAreClaimed'
    BY StepShape DEF CeilingInv
  <2>2. CeilingsHold'
    BY <2>1, ClaimKeepsCeilings, ReleaseKeepsCeilings DEF QueueStep, Releases, Ages
  <2> QED
    BY <2>1, <2>2 DEF CeilingInv
<1> QED
  <2>1. TypeOK /\ ReplayedAreClaimed /\ CeilingsHold => CeilingInv
    BY DEF CeilingInv
  <2> QED
    BY <1>1, <1>2, <2>1, TypeCorrect, PTL DEF Spec

(***************************************************************************)
(* Whatever the number of runs, agents and workspaces and whatever the     *)
(* ceilings, no interleaving of claims, retries, parks, sweeps, cancels    *)
(* and profile edits takes the claims of ClaimNextEligibleRun over the     *)
(* instance, workspace or agent ceiling.                                   *)
(***************************************************************************)
THEOREM CeilingsTheorem == Spec => []CeilingsHold
<1>1. CeilingInv => CeilingsHold
  BY DEF CeilingInv
<1> QED
  BY <1>1, CeilingInvariant, PTL

-----------------------------------------------------------------------------
(* The queue implements the governor.                                      *)

(* The ledger indices that a budget gate counts are those of the window    *)
(* that ends now.                                                          *)
LedgerPast == \A i \in DOMAIN ledger : ledger[i].at <= now

(***************************************************************************)
(* An entry of the launch ledger names a run and a time.                   *)
(***************************************************************************)
LEMMA LedgerEntries ==
  ASSUME TypeOK, NEW i \in DOMAIN ledger
  PROVE  ledger[i].run \in Runs /\ ledger[i].at \in Nat
<1> DEFINE Row == [run : Runs, at : Nat]
<1>1. ledger \in Seq(Row)
  BY DEF TypeOK
<1> HIDE DEF Row
<1>2. ledger[i] \in Row
  BY <1>1
<1> QED
  BY <1>2 DEF Row

(***************************************************************************)
(* The windows the claim gates count, which reach back from now, are the   *)
(* windows of the governor that end now: no entry of the ledger is in the  *)
(* future.                                                                 *)
(***************************************************************************)
LEMMA GateWindows ==
  ASSUME TypeOK, LedgerPast
  PROVE  /\ \A w : Governor!LaunchesOf(Governor!InWorkspace(w), now) = WorkspaceLaunches(w)
         /\ \A u : Governor!LaunchesOf(Governor!OfRoutine(u), now) = RoutineLaunches(u)
<1>1. \A i \in DOMAIN ledger : ledger[i].run \in Runs /\ ledger[i].at <= now
  BY LedgerEntries DEF LedgerPast
<1>2. \A w : Governor!LaunchesOf(Governor!InWorkspace(w), now) = WorkspaceLaunches(w)
  BY <1>1 DEF Governor!LaunchesOf, Governor!InWorkspace, WorkspaceLaunches, InBudgetWindow
<1>3. \A u : Governor!LaunchesOf(Governor!OfRoutine(u), now) = RoutineLaunches(u)
  BY <1>1 DEF Governor!LaunchesOf, Governor!OfRoutine, RoutineLaunches, InBudgetWindow
<1> QED
  BY <1>2, <1>3

(* Time never runs backwards past a ledger row.                            *)
LEMMA LedgerStaysPast ==
  ASSUME TypeOK, LedgerPast, QueueStep
  PROVE  LedgerPast'
<1>1. ASSUME NEW r \in Runs, Claims(r)
      PROVE  LedgerPast'
  <2>1. /\ now' = now
        /\ ledger' = Append(ledger, [run |-> r, at |-> now])
    BY <1>1 DEF Claims, CommitClaim
  <2>2. ASSUME NEW i \in DOMAIN ledger'
        PROVE  ledger'[i].at <= now'
    <3>1. CASE i \in DOMAIN ledger
      BY <2>1, <3>1 DEF TypeOK, LedgerPast
    <3>2. CASE i \notin DOMAIN ledger
      <4>1. ledger'[i] = [run |-> r, at |-> now]
        BY <2>1, <2>2, <3>2 DEF TypeOK
      <4> QED
        BY <2>1, <4>1 DEF TypeOK
    <3> QED
      BY <3>1, <3>2
  <2> QED
    BY <2>2 DEF LedgerPast
<1>2. CASE Releases
  BY <1>2 DEF Releases, LedgerPast
<1>3. CASE Ages
  BY SMTT(30), <1>3, LedgerEntries DEF Ages, LedgerPast, TypeOK
<1> QED
  BY <1>1, <1>2, <1>3 DEF QueueStep

(* A claim is a start the governor allows.                                 *)
LEMMA ClaimIsStart ==
  ASSUME CeilingInv, LedgerPast, NEW r \in Runs, Claims(r)
  PROVE  Governor!Start(r)
<1>1. UnderCeilings(r) /\ UnderBudgets(r) /\ CommitClaim(r) /\ status[r] = "queued"
  BY DEF Claims, ClearsGates
<1>2. r \notin replayed /\ r \notin Claimed
  BY <1>1 DEF CeilingInv, ReplayedAreClaimed, Claimed
<1>3. r \notin Governed /\ Governed' = Governed \cup {r}
  BY <1>1, <1>2 DEF Governed, Claimed, CommitClaim, CeilingInv, TypeOK
<1>4. Governed \in SUBSET Claimed /\ IsFiniteSet(Claimed)
  BY FiniteRuns DEF Governed, Claimed
<1>5. Governor!SlotFree(r)
  <2>1. Cardinality(Governed) < InstanceCeiling
    <3>1. /\ Cardinality(Governed) <= Cardinality(Claimed)
          /\ Cardinality(Governed) \in Nat /\ Cardinality(Claimed) \in Nat
      BY <1>4, FS_Subset, FS_CardinalityType
    <3> QED
      BY <1>1, <3>1, LimitsAssumption DEF UnderCeilings
  <2>2. Cardinality(Governed \cap Governor!InWorkspace(Workspace[r])) < WorkspaceCeiling
    <3> DEFINE T == Governed \cap Governor!InWorkspace(Workspace[r])
               S == ClaimedIn(Workspace[r])
    <3>1. T \in SUBSET S /\ IsFiniteSet(S)
      BY <1>4, FiniteRuns DEF ClaimedIn, Claimed, Governor!InWorkspace
    <3>2. Cardinality(T) <= Cardinality(S) /\ Cardinality(T) \in Nat /\ Cardinality(S) \in Nat
      BY <3>1, FS_Subset, FS_CardinalityType
    <3> QED
      BY <1>1, <3>2, LimitsAssumption DEF UnderCeilings
  <2>3. Cardinality(Governed \cap Governor!OfAgent(Agent[r]))
          < Governor!Lesser(WorkspaceCeiling, InstanceCeiling)
    <3> DEFINE T == Governed \cap Governor!OfAgent(Agent[r])
               S == ClaimedBy(Agent[r])
    <3>1. T \in SUBSET S /\ IsFiniteSet(S)
      BY <1>4, FiniteRuns DEF ClaimedBy, Claimed, Governor!OfAgent
    <3>2. Cardinality(T) <= Cardinality(S) /\ Cardinality(T) \in Nat /\ Cardinality(S) \in Nat
      BY <3>1, FS_Subset, FS_CardinalityType
    <3>3. Agent[r] \in Agents
      BY AttributesAssumption
    <3>4. /\ AgentCeiling(Agent[r]) \in Nat
          /\ AgentCeiling(Agent[r]) <= Governor!Lesser(WorkspaceCeiling, InstanceCeiling)
      BY <3>3, AgentCeilingClamped DEF CeilingInv
    <3>5. Governor!Lesser(WorkspaceCeiling, InstanceCeiling) \in Nat
      BY LimitsAssumption DEF Governor!Lesser
    <3> QED
      BY <1>1, <3>2, <3>4, <3>5 DEF UnderCeilings
  <2> QED
    BY <2>1, <2>2, <2>3, SameCardinality DEF Governor!SlotFree
<1>6. Governor!WithinBudget(r)
  BY <1>1, GateWindows, SameCardinality
     DEF UnderBudgets, CeilingInv, Governor!WithinBudget, Governor!Budgeted
<1>7. ledger' = Append(ledger, [run |-> r, at |-> now]) /\ now' = now
  BY <1>1 DEF CommitClaim
<1> QED
  BY <1>3, <1>5, <1>6, <1>7 DEF Governor!Start

(***************************************************************************)
(* The detailed queue implements the abstract governor: the initial table  *)
(* maps to a governor with nothing running, and each transaction on the    *)
(* table to a permitted start, a stop, a tick or a stutter.                *)
(***************************************************************************)
THEOREM Refinement == Spec => ImplementsGovernor
<1>1. Init => Governor!GovernorInit /\ LedgerPast
  BY DEF Init, Governor!GovernorInit, Governed, Claimed, LedgerPast
<1>2. CeilingInv /\ LedgerPast /\ [Next]_vars => LedgerPast'
  BY StepShape, LedgerStaysPast DEF CeilingInv
<1>3. CeilingInv /\ LedgerPast /\ [Next]_vars
        => [Governor!GovernorNext]_(Governor!governorVars)
  <2> SUFFICES ASSUME CeilingInv, LedgerPast, [Next]_vars
               PROVE  [Governor!GovernorNext]_(Governor!governorVars)
    OBVIOUS
  <2>1. QueueStep
    BY StepShape DEF CeilingInv
  <2>2. ASSUME NEW r \in Runs, Claims(r)
        PROVE  Governor!GovernorNext
    BY <2>2, ClaimIsStart DEF Governor!GovernorNext
  <2>3. CASE Releases
    <3>1. CASE Governed' = Governed
      BY <2>3, <3>1 DEF Releases, Governor!governorVars
    <3>2. CASE Governed' # Governed
      <4> DEFINE S == Governed \ Governed'
      <4>1. S \in SUBSET Governed /\ S # {} /\ Governed' = Governed \ S
        BY <2>3, <3>2 DEF Releases
      <4>2. Governor!Stop(S)
        BY <2>3, <4>1 DEF Releases, Governor!Stop
      <4> QED
        BY <4>1, <4>2 DEF Governor!GovernorNext
    <3> QED
      BY <3>1, <3>2
  <2>4. CASE Ages
    BY <2>4 DEF Ages, Governor!Advance, Governor!GovernorNext
  <2> QED
    BY <2>1, <2>2, <2>3, <2>4 DEF QueueStep
<1> QED
  BY <1>1, <1>2, <1>3, CeilingInvariant, PTL
     DEF Spec, ImplementsGovernor, Governor!GovernorSpec

-----------------------------------------------------------------------------
(* The budgets.                                                            *)

BudgetInv == TypeOK /\ LedgerPast /\ BudgetsHold

Windows(K, t) == Governor!LaunchesOf(K, t)

(***************************************************************************)
(* A window of the ledger is a finite set.                                 *)
(***************************************************************************)
LEMMA FiniteWindows ==
  ASSUME TypeOK, NEW K, NEW t
  PROVE  IsFiniteSet(Windows(K, t))
<1>1. IsFiniteSet(DOMAIN ledger)
  <2>1. DOMAIN ledger = 1 .. Len(ledger) /\ Len(ledger) \in Nat
    BY DEF TypeOK
  <2> QED
    BY <2>1, FS_Interval
<1>2. Windows(K, t) \in SUBSET DOMAIN ledger
  BY DEF Windows, Governor!LaunchesOf
<1> QED
  BY <1>1, <1>2, FS_Subset

(***************************************************************************)
(* One kind K of launches, and the gate's own count G of them: the budget  *)
(* b holds for K over every window after a claim of r if the gate left     *)
(* room whenever r is of kind K.                                           *)
(***************************************************************************)
LEMMA ClaimKeepsBudget ==
  ASSUME BudgetInv, NEW r \in Runs, Claims(r), NEW b \in Nat,
         NEW K, NEW G, IsFiniteSet(G), Windows(K, now) \in SUBSET G,
         r \in K => Cardinality(G) < b,
         \A t \in 0 .. now : Cardinality(Windows(K, t)) <= b,
         NEW t \in 0 .. now'
  PROVE  Cardinality(Windows(K, t)') <= b
<1>1. /\ now' = now
      /\ ledger' = Append(ledger, [run |-> r, at |-> now])
      /\ now \in Nat
  BY DEF Claims, CommitClaim, BudgetInv, TypeOK
<1> DEFINE n == Len(ledger) + 1
<1>2. /\ Len(ledger) \in Nat /\ DOMAIN ledger = 1 .. Len(ledger)
      /\ DOMAIN ledger' = 1 .. n
      /\ \A i \in DOMAIN ledger : ledger'[i] = ledger[i]
      /\ ledger'[n] = [run |-> r, at |-> now]
  BY SMTT(30), <1>1 DEF BudgetInv, TypeOK
<1>3. Windows(K, t)' \in SUBSET (Windows(K, t) \cup {n})
  <2>1. ASSUME NEW i \in Windows(K, t)', i # n
        PROVE  i \in Windows(K, t)
    <3>1. i \in DOMAIN ledger' /\ ledger'[i].run \in K /\ ledger'[i].at <= t
            /\ t - ledger'[i].at < BudgetWindow
      BY <2>1 DEF Windows, Governor!LaunchesOf
    <3>2. i \in DOMAIN ledger
      BY <1>2, <2>1, <3>1
    <3> QED
      BY <1>2, <3>1, <3>2 DEF Windows, Governor!LaunchesOf
  <2> QED
    BY <2>1
<1>4. n \in Windows(K, t)' => r \in K /\ t = now
  BY <1>1, <1>2 DEF Windows, Governor!LaunchesOf
<1>5. CASE n \in Windows(K, t)'
  <2>1. r \in K /\ t = now
    BY <1>4, <1>5
  <2> QED
    BY <1>3, <2>1, RoomForOne
<1>6. CASE n \notin Windows(K, t)'
  <2>1. Windows(K, t)' \in SUBSET Windows(K, t)
    BY <1>3, <1>6
  <2>2. IsFiniteSet(Windows(K, t)) /\ Cardinality(Windows(K, t)) <= b
    BY <1>1, FiniteWindows DEF BudgetInv
  <2> QED
    BY <2>1, <2>2, Fewer
<1> QED
  BY <1>5, <1>6

(* A window that ends after the last launch holds no more than the one     *)
(* that ends at it: sliding forward only lets launches out.                *)
LEMMA AgingKeepsBudget ==
  ASSUME BudgetInv, Ages, NEW b \in Nat, NEW K,
         \A t \in 0 .. now : Cardinality(Windows(K, t)) <= b,
         NEW t \in 0 .. now'
  PROVE  Cardinality(Windows(K, t)') <= b
<1>1. now \in Nat /\ now' = now + 1 /\ ledger' = ledger
  BY DEF Ages, BudgetInv, TypeOK
<1>2. Windows(K, t)' = Windows(K, t)
  BY <1>1 DEF Windows, Governor!LaunchesOf
<1>3. CASE t \in 0 .. now
  BY <1>2, <1>3
<1>4. CASE t = now + 1
  <2>1. \A i \in DOMAIN ledger : ledger[i].at \in Nat /\ ledger[i].at <= now
    BY LedgerEntries DEF BudgetInv, LedgerPast
  <2>2. Windows(K, t) \in SUBSET Windows(K, now)
    BY <1>1, <1>4, <2>1, LimitsAssumption DEF Windows, Governor!LaunchesOf
  <2>3. IsFiniteSet(Windows(K, now)) /\ Cardinality(Windows(K, now)) <= b
    BY <1>1, FiniteWindows DEF BudgetInv
  <2> QED
    BY <1>2, <2>2, <2>3, Fewer
<1> QED
  BY <1>1, <1>3, <1>4

(* The kinds of launches the two budgets bound.                            *)
WorkspaceKind(w) == Governor!InWorkspace(w) \cap Governor!Budgeted
RoutineKind(u)   == Governor!OfRoutine(u) \cap Governor!Budgeted

(***************************************************************************)
(* BudgetsHold, in terms of the two kinds of launches the gates count.     *)
(***************************************************************************)
LEMMA BudgetsByKind ==
  BudgetsHold <=>
    \A t \in 0 .. now :
      /\ \A w \in Workspaces : Cardinality(Windows(WorkspaceKind(w), t)) <= WorkspaceBudget
      /\ \A u \in Routines : Cardinality(Windows(RoutineKind(u), t)) <= RoutineBudget
  BY SameCardinality
     DEF BudgetsHold, Governor!BudgetsHold, Windows, WorkspaceKind, RoutineKind

(* A claim that passes the gates leaves both budgets standing.             *)
LEMMA ClaimKeepsBudgets ==
  ASSUME BudgetInv, NEW r \in Runs, Claims(r), NEW t \in 0 .. now'
  PROVE  /\ \A w \in Workspaces :
              Cardinality(Windows(WorkspaceKind(w), t)') <= WorkspaceBudget
         /\ \A u \in Routines :
              Cardinality(Windows(RoutineKind(u), t)') <= RoutineBudget
<1>1. UnderBudgets(r)
  BY DEF Claims, ClearsGates
<1>2. TypeOK /\ LedgerPast
  BY DEF BudgetInv
<1>3. ASSUME NEW w \in Workspaces
      PROVE  Cardinality(Windows(WorkspaceKind(w), t)') <= WorkspaceBudget
  <2> DEFINE K == WorkspaceKind(w)
             G == Windows(Governor!InWorkspace(w), now)
  <2>1. IsFiniteSet(G) /\ Windows(K, now) \in SUBSET G
    BY <1>2, FiniteWindows DEF Windows, Governor!LaunchesOf, WorkspaceKind
  <2>2. r \in K => Cardinality(G) < WorkspaceBudget
    BY <1>1, <1>2, GateWindows
       DEF UnderBudgets, Windows, WorkspaceKind, Governor!Budgeted, Governor!InWorkspace
  <2>3. \A s \in 0 .. now : Cardinality(Windows(K, s)) <= WorkspaceBudget
    BY BudgetsByKind DEF BudgetInv
  <2>4. WorkspaceBudget \in Nat
    BY LimitsAssumption
  <2> HIDE DEF K, G
  <2>5. Cardinality(Windows(K, t)') <= WorkspaceBudget
    BY <2>1, <2>2, <2>3, <2>4, ClaimKeepsBudget
  <2> QED
    BY <2>5 DEF K
<1>4. ASSUME NEW u \in Routines
      PROVE  Cardinality(Windows(RoutineKind(u), t)') <= RoutineBudget
  <2> DEFINE K == RoutineKind(u)
             G == Windows(Governor!OfRoutine(u), now)
  <2>1. IsFiniteSet(G) /\ Windows(K, now) \in SUBSET G
    BY <1>2, FiniteWindows DEF Windows, Governor!LaunchesOf, RoutineKind
  <2>2. r \in K => Cardinality(G) < RoutineBudget
    BY <1>1, <1>2, GateWindows, NoneAssumption
       DEF UnderBudgets, Windows, RoutineKind, Governor!Budgeted, Governor!OfRoutine
  <2>3. \A s \in 0 .. now : Cardinality(Windows(K, s)) <= RoutineBudget
    BY BudgetsByKind DEF BudgetInv
  <2>4. RoutineBudget \in Nat
    BY LimitsAssumption
  <2> HIDE DEF K, G
  <2>5. Cardinality(Windows(K, t)') <= RoutineBudget
    BY <2>1, <2>2, <2>3, <2>4, ClaimKeepsBudget
  <2> QED
    BY <2>5 DEF K
<1> QED
  BY <1>3, <1>4

(* Time passing leaves both budgets standing.                              *)
LEMMA AgingKeepsBudgets ==
  ASSUME BudgetInv, Ages, NEW t \in 0 .. now'
  PROVE  /\ \A w \in Workspaces :
              Cardinality(Windows(WorkspaceKind(w), t)') <= WorkspaceBudget
         /\ \A u \in Routines :
              Cardinality(Windows(RoutineKind(u), t)') <= RoutineBudget
  BY BudgetsByKind, AgingKeepsBudget, LimitsAssumption DEF BudgetInv

(***************************************************************************)
(* No hour, wherever it starts, holds more launches that a human did not   *)
(* root than the workspace's or the routine's budget: the gate looks only  *)
(* at the hour before a claim, and that is enough because the ledger is    *)
(* append-only, in time order with the clock, and written in the claim's   *)
(* own transaction.                                                        *)
(***************************************************************************)
THEOREM BudgetsTheorem == Spec => []BudgetsHold
<1>1. Init => LedgerPast /\ BudgetsHold
  <2> SUFFICES ASSUME Init
               PROVE  LedgerPast /\ BudgetsHold
    OBVIOUS
  <2>1. DOMAIN ledger = {}
    BY DEF Init
  <2>2. \A K, t : Windows(K, t) = {}
    BY <2>1 DEF Windows, Governor!LaunchesOf
  <2>3. \A K, t : Cardinality(Windows(K, t)) = 0
    BY <2>2, FS_EmptySet
  <2>4. BudgetsHold
    BY <2>3, BudgetsByKind, LimitsAssumption
  <2> QED
    BY <2>1, <2>4 DEF LedgerPast
<1>2. TypeOK' /\ ReplayedAreClaimed /\ BudgetInv /\ [Next]_vars => BudgetInv'
  <2> SUFFICES ASSUME TypeOK', ReplayedAreClaimed, BudgetInv, [Next]_vars
               PROVE  BudgetInv'
    OBVIOUS
  <2>1. QueueStep
    BY StepShape DEF BudgetInv
  <2>2. LedgerPast'
    BY <2>1, LedgerStaysPast DEF BudgetInv
  <2>3. BudgetsHold'
    <3>1. CASE Releases
      BY <3>1, BudgetsByKind
         DEF Releases, BudgetInv, Windows, Governor!LaunchesOf, BudgetsHold, Governor!BudgetsHold
    <3>2. ASSUME QueueStep, ~Releases
          PROVE  \A t \in 0 .. now' :
                   /\ \A w \in Workspaces :
                        Cardinality(Windows(WorkspaceKind(w), t)') <= WorkspaceBudget
                   /\ \A u \in Routines :
                        Cardinality(Windows(RoutineKind(u), t)') <= RoutineBudget
      BY <3>2, ClaimKeepsBudgets, AgingKeepsBudgets DEF QueueStep
    <3>3. CASE ~Releases
      BY <2>1, <3>2, <3>3, SameCardinality
         DEF BudgetsHold, Governor!BudgetsHold, Windows, WorkspaceKind, RoutineKind
    <3> QED
      BY <3>1, <3>3
  <2> QED
    BY <2>2, <2>3 DEF BudgetInv
<1>3. CeilingInv => TypeOK /\ ReplayedAreClaimed
  BY DEF CeilingInv
<1>4. TypeOK /\ LedgerPast /\ BudgetsHold <=> BudgetInv
  BY DEF BudgetInv
<1> QED
  BY <1>1, <1>2, <1>3, <1>4, CeilingInvariant, TypeCorrect, PTL DEF Spec

-----------------------------------------------------------------------------
(* The order of claims.                                                    *)

(* Only a claim appends to the ledger.                                     *)
LEMMA OnlyClaimsAppend ==
  ASSUME [Next]_vars, ledger' # ledger
  PROVE  ClaimNextEligibleRun
BY DEF Next, CreateRun, Leave, FinishRun, RequeueClaimedRun, ScheduleRetry, ScheduleRetryIfClaimed,
   SetRetry, RequeueRunForNextCandidate, ParkAndLift, ParkRunForProviderCapacity,
   ParkRunForSessionRecovery, ClearRoutingBlock, ClearSessionRecoveryPark, SessionCeiling,
   SettleCeilingDeferredRun, CloseCeilingDeferredRun, CancelRuns, EditMaxSessions,
   ClearAllParkedRoutingForWorkspace, RecoverStale, Tick, vars

(* What claim order compares.                                              *)
LEMMA OrderTypes ==
  ASSUME TypeOK
  PROVE  \A r \in Runs : PromotedClass(r) \in Int /\ requestedAt[r] \in Nat /\ r \in Nat
BY SMTT(30), RunsAssumption, LimitsAssumption DEF TypeOK, PromotedClass, Human, Recovery, Periodic

(* Claim order is total: class, then age, then id.                         *)
LEMMA ClaimOrderTotal ==
  ASSUME TypeOK, NEW q \in Runs, NEW r \in Runs, q # r
  PROVE  ClaimsBefore(q, r) \/ ClaimsBefore(r, q)
BY OrderTypes DEF ClaimsBefore

(* Claim order is transitive.                                              *)
LEMMA ClaimOrderTransitive ==
  ASSUME TypeOK, NEW p \in Runs, NEW q \in Runs, NEW r \in Runs,
         ClaimsBefore(p, q), ClaimsBefore(q, r)
  PROVE  ClaimsBefore(p, r)
BY OrderTypes DEF ClaimsBefore

(* A run ahead of one that the scan reaches is reached as well.            *)
LEMMA ScanReachesAll ==
  ASSUME TypeOK, NEW r \in Scanned, NEW q \in Candidates, ClaimsBefore(q, r)
  PROVE  q \in Scanned
<1> DEFINE Before(x) == {p \in Candidates : ClaimsBefore(p, x)}
<1>1. r \in Runs /\ q \in Runs /\ Candidates \subseteq Runs
  BY DEF Scanned, Candidates
<1>2. Before(q) \subseteq Before(r)
  BY <1>1, ClaimOrderTransitive
<1>3. IsFiniteSet(Before(r)) /\ Cardinality(Before(r)) < ScanCap
  BY <1>1, FiniteRuns DEF Scanned
<1>4. /\ Cardinality(Before(q)) \in Nat /\ Cardinality(Before(r)) \in Nat
      /\ Cardinality(Before(q)) <= Cardinality(Before(r))
  BY <1>2, <1>3, FS_Subset, FS_CardinalityType
<1>5. Cardinality(Before(q)) < ScanCap
  BY <1>3, <1>4, LimitsAssumption
<1> QED
  BY <1>5 DEF Scanned

(* The gates decide alike on runs that they cannot tell apart.             *)
LEMMA GatesAgree ==
  ASSUME NEW q \in Runs, NEW r \in Runs, SameGates(q, r), ClearsGates(r)
  PROVE  ClearsGates(q)
BY DEF SameGates, ClearsGates, UnderCeilings, UnderBudgets

(***************************************************************************)
(* With gates that can read their input, no claim overtakes a due,         *)
(* unparked run that the same gates decide on and that claim order puts    *)
(* first, although the scan of one attempt is capped: the cap cuts off     *)
(* only the end of the order.                                              *)
(***************************************************************************)
THEOREM ClaimsInOrder ==
  ASSUME ReadFaults = FALSE
  PROVE  Spec => NoOvertaking
<1> DEFINE Step ==
      \A q, r \in Runs :
        /\ ledger' # ledger /\ ledger'[Len(ledger')].run = r
        /\ q \in Candidates \ {r}
        /\ SameGates(q, r)
        => ClaimsBefore(r, q)
<1>1. TypeOK /\ [Next]_vars => Step
  <2> SUFFICES ASSUME TypeOK, [Next]_vars, NEW q \in Runs, NEW r \in Runs,
                      ledger' # ledger, ledger'[Len(ledger')].run = r,
                      q \in Candidates \ {r}, SameGates(q, r)
               PROVE  ClaimsBefore(r, q)
    OBVIOUS
  <2> DEFINE open == {x \in Scanned : ClearsGates(x)}
  <2>1. PICK c \in open : (\A x \in open : x = c \/ ClaimsBefore(c, x)) /\ CommitClaim(c)
    BY OnlyClaimsAppend DEF ClaimNextEligibleRun
  <2>2. c = r
    <3>1. c \in Runs /\ ledger \in Seq([run : Runs, at : Nat]) /\ now \in Nat
      BY DEF TypeOK, Scanned, Candidates
    <3>2. ledger' = Append(ledger, [run |-> c, at |-> now])
      BY <2>1 DEF CommitClaim
    <3>3. [run |-> c, at |-> now] \in [run : Runs, at : Nat]
      BY <3>1
    <3>4. ledger'[Len(ledger')] = [run |-> c, at |-> now]
      BY <3>1, <3>2, <3>3
    <3> QED
      BY <3>4
  <2>3. r \in Scanned /\ ClearsGates(q)
    BY <2>1, <2>2, GatesAgree
  <2>4. CASE ClaimsBefore(q, r)
    <3>1. q \in open
      BY <2>3, <2>4, ScanReachesAll
    <3> QED
      BY <2>1, <2>2, <3>1
  <2>5. CASE ~ClaimsBefore(q, r)
    BY <2>5, ClaimOrderTotal
  <2> QED
    BY <2>4, <2>5
<1>2. TypeOK /\ [Next]_vars => [Step]_vars
  BY <1>1
<1> HIDE DEF Step
<1>3. Spec => [][Step]_vars
  BY <1>2, TypeCorrect, PTL DEF Spec
<1> QED
  BY <1>3 DEF NoOvertaking, Step

=============================================================================
