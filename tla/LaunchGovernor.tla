---------------------------- MODULE LaunchGovernor ----------------------------
(***************************************************************************)
(* What the claim side of the runs queue promises, with no queue in it:    *)
(* a set of running launches under three concurrency ceilings, and a log   *)
(* of launches under two rolling-window budgets.  It knows no priorities,  *)
(* parks, retries, cancels or profiles.  RunQueue implements it.           *)
(***************************************************************************)
EXTENDS Integers, Sequences, FiniteSets

CONSTANTS Runs, Agents, Workspaces, Routines, None,
          Agent, Workspace, Routine, HumanRooted,
          InstanceCeiling, WorkspaceCeiling,
          WorkspaceBudget, RoutineBudget, BudgetWindow

VARIABLES
  running,   \* the launches that hold a slot
  launches,  \* every launch so far, with its time
  clock

governorVars == <<running, launches, clock>>

Lesser(a, b) == IF a < b THEN a ELSE b

(* The launches of kind K that a window of length BudgetWindow ending at t holds. *)
LaunchesOf(K, t) ==
  {i \in DOMAIN launches : /\ launches[i].run \in K
                           /\ launches[i].at <= t
                           /\ t - launches[i].at < BudgetWindow}

InWorkspace(w) == {r \in Runs : Workspace[r] = w}
OfAgent(a)     == {r \in Runs : Agent[r] = a}
OfRoutine(u)   == {r \in Runs : Routine[r] = u}
Budgeted       == {r \in Runs : ~HumanRooted[r]}

SlotFree(r) ==
  /\ Cardinality(running) < InstanceCeiling
  /\ Cardinality(running \cap InWorkspace(Workspace[r])) < WorkspaceCeiling
  /\ Cardinality(running \cap OfAgent(Agent[r])) < Lesser(WorkspaceCeiling, InstanceCeiling)

WithinBudget(r) ==
  r \in Budgeted =>
    /\ Cardinality(LaunchesOf(InWorkspace(Workspace[r]), clock)) < WorkspaceBudget
    /\ Routine[r] # None =>
         Cardinality(LaunchesOf(OfRoutine(Routine[r]), clock)) < RoutineBudget

GovernorInit == running = {} /\ launches = <<>> /\ clock = 0

Start(r) ==
  /\ r \notin running
  /\ SlotFree(r)
  /\ WithinBudget(r)
  /\ running' = running \cup {r}
  /\ launches' = Append(launches, [run |-> r, at |-> clock])
  /\ UNCHANGED clock

Stop(S) ==
  /\ S # {}
  /\ running' = running \ S
  /\ UNCHANGED <<launches, clock>>

Advance ==
  /\ clock' = clock + 1
  /\ UNCHANGED <<running, launches>>

GovernorNext ==
  \/ \E r \in Runs : Start(r)
  \/ \E S \in SUBSET running : Stop(S)
  \/ Advance

GovernorSpec == GovernorInit /\ [][GovernorNext]_governorVars

-----------------------------------------------------------------------------
(***************************************************************************)
(* At no time do more launches run at once than the instance, a workspace  *)
(* or an agent is allowed (REQ-OFFICE-LAUNCH-SAFETY-001).                  *)
(***************************************************************************)
CeilingsHold ==
  /\ Cardinality(running) <= InstanceCeiling
  /\ \A w \in Workspaces : Cardinality(running \cap InWorkspace(w)) <= WorkspaceCeiling
  /\ \A a \in Agents : Cardinality(running \cap OfAgent(a))
                         <= Lesser(WorkspaceCeiling, InstanceCeiling)

(***************************************************************************)
(* No window of the budget's length, wherever it ends, holds more launches *)
(* that are not human-rooted than the workspace's or the routine's budget  *)
(* (REQ-OFFICE-LAUNCH-SAFETY-005).                                         *)
(***************************************************************************)
BudgetsHold ==
  \A t \in 0 .. clock :
    /\ \A w \in Workspaces :
         Cardinality(LaunchesOf(InWorkspace(w) \cap Budgeted, t)) <= WorkspaceBudget
    /\ \A u \in Routines :
         Cardinality(LaunchesOf(OfRoutine(u) \cap Budgeted, t)) <= RoutineBudget

=============================================================================
