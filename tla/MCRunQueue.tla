------------------------------ MODULE MCRunQueue ------------------------------
(* Small instances of RunQueue for TLC.                                    *)
EXTENDS RunQueue, TLC

CONSTANTS a1, a2, w1, w2, u1

MCAgents     == {a1, a2}
MCWorkspaces == {w1, w2}
MCRoutines   == {u1}

(***************************************************************************)
(* Ceilings: agent a1 serves two workspaces, as a global Kanban profile    *)
(* does, so that the clamp of its own limit matters; a1 and a2 compete for *)
(* w1.                                                                     *)
(***************************************************************************)
CeilingAgent     == 1 :> a1 @@ 2 :> a1 @@ 3 :> a2
CeilingWorkspace == 1 :> w1 @@ 2 :> w2 @@ 3 :> w1
CeilingRoutine   == [r \in Runs |-> None]
CeilingHuman     == [r \in Runs |-> r = 3]
CeilingProfile   == a1 :> None @@ a2 :> w1
CeilingClass     == [r \in Runs |-> IF r = 3 THEN Human ELSE Event]

(***************************************************************************)
(* Budgets and order: one agent and workspace; runs 1 and 2 pass the same  *)
(* gates and differ in class, run 3 is exempt from the budgets.            *)
(***************************************************************************)
OrderAgent     == [r \in Runs |-> a1]
OrderWorkspace == [r \in Runs |-> w1]
OrderRoutine   == [r \in Runs |-> IF r = 3 THEN None ELSE u1]
OrderHuman     == [r \in Runs |-> r = 3]
OrderProfile   == a1 :> w1
OrderClass     == 1 :> Periodic @@ 2 :> Event @@ 3 :> Human

(* Replay: two runs of one agent and one slot.                             *)
ReplayRoutine == [r \in Runs |-> None]
ReplayHuman   == [r \in Runs |-> FALSE]
ReplayClass   == [r \in Runs |-> Event]
=============================================================================
