------------------------- MODULE MCDeferredAssignments -------------------------
(* Small instances of DeferredAssignments for TLC.                         *)
EXTENDS DeferredAssignments, TLC

Symmetry == Permutations(Agents)
================================================================================
