--------------------------- MODULE MCWorkspacePause ---------------------------
(* Small instances of WorkspacePause for TLC.                              *)
EXTENDS WorkspacePause, TLC

CONSTANTS r1, r2, t1, o1, o2

(* Two runs of one task contend for its checkout.                          *)
SharedTask == r1 :> t1 @@ r2 :> t1

(* The runs are alike, and so are the operators.                           *)
Symmetry == Permutations(Runs) \cup Permutations(Operators)
=============================================================================
