-------------------------- MODULE MCPromptSubmission --------------------------
(* Small instances of PromptSubmission for TLC.                            *)
EXTENDS PromptSubmission, TLC

Symmetry == Permutations(Subs) \cup Permutations(Requests)
===============================================================================
