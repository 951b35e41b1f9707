------------------------- MODULE MCDurabilityBarrier -------------------------
(* Small instances of DurabilityBarrier for TLC.                           *)
EXTENDS DurabilityBarrier

CONSTANTS a1, a2, a3
=============================================================================
