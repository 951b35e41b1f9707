---------------------------- MODULE MCStreamWriter ----------------------------
(* Small instances of StreamWriter for TLC.                                *)
EXTENDS StreamWriter

CONSTANTS w1, w2
=============================================================================
