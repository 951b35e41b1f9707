--------------------------- MODULE MCAgentDelivery ---------------------------
(* Small instances of AgentDelivery for TLC.                               *)
EXTENDS AgentDelivery

CONSTANTS c1, c2
=============================================================================
