---------------------------- MODULE MCAgentLoop ----------------------------
(* Small instances of AgentLoop for TLC. *)
EXTENDS AgentLoop

CONSTANTS r1, r2
=============================================================================
