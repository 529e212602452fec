-------------------------- MODULE MCAgentHeartbeat --------------------------
(* Instances of AgentHeartbeat for TLC. *)
EXTENDS AgentHeartbeat
=============================================================================
