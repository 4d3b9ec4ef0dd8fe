-------------------------- MODULE MCAgentLifecycle --------------------------
(* Small instances of AgentLifecycle for TLC. *)
EXTENDS AgentLifecycle
=============================================================================
