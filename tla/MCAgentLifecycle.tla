-------------------------- MODULE MCAgentLifecycle --------------------------
(* AgentLifecycle on a small instance. *)
EXTENDS AgentLifecycle
=============================================================================
