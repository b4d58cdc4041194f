----------------------------- MODULE MCAgentRuntimes ---------------------------
(* AgentRuntimes on a small instance: the default agent and another. *)
EXTENDS AgentRuntimes

================================================================================
