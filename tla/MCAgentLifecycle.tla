--------------------------- MODULE MCAgentLifecycle ---------------------------
(* Two attempts stand for the ten of RetryEnroll and the three of the loop. *)
EXTENDS AgentLifecycle
=============================================================================
