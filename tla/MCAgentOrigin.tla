--------------------------- MODULE MCAgentOrigin ---------------------------
(* Instances of AgentOrigin for TLC. *)
EXTENDS AgentOrigin
=============================================================================
