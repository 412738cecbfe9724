--------------------------- MODULE MCAgentService ---------------------------
(* Instances of the product for TLC: runs a and b, rollback x. *)
EXTENDS ProductProperties, TLC
CONSTANTS a, b, x
=============================================================================
