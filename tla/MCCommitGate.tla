---------------------------- MODULE MCCommitGate ----------------------------
(* Instances of the in-process CommitGate for TLC: runs a and b, rollback x. *)
EXTENDS GateInvariant, TLC
CONSTANTS a, b, x
=============================================================================
