---------------------------- MODULE MCModelRelay ----------------------------
(* A run with three requests in progress and two identities to hear.         *)
EXTENDS ModelRelay, TLC

Symmetry == Permutations(Run) \cup Permutations(Model) \cup Permutations(Request)
=============================================================================
