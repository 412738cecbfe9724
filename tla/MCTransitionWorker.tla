------------------------- MODULE MCTransitionWorker -------------------------
EXTENDS RecoveryInvariant, TLC
CONSTANTS a, b, r
MCInitialTree == [v |-> 0, p |-> 0]
Runs == Permutations({a, b})
=============================================================================
