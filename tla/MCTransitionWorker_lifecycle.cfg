SPECIFICATION FairSpec
CONSTANTS
  a = a
  b = b
  r = r
  Txn = {a}
  Rollbacks = {}
  Versioned = {0, 1}
  Platform = {0, 1}
  InitialTree <- MCInitialTree
  Initial = Initial
  None = None
  Empty = Empty
  Handshake = TRUE
  Overlap = FALSE
  Dispositions = {"ABORTED"}
  Requests = {"platform", "archive", "export", "cancel"}
  MaxCrashes = 2
  MaxFaults = 0
  MaxDrifts = 0
  MaxConfigs = 1
INVARIANTS RecoveryInv OneShot LogReplayable DestroyedLeavesNothing RecoveryDecides
PROPERTIES Concludes
