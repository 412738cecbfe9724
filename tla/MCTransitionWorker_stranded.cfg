SPECIFICATION Spec
CONSTANTS
  a = a
  b = b
  r = r
  Txn = {a, r}
  Rollbacks = {r}
  Versioned = {0, 1}
  Platform = {0}
  InitialTree <- MCInitialTree
  Initial = Initial
  None = None
  Empty = Empty
  Handshake = TRUE
  Overlap = TRUE
  Dispositions = {"ABORTED"}
  Requests = {}
  MaxCrashes = 1
  MaxFaults = 0
  MaxDrifts = 0
  MaxConfigs = 0
INVARIANTS RecoveryDecides
