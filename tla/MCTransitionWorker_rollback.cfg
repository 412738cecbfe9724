SPECIFICATION Spec
CONSTANTS
  a = a
  b = b
  r = r
  Txn = {a, r}
  Rollbacks = {r}
  Versioned = {0, 1}
  Platform = {0, 1}
  InitialTree <- MCInitialTree
  Initial = Initial
  None = None
  Empty = Empty
  Handshake = TRUE
  Overlap = FALSE
  Dispositions = {"ABORTED"}
  Requests = {"platform", "repair"}
  MaxCrashes = 1
  MaxFaults = 0
  MaxDrifts = 1
  MaxConfigs = 1
INVARIANTS VersionsRestorable
PROPERTIES ImplementsAuthority
CHECK_DEADLOCK FALSE
