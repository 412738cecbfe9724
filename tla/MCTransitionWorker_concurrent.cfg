SPECIFICATION Spec
CONSTANTS
  a = a
  b = b
  r = r
  Txn = {a, b}
  Rollbacks = {}
  Versioned = {0, 1}
  Platform = {0}
  InitialTree <- MCInitialTree
  Initial = Initial
  None = None
  Empty = Empty
  Handshake = TRUE
  Overlap = TRUE
  Dispositions = {"QUARANTINED"}
  Requests = {"cancel", "platform", "archive", "probe"}
  MaxCrashes = 0
  MaxFaults = 1
  MaxDrifts = 0
  MaxConfigs = 1
INVARIANTS SerialHistory CommitBindsSeal WorkspaceIsHead
PROPERTIES CancelIsFinal
SYMMETRY Runs
