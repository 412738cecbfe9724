SPECIFICATION Spec
CONSTANTS
  Path <- MCPath
  PathOrder <- MCPathOrder
  FoldName <- MCFoldName
  Datum <- MCDatum
  Size <- MCSize
  NoData = "none"
  Ephemeral = {"dist"}
  Managed <- MCManaged
  Protected <- MCProtected
  Canaries = {}
  Limit <- MCLimit
  Gates = {"local", "worker"}
  Workspace <- MCWorkspace
  Writable <- MCWritable
  Required = {"c"}
  CheckLists <- MCCheckLists
  None = None
  MaxRuns = 2
  MaxWrites = 2
  MaxDrifts = 1
INVARIANTS TreeInv
PROPERTIES OnlyPermitted InstallsVerified RefusedForCause
CHECK_DEADLOCK FALSE
