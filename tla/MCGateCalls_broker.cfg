SPECIFICATION FairSpec
CONSTANTS
  a = a
  b = b
  Run = {a, b}
  None = None
  MaxFaults = 2
INVARIANTS Inductive TeardownHolds RecordsHold
PROPERTIES LedgerAdvances LaunchedRunsClose
CHECK_DEADLOCK FALSE
