SPECIFICATION Spec
CONSTANTS
  a = a
  b = b
  x = x
  None = None
  Run = {a}
  Rollback = {}
  MaxRequests = 0
  MaxFaults = 0
  MaxRestarts = 1
INVARIANT StartupPasses
CHECK_DEADLOCK FALSE
