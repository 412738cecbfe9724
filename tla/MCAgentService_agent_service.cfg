SPECIFICATION FairSpec
CONSTANTS
  a = a
  b = b
  x = x
  None = None
  Run = {a, b}
  Rollback = {x}
  MaxRequests = 1
  MaxFaults = 2
  MaxRestarts = 1
INVARIANTS ProductInv
PROPERTIES Reconciled OutcomesStay Quiesces
CHECK_DEADLOCK FALSE
