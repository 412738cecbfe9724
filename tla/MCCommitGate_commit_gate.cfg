SPECIFICATION FairSpec
CONSTANTS
  a = a
  b = b
  x = x
  Initial = Initial
  Edited = Edited
  None = None
  Run = {a, b}
  Rollback = {x}
  Retained = 2
  RetainedAtStartup = 4
  MaxOperations = 2
  MaxConfigs = 1
  MaxTroubles = 2
INVARIANTS GateInv Recoverable DecidesUnlessEdited
PROPERTIES SwapAuthorized ImplementsContract Quiesces
CHECK_DEADLOCK FALSE
