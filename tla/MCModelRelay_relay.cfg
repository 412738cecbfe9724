SPECIFICATION Spec
CONSTANTS
  Run = {r1}
  Request = {q1, q2, q3}
  Model = {m1, m2}
  None = None
  Gate = "container"
  MaxRestarts = 2
SYMMETRY Symmetry
INVARIANTS RelayInv PassedIsRevoked
PROPERTIES RevokedStays IdentityUnanimous
CHECK_DEADLOCK FALSE
