CONSTANTS
    Agent = {a1, a2}
    a1 = a1
    a2 = a2
    MaxTroubles = 2
    MaxDrifts = 1
    MaxTimeouts = 1
SPECIFICATION Spec
CHECK_DEADLOCK FALSE
INVARIANTS
    OriginInv
PROPERTIES
    NothingOverwritten
    AdoptionCompletes
