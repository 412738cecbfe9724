\* Two runs, two bundles; one foreign write, and two deaths of Broker or Worker.
SPECIFICATION Spec
CONSTANTS
    r1 = r1
    r2 = r2
    pinned = pinned
    lax = lax
    good = good
    bad = bad
    Run = {r1, r2}
    Bundle = {pinned, lax}
    Pinned = pinned
    Artifact = {good, bad}
    Verdict <- MCVerdict
    None = None
    MaxEdits = 2
    MaxDeaths = 2
    MaxDrifts = 1
SYMMETRY Symmetry
INVARIANTS
    EvidenceInv
    PermitRests
CHECK_DEADLOCK FALSE
