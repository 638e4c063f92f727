SPECIFICATION Spec
CONSTANTS
    Builds = {b1, b2}
    Ids = {i1, i2}
    Sweeps = {c1}
    NoCommit = NoCommit
    Timeout = 1
    Skew = 1
    DefaultMaxAge = 3
    OlderThan = {0, 4}
    MaxTime = 4
SYMMETRY Symmetry
INVARIANTS
    CleanupIsComplete
    IInv
PROPERTIES
    ReleasesOwn
CHECK_DEADLOCK FALSE
