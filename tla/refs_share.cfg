SPECIFICATION Spec
CONSTANTS
    Builds = {b1, b2}
    Ids = {i1, i2}
    Sweeps = {c1}
    NoCommit = NoCommit
    Timeout = 1
    Skew = 0
    DefaultMaxAge = 2
    OlderThan = {0}
    MaxTime = 4
SYMMETRY Symmetry
INVARIANTS
    NextBuildPrunesOldRefs
CHECK_DEADLOCK FALSE
