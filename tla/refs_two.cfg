SPECIFICATION Spec
CONSTANTS
    Builds = {b1, b2}
    Ids = {i1}
    Sweeps = {c1, c2}
    NoCommit = NoCommit
    Timeout = 1
    Skew = 0
    DefaultMaxAge = 2
    OlderThan = {0}
    MaxTime = 3
SYMMETRY Symmetry
PROPERTIES
    CleanupSparesLive
CHECK_DEADLOCK FALSE
