SPECIFICATION FairSpec
CONSTANTS
    Builds = {b1}
    Unreliable = TRUE
INVARIANTS
    SourceKept
    SharedIsShared
    AbortedIsStopped
    IInv
PROPERTIES
    Returns
CHECK_DEADLOCK FALSE
