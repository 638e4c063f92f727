SPECIFICATION FairSpec
CONSTANTS
    Builds = {b1}
    RunIds = {r1}
    NoBuild = NoBuild
    NoRun = NoRun
    IndexLag = TRUE
    Unreliable = TRUE
    LogReaders = {b1}
    Ops = {"build", "testflight", "adhoc"}
INVARIANTS
    NoSilentRun
    SnapshotOutlivesFetch
    IInv
    DeliveryIsReal
PROPERTIES
    DeleteAfterStop
    Returns
CHECK_DEADLOCK FALSE
