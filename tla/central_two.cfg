SPECIFICATION Spec
CONSTANTS
    Builds = {b1, b2}
    RunIds = {r1}
    NoBuild = NoBuild
    NoRun = NoRun
    IndexLag = FALSE
    Unreliable = FALSE
    LogReaders = {}
    Ops = {"build", "test", "screenshots", "testflight"}
SYMMETRY Symmetry
INVARIANTS
    CleanExit
    FailureLogIsFailingJobs
PROPERTIES
    OnlyOwnRun
CHECK_DEADLOCK FALSE
