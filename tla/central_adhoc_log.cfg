SPECIFICATION Spec
CONSTANTS
    Builds = {b1}
    RunIds = {r1}
    NoBuild = NoBuild
    NoRun = NoRun
    IndexLag = FALSE
    Unreliable = FALSE
    LogReaders = {}
    Ops = {"adhoc"}
INVARIANTS
    FailureLogIsFailingJobs
CHECK_DEADLOCK FALSE
