SPECIFICATION Spec
CONSTANTS
    Builds = {b1, b2}
    RunIds = {r1, r2}
    NoBuild = NoBuild
    NoRun = NoRun
    IndexLag = FALSE
    Unreliable = FALSE
    LogReaders = {}
    Ops = {"build"}
SYMMETRY Symmetry
PROPERTIES
    OnlyOwnRun
CHECK_DEADLOCK FALSE
