SPECIFICATION Spec
CONSTANTS
    j1 = j1
    j2 = j2
    Jobs = {j1, j2}
    Plans <- Pairs
    MaxNumber = 2
    Locales = {"en"}
    NoBuild = NoBuild
INVARIANTS
    SigningLeavesNothing
CHECK_DEADLOCK FALSE
