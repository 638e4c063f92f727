SPECIFICATION FairSpec
CONSTANTS
    j1 = j1
    j2 = j2
    Jobs = {j1, j2}
    Plans <- Pairs
    MaxNumber = 2
    Locales = {"en", "de"}
    NoBuild = NoBuild
INVARIANTS
    TypeOK
    DeployLeavesNothing
    PublishedAsAsked
    OfferedAreAnswered
PROPERTIES
    Publishes
    Ends
CHECK_DEADLOCK FALSE
