SPECIFICATION FairSpec
CONSTANTS
    Sessions <- AllSessions
    QueueSize = 1
    MaxOutput = 1
INVARIANTS
    TypeOK
PROPERTIES
    SessionEnds
    ChangesReloaded
CHECK_DEADLOCK FALSE
