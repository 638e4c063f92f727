SPECIFICATION FairSpec
CONSTANTS
    Sessions <- Created
    QueueSize = 1
    MaxOutput = 1
PROPERTIES
    ChangesReloaded
CHECK_DEADLOCK FALSE
