SPECIFICATION FairSpec
CONSTANTS
    Sessions <- OneKotlin
    QueueSize = 1
    MaxOutput = 1
PROPERTIES
    InterruptStops
CHECK_DEADLOCK FALSE
