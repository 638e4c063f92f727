SPECIFICATION Spec
CONSTANTS
    Sessions <- OneFlutter
    QueueSize = 1
    MaxOutput = 1
INVARIANTS
    StopTwice
CHECK_DEADLOCK FALSE
