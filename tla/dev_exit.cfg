SPECIFICATION FairSpec
CONSTANTS
    Sessions <- OneFlutter
    QueueSize = 1
    MaxOutput = 1
PROPERTIES
    FlutterExitEnds
CHECK_DEADLOCK FALSE
