SPECIFICATION Spec
CONSTANTS
    Builds = {b1}
    Unreliable = FALSE
PROPERTIES
    LiveSimIsNotCancelled
CHECK_DEADLOCK FALSE
