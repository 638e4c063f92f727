SPECIFICATION Spec
CONSTANTS
    Builds = {b1}
    Unreliable = FALSE
INVARIANTS
    InterruptedShareIsCancelled
CHECK_DEADLOCK FALSE
