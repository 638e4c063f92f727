SPECIFICATION Spec
CONSTANTS
    a = a
    b = b
    Projects <- Two
    MaxProjects = 2
    Exclusive = FALSE
    MaxTries = 2
    MaxSetups = 1
    MaxChanges = 1
    None = None
SYMMETRY Symmetry
INVARIANTS
    BackupHoldsSecret
CHECK_DEADLOCK FALSE
