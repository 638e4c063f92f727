SPECIFICATION Spec
CONSTANTS
    a = a
    b = b
    Projects <- Two
    MaxProjects = 2
    Exclusive = TRUE
    MaxTries = 2
    MaxSetups = 1
    MaxChanges = 1
    None = None
SYMMETRY Symmetry
INVARIANTS
    DoctorFindsStale
CHECK_DEADLOCK FALSE
