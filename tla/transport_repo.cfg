SPECIFICATION Spec
CONSTANTS
    a = a
    b = b
    c = c
    r = r
    Paths = {a, b, c, r}
    Reserved = {r}
    Units <- Contents
    Files <- Sizes
    Threshold = 9
    ChunkSize = 8
    BlobLimit = 19
    MaxFiles = 2
    MaxChunks = 5
    MaxBytes = 40
    Backends = {"repository"}
    None = None
SYMMETRY Symmetry
INVARIANTS
    EveryCodeSeesWorkingTree
CHECK_DEADLOCK FALSE
