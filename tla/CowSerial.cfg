SPECIFICATION Spec
CONSTANTS
    Threads = {t1, t2, t3}
    Ops = {"read", "write", "creat", "truncate", "unlink", "rmdir", "mkdir"}
    MaxObjects = 2
    Overlap = FALSE
    Faults = TRUE
SYMMETRY Symmetry
CHECK_DEADLOCK FALSE
PROPERTIES
    OverlaySpec
