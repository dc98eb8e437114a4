SPECIFICATION Spec
CONSTANTS
    Threads = {t1, t2}
    Ops = {"read", "write", "creat", "truncate", "unlink", "rmdir", "mkdir", "symlink"}
    MaxObjects = 3
    Overlap = TRUE
    Faults = TRUE
SYMMETRY Symmetry
CHECK_DEADLOCK FALSE
INVARIANTS
    ObjectsAllocated
    HostFileUntouched
    ViewsAgree
