SPECIFICATION Spec
CONSTANTS
    Threads = {t1, t2}
    Ops = {"write"}
    MaxObjects = 2
    Overlap = TRUE
    Faults = FALSE
CHECK_DEADLOCK FALSE
PROPERTIES
    WritesSerialized
