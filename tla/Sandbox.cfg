\* One run with or without a terminal; everything may fail.
SPECIFICATION Spec
CONSTANTS
    Capacity = 1
    MaxKeys = 2
    MaxOutput = 2
    MaxResize = 1
    Faults = {"start", "setup", "fuse", "io"}
INVARIANTS
    TypeOK
    CommandConfined
    OutcomeFaithful
PROPERTIES
    SetupEnds
    RunEnds
    SizeFollows
    OutputFlows
\* The system stops when the run and everything it started have ended.
CHECK_DEADLOCK FALSE
