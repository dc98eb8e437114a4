SPECIFICATION Spec
CONSTANTS
    Runs = {r1, r2, r3}
    None = None
    FaultKinds = {"fork", "bind", "timeout", "killRun", "killDaemon", "linger"}
    MaxFaults = 1
    MaxProbes = 1
SYMMETRY Symmetry
CHECK_DEADLOCK FALSE
INVARIANTS
    TypeOK
    CountIsLeases
    LockHolder
    ReadyMeansServing
    ClientsServed
    ShutdownFlushComplete
PROPERTIES
    GateSpec
