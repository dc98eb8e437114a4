SPECIFICATION Spec
CONSTANTS
    Runs = {r1, r2}
    None = None
    FaultKinds = {}
    MaxFaults = 0
    MaxProbes = 0
CHECK_DEADLOCK FALSE
INVARIANTS
    AtMostOneDaemon
