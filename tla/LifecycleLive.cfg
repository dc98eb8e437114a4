SPECIFICATION FairSpec
CONSTANTS
    Runs = {r1, r2}
    None = None
    FaultKinds = {"fork", "bind", "timeout"}
    MaxFaults = 2
    MaxProbes = 1
CHECK_DEADLOCK FALSE
PROPERTIES
    EntryGranted
    ShutdownEnds
    WaitEndsUnlessStartFailed
