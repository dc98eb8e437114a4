SPECIFICATION Spec
CONSTANTS
    Threads = {t1, t2, t3, t4, t5}
    max_size = 3
SYMMETRY Symmetry
INVARIANTS
    TypeOK
    Accounting
    NoLostWakeup
    GridlockOnlyByNesting
