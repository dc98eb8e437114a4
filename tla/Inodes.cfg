SPECIFICATION Spec
CONSTANTS
    Threads = {t1, t2}
    Names = {a, b}
    MaxDepth = 1
    MaxIno = 5
SYMMETRY Symmetry
CHECK_DEADLOCK FALSE
INVARIANTS
    TypeOK
    KnownResolve
    AnswersMatch
    OneNumberPerThread
PROPERTIES
    NumbersKeepPaths
