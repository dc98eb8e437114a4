\* Two runs, and a cleaner that may be init, clean or purge.
SPECIFICATION Spec
CONSTANTS
    Runs = {r1, r2}
    Cleaners = {c1}
    Old = Old
    Nil = Nil
    Wrap = 4
SYMMETRY Symmetry
INVARIANTS
    RunsAgree
    CountKept
    CleanRestores
    NothingLeaks
CHECK_DEADLOCK FALSE
