CONSTANTS
    Callers = {t1, t2}
    Names = {a, b}
    Backslashes = FALSE
    MaxCapsules = 4
    Usages <- MCUsages
    Directory = Directory
SYMMETRY Symmetry
SPECIFICATION NfsSpec
INVARIANTS
    TreeWellFormed
    Backed
    Durable
    NoLeak
CHECK_DEADLOCK FALSE
