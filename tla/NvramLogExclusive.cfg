CONSTANTS
    Clients = {c1, c2}
    Calls = {"append", "txn"}
    Lengths = {2}
    MaxOffset = 6
    MaxSegments = 3
    MaxWriteFails = 1
    MaxSaveFails = 1
    MaxCrashes = 1
    Exclusive = TRUE
    KeepOffset = TRUE
    TornSaves = FALSE
    NoTxn = NoTxn
    NoCopy = NoCopy
    Torn = Torn
    Hole = Hole
SYMMETRY ClientSymmetry
SPECIFICATION Spec
INVARIANTS
    TypeOK
    AckedIntact
    AckedDurable
    ReaderSafe
    CommitAtomic
    ReadBack
    AbortedInvisible
