CONSTANTS
    Clients = {c1}
    Calls = {"txn"}
    Lengths = {1}
    MaxOffset = 3
    MaxSegments = 3
    MaxWriteFails = 0
    MaxSaveFails = 0
    MaxCrashes = 0
    Exclusive = TRUE
    KeepOffset = FALSE
    TornSaves = FALSE
    NoTxn = NoTxn
    NoCopy = NoCopy
    Torn = Torn
    Hole = Hole
SYMMETRY ClientSymmetry
SPECIFICATION Spec
INVARIANTS
    ReadBack
