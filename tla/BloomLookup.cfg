CONSTANTS
    Hashes <- MCHashes
    Buckets = {1, 2}
    Indexes <- MCIndexes
    MaxCount = 3
    Threads = {t1, t2}
    MaxStored = 4
    Idle = Idle
SYMMETRY ThreadSymmetry
SPECIFICATION BloomSpec
INVARIANTS
    NoFalseNegatives
CHECK_DEADLOCK FALSE
