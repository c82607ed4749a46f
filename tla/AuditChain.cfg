CONSTANTS
    FlushInterval = 2
    TsaBatch = 2
    MaxLines = 3
    MaxAppends = 6
    MaxFaults = 2
    MaxStarts = 2
    Torn = Torn
SPECIFICATION AuditSpec
INVARIANTS
    Linked
    ProofInEveryBatch
    UnsyncedBounded
CHECK_DEADLOCK FALSE
