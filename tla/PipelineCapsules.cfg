CONSTANTS
    Threads = {t1, t2}
    Contents = {a, b}
    MaxCapsules = 2
    MaxChunks = 2
    Ops = {"write", "delete", "gc"}
    Usages <- MCUsages
    NoHash = NoHash
SYMMETRY Symmetry
SPECIFICATION Spec
INVARIANTS
    NoDangling
    DiskConsistent
    AckedDurable
    RefcountCovers
    ContentStoreLive
    NoLeak
