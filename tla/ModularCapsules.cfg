CONSTANTS
    Units = {a, b}
    MaxUnits = 3
    SegmentSize = 2
    Setups = {"memory", "nvram", "registry"}
    Encryptors = {"xts"}
    MaxCapsules = 2
    MaxFails = 1
    MaxCrashes = 1
    Idle = Idle
SYMMETRY Symmetry
SPECIFICATION Spec
INVARIANTS
    SegmentsDescribed
    ReadBack
    RefCountCovers
    ContentLive
CHECK_DEADLOCK FALSE
