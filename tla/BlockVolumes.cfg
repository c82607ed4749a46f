CONSTANTS
    Threads = {t1, t2}
    Names = {v}
    Blocks = {0, 1}
    Values = {zero, a}
    Zero = zero
    Ops = {"create", "write", "delete"}
    MaxVersion = 2
    MaxCapsules = 4
    MaxFails = 1
    MaxCrashes = 1
    NoCapsule = NoCapsule
    Absent = Absent
    Lost = Lost
SYMMETRY ThreadSymmetry
SPECIFICATION Spec
INVARIANTS
    Durable
PROPERTIES
    Implements
CHECK_DEADLOCK FALSE
