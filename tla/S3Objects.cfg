CONSTANTS
    Clients = {c1, c2}
    ObjectNames <- MCNames
    Bodies = {u, v}
    Types = {"text", "octet"}
    Extension <- MCExtension
    DefaultType = "octet"
    MaxBodies = 2
    MaxFails = 1
    MaxRestarts = 1
    Absent = Absent
    Refused = Refused
    Nothing = Nothing
SYMMETRY ClientSymmetry
SPECIFICATION S3Spec
PROPERTIES
    ImplementsObjects
CHECK_DEADLOCK FALSE
