CONSTANTS
    Compressible = {c}
    Incompressible = {}
    Short = {s}
    Datas <- MCDatas
    c = c
    s = s
    Algorithms = {"None", "LZ4"}
    Profiles = {"Classical", "HybridKyber"}
    Providers = {"tpm"}
    Provisions <- MCProvisions
    MaxCapsules = 2
    MaxVersion = 2
    MaxRestarts = 1
    None = None
SPECIFICATION Spec
INVARIANTS
    ReadBack
    NoWrongData
    ClearOnlyIfShared
CHECK_DEADLOCK FALSE
