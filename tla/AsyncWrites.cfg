CONSTANTS
    Writers = {w1, w2}
    Contents = {1, 2}
    Datas <- MCDatas
    MaxChunks = 3
    MaxCapsules = 2
    MaxConcurrency = 2
    MaxTaskFails = 1
    MaxSaveFails = 1
SPECIFICATION Spec
INVARIANTS
    InOrder
    AbortLeavesNothing
    ContentStoreLive
PROPERTIES
    Returns
