SPECIFICATION FairSpec
CONSTANTS
    Instance = {i1, i2}
    BulkSize = 2
    MaxIndex = 3
    MaxLoss = 1
    MaxFail = 1
    None = None
INVARIANTS
    NothingForgotten
    IndexNotBehind
PROPERTIES
    CatchesUp
