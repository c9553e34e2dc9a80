SPECIFICATION Spec
CONSTANTS
    Nft = {n1}
    Users = {n1}
    Processor = {p1, p2}
    Warn = 2
    Expired = 1
    BulkSize = 2
    MaxTime = 3
    MaxTasks = 5
    MaxExtend = 1
    MaxSync = 1
    MaxFail = 1
    None = None
INVARIANTS
    DueTaskKept
    DueTasksBounded
    StuckOnlyAfterError
SYMMETRY Symmetry
CHECK_DEADLOCK FALSE
