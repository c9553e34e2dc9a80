SPECIFICATION Spec
CONSTANTS
    Nft = {n1}
    Users = {n1}
    Processor = {p1}
    Warn = 3
    Expired = 1
    BulkSize = 1
    MaxTime = 3
    MaxTasks = 4
    MaxExtend = 0
    MaxSync = 0
    MaxFail = 0
    None = None
INVARIANTS
    NoFrequentNotification
CHECK_DEADLOCK FALSE
