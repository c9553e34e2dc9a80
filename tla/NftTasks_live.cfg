SPECIFICATION FairSpec
CONSTANTS
    Nft = {n1}
    Users = {n1}
    Processor = {p1}
    Warn = 2
    Expired = 1
    BulkSize = 2
    MaxTime = 4
    MaxTasks = 5
    MaxExtend = 1
    MaxSync = 1
    MaxFail = 1
    None = None
PROPERTIES
    OwnersWarned
CHECK_DEADLOCK FALSE
