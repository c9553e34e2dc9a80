SPECIFICATION ManagerSpec
CONSTANTS
    WorkerCount = 2
    RetryTimeout = 4
    RetryCount = 1
    RestartTimeout = 1
    Fragile <- LastFragile
    None = None
    Liteserver = {w1, w2}
    MaxSeqno = 6
INVARIANTS
    RestartBudget
    WedgedOnlyIfFragile
PROPERTIES
    BroughtBack
    LivingServe
