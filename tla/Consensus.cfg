SPECIFICATION BlocksSpec
CONSTANTS
    WorkerCount = 2
    RetryTimeout = 4
    RetryCount = 1
    RestartTimeout = 1
    Fragile <- LastFragile
    None = None
    Liteserver = {w1, w2, w3}
    MaxSeqno = 4
PROPERTIES
    SelectableIsCurrent
    QuorumKnows
