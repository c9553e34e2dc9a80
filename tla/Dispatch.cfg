SPECIFICATION FairSpec
CONSTANTS
    Worker = {w1, w2}
    Request = {r1, r2}
    Answer <- AnyAnswer
    RetriedOn <- OnErrors
    PublicRequest = {r1}
    MaxDeaths = 2
    None = None
INVARIANTS
    NoFutureLeaks
    NoOrphanedWait
PROPERTIES
    Abstract
    Ends
