CONSTANTS
    Task = {t1, t2, t3}
    Key = {k1, k2}
    Lock = {l1, l2, l3}
    NoKey = NoKey
    NoLock = NoLock
    MaxAbandon = 2
SPECIFICATION FairSpec
INVARIANTS MutualExclusion RefCountExact
PROPERTIES Progress RefusedOnlyWhenHeld Abstract
