SPECIFICATION ServicesSpec
CONSTANTS
    Caller = {c1, c2, c3}
    Interval = 2
    MaxPending = 2
    SyncTimeout = 4
    VerifyTimeout = 3
    RequestTimeout = 2
    KeystoreRemoveOnFail = TRUE
    Instance = {i1, i2}
    TgUser <- ThreeUsers
    QueueSize = 3
    BulkSize = 2
    MaxRegister = 3
    Limit = 1
    MaxId = 9
    MaxRows = 3
    Fraction = Fraction
    Replica = {r1, r2}
    Ttl = 12
    CallTime = 1
    StopTime = 0
    Pause = 1
    Reader = {p1, p2}
    Expire = 3
    Latency = 1
    Wait = 2
    CacheTime = 6
    CheckTime = 2
    AnswerTime = 2
INVARIANTS
    PermitsAccounted
    StopsInTime
    BadKeystoreRemoved
    UsersKept
    SecondRowOnlyByRace
    OnePoller
    StoredIsRecent
    AcceptedOnRecentCount
PROPERTIES
    StartsSpaced
    UsersServed
    FeedAnswered
    PollingResumes
CHECK_DEADLOCK FALSE
