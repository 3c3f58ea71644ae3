SPECIFICATION FairSpec
CONSTANTS
    Threads = {t1, t2}
    Free = Free
    TotalShards = 5
    DataShards = 2
    Singular = {{1, 3}}
    Capacity = 2
    MaxBytes = 6
    MatrixBytes = 1
    IndexBytes = 2
    MaxCalls = 3
INVARIANTS
    TypeOK
    ListIntact
    MetricsConsistent
PROPERTIES
    CacheIsTransparent
    CallsReturn
CHECK_DEADLOCK FALSE
