SPECIFICATION MCSpec
CONSTANTS
    DataShards = 2
    ParityShards = 2
    ShardCounts = {3, 4, 5}
    StripeLens = {2, 4, 6}
    OddLens = {0, 1, 8}
    Multiple = 2
    InlineBytes = 8
    Masks <- FiveMasks
    Containers = {"vec", "slot", "user"}
    MaxCalls = 2
    MaxEdits = 2
    Programs <- TwoPrograms
    CacheShapes <- FiveShapes
    PlanBytes <- PlanSizes
    WorkBytes <- WorkSizes
    Growth = {0, 3}
    MaxPlanBytes = 5
    MaxWorkBytes = 5
    Depth = 2
    PlanThreads = {t1, t2, t3}
    Requests <- FiveRequests
    RequestBytes <- Sizes
    Capacity = 2
    MaxBytes = 4
SYMMETRY ThreadSymmetry
INVARIANTS
    PresentIsRight
    AllOrNothing
    OwnResources
    CachesBounded
CHECK_DEADLOCK FALSE
