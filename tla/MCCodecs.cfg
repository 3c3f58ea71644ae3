SPECIFICATION CodecsSpec
CONSTANTS
    Codecs <- FourFormats
    Singular <- OneSingular
    Masks <- ThreeMasks
    ShardCount = 5
    Lengths = {0, 1, 2}
    StripeLen = 1
    Inline = 2
    Containers = {"slot", "option"}
    MaxEdits = 2
    MaxCalls = 2
    TotalShards = 5
    DataShards = 3
    Survivors = {1, 2, 3}
    WrongMasks <- TwoWrongMasks
    Destinations = {0, 4}
    Workers = {"main", "peer"}
    Main = "main"
    Jobs <- FourJobs
    MaxBreaks = 2
    MaxDecodes = 6
    BITWIDTH = 4
    POLYNOMIAL = 19
    cantor_basis <- MCBasis
    Shapes <- MCShapes
    Erasures <- MCErasures
    ShardLengths <- MCShardLengths
    Block = 4
    WORK_SIZE8 = 8
    WORK_SIZE8_HIGH_FANOUT = 12
    HIGH_FANOUT_TOTAL_SHARDS = 13
    HIGH_FANOUT_TOTAL_SHARDS_WITH_REMAINDER = 12
    WORK_SIZE16 = 4
    SPARSE_LOCATOR_MAX_WORK_SIZE = 12
    SPARSE_LOCATOR_MAX_TERMS = 3
    Threads = 2
    MATRIX_CACHE_SLOTS = 2
    Lane = 4
    Machines <- MCMachines
    GFNI_LAYOUT_MIN_BYTES = 32
    NOSTD_AVX2_MIN_BYTES = 32
    NOSTD_AVX2_BUTTERFLY_MIN_LEN = 16
    BlockCounts = {1, 3}
    SliceLengths = {0, 5, 8, 13, 21}
INVARIANTS
    PresentIsRight
    OkRestoresTheWanted
    FailureRestoresAPrefix
    HoldsWhatWasAccepted
    LeopardIsTheCode
CHECK_DEADLOCK FALSE
