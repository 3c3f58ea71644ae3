SPECIFICATION MCSpec
CONSTANTS
    Codecs <- ThreeCodecs
    DataShards = 2
    ShardLen = 3
    ChunkLen = 2
    Contents <- TwoContents
    Workspaces <- ForeignWorkspaces
    ShardLens = {0, 1, 4, 7, 9}
    OutputCounts = {1, 2, 3, 5}
    ElementSize = 2
    Parallelisms = {0, 4}
    Setups <- SixSetups
    MissingBesides = {0, 2}
    PARALLEL_MIN_SHARD_BYTES = 2
    RECONSTRUCT_DATA_MIN_PARALLEL_SHARD_BYTES = 4
    RECONSTRUCT_FULL_MIN_PARALLEL_SHARD_BYTES = 2
    DEFAULT_L2_CACHE_BYTES = 8
    Kilo = 2
    UsizeMax = 31
    MinChunk = 2
    DefaultChunk = 4
    LargeFrom = 8
    LargeChunk = 6
    Alignment = 2
    Recorders = {"t1", "t2"}
    Pairings <- MCPairings
    MaxFollowed = 2
    MaxSnapshots <- MCMaxSnapshots
    MaxResets = 1
INVARIANTS
    ParityIsFolded
    VerdictRight
    CodedOnce
    StatsAreHonest
CHECK_DEADLOCK FALSE
