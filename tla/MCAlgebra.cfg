SPECIFICATION MCSpec
CONSTANTS
    FieldBits = 4
    Polynomial = 3
    ExtLinear = 2
    ExtConstant = 9
    Shapes <- MCShapes
    CustomShapes <- MCCustomShapes
    CustomRows <- MCCustomRows
    Families = {"Classic", "LeopardGF8", "LeopardGF16"}
    Modes = {"Disabled", "AsNeeded", "PreferGF16", "PreferLeopard"}
    MatrixModes = {"Vandermonde", "Cauchy", "JerasureLike", "Custom"}
    PayloadLengths = {0, 1, 3, 4, 5, 13}
    ShardMultiple = 4
    WordMax = 127
    WordLengths = {0, 1, 4, 5, 63, 120, 123, 124, 125, 126, 127}
    MinCapacity = 4
    MaxCapacity = 64
    StoredShapes <- MCStoredShapes
    CustomHooks <- MCCustomHooks
    MaxIdBytes = 32
    Exponents = {0, 1, 2, 15, 16, 31}
    DecodeData = 4
    DecodeParity = 3
    Machines <- MCMachines
    EnvValues = {"unset", "unknown", "not Unicode", "scalar", "avx2", "gfni_avx2"}
    MaxEnvChanges = 1
    Lane = 2
    Gf16Chunk = 5
    CodeChunk = 20
    Coefficients = {0, 1, 2, 13}
    TowerCoefficients <- MCTowerCoefficients
    Lengths = {0, 1, 3, 8, 17}
    ShardLengths = {3, 17, 33}
    KernelShapes <- MCKernelShapes
INVARIANTS
    DecodeIsInverse
    ShapesAccepted
    SplitJoinRoundTrip
    ArithmeticIsTheFields
    OverrideHonoured
