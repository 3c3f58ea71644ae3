SPECIFICATION Spec
CONSTANTS
    Ops <- AllOps
    DataShards = 2
    ParityShards = 2
    BlockSize = 2
    Lengths <- ThreeLengths
    Faults = {3}
    MaxInterrupts = 1
INVARIANTS
    OutputsRight
    OkIsComplete
    ErrorsAreTrue
PROPERTY StreamReturns
CHECK_DEADLOCK FALSE
