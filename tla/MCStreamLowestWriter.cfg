SPECIFICATION Spec
CONSTANTS
    Ops = {"encode"}
    DataShards = 2
    ParityShards = 2
    BlockSize = 2
    Lengths <- ThreeLengths
    Faults = {3}
    MaxInterrupts = 1
INVARIANT LowestWriterReported
CHECK_DEADLOCK FALSE
