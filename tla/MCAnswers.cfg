SPECIFICATION MCSpec
CONSTANTS
    Interval = 1
    Burst = 2
    ClockModulus = 5
    RingUnits = 3
    ChunkUnits = 1
    MaxLines = 3
    MaxQueue = 2
INVARIANTS
    RateLimited
    CompleteIsWhole
    FileHoldsRealLines
    InStep
    RebootIsDone
CHECK_DEADLOCK FALSE
