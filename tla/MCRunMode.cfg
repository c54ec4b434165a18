SPECIFICATION MCSpec
CONSTANTS
    Pads = {neutral, pressed}
    MaxAttempts = 3
    Fields <- MCFields
    Levels = {0, 1}
    Timeout = 2
    MaxGap = 2
    ClockModulus = 7
    DropDelay = 1
    InitDelay = 1
    ShortDelay = 1
    LongDelay = 4
    JoinLimit = 2
    RegrabDelay = 2
    BadAuthLimit = 8
    DeinitAfterFails = 3
    Bluetooth = FALSE
INVARIANTS
    NoLostWakeup
    NoDeadEnd
    ReleasedInTime
    StaleIsOld
    BounceNamesTheReason
PROPERTIES
    LatestReported
    SilenceReachesConsole
    ComesBack
