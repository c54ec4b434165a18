SPECIFICATION MCSpec
CONSTANTS
    a = a
    b = b
    a1 = a1
    b1 = b1
    Processes = {a1, b1}
    Pcs = {a, b}
    PcOf <- MCPcOf
    NoKey = NoKey
    RingSize = 1
    Bluetooth = TRUE
INVARIANTS
    SessionIsRecent
    RebootsOnlyForItsPc
PROPERTIES
    NeverOlder
