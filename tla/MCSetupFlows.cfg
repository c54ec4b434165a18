SPECIFICATION MCSpec
CONSTANTS
    w = w
    b = b
    Processes = {w, b}
    Picos = {1, 2}
    Old = {2}
    FlowsOf <- MCFlowsOf
    Torn = Torn
    Nobody = Nobody
    MaxKeys = 2
    MaxMoves = 2
INVARIANTS
    KeyOnFile
    BounceIsReal
CHECK_DEADLOCK FALSE
PROPERTIES
    RecoverBringsBack
