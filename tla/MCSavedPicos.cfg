SPECIFICATION SavedSpec
CONSTANTS
    a = a
    b = b
    Processes = {a, b}
    Picos = {1, 2}
    Nobody = Nobody
    Torn = Torn
    MaxKeys = 1
INVARIANTS
    ListAsAsked
    RoutesAreSaved
SYMMETRY AnyWindow
CHECK_DEADLOCK FALSE
