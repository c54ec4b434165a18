SPECIFICATION MCSpec
CONSTANTS
    p1 = p1
    p2 = p2
    Pico = {p1, p2}
    Paired = {p1}
    Routes <- MCRoutes
    Addr = {a1, a2}
    NoAddr = NoAddr
    StaleAfter = 1
    RecoverEvery = 2
    DiscoverFor = 1
    MaxEvents = 2
    Modifiers <- MCModifiers
    Bit <- MCBit
    Codes <- MCCodes
    Usage <- MCUsage
    Room = 1
    MaxNet = 2
INVARIANTS RetriedInTime
PROPERTIES StaleRouteRecovers TypedReachesConsole
