SPECIFICATION MCSpec
CONSTANTS
    Picos = {1, 2}
    Signals = 2
    MaxMoves = 1
    Cycles = 1
    p1 = p1
    p2 = p2
    Pico = {p1, p2}
    Slot = {0, 1, 2}
    Free = Free
    User = User
INVARIANTS
    PassIsEarned
    
    SlotIsItsOwn
    NoPadLeftHeld
    FullRunEndsRunning
    NoFeedback
    OneSourceEach
SYMMETRY AnyPico
CHECK_DEADLOCK FALSE
