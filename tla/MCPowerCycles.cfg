SPECIFICATION MCSpec
CONSTANTS
    r1 = r1
    r2 = r2
    r3 = r3
    Records <- MCRecords
    Oversized <- MCOversized
    Blank = Blank
    NoRecord = NoRecord
    GenModulus = 8
    UsbPersonas = {xinput, keyboard}
    BtPersonas = {bluetooth}
    XInput = xinput
    Notes = {badauth, radio}
    None = none
INVARIANTS
    GenerationsAdjacent
    VerifiedIsCurrent
    NoFalseReport
PROPERTIES
    ImplementsCredStore
    BootsWhereAsked
    CapturesWhatWasAsked
