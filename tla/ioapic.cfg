SPECIFICATION Spec
CONSTANTS
    MAX_ISA_IRQ = 4
    MAX_IOAPICS = 2
    Madts <- SmallTables
    LapicIds = {0, 1}
    BspLapicId = 1
    CallGsis = {0, 1, 3, 6}
    CallVectors = {15, 48}
    MaxCalls = 2
INVARIANTS
    EntryInv
    MaskedUntilAsked
PROPERTIES
    ImplementsRouting
