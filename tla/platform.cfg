SPECIFICATION Spec
CONSTANTS
    IntSpan = 256
    NULL = NULL
    Machines <- MCMachines
    IdxSpan = 4
    LapicId = 1
    ALL_LAPICS = 255
    Junk <- AnyJunk
    Ipis <- TwoIpis
    r1 = r1
    x1 = x1
    fadt = fadt
    a1 = a1
    a2 = a2
CHECK_DEADLOCK FALSE
INVARIANTS
    MadtLookup
    MaskableServed
    LapicProgrammed
PROPERTIES
    EnableLapicReturns
