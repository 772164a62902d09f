SPECIFICATION FairSpec
CONSTANTS
    BSP = bsp
    APs = {ap1, ap2}
    TICS = 2
    PIT_HZ = 2
    LapicRate = 5
    HzSpan = 16
CHECK_DEADLOCK FALSE
INVARIANTS
    LockInv
    BspWaitsLongEnough
PROPERTIES
    BspBoots
    PrintKReturns
