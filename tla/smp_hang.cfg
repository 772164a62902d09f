SPECIFICATION FairSpec
CONSTANTS
    BSP = bsp
    APs = {ap1}
    TICS = 2
    PIT_HZ = 2
    LapicRate = 5
    HzSpan = 16
CHECK_DEADLOCK FALSE
PROPERTY CalibrationEnds
