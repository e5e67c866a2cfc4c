SPECIFICATION FairSpec
CONSTANTS
    BSP = bsp
    AP = {ap1, ap2}
    StackPages = 2
    TimeOut = 2
    None = None
INVARIANT
    CalibratesOwnDelay
CHECK_DEADLOCK FALSE
