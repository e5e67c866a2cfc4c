SPECIFICATION MainSpec
CONSTANTS
    BSP = bsp
    AP = {ap1, ap2}
    StackPages = 2
    TimeOut = 2
    None = None
    TicksPerSecond = 200
    Mismeasured = {1, 400}
    MaxU32 = 200
    Rounds = 2
INVARIANTS
    OwnGuardedStack
    AllApsStarted
    MainFindsAllReady
    OnlyStartupDisturbsCalibration
    CallbackFindsCounter
PROPERTIES
    BootEndsUnlessPitShared
    TimerTestEnds
CHECK_DEADLOCK FALSE
