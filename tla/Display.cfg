CONSTANTS
    ap_count = 2
    MaxPanics = 2
    Kept = {0, 1}
SPECIFICATION FairSpec
INVARIANT NoTearing
PROPERTIES FramesKeepComing PanicStaysOnScreen PanicReported
CHECK_DEADLOCK FALSE
