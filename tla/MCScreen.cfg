CONSTANTS
    Width = {8, 13, 17}
    Height = {9, 11}
    MaxAps = 9
    None = None
    Panic = Panic
    Font = {2, 3}
    InitialFont = 3
    Size16 = 2
    CharWidth <- MCCharWidth
    TabSize = 4
    Picture <- MCPicture
SPECIFICATION ScreenSpec
INVARIANTS WindowsDisjoint OnScreenUnlessMultipleOf4 DrawsOwnPixels NoStaleInk
CHECK_DEADLOCK FALSE
