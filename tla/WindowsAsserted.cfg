CONSTANTS
    Width = {5, 8, 13, 16}
    Height = {3, 6, 7, 9}
    MaxAps = 9
    None = None
    Panic = Panic
SPECIFICATION Spec
INVARIANT AssertedOnScreen
CHECK_DEADLOCK FALSE
