SPECIFICATION Spec
CONSTANTS
    PageSize = 3
    Memory = 13
    None = None
INVARIANTS
    ListedFramesAreSafe
    NoFrameLost
    HandsOverFreeList
CHECK_DEADLOCK FALSE
