SPECIFICATION Spec
CONSTANTS
    Usable <- MCUsable
    None = None
INVARIANTS
    ListIsFreeFrames
    UtilizationExact
    ListRanked
PROPERTY ImplementsPool
