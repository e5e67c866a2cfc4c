SPECIFICATION Spec
CONSTANTS
    Core = {c1, c2, c3}
    MaxPanics <- Panics
    None = None
SYMMETRY Symmetry
INVARIANTS
    NoCircularWait
    PanicIsShown
    PanicHandlerEnds
CHECK_DEADLOCK FALSE
