SPECIFICATION FairSpec
CONSTANTS
    Core = {c1, c2, c3, c4}
    MaxSyncs = 6
INVARIANTS
    GenerationsAgree
    NobodyPassesEarly
PROPERTIES
    ImplementsRendezvous
    EveryoneGetsThrough
CHECK_DEADLOCK FALSE
