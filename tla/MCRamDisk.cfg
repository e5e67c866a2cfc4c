CONSTANTS
    WordSize = 2
    Base = 8
    Content <- MCContent
    MaxFiles = 3
    MaxFaults = 1
SPECIFICATION Spec
INVARIANTS AcceptedReadsBack RefusesOnlySparse
CHECK_DEADLOCK FALSE
