SPECIFICATION Spec
CONSTANTS
    PageOrder = 2
    MaxOrder = 6
    MaxUsed = 4
    Layout <- MCLayout
INVARIANTS
    BlocksTileHeap
    HeapPagesMappedOnce
    RescueSuffices
CHECK_DEADLOCK FALSE
