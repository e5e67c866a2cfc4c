SPECIFICATION Spec
CONSTANTS
    Core = {c1, c2}
    App = {a, b}
    None = None
    Segments <- MCSegments
    StackPages <- MCStackPages
    HeapPages <- MCHeapPages
    CounterPage = 2
    Addr <- MCAddr
    saved_stack_pointer = 1
    abort_addr = 2
    new_rsp = 6
    function_pointers = 50
    after_call = 51
    in_sip = 52
    entry_point = 53
    Caller <- MCCaller
    KernelHeapPages <- MCKernelHeapPages
    Frames = {7, 13}
    MaxRuns = 2
SYMMETRY Symmetry
INVARIANTS
    FrameHasOneUse
    KernelHalfShared
    RunsInOwnAddressSpace
    ExitCodes
    PreparedImage
    RunReturnsToCaller
CHECK_DEADLOCK FALSE
