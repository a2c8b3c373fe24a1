SPECIFICATION Spec
CONSTANTS
    init = init
    p1 = p1
    Proc <- TwoProcs
    InitProc = init
    NPage = 8
    MaxPg = 2
    LeafSpan = 2
    InitSz = 2
    TextPg = 0
    Val = {0, 1}
    WriteText = FALSE
    NextFree <- Lowest
INVARIANTS
    CountsExact
    PagesSafe
PROPERTIES
    ForkCopiesMemory
CHECK_DEADLOCK FALSE
