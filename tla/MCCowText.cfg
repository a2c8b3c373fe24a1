SPECIFICATION Spec
CONSTANTS
    init = init
    p1 = p1
    Proc <- TwoProcs
    InitProc = init
    NPage = 9
    MaxPg = 2
    LeafSpan = 1
    InitSz = 2
    TextPg = 1
    Val = {0, 1}
    WriteText = TRUE
    NextFree <- Lowest
PROPERTIES
    ForkCopiesMemory
CHECK_DEADLOCK FALSE
