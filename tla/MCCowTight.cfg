SPECIFICATION Spec
CONSTANTS
    init = init
    p1 = p1
    Proc <- TwoProcs
    InitProc = init
    NPage = 8
    MaxPg = 4
    LeafSpan = 2
    InitSz = 2
    TextPg = 1
    Val = {0}
    WriteText = FALSE
    NextFree <- Lowest
INVARIANTS
    UnusedAccounted
CHECK_DEADLOCK FALSE
