SPECIFICATION Spec
CONSTANTS
    NPROC = 3
    NCPU = 2
    MaxSleep = 1
    CowFaults = TRUE
    KillZero = FALSE
INVARIANTS
    OneCpuPerProcess
    SpinlockHolderRuns
    WaiterNotForgotten
    ParentAlive
    NoOversleep
    UnusedIsClean
