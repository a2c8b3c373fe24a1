SPECIFICATION Spec
CONSTANTS
    NPROC = 3
    NCPU = 2
    MaxSleep = 1
    CowFaults = FALSE
    KillZero = TRUE
INVARIANTS
    UnusedIsClean
