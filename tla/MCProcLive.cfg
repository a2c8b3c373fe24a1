SPECIFICATION FairSpec
CONSTANTS
    NPROC = 3
    NCPU = 1
    MaxSleep = 1
    CowFaults = FALSE
    KillZero = TRUE
PROPERTIES
    RunnableRuns
    SleepReturns
    WaitReturns
    KilledExits
