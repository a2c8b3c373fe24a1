SPECIFICATION LiveSpec
CONSTANTS
    Builds <- MCBuilds
    ticklim <- MCticklim
    AgeTicks = 1
    PastEnd = {2}
    MaxShed = 2
    DiskUsers = {1, 2, 3}
    NUM = 7
    IdxSize = 7
INVARIANTS
    RequestsAccounted
PROPERTIES
    CandidateLocksReleased
    RequestsReturn
