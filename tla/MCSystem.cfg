SPECIFICATION SystemSpec
CONSTANTS
    Builds <- MCBuilds
    ticklim <- MCticklim
    AgeTicks = 1
    PastEnd = {2}
    MaxShed = 2
    BufThreads = {1, 2}
    Blocks = {1, 2, 3, 4}
    BlocksOf <- MCBlocksOf
    Changed = {1}
    NBUF = 3
    BlockData = {0, 1}
    MaxPins = 1
    Writers = {1, 2}
    Readers = {3}
    PIPESIZE = 2
    CountSize = 4
    Labels = 4
    Chunks = {1, 2, 3}
    FileProcs = {1, 2}
    NFILE = 3
    NOFILE = 2
    NPipe = 1
    ConsReaders = {1, 2}
    Ordinary = {"a"}
    INPUT_BUF_SIZE = 3
    ConsCount = 6
    ReadSizes = {2}
    UartWriters = {"w1", "w2"}
    SyncUsers = {"s1"}
    UART_TX_BUF_SIZE = 2
    TxCount = 4
    UartLabels = 5
    FsProcs = {1, 2}
    Inums = {1, 2, 3}
    Names = {"a", "b"}
    FsCalls <- MCCalls
    LinkPaths <- MCLinks
    MaxLink = 2
    Files = {1, 2}
    OpenFiles = {1}
    DataBlocks = {1, 2, 3}
    NDIRECT = 1
    BSIZE = 2
    Lengths = {3}
    Bytes = {1}
    Unknown = 9
    Harts = {1, 2}
    NLocks = 2
    Programs <- MCPrograms
    AddrSpace = 32
    PGSIZE = 4
    MAXARG = 2
    ArgLengths = {1, 3}
    NPages = 2
    Intervals = {0, 1, 2}
    MaxTicks = 5
    MaxWork = 2
    NVPages = 3
    AddrEnd = 8
    Frames = {1, 2}
    PageBytes = 2
    CopyChars = {0, 1}
    PtrBytes = 2
    MemSize = 5
    Chars = {0, 1, 2}
    Slash = 2
    DIRSIZ = 2
    WordBits = 8
    NMeta = 3
    FBSIZE = 2
    FNDIRECT = 1
    FNINDIRECT = 2
    MaxFiles = 2
    MaxChunks = 4
    ShProcs = {1, 2, 3, 4, 5, 6, 7}
    CmdLines <- MCCmdLines
    MaxTyped = 1
    MaxForkFails = 1
    ShTokens = {"a", ">", "|", "&", ";", "(", ")"}
    MaxTokens = 5
    MAXARGS = 3
    HeaderSize = 2
    Requests = {0, 2, 3}
    MinCore = 4
    HeapTop = 10
    Gaps = {1}
    Letters = {"a", "b"}
    GrepBuf = 4
    MaxPattern = 4
    MaxReadPattern = 2
    MaxFed = 5
    MaxText = 3
INVARIANTS
    OneCpuPerProcess
    
    CpuIsShared
    WaitTimeNotNegative
    CacheCoherent
    BufferRefsExact
    NoLostWakeup
    FirstInFirstOut
    ReferencesExact
    NamesAreCounted
    CachedInodeIsDiskInode
    DiskBlocksExact
    ReadsWhatWasWritten
    LocksMaskInterrupts
    ExecAllOrNothing
    AlarmResumes
    LibraryAgrees
    ProgramsAgree
PROPERTIES
    ConsoleIsLineInput
