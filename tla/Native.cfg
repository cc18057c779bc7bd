SPECIFICATION Spec
CONSTANTS
    NumSectors = 9
    TableUnit = 2
    Shuffle1 <- MCShuffle1
    Shuffle2 <- MCShuffle2
    PastTable <- MCPastTable
    RamSpan = 8
    CallSectors = {0, 6}
    DiskValues = {1, 2}
    DiskCalls = 4
    MaxReboots = 0
    HostFaults = {"error"}
    DriveSizes <- MCDriveSizes
    Faulty = TRUE
    FileNames <- MCFileNames
    FF_MAX_LFN = 5
    FF_LFN_BUF = 7
    FF_SFN_BUF = 5
    LfnPart = 2
    BodyLen = 3
    ExtLen = 1
    kMaxNumFiles = 2
    FirstFsHandle = 10
    FirstDevHandle = 4
    ApiPaths <- MCApiPaths
    MountTmp <- MCMountTmp
    ApiCalls = 4
    ApiStarts = 2
    MemThreads = {m1, m2}
    MemPages = 4
    page_size = 2
    MmapSizes = {1, 3}
    MemCalls = 6
    Tasks = {k1, k2}
    TimeEnclaves = {1, 2}
    TimeReaders = {1, 2}
    ClockTimes = {1, 2}
    TimeReads = 1
    TimeRange = 64
    HostThreads = {h1, h2}
    Enclaves = {1, 2}
    MaxFrames = 4
INVARIANTS
    DiskReadsWritten
    SectorsApart
    FormatMounts
    NamesKept
    LongNamesStored
    CallsRouted
    PagesBacked
    ThreadsAccounted
    CallsInContext
PROPERTIES
    FormattedOnce
    TimesIncrease
    CreatesReturn
    ClockServes
CHECK_DEADLOCK FALSE
