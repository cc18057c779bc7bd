SPECIFICATION Spec
CONSTANTS
    NumSectors = 8
    TableUnit = 2
    Shuffle1 <- MCShuffle1
    Shuffle2 <- MCShuffle2
    PastTable <- MCPastTable
    RamSpan = 8
    CallSectors = {0, 3, 6}
    DiskValues = {1, 2}
    DiskCalls = 4
    MaxReboots = 1
    HostFaults = {}
INVARIANTS
    DiskReadsWritten
CHECK_DEADLOCK FALSE
