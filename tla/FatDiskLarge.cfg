SPECIFICATION Spec
CONSTANTS
    NumSectors = 8
    TableUnit = 2
    Shuffle1 <- MCShuffle1
    Shuffle2 <- MCShuffle2
    PastTable <- MCPastTable
    RamSpan = 4
    CallSectors = {0, 5}
    DiskValues = {1, 2}
    DiskCalls = 4
    MaxReboots = 0
    HostFaults = {}
INVARIANTS
    DiskReadsWritten
CHECK_DEADLOCK FALSE
