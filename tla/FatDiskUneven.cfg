SPECIFICATION Spec
CONSTANTS
    NumSectors = 9
    TableUnit = 2
    Shuffle1 <- MCShuffle1
    Shuffle2 <- MCShuffle2
    PastTable <- MCPastTable
    RamSpan = 8
    CallSectors = {0, 7}
    DiskValues = {1, 2}
    DiskCalls = 4
    MaxReboots = 0
    HostFaults = {}
INVARIANTS
    DiskReadsWritten
CHECK_DEADLOCK FALSE
