SPECIFICATION Spec
CONSTANTS
    NFatEnt = 8
    FatPerSect = 4
    DirPerSect = 2
    SS = 2
    CSize = 2
    NibbleRange = 4
    FSizeRange = 16
    NRootSect = 4
    MaxDir = 12
    NameInfo <- MCNameInfo
    Scenarios <- MCReaders
    FirstHandle = 1
    LastHandle = 3
    Reopen = TRUE
INVARIANT ReadsSeeWrites
CHECK_DEADLOCK FALSE
