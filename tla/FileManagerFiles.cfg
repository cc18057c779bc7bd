SPECIFICATION Spec
CONSTANTS
    NFatEnt = 8
    FatPerSect = 4
    DirPerSect = 2
    SS = 2
    CSize = 2
    NibbleRange = 4
    FSizeRange = 16
    NRootSect = 4
    MaxDir = 12
    NameInfo <- MCNameInfo
    Scenarios <- MCScenarios
    FirstHandle = 1
    LastHandle = 2
    Reopen = FALSE
INVARIANTS ReadsSeeWrites AnswersTrue TreeAgrees Durable VolumeSound
CHECK_DEADLOCK FALSE
