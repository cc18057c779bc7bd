SPECIFICATION FairTimeSpec
CONSTANTS
    TimeEnclaves = {1, 2}
    TimeReaders = {1}
    ClockTimes = {1, 2}
    TimeReads = 0
    TimeRange = 64
PROPERTIES
    EveryBlockUpdated
CHECK_DEADLOCK FALSE
