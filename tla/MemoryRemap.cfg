SPECIFICATION MemSpec
CONSTANTS
    MemThreads = {m1, m2}
    MemPages = 4
    page_size = 2
    MmapSizes = {1, 3}
    MemCalls = 6
INVARIANTS
    FreedWhenUnmapped
CHECK_DEADLOCK FALSE
