SPECIFICATION FairSpec
CONSTANTS
    Threads = {t1, t2}
    NoThread = NoThread
    Contexts = {k1, k2}
    NoContext = NoContext
    Hello = Hello
    HostFuel = 2
    EnclaveFuel = 2
    HostReenters = TRUE
    Closing = TRUE
    DiesWhen = {}
PROPERTY CloseReturns
CHECK_DEADLOCK FALSE
