SPECIFICATION FairSpec
CONSTANTS
    Threads = {t1, t2}
    NoThread = NoThread
    Contexts = {k1, k2}
    NoContext = NoContext
    Hello = Hello
    HostFuel = 2
    EnclaveFuel = 2
    HostReenters = FALSE
    Closing = FALSE
    DiesWhen = {"started"}
PROPERTY StartReturns
CHECK_DEADLOCK FALSE
