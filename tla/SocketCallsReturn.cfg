SPECIFICATION FairSpec
CONSTANTS
    Threads = {t1, t2, t3}
    NoThread = NoThread
    Contexts = {k1, k2}
    NoContext = NoContext
    Hello = Hello
    HostFuel = 2
    EnclaveFuel = 1
    HostReenters = TRUE
    Closing = FALSE
    DiesWhen = {"serving"}
PROPERTY CallsReturn
PROPERTY StartReturns
