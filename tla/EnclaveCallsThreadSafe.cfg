SPECIFICATION FairSpec
CONSTANTS
    t1 = t1
    t2 = t2
    Threads = {t1, t2}
    NoThread = NoThread
    ThreadSafe = TRUE
    PersistentMap = FALSE
    CloseInCallback = FALSE
    Fuel <- EvenFuel
INVARIANT ShutdownQuiescent
PROPERTY CallsReturn
