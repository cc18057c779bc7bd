SPECIFICATION Spec
CONSTANTS
    t1 = t1
    t2 = t2
    Threads = {t1, t2}
    NoThread = NoThread
    ThreadSafe = FALSE
    PersistentMap = FALSE
    CloseInCallback = TRUE
    Fuel <- EvenFuel
INVARIANT ShutdownQuiescent
