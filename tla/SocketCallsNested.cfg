SPECIFICATION Spec
CONSTANTS
    Threads = {t1, t2, t3}
    NoThread = NoThread
    Contexts = {k1, k2}
    NoContext = NoContext
    Hello = Hello
    HostFuel = 2
    EnclaveFuel = 2
    HostReenters = TRUE
    Closing = TRUE
    DiesWhen = {"started", "connecting", "serving"}
SYMMETRY Symmetry
INVARIANT StacksAgree
INVARIANT ContextsAccounted
PROPERTY ImplementsNestedCalls
CHECK_DEADLOCK FALSE
