SPECIFICATION Spec
CONSTANTS
    Clients = {c1, c2}
    NoClient = NoClient
    HostThreads = {h1}
    Honest = TRUE
    Lossy = TRUE
    AsyncMail = FALSE
    Failing = FALSE
    MaxRetryAttempts = 2
    MaxSends = 2
    MaxMails = 1
    MaxHostCalls = 0
    MaxRestarts = 1
    MaxRestores = 1
    MaxAlarms = 2
SYMMETRY Symmetry
INVARIANTS AlarmsJustified StateStoredBeforeSeen AtMostOnce
