SPECIFICATION Spec
CONSTANTS
    Clients = {c1}
    NoClient = NoClient
    HostThreads = {h1}
    Honest = TRUE
    Lossy = FALSE
    AsyncMail = TRUE
    Failing = FALSE
    MaxRetryAttempts = 2
    MaxSends = 2
    MaxMails = 1
    MaxHostCalls = 1
    MaxRestarts = 1
    MaxRestores = 0
    MaxAlarms = 2
SYMMETRY Symmetry
INVARIANT StateStoredBeforeSeen
