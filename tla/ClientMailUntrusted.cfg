SPECIFICATION Spec
CONSTANTS
    Clients = {c1}
    NoClient = NoClient
    HostThreads = {h1, h2}
    Honest = FALSE
    Lossy = TRUE
    AsyncMail = TRUE
    Failing = TRUE
    MaxRetryAttempts = 2
    MaxSends = 2
    MaxMails = 1
    MaxHostCalls = 1
    MaxRestarts = 1
    MaxRestores = 0
    MaxAlarms = 2
SYMMETRY Symmetry
INVARIANT NoReplay
PROPERTY RollbackDetected
