SPECIFICATION Spec
CONSTANTS
    Clients = {c1}
    NoClient = NoClient
    HostThreads = {h1}
    Honest = TRUE
    Lossy = FALSE
    AsyncMail = FALSE
    Failing = TRUE
    MaxRetryAttempts = 2
    MaxSends = 3
    MaxMails = 1
    MaxHostCalls = 0
    MaxRestarts = 2
    MaxRestores = 1
    MaxAlarms = 2
SYMMETRY Symmetry
INVARIANT NeverAhead
