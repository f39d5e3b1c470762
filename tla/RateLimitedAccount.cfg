CONSTANTS
    Window = 2
    Threshold = 2
    RetestMax = 1
    Accounts = {a1}
    ImapAccounts = {a1}
    Proxies = {p1, p2}
    Callers = {j1}
    Clients = {x1, x2, x3}
    LogonAttempts = 2
    MaxFaults = 2
    None = None
SPECIFICATION Spec
PROPERTY
    RateLimitedAccountReturns
CHECK_DEADLOCK FALSE
