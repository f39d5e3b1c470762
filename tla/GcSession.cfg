CONSTANTS
    Window = 1
    Threshold = 1
    RetestMax = 2
    Accounts = {a1}
    ImapAccounts = {a1}
    Proxies = {p1, p2}
    Callers = {j1, j2}
    Clients = {x1, x2, x3}
    LogonAttempts = 2
    MaxFaults = 2
    None = None
SPECIFICATION Spec
INVARIANTS
    TypeOK
    NoOrphanClient
PROPERTY
    ImplementsSharedSession
CHECK_DEADLOCK FALSE
