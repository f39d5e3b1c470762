CONSTANTS
    Kinds = {"api_key", "gc"}
    desired_api_keys = 1
    desired_gc_accounts = 2
    BuyMax = 2
    MaxOrders = 2
    MaxFaults = 1
SPECIFICATION Spec
INVARIANTS
    TypeOK
    UnderWayWithinDesired
PROPERTY
    ImplementsOrderLife
CHECK_DEADLOCK FALSE
