CONSTANTS
    Window = 2
    Threshold = 2
    RetestMax = 2
    Keys = {k1}
    Proxies = {p1, p2}
    Callers = {c1}
    Tries = 2
    MaxFaults = 2
    None = None
SPECIFICATION Spec
PROPERTY
    KeyRetestsEnd
CHECK_DEADLOCK FALSE
