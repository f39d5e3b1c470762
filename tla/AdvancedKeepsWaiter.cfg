SPECIFICATION Spec
CONSTANTS
    Match = {m1}
    MissThreshold = 1
    FastLimit = 1
    SlowLimit = 1
INVARIANT
    AdvancedKeepsWaiter
