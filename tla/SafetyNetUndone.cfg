CONSTANTS
    Num = {1, 2, 3}
    Batch = 2
    Parallelism = 2
    Spins = 8
    Rewind = 20
    Tries = 2
    CountThrows = FALSE
    MaxCursor = 7
    MaxThrows = 0
SPECIFICATION Spec
PROPERTY SafetyNetWithinBound
