CONSTANTS
    Num = {1, 2, 4}
    Batch = 2
    Parallelism = 1
    Spins = 2
    Rewind = 20
    Tries = 3
    CountThrows = FALSE
    MaxCursor = 8
    MaxThrows = 2
SPECIFICATION Spec
PROPERTY SafetyNetWithinBound
