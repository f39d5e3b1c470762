CONSTANTS
    Num = {1, 2, 4}
    Batch = 2
    Parallelism = 2
    Spins = 3
    Rewind = 20
    Tries = 2
    CountThrows = FALSE
    MaxCursor = 5
    MaxThrows = 1
SPECIFICATION Spec
INVARIANTS
    TypeOK
    NothingPassedOver
