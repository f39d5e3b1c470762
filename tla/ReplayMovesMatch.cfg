CONSTANTS
    Slot = {p1}
    Budget = 1
SPECIFICATION Spec
INVARIANTS
    TypeOK
    ArchivedIsCold
    RetryNeverOrphaned
PROPERTIES
    MovesMatch
