SPECIFICATION Spec
CONSTANTS
    Match = {m1}
    MissThreshold = 1
    FastLimit = 1
    SlowLimit = 0
INVARIANTS
    TypeOK
    LiveStillListed
    FailedMeansBudgetSpent
    FinishNeverOrphaned
PROPERTIES
    ImplementsMatchLife
    WaiterTerminates
