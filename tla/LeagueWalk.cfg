CONSTANTS
    Leagues = {1, 2}
    PlaysTop = 3
    PlaysOther = 1
    PageSize = 2
    Walkers = {w1, w2}
    MaxExtras = 1
    MaxFaults = 1
SPECIFICATION Spec
INVARIANTS TypeOK TailIsListed
PROPERTY EveryMatchListed
