CONSTANTS
    Worker = {w1}
    Versions = 2
SPECIFICATION Spec
INVARIANTS TypeOK TicksHaveMatch
PROPERTIES PostgameIsKept TimedDraftIsKept ShownIsWritten
