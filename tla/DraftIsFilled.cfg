CONSTANTS
    Worker = {w1}
    Versions = 2
SPECIFICATION Spec

PROPERTY DraftIsFilled
