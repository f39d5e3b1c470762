CONSTANTS
    Slot = {p1}
    Budget = 1
SPECIFICATION Spec
PROPERTY AdoptKeepsParsed
