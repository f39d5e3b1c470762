CONSTANTS
    Slot = {p1}
    Budget = 0
SPECIFICATION Spec
PROPERTY StoredIsSettled
