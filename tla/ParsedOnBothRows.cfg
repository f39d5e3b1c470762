CONSTANTS
    Slot = {p1}
    Budget = 1
SPECIFICATION Spec
INVARIANT ParsedOnBothRows
