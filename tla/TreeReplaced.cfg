SPECIFICATION Spec
CONSTANTS
    d = d
    x = x
    Paths = {d, x}
    Under <- MCUnder
    NoPath = NoPath
    MaxEdits = 0
    MaxFaults = 0
INVARIANTS
    OnlySelected
CHECK_DEADLOCK FALSE
