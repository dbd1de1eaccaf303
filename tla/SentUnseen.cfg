SPECIFICATION Spec
CONSTANTS
    d = d
    x = x
    Paths = {d, x}
    Under <- MCUnder
    NoPath = NoPath
    MaxEdits = 1
    MaxFaults = 0
INVARIANTS
    SentAsObserved
CHECK_DEADLOCK FALSE
