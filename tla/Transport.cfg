SPECIFICATION Spec
CONSTANTS
    d = d
    x = x
    Paths = {d, x}
    Under <- MCUnder
    NoPath = NoPath
    MaxEdits = 2
    MaxFaults = 1
INVARIANTS
    CompletedShared
    NothingVanishes
    DeleteKeeps
    SettledIsShared
CHECK_DEADLOCK FALSE
