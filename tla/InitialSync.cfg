SPECIFICATION InitialSpec
CONSTANTS
    Paths = {p, q}
    MaxEdits = 2
    MaxFaults = 1
    NoEcho = NoEcho
    Rescan = Rescan
INVARIANTS
    BulkLossUnseen
    HandedOverCovered
    SeedsShared
CHECK_DEADLOCK FALSE
