SPECIFICATION InitialSpec
CONSTANTS
    Paths = {p}
    MaxEdits = 2
    MaxFaults = 1
    NoEcho = NoEcho
    Rescan = Rescan
INVARIANTS
    ResumeKeepsEdits
CHECK_DEADLOCK FALSE
