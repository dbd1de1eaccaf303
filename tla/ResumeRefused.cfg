SPECIFICATION InitialSpec
CONSTANTS
    Paths = {p}
    MaxEdits = 2
    MaxFaults = 1
    NoEcho = NoEcho
    Rescan = Rescan
INVARIANTS
    ResumeNotRefused
CHECK_DEADLOCK FALSE
