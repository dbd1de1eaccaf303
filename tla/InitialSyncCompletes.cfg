SPECIFICATION InitialSpec
CONSTANTS
    Paths = {p}
    MaxEdits = 2
    MaxFaults = 2
    NoEcho = NoEcho
    Rescan = Rescan
PROPERTIES
    InitialSyncCompletes
CHECK_DEADLOCK FALSE
