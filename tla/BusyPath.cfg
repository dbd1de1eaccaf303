SPECIFICATION BusySpec
CONSTANTS
    Paths = {p, q}
    BusyPath = p
    MaxEdits = 2
    MaxFaults = 0
    NoEcho = NoEcho
    Rescan = Rescan
PROPERTIES
    OthersConverge
