SPECIFICATION Spec
CONSTANTS
    Paths = {p}
    MaxEdits = 3
    MaxFaults = 0
    NoEcho = NoEcho
    Rescan = Rescan
INVARIANTS
    NoSilentOverwrite
