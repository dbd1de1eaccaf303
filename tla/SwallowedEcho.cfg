SPECIFICATION Spec
CONSTANTS
    Paths = {p}
    MaxEdits = 4
    MaxFaults = 0
    NoEcho = NoEcho
    Rescan = Rescan
INVARIANTS
    EveryChangeIsPlanned
