SPECIFICATION MCSpec
CONSTANTS
    p = p
    q = q
    a = a
    b = b
    Procs = {p, q}
    Clients = {a, b}
    NoProc = NoProc
    MaxFaults = 1
INVARIANTS
    TypeOK
    OwnFiles
    StoppedMeansDown
    GapIsAudited
PROPERTY EventuallyConnected
CHECK_DEADLOCK FALSE
