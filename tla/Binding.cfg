SPECIFICATION BindSpec
CONSTANTS
    Workspaces = {w, v}
    Callers = {a, b}
    Generations = {g, h}
    Names = {n, m}
    Locals = {l, k}
    Roots = {r, s}
    NoName = NoName
    NoGen = NoGen
    Free = Free
    MaxFaults = 2
    MaxCommands = 3
INVARIANTS
    BindTypeOK
    WatchingIsRecorded
    OneBindingEach
    BoundIsWhole
    LoserLeavesNothing
SYMMETRY Symmetry
CHECK_DEADLOCK FALSE
