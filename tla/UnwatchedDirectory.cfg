SPECIFICATION Spec
CONSTANTS
    Names = {d, e}
    Objects = {o1, o2, o3}
    Nothing = Nothing
    MaxChanges = 4
    Hurried = TRUE
    MaxOverflows = 0
    MaxLost = 1
    MaxAudits = 1
INVARIANTS
    EveryDirectoryWatched
CHECK_DEADLOCK FALSE
