SPECIFICATION Spec
CONSTANTS
    Names = {d, e}
    Objects = {o1, o2, o3}
    Nothing = Nothing
    MaxChanges = 3
    Hurried = FALSE
    MaxOverflows = 1
    MaxLost = 1
    MaxAudits = 1
INVARIANTS
    TypeOK
    RemoteChangesAnnounced
    EveryDirectoryWatched
    LocalChangesAnnounced
CHECK_DEADLOCK FALSE
