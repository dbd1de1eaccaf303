SPECIFICATION FairSpec
CONSTANTS
    Procs = {p}
    Clients = {a}
    NoProc = NoProc
    MaxFaults = 1
PROPERTY WatcherReturns
CHECK_DEADLOCK FALSE
