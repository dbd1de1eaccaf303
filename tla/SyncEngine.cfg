SPECIFICATION FairSpec
CONSTANTS
    Paths = {p, q}
    MaxEdits = 2
    MaxFaults = 1
    NoEcho = NoEcho
    Rescan = Rescan
INVARIANTS
    LossOnlyInWindow
    ChangeCovered
    BaseSharedUnlessRaced
PROPERTIES
    EventuallyConverges
