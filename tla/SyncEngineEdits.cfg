SPECIFICATION Spec
CONSTANTS
    Paths = {p}
    MaxEdits = 3
    MaxFaults = 1
    NoEcho = NoEcho
    Rescan = Rescan
INVARIANTS
    TypeOK
    LossOnlyInWindow
    ChangeCovered
    BaseSharedUnlessRaced
PROPERTIES
    DeletesOnlyBase
