SPECIFICATION Spec
CONSTANTS
    Paths = {p, q}
    NoPath = NoPath
    AnyPath = AnyPath
    BatchSize = 1
    MaxEvents = 2
SYMMETRY PathSymmetry
INVARIANTS
    NeverRejected
    NoGapAboveWatermark
    NoChangeLost
PROPERTY
    ActsAsSet
