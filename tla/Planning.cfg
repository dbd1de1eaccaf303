SPECIFICATION Spec
CONSTANTS
    Contents = {c1, c2, c3}
    Metas = {m1, m2}
    NoData = NoData
    NoMeta = NoMeta
INVARIANTS
    PlanIsThreeWayMerge
    NoBlindDelete
    RequestsAnswered
CHECK_DEADLOCK FALSE
