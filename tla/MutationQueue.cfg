SPECIFICATION Spec
CONSTANTS
    Clients = {c1, c2, c3, c4}
    HandlerLimit = 3
    WaiterLimit = 2
INVARIANTS
    TypeOK
    QueueIsQueued
    RunsForItsCaller
    NoLostWakeup
    NobodyStranded
PROPERTIES
    MutationsAnswered
