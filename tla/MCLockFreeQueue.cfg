SPECIFICATION Spec
CONSTANTS
    Producers = {p1, p2}
    Consumers = {c1, c2}
    SoleProducers = {}
    SoleConsumers = {}
    Values = {a, b}
    Size = 4
    MaxBatch = 2
    MaxIndex = 2
    NoItem = NoItem
SYMMETRY MCSymmetry
INVARIANTS
    SlotsExclusive
    TurnPassed
PROPERTY
    ImplementsFifo
CHECK_DEADLOCK FALSE
