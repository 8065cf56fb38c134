SPECIFICATION Spec
CONSTANTS
    Ports = {p1, p2, p3, p4}
    Irqs = {q1, q2}
    Objects <- MCObjects
    TypeOf <- MCTypeOf
    EpochMod = 3
    MaxSlots = 4
    MaxRefs = 2
    NoObject = NoObject
SYMMETRY MCSymmetry
INVARIANTS
    StaleHandleDetected
    LiveHandleResolves
    SlotReleased
CHECK_DEADLOCK FALSE
