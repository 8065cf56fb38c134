\* Three threads of two tasks, one of them yet to be created, that make every call:
\* two calls by a, one each by b and c.
CONSTANTS
    a = a
    b = b
    c = c
    P = P
    Q = Q
    Threads = {a, b, c}
    Tasks = {P, Q}
    taskOf <- TwoTasks
    Initial <- OneNew
    Ops <- All
    MaxCalls <- TwoOneOne
SPECIFICATION Spec
INVARIANTS DeathIsFinal NoSurvivor JoinNotMissed DiesInOrder
