\* One thread joins another that a third, or the thread itself, terminates.
CONSTANTS
    a = a
    b = b
    c = c
    P = P
    Q = Q
    Threads = {a, b, c}
    Tasks = {P, Q}
    taskOf <- TwoTasks
    Initial <- AllRun
    Ops <- JoinOnly
    MaxCalls <- TwoOneOne
SPECIFICATION Spec
INVARIANT JoinAnswers
