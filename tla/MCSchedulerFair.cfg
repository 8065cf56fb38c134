\* Three threads, one of them created later, that yield and sleep.
CONSTANTS
    a = a
    b = b
    c = c
    Threads = {a, b, c}
    kNumLevels = 2
    QueueSize = 4
    maxLevel <- AllAtZero
    Initial <- StartTwo
    Ops = {"yield", "sleep", "create"}
SPECIFICATION FairSpec
INVARIANT QueuedOnce
INVARIANT BetterThreadPreempts
PROPERTY EveryThreadRuns
