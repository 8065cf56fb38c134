\* Two threads, the second paused at first, that yield, sleep and wait for
\* notifications, with and without a deadline.
CONSTANTS
    a = a
    b = b
    c = c
    Threads = {a, b}
    kNumLevels = 2
    QueueSize = 3
    maxLevel <- AllAtZero
    Initial <- StartPaused
    Ops = {"yield", "sleep", "notify", "timed", "resume"}
SPECIFICATION Spec
INVARIANTS RunnableIsQueued NotifiedWakes InterruptAhead
