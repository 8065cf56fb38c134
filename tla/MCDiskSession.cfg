\* Two threads and three reads in turns, or two that overlap; two command slots in the
\* adapter, so that a slot a failed command keeps is missed; a pool of five pages.
SPECIFICATION Spec
CONSTANTS
    QueueDepth = 2
    kCommandTableNumPrds = 2
    Outcomes = {"success", "failure", "halt"}
    Threads = {a, b}
    Requests <- MCRequests
    MaxReads <- MCMaxReads
    numCommands = 2
    PoolSize = 5
    MaxSectors = 4
    Worlds = {"turns", "overlap"}
    None = None
INVARIANTS
    SoleReadRight
    CompletionsExpected
    PoolExact
PROPERTY SoleReadReturns
CHECK_DEADLOCK FALSE
