SPECIFICATION Spec
CONSTANTS
    t1 = t1
    t2 = t2
    t3 = t3
    r1 = r1
    r2 = r2
    Threads <- MCThreads
    Objects <- MCRegions
    Self = {}
    SharedPtrs <- MCSharedPtrs
    WeakPtrs <- MCSlots
    None = None
    Wrap = 4
    Calls <- MCCalls
INVARIANTS
    PointeeAlive
    InfoKeptCounted
    LookupTrue
PROPERTIES
    RegionReclaimed
    FirstComeFirstServed
    PointersUsedRight
