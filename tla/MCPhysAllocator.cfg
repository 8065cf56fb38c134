SPECIFICATION Spec
CONSTANTS
    Cores = {c1, c2, c3}
    MemoryMap <- MCMemoryMap
    PageSize = 2
    kMinPages = 2
    kMaxPages = 4
    WordBits = 2
SYMMETRY MCSymmetry
INVARIANTS
    NoPageTwice
    NoPageLost
    CountExact
    OwnerFound
