\* Two tasks with a caller each share region x; or three regions come and go in one map.
SPECIFICATION Spec
CONSTANTS
    A = A
    B = B
    e = e
    n = n
    u = u
    v = v
    w = w
    x = x
    y = y
    z = z
    a1 = a1
    b1 = b1
    write = write
    exec = exec
    Tasks = {A, B}
    Regions = {e, n, u, v, w, x, y, z}
    Anon = {e, n, v, w, x}
    physBase <- MCPhysBase
    Callers = {a1, b1}
    TaskOf <- MCTaskOf
    Makes <- MCMakes
    Requests <- MCRequests
    Unmaps <- MCUnmaps
    Deallocs <- MCDeallocs
    Lengths <- MCLengths
    Flags <- MCFlags
    Frames = {0, 1, 2, 3}
    Worlds <- MCWorlds
    Touched <- MCTouched
    kMaxSequentialPrefault = 2
    AddrMod = 12
    None = None
INVARIANTS
    TreeRight
    FramesOnce
    
    
    FreeUnmapped
PROPERTY FaultsWithin
SYMMETRY Permissions
CHECK_DEADLOCK FALSE
