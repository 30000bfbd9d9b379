CONSTANTS
    v = v
    x = x
    y = y
    z = z
    p = p
    q = q
    e1 = e1
    e2 = e2
    e3 = e3
    None = None
    Genesis = Genesis
    Writers = {v, x, y, z}
    Processes = {p, q}
    ProcessOf <- MCProcessOf
    Events = {e1, e2, e3}
    PoolSize = 2
CHECK_DEADLOCK FALSE
SPECIFICATION FairSpec
INVARIANTS ChainIntact TailStable AckedStored TamperEvident
PROPERTY AppendEnds
