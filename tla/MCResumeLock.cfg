CONSTANTS
    r1 = r1
    r2 = r2
    r3 = r3
    t1 = t1
    t2 = t2
    p1 = p1
    p2 = p2
    NoEntry = NoEntry
    NoThread = NoThread
    Requests <- MCRequests
    Threads <- MCThreads
    Paths <- MCPaths
SPECIFICATION FairSpec
INVARIANTS MutualExclusion EntryKept NoLeak OwnerSafe
PROPERTIES ImplementsMutex WaiterServed
