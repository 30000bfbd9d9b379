CONSTANTS
    read = read
    send1 = send1
    send2 = send2
    q1 = q1
    q2 = q2
    w1 = w1
    w2 = w2
    alice = alice
    mallory = mallory
    Anonymous = Anonymous
    Chat = Chat
    None = None
    Requests <- MCRequests
    Workers = {w1}
    WorkerOf <- OneWorker
    Users <- MCUsers
    Actions <- MCActions
    Gated <- MCGated
    Registered <- AllRegistered
    Plans <- MCPlans
    InitialGrants <- MCGrants
    Bodies <- MCBodies
    MaxCrashes = 0
    MaxErrors = 0
    MaxPolicyEdits = 1
SPECIFICATION Spec
SYMMETRY UserSymmetry
CHECK_DEADLOCK FALSE
INVARIANTS TypeOK ApprovedBeforeEffect OnlyOwnerDecides
PROPERTIES ImplementsGate RevocationStops
