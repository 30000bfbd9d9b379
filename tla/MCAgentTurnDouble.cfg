CONSTANTS
    read = read
    send1 = send1
    send2 = send2
    q1 = q1
    q2 = q2
    w1 = w1
    w2 = w2
    alice = alice
    mallory = mallory
    Anonymous = Anonymous
    Chat = Chat
    None = None
    Requests <- MCRequests
    Workers = {w1, w2}
    WorkerOf <- TwoWorkers
    Users <- OneUser
    Actions <- TwoActions
    Gated <- OneGated
    Registered <- AllRegistered
    Plans <- ShortPlans
    InitialGrants <- AllGranted
    Bodies <- ShortBodies
    MaxCrashes = 0
    MaxErrors = 0
    MaxPolicyEdits = 0
SPECIFICATION Spec
CHECK_DEADLOCK FALSE
INVARIANTS NoDuplicateSideEffect
