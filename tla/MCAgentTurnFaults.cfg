CONSTANTS
    read = read
    send1 = send1
    send2 = send2
    q1 = q1
    q2 = q2
    w1 = w1
    w2 = w2
    alice = alice
    mallory = mallory
    Anonymous = Anonymous
    Chat = Chat
    None = None
    Requests <- MCRequests
    Workers = {w1}
    WorkerOf <- OneWorker
    Users <- OneUser
    Actions <- TwoActions
    Gated <- OneGated
    Registered <- AllRegistered
    Plans <- ShortPlans
    InitialGrants <- AllGranted
    Bodies <- ShortBodies
    MaxCrashes = 2
    MaxErrors = 1
    MaxPolicyEdits = 0
SPECIFICATION FairSpec
CHECK_DEADLOCK FALSE
INVARIANTS ResultsTruthful OncePerFault PauseConsumedOnce LedgerFaithful
PROPERTIES ExecutedIsFinal TurnsEnd
