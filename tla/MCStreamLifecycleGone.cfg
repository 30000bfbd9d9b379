CONSTANTS
    chat = chat
    a1 = a1
    a2 = a2
    None = None
    Streams <- MCResume
    Resume <- MCResume
    TurnsOf <- MCTurns
    BufferSize = 1
    MaxErrors = 0
    MaxDisconnects = 1
    MaxTimeouts = 0
SPECIFICATION Spec
CHECK_DEADLOCK FALSE
INVARIANT OneRun
