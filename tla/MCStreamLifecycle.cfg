CONSTANTS
    chat = chat
    a1 = a1
    a2 = a2
    None = None
    Streams <- MCStreams
    Resume <- MCResume
    TurnsOf <- MCTurns
    BufferSize = 1
    MaxErrors = 1
    MaxDisconnects = 1
    MaxTimeouts = 1
SPECIFICATION MCSpec
CHECK_DEADLOCK FALSE
INVARIANTS LeaseCoversRun EventsFaithful EndReported OnlyTeardownKills
PROPERTIES StreamEnds
