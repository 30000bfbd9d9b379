CONSTANTS
    None = None
    Docs <- MCDocs
    Prior = "v1"
    DocOf <- MCDocOf
    Segments <- MCSegments
    Digits <- MCDigits
    KeyOf <- MCKeyOf
    Principals <- MCPrincipals
    Policy0 <- MCPolicy0
    Grantable <- MCGrantable
    ChunkSize = 3
    ChunkOverlap = 1
    MaxEntities = 2
    MaxRelations = 2
    Limit = 1
    Candidates = 4
    Keyword = {"v2", "note", "Ada"}
    MaxIngests = 2
    MaxEvents = 1
SPECIFICATION MCSpec
CHECK_DEADLOCK FALSE
INVARIANTS TypeOK FilterParity EmbeddingFresh AckedIngestStored
PROPERTIES AnswersIsolated IngestEnds
