SPECIFICATION Spec
CONSTANTS
    Contents = {"c1", "c2"}
    ChunkCount <- SomeChunkCount
    MaxUploadBytes = 2
    MinPdfCharacters = 2
    MaxSessions = 2
    DocumentIds = {1, 2, 3, 4}
    Blank = "blank"
    Malformed = "malformed"
    Files <- SomeFiles
    Pages <- SomePages
    MaxDocuments = 2
    Extractions <- SomeExtractions
    Relations <- SomeRelations
    MaxFaults = 1
INVARIANTS
    GraphIsAtomic
    AnswersAreTrue
    FirstStoredIsReused
PROPERTIES
    RefinesStore
    RequestsAreAnswered
CHECK_DEADLOCK FALSE
