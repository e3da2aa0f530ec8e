SPECIFICATION PartSpec
\* a computation ends
CHECK_DEADLOCK FALSE
CONSTANTS
    Space = "_"
    LineBreak = "/"
    SegmentLists <- SomeSegmentLists
    ChunkSettings <- SomeChunkSettings
    MaxRetries = 1
    MaxCalls = 2
    TextCounts = {0, 1, 2, 3}
    BatchSize = 2
    Similarity <- SomeSimilarity
    Threshold = 2
    TopK = 2
    Matching <- SomeMatching
    Edges <- SomeEdges
    MaxDepth = 2
    MaxEntities = 3
    EdgesPerEntity = 1
    CandidateLimit = 4
    MaxCommits = 2
    Deployments <- SomeDeployments
    Workloads <- SomeWorkloads
    Chunks = {1, 2}
    MaxCited = 3
    NoMode = "none"
    Policies <- SomePolicies
    Risks <- UpToTwoRisks
    SigningKeys = {"k1", "k2", "fixed"}
    FixedKey = "fixed"
    RoleClaims <- SomeRoleClaims
    MaxRequests = 2
    MaxRotations = 1
INVARIANTS
    ChunksCoverText
    IndexIsFaithful
    CallsAreAccounted
    VectorsAreAligned
    NeighborhoodIsExact
    HybridDegrades
    
    AnswerIsGrounded
    AdmissionIsSound
    OutcomeIsJustified
    TroubleNeverWeakens
    OversightCannotBeSwitchedOff
