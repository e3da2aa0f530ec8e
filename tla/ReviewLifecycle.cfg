SPECIFICATION ReadSpec
CONSTANTS
    Ids = {a1, a2}
    Candidates = {c1, c2}
    NoCandidate = NoCandidate
    MaxHumanRevisions = 2
    Filters = {"any", "pending_review", "completed"}
    AnyStatus = "any"
    PageSizes = {1, 2}
    MaxCommits = 2
SYMMETRY Symmetry
INVARIANTS
    CheckpointMatchesRow
    HistoryExplains
    ResultIsDecided
    ReadsAreExplicable
PROPERTIES
    RecordStands
CHECK_DEADLOCK FALSE
