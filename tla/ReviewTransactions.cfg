SPECIFICATION Spec
CONSTANTS
    Ids = {a1}
    Candidates = {c1, c2}
    NoCandidate = NoCandidate
    MaxHumanRevisions = 1
    Requests = {r1, r2}
    NoRequest = NoRequest
    Settings <- GateOnOff
    MaxFaults = 1
    MaxDeploys = 1
SYMMETRY Symmetry
INVARIANTS
    CheckedStateIsCurrent
    AnswerIsDurable
    ReviewExportIsCommitted
    ExecutionMatchesResult
PROPERTIES
    RefinesLifecycle
