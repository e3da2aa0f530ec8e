SPECIFICATION ResumeSpec
CONSTANTS
    Ids = {a1}
    Candidates = {c1}
    NoCandidate = NoCandidate
    MaxHumanRevisions = 1
    Requests = {r1, r2}
    NoRequest = NoRequest
    Settings <- OneDeployment
    MaxFaults = 1
    MaxDeploys = 0
PROPERTIES
    RequestsAreAnswered
    GenerationSettles
    RevisionsResume
