SPECIFICATION ResumeSpec
CONSTANTS
    Ids = {a1}
    Candidates = {c1}
    NoCandidate = NoCandidate
    MaxHumanRevisions = 1
    Requests = {r1}
    NoRequest = NoRequest
    Settings <- LoweredLimit
    MaxFaults = 0
    MaxDeploys = 1
PROPERTY
    RevisionsResume
