SPECIFICATION FairSpec
CONSTANTS
    ToolCalls = {"search", "read", "write", "unknown"}
    Registered = {"search", "read", "write"}
    Valid = {"search", "read", "write"}
    Permitted = {"search", "read"}
    Fingerprints = {"f1", "f2", "f3"}
    Fingerprint <- SomeFingerprint
    Observations = {"k1", "k2", "k3", "d2"}
    Returns <- SomeReturns
    Chunks = {"k1", "k2", "k3"}
    Documents = {"d1", "d2"}
    DocumentOf <- SomeDocumentOf
    BriefItems <- SomeItems
    NoResult = NoResult
    None = None
    Limits <- SomeLimits
INVARIANTS
    GatheringIsSound
    FailuresAreHandled
    BranchesMerge
PROPERTY
    Terminates
CHECK_DEADLOCK FALSE
