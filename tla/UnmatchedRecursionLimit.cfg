SPECIFICATION AgentSpec
CONSTANTS
    ToolCalls = {"search", "search_again", "read_document", "bad_arguments", "unknown"}
    Registered = {"search", "search_again", "read_document", "bad_arguments"}
    Valid = {"search", "search_again", "read_document"}
    Fingerprints = {"f1", "f2"}
    Fingerprint <- SomeFingerprint
    Observations = {"k1", "k2", "d1"}
    Returns <- SomeReturns
    NoResult = NoResult
    NoCall = NoCall
    Limits <- UnmatchedLimits
    MaxCalls = 1
    Timeouts = TRUE
INVARIANT
    SynthesisIsForced
CHECK_DEADLOCK FALSE
