SPECIFICATION SessionSpec
CONSTANTS
    MaxCalls = 1
    Timeouts = TRUE
INVARIANT
    WorkersAreIsolated
CHECK_DEADLOCK FALSE
