SPECIFICATION Spec
CONSTANTS
    ServerMayFail = TRUE
    SessionFrom = 1
    SessionLast = 3
INVARIANT RetryServesLedger
