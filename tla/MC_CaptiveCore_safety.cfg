CONSTANTS
    Freq = 4
    ArchiveLatest = 7
    NetworkHead = 9
    PipeCap = 1
    ReadAheadBufferSize = 2
    MaxSessions = 2
    BoundedRanges <- MCBoundedRanges
    UnboundedFroms <- MCUnboundedFroms
    Requests <- MCRequests
    CoreMayCrash = TRUE
    CoreMaySkip = TRUE
    CallerBound = "any"
SPECIFICATION Spec
INVARIANTS
    TypeOK
    StreamAligned
    FailedCallLeavesClosed
CHECK_DEADLOCK FALSE
