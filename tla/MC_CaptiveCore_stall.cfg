CONSTANTS
    Freq = 4
    ArchiveLatest = 7
    NetworkHead = 4
    PipeCap = 1
    ReadAheadBufferSize = 2
    MaxSessions = 1
    BoundedRanges = {}
    UnboundedFroms <- MCStallFroms
    Requests <- MCStallRequests
    CoreMayCrash = FALSE
    CoreMaySkip = FALSE
    CallerBound = "any"
SPECIFICATION FairSpec
PROPERTIES
    CallsReturn
CHECK_DEADLOCK FALSE
