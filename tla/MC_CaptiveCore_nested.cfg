CONSTANTS
    Freq = 4
    ArchiveLatest = 7
    NetworkHead = 9
    PipeCap = 1
    ReadAheadBufferSize = 2
    MaxSessions = 2
    BoundedRanges <- MCNestedRanges
    UnboundedFroms = {}
    Requests <- MCNestedRequests
    CoreMayCrash = FALSE
    CoreMaySkip = FALSE
    CallerBound = "prepared"
SPECIFICATION FairSpec
PROPERTIES
    CallsReturn
CHECK_DEADLOCK FALSE
