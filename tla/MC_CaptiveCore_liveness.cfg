CONSTANTS
    Freq = 4
    ArchiveLatest = 7
    NetworkHead = 9
    PipeCap = 1
    ReadAheadBufferSize = 2
    MaxSessions = 2
    BoundedRanges <- MCLiveRanges
    UnboundedFroms = {}
    Requests <- MCLiveRequests
    CoreMayCrash = TRUE
    CoreMaySkip = TRUE
    CallerBound = "backend"
SPECIFICATION FairSpec
PROPERTIES
    CallsReturn
CHECK_DEADLOCK FALSE
