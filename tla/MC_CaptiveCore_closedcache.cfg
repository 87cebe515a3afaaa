CONSTANTS
    Freq = 4
    ArchiveLatest = 7
    NetworkHead = 9
    PipeCap = 1
    ReadAheadBufferSize = 2
    MaxSessions = 1
    BoundedRanges <- MCExitRanges
    UnboundedFroms = {}
    Requests = {7}
    CoreMayCrash = FALSE
    CoreMaySkip = FALSE
    CallerBound = "backend"
SPECIFICATION Spec
INVARIANTS
    ClosedGetLedgerFails
