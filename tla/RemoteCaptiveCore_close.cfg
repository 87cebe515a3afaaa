SPECIFICATION FairSpec
CONSTANTS
    ServerMayFail = FALSE
    SessionFrom = 1
    SessionLast = 3
PROPERTY CloseCancelsPoll
