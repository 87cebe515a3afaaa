\* verify-range over a captive backend whose subprocess may crash, with
\* archive, hash and sink faults and a ledger that may be above the supported
\* protocol version. --from 1 takes the genesis branch, 5 is not a
\* checkpoint, 7 is; --to 9 is not a checkpoint, 11 is. The command and the
\* backend are weakly fair; crashes and faults are not.
CONSTANTS
    Freq = 4
    ArchiveLatest = 11
    PipeCap = 1
    ReadAheadBufferSize = 2
    CoreMayCrash = TRUE
    Froms = {1, 5, 7}
    Tos = {9, 11}
    MayBeUnsupported = {9}
    ArchiveMayFail = TRUE
    HashMayMismatch = TRUE
    SinkMayFail = TRUE
SPECIFICATION FairSpec
INVARIANTS
    TypeOK
    UnsupportedNeverIngested
PROPERTIES
    IngestsWholeLedgers
    VerifyRangeEnds
\* verify-range stops once it is done.
CHECK_DEADLOCK FALSE
