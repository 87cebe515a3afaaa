\* 4-bit sequences: 0, 1, the largest int32 (7), the smallest value above it
\* (8) and the largest uint32 (15) are written.
CONSTANTS
    Bits = 4
    LedgerSeqs = {0, 1, 7, 8, 15}
    Versions = {0, 1}
    StoreMayFail = FALSE
SPECIFICATION Spec
INVARIANTS OfferCompactionSequenceReadsBack
