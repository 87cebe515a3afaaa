\* Two offers and one claimable balance over six ledgers of at most two
\* changes. A cache of more than one entry is flushed mid-ledger, and the
\* window of three ledgers makes compaction start at ledger 4 and reach
\* the deletions of ledgers 1..3, the last one at the boundary. Sequences
\* are 4-bit unsigned integers, so a cutoff below the window wraps.
CONSTANTS
    o1 = o1  o2 = o2  b1 = b1
    OfferIds <- MCOfferIds
    BalanceIds <- MCBalanceIds
    MaxSeq = 6
    MaxChanges = 2
    SinkMayFail = TRUE
    MaxBatchSize = 1
    OfferCompactionWindow = 3
    SeqBits = 4
SYMMETRY OfferSymmetry
SPECIFICATION Spec
INVARIANTS ProjectionMatchesChain CompactionKeepsWindow
\* The chain closes MaxSeq ledgers and then stops.
CHECK_DEADLOCK FALSE
