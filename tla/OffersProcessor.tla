--------------------------- MODULE OffersProcessor ---------------------------
(***************************************************************************)
(* Two state-entry processors of the change group built by                 *)
(* ProcessorRunner.buildChangeProcessor: OffersProcessor                   *)
(* (processors/offers_processor.go, src/unnamed/part_005) and              *)
(* ClaimableBalancesProcessor (the top of                                  *)
(* processors/claimable_balances_processor.go), run ledger after ledger    *)
(* over a change stream that is consistent with the chain.                 *)
(*                                                                         *)
(* Each processor folds the changes of its entry type into a               *)
(* LedgerEntryChangeCache, flushes the cache into the open sink            *)
(* transaction when it holds more than maxBatchSize entries, and flushes   *)
(* the rest in Commit; a row count other than 1 is a state error. The      *)
(* offers Commit then compacts the soft-deleted offers older than          *)
(* offerCompactionWindow. The change group and the sink transaction        *)
(* around them are not under src/ and follow the spec (sections 4.2, 4.3): *)
(* one transaction per ledger, committed if every processor commits and    *)
(* rolled back on the first error.                                         *)
(*                                                                         *)
(* An entry is an id: offers and claimable balances have ids of their own  *)
(* and the chain never reuses one. A change is [pre, post], the presence   *)
(* of the entry before and after it; rows keep their status and            *)
(* last_modified_ledger.                                                   *)
(***************************************************************************)
EXTENDS Naturals, FiniteSets, Sequences

CONSTANTS
    OfferIds,              \* ids of offers
    BalanceIds,            \* ids of claimable balances
    MaxSeq,                \* the last ledger the chain closes
    MaxChanges,            \* bound on the changes of one ledger
    SinkMayFail,           \* a database call or the sink commit may fail
    MaxBatchSize,          \* maxBatchSize (100000 in the code)
    OfferCompactionWindow, \* offerCompactionWindow (100 in the code)
    SeqBits                \* width of the uint32 sequence arithmetic

ASSUME OfferIds \cap BalanceIds = {}
ASSUME MaxSeq < 2^SeqBits

Ids == OfferIds \cup BalanceIds

VARIABLES
    chain,     \* the entries on the chain: "absent", "live" or "removed"
    createdAt, \* ghost: the ledger that created an entry (0: never)
    removedAt, \* ghost: the ledger that removed an entry (0: never)
    rows,      \* the committed tables, one row per id
    txRows,    \* the tables as the open sink transaction sees them
    cache,     \* each processor's change cache: [Kinds -> [Ids -> change]]
    sequence,  \* the ledger being ingested (the last one, once idle)
    ledger,    \* the change stream of the current ledger
    pos,       \* the next change of the stream to process
    pc,        \* "idle", "changes" (the ledger's stream) or "failed"
    err        \* ghost: the error of the last failed attempt

vars == <<chain, createdAt, removedAt, rows, txRows, cache, sequence, ledger, pos, pc, err>>

Kinds == {"offer", "claimable_balance"}
KindOf(id) == IF id \in OfferIds THEN "offer" ELSE "claimable_balance"

NoChange == [pre |-> FALSE, post |-> FALSE]
NoRow    == [st |-> "absent", seq |-> 0]

\* uint32 subtraction, at the model's width.
UIntSub(a, b) == (a - b) % (2^SeqBits)

-----------------------------------------------------------------------------
(* LedgerEntryChangeCache (not under src/; the spec, section 3): changes  *)
(* to one key fold into one net change, pre of the first and post of the *)
(* last; a net change that neither finds nor leaves an entry is dropped.  *)
NewLedgerEntryChangeCache == [id \in Ids |-> NoChange]

AddChange(c, id, ch) ==
    LET net == IF c[id] = NoChange THEN ch
               ELSE [pre |-> c[id].pre, post |-> ch.post]
    IN  [c EXCEPT ![id] = net]

Size(c) == Cardinality({id \in Ids : c[id] # NoChange})

(* Applying a cache to the tables, as flushCache (offers) and Commit      *)
(* (claimable balances) do: a create is added to the batch insert, a      *)
(* remove and an update must each affect exactly one row or the flush     *)
(* stops with a state error; the batch is executed after the loop, and an *)
(* insert of an id that has a row fails it. Offers are soft-deleted       *)
(* (RemoveOffer stamps the sequence), claimable balances are deleted      *)
(* (RemoveClaimableBalance is not given a sequence).                      *)
ApplyChanges(t, c, softDelete) ==
    LET Created == {id \in Ids : ~c[id].pre /\ c[id].post}
        Removed == {id \in Ids : c[id].pre /\ ~c[id].post}
        Updated == {id \in Ids : c[id].pre /\ c[id].post}
        HasRow(id) == t[id].st # "absent"
        applied == [id \in Ids |->
                      CASE id \in Created \cup Updated
                               -> [st |-> "live", seq |-> sequence]
                        [] id \in Removed /\ softDelete
                               -> [st |-> "deleted", seq |-> sequence]
                        [] id \in Removed -> NoRow
                        [] OTHER -> t[id]]
    IN  CASE \E id \in Removed \cup Updated : ~HasRow(id)
                 -> [rows |-> t, err |-> "state"]
          [] \E id \in Created : HasRow(id)
                 -> [rows |-> t, err |-> "exec"]
          [] OTHER -> [rows |-> applied, err |-> "none"]

OffersFlushCache(t, c) == ApplyChanges(t, c, TRUE)

ClaimableBalancesCommit(t, c) == ApplyChanges(t, c, FALSE)

(* CompactOffers(cutoff) (not under src/; the spec, section 4.2): delete *)
(* the soft-deleted offer rows whose deletion is older than the cutoff.  *)
CompactOffers(t, cutoff) ==
    [id \in Ids |-> IF id \in OfferIds /\ t[id].st = "deleted" /\ t[id].seq < cutoff
                       THEN NoRow ELSE t[id]]

-----------------------------------------------------------------------------
(* ProcessChange of the two processors: fold the change in; past          *)
(* maxBatchSize entries flush and reset (a new cache, and for offers a    *)
(* new batch). Each returns the cache, the tables and the error.          *)

\* Fault variant: the cache is flushed but not reset.
MutOffersProcessChangeNoReset(t, c, id, ch) ==
    LET c1 == AddChange(c, id, ch)
        f  == OffersFlushCache(t, c1)
    IN  IF Size(c1) > MaxBatchSize
           THEN [cache |-> c1, rows |-> f.rows, err |-> f.err, flushed |-> TRUE]
           ELSE [cache |-> c1, rows |-> t, err |-> "none", flushed |-> FALSE]

OffersProcessChange(t, c, id, ch) ==
    LET c1 == AddChange(c, id, ch)
        f  == OffersFlushCache(t, c1)
    IN  IF Size(c1) > MaxBatchSize
           THEN [cache |-> NewLedgerEntryChangeCache, rows |-> f.rows, err |-> f.err, flushed |-> TRUE]
           ELSE [cache |-> c1, rows |-> t, err |-> "none", flushed |-> FALSE]

ClaimableBalancesProcessChange(t, c, id, ch) ==
    LET c1 == AddChange(c, id, ch)
        f  == ClaimableBalancesCommit(t, c1)
    IN  IF Size(c1) > MaxBatchSize
           THEN [cache |-> NewLedgerEntryChangeCache, rows |-> f.rows, err |-> f.err, flushed |-> TRUE]
           ELSE [cache |-> c1, rows |-> t, err |-> "none", flushed |-> FALSE]

\* Fault variant: compaction without the sequence > window guard; the
\* uint32 subtraction wraps below the window.
MutOffersCommitNoWindowGuard(t, c) ==
    LET f == OffersFlushCache(t, c)
    IN  IF f.err # "none" THEN f
        ELSE [rows |-> CompactOffers(f.rows, UIntSub(sequence, OfferCompactionWindow)),
              err  |-> "none"]

(* OffersProcessor.Commit: flush the cache; then, past the window, trim   *)
(* the offers deleted before sequence - offerCompactionWindow.            *)
OffersCommit(t, c) ==
    LET f == OffersFlushCache(t, c)
    IN  IF f.err # "none" \/ ~(sequence > OfferCompactionWindow) THEN f
        ELSE [rows |-> CompactOffers(f.rows, UIntSub(sequence, OfferCompactionWindow)),
              err  |-> "none"]

-----------------------------------------------------------------------------
\* The changes the chain can make to an entry in state st: create an
\* absent one, update or remove a live one; a removed id is never reused.
ChainChanges(st) ==
    CASE st = "absent" -> {[pre |-> FALSE, post |-> TRUE]}
      [] st = "live"   -> {[pre |-> TRUE, post |-> TRUE],
                           [pre |-> TRUE, post |-> FALSE]}
      [] OTHER         -> {}

AfterChange(ch) == IF ch.post THEN "live" ELSE "removed"

(* The change streams of one ledger over the entries in state st: every  *)
(* sequence of at most n changes the chain can make in a row.            *)
RECURSIVE LedgerStreams(_, _)
LedgerStreams(st, n) ==
    LET Step(id, c) == {<<[id |-> id, ch |-> c]>> \o l :
                          l \in LedgerStreams([st EXCEPT ![id] = AfterChange(c)], n - 1)}
    IN  {<<>>} \cup
        IF n = 0 THEN {}
        ELSE UNION {UNION {Step(id, c) : c \in ChainChanges(st[id])} : id \in Ids}

\* The chain after a stream.
RECURSIVE ChainAfter(_, _)
ChainAfter(ch, l) ==
    IF l = <<>> THEN ch
    ELSE ChainAfter([ch EXCEPT ![l[1].id] = AfterChange(l[1].ch)], Tail(l))

Init ==
    /\ chain = [id \in Ids |-> "absent"]
    /\ createdAt = [id \in Ids |-> 0]
    /\ removedAt = [id \in Ids |-> 0]
    /\ rows = [id \in Ids |-> NoRow]
    /\ txRows = rows
    /\ cache = [k \in Kinds |-> NewLedgerEntryChangeCache]
    /\ sequence = 0
    /\ ledger = <<>>
    /\ pos = 1
    /\ pc = "idle"
    /\ err = "none"

\* Processors built for a ledger: NewOffersProcessor and
\* NewClaimableBalancesProcessor call reset.
NewProcessors == [k \in Kinds |-> NewLedgerEntryChangeCache]

(* The chain closes the next ledger with one of its streams; the sink     *)
(* transaction is opened and the change group built for it.               *)
BeginLedger ==
    /\ pc = "idle"
    /\ sequence < MaxSeq
    /\ \E l \in LedgerStreams(chain, MaxChanges) :
          /\ ledger' = l
          /\ chain' = ChainAfter(chain, l)
          /\ createdAt' = [id \in Ids |->
                             IF chain[id] = "absent" /\ chain'[id] # "absent"
                                THEN sequence + 1 ELSE createdAt[id]]
          /\ removedAt' = [id \in Ids |->
                             IF chain[id] # "removed" /\ chain'[id] = "removed"
                                THEN sequence + 1 ELSE removedAt[id]]
    /\ sequence' = sequence + 1
    /\ txRows' = rows
    /\ cache' = NewProcessors
    /\ pos' = 1
    /\ pc' = "changes"
    /\ UNCHANGED <<rows, err>>

(* After a rolled-back ledger the same ledger is ingested again with new *)
(* processors in a new transaction (the spec, section 4.3).              *)
RetryLedger ==
    /\ pc = "failed"
    /\ txRows' = rows
    /\ cache' = NewProcessors
    /\ pos' = 1
    /\ pc' = "changes"
    /\ UNCHANGED <<chain, createdAt, removedAt, rows, sequence, ledger, err>>

(* The next change of the ledger goes through the change group: the      *)
(* processor of its entry type takes it, the others return at once. With *)
(* SinkMayFail a database call of a mid-ledger flush may fail.           *)
ProcessChange ==
    /\ pc = "changes"
    /\ pos <= Len(ledger)
    /\ LET id == ledger[pos].id
           k  == KindOf(id)
           r  == IF k = "offer"
                    THEN OffersProcessChange(txRows, cache[k], id, ledger[pos].ch)
                    ELSE ClaimableBalancesProcessChange(txRows, cache[k], id, ledger[pos].ch)
       IN  \/ /\ r.err = "none"
              /\ cache' = [cache EXCEPT ![k] = r.cache]
              /\ txRows' = r.rows
              /\ pos' = pos + 1
              /\ UNCHANGED <<pc, err>>
           \/ /\ r.err # "none" \/ (SinkMayFail /\ r.flushed)
              /\ pc' = "failed"
              /\ err' = IF r.err # "none" THEN r.err ELSE "db"
              /\ UNCHANGED <<cache, txRows, pos>>
    /\ UNCHANGED <<chain, createdAt, removedAt, rows, sequence, ledger>>

(* The change group's Commit calls each processor's Commit in the group's *)
(* order (offers before claimable balances); the sink transaction is      *)
(* committed if all succeed and rolled back on the first error. With      *)
(* SinkMayFail any database call of the commits, CompactOffers included,  *)
(* or the transaction commit itself may fail.                             *)
CommitLedger ==
    /\ pc = "changes"
    /\ pos > Len(ledger)
    /\ LET o == OffersCommit(txRows, cache["offer"])
           b == ClaimableBalancesCommit(o.rows, cache["claimable_balance"])
       IN  \/ /\ o.err = "none" /\ b.err = "none"
              /\ rows' = b.rows /\ txRows' = b.rows
              /\ pc' = "idle"
              /\ UNCHANGED err
           \/ /\ o.err # "none" \/ b.err # "none" \/ SinkMayFail
              /\ err' = CASE o.err # "none" -> o.err
                           [] b.err # "none" -> b.err
                           [] OTHER          -> "db"
              /\ pc' = "failed" /\ UNCHANGED <<rows, txRows>>
    /\ UNCHANGED <<chain, createdAt, removedAt, cache, sequence, ledger, pos>>

Next == BeginLedger \/ RetryLedger \/ ProcessChange \/ CommitLedger

Spec == Init /\ [][Next]_vars

-----------------------------------------------------------------------------
(* Ingesting a stream that is consistent with the chain never ends in a  *)
(* state error or a failed batch insert, however often a ledger is rolled *)
(* back and retried, and after every committed ledger the live rows are  *)
(* exactly the entries live on the chain: the cache folding, the         *)
(* mid-ledger flushes with their resets and the final Commit together    *)
(* apply every change of a ledger once.                                  *)
ProjectionMatchesChain ==
    /\ err \notin {"state", "exec"}
    /\ pc = "idle" => \A id \in Ids : (rows[id].st = "live") = (chain[id] = "live")

(* The soft-deletion graveyard keeps the window: after ledger S is       *)
(* committed, an offer created by one ledger and removed by a later one,  *)
(* no earlier than S - offerCompactionWindow, still has its row, marked   *)
(* deleted at the removing ledger. Offers.Commit guards the compaction    *)
(* with sequence > offerCompactionWindow, which keeps the uint32 cutoff   *)
(* from wrapping below the window.                                        *)
CompactionKeepsWindow ==
    pc = "idle" =>
        \A id \in OfferIds :
            (/\ chain[id] = "removed"
             /\ createdAt[id] < removedAt[id]
             /\ sequence <= removedAt[id] + OfferCompactionWindow)
                => rows[id] = [st |-> "deleted", seq |-> removedAt[id]]
=============================================================================
