----------------------------- MODULE VerifyRange -----------------------------
(***************************************************************************)
(* The processor runner (ProcessorRunner in                                *)
(* services/aurora/internal/ingest, the part of                            *)
(* processors/claimable_balances_processor.go from line 108 on) driven by  *)
(* the `expingest verify-range` command over a captive backend.            *)
(*                                                                         *)
(* The runner, the command and the backend's caller are one goroutine: the *)
(* runner calls GetLedger on the backend (an INSTANCE of CaptiveCore, whose *)
(* read-ahead goroutine and subprocess run beside it) and waits for it to  *)
(* return. Processor output is abstracted to one write per processor group *)
(* and ledger: the state a history archive snapshot yields, the change     *)
(* group and the transaction group of a ledger. A group's Commit flushes   *)
(* its writes into the open sink transaction (`staged`); the command       *)
(* commits or rolls back that transaction per ledger (`db` holds what is   *)
(* committed).                                                             *)
(*                                                                         *)
(* The command's own loop (System.VerifyRange) is not under src/; it is    *)
(* modelled from the spec (section 4.3, verify-range): prepare the bounded *)
(* range, ingest the state at `from` (the reason `from` must be a          *)
(* checkpoint), then run all processors on every later ledger, one sink    *)
(* transaction per ledger, stopping at the first error.                    *)
(***************************************************************************)
EXTENDS Naturals, Sequences

CONSTANTS
    Freq, ArchiveLatest, PipeCap, ReadAheadBufferSize, CoreMayCrash,
    Froms, Tos,             \* the values of --from and --to the model tries
    MayBeUnsupported,       \* ledgers whose protocol version may be above
                            \* MaxSupportedProtocolVersion
    ArchiveMayFail,         \* BucketListHash / GetState may fail
    HashMayMismatch,        \* the archive's bucket list hash may differ
    SinkMayFail             \* a processor's ProcessChange or Commit may fail

VARIABLES
    nextLedger, lastLedger, blocking, cachedMeta, metaC, shutdown,
    processExit, processErr, rd, core, pipe, reaper, pc, call, result,
    latestSeq, sessions, skipped,
    runner,   \* the ProcessorRunner call in progress: [pc, seq, after, err]
    vr,       \* the verify-range command: [pc, seq, result]
    staged,   \* writes flushed into the open sink transaction
    db,       \* writes committed to the sink
    unsupported, \* the ledgers of the chain above MaxSupportedProtocolVersion
    flags,       \* the command's flags: [from, to, verifyState]
    crashed      \* ghost: the subprocess has crashed

LedgerTop == CHOOSE t \in Tos : \A u \in Tos : u <= t

\* The command only calls PrepareRange and GetLedger with arguments of its
\* own; the caller-choice constants of CaptiveCore are left unused.
CC == INSTANCE CaptiveCore
        WITH NetworkHead <- LedgerTop, MaxSessions <- 1,
             BoundedRanges <- {}, UnboundedFroms <- {},
             Requests <- {}, CoreMaySkip <- FALSE, CallerBound <- "prepared"

ccVars  == <<nextLedger, lastLedger, blocking, cachedMeta, metaC, shutdown,
             processExit, processErr, rd, core, pipe, reaper, pc, call, result,
             latestSeq, sessions, skipped>>
runVars == <<runner, vr, staged, db, unsupported, flags, crashed>>
vars    == <<ccVars, runVars>>

\* One write of a processor group for a ledger.
W(s, kind) == [seq |-> s, kind |-> kind]
Kinds == {"state", "changes", "txs"}

RunnerPcs == {"idle", "hai", "protocol", "hai_bucket", "bucket", "hai_state",
              "rall", "rall_change", "change_reader", "rtx", "tx_reader", "rtx_stream"}

Init ==
    /\ CC!Init
    /\ runner = [pc |-> "idle", seq |-> 0, after |-> "none", err |-> "none"]
    /\ flags \in [from : Froms, to : Tos, verifyState : BOOLEAN]
    /\ vr = [pc |-> "start", seq |-> flags.from, result |-> "none"]
    /\ staged = <<>>
    /\ db = <<>>
    /\ unsupported \in SUBSET MayBeUnsupported
    /\ crashed = FALSE

-----------------------------------------------------------------------------
(* ProcessorRunner. A step that calls GetLedger starts the backend call    *)
(* (CC!GetLedger) and the next step runs once the backend's caller thread  *)
(* is back (pc = "idle") with its result.                                  *)

BackendReturned == pc = "idle"

\* Call ledgerBackend.GetLedger(runner.seq) and continue at `stage`.
RunnerGetLedger(stage, after) ==
    /\ CC!GetLedger(runner.seq)
    /\ runner' = [runner EXCEPT !.pc = stage, !.after = after]

RunnerFail(err) == runner' = [runner EXCEPT !.pc = "idle", !.err = err]
RunnerOk        == runner' = [runner EXCEPT !.pc = "idle", !.err = "none"]

\* RunHistoryArchiveIngestion: ledger 1 streams the genesis state without
\* touching the backend; any other checkpoint is checked first.
RunHistoryArchiveIngestion ==
    /\ runner.pc = "hai"
    /\ \/ /\ runner.seq = 1
          /\ \/ SinkMayFail /\ RunnerFail("err_commit") /\ UNCHANGED staged
             \/ staged' = Append(staged, W(1, "state")) /\ RunnerOk
          /\ UNCHANGED ccVars
       \/ /\ runner.seq # 1
          /\ RunnerGetLedger("protocol", "hai_bucket")
          /\ UNCHANGED staged
    /\ UNCHANGED <<vr, db, unsupported, flags, crashed>>

\* Fault variant: the protocol version of the ledger is not compared.
MutCheckProtocolIgnoresVersion ==
    /\ runner.pc = "protocol" /\ BackendReturned
    /\ \/ result # "found" /\ RunnerFail("err_ledger")
       \/ result = "found" /\ runner' = [runner EXCEPT !.pc = runner.after]
    /\ UNCHANGED <<ccVars, vr, staged, db, unsupported, flags, crashed>>

\* checkIfProtocolVersionSupported, after its GetLedger: an error or a
\* missing ledger fails, so does a version above the supported one.
CheckIfProtocolVersionSupported ==
    /\ runner.pc = "protocol" /\ BackendReturned
    /\ \/ result # "found" /\ RunnerFail("err_ledger")
       \/ /\ result = "found" /\ runner.seq \in unsupported
          /\ RunnerFail("err_protocol")
       \/ /\ result = "found" /\ runner.seq \notin unsupported
          /\ runner' = [runner EXCEPT !.pc = runner.after]
    /\ UNCHANGED <<ccVars, vr, staged, db, unsupported, flags, crashed>>

\* validateBucketList: the archive's bucket list hash, then the ledger.
ValidateBucketList ==
    /\ runner.pc = "hai_bucket"
    /\ \/ ArchiveMayFail /\ RunnerFail("err_archive") /\ UNCHANGED ccVars
       \/ RunnerGetLedger("bucket", "none")
    /\ UNCHANGED <<vr, staged, db, unsupported, flags, crashed>>

ValidateBucketListCompare ==
    /\ runner.pc = "bucket" /\ BackendReturned
    /\ \/ result # "found" /\ RunnerFail("err_ledger")
       \/ result = "found" /\ HashMayMismatch /\ RunnerFail("err_hash")
       \/ result = "found" /\ runner' = [runner EXCEPT !.pc = "hai_state"]
    /\ UNCHANGED <<ccVars, vr, staged, db, unsupported, flags, crashed>>

\* GetState from the archive, StreamChanges into the change group, Commit.
RunHistoryArchiveIngestionStream ==
    /\ runner.pc = "hai_state"
    /\ \/ ArchiveMayFail /\ RunnerFail("err_archive") /\ UNCHANGED staged
       \/ SinkMayFail /\ RunnerFail("err_commit") /\ UNCHANGED staged
       \/ staged' = Append(staged, W(runner.seq, "state")) /\ RunnerOk
    /\ UNCHANGED <<ccVars, vr, db, unsupported, flags, crashed>>

\* RunAllProcessorsOnLedger: check the protocol version, then the change
\* group (runChangeProcessorOnLedger), then the transaction group.
RunAllProcessorsOnLedger ==
    /\ runner.pc = "rall"
    /\ RunnerGetLedger("protocol", "rall_change")
    /\ UNCHANGED <<vr, staged, db, unsupported, flags, crashed>>

\* runChangeProcessorOnLedger: NewLedgerChangeReader gets the ledger ...
RunChangeProcessorOnLedger ==
    /\ runner.pc = "rall_change"
    /\ RunnerGetLedger("change_reader", "none")
    /\ UNCHANGED <<vr, staged, db, unsupported, flags, crashed>>

\* ... StreamChanges and Commit; RunAllProcessorsOnLedger goes on with
\* RunTransactionProcessorsOnLedger.
RunChangeProcessorOnLedgerCommit ==
    /\ runner.pc = "change_reader" /\ BackendReturned
    /\ \/ result # "found" /\ RunnerFail("err_ledger") /\ UNCHANGED staged
       \/ result = "found" /\ SinkMayFail /\ RunnerFail("err_commit") /\ UNCHANGED staged
       \/ /\ result = "found"
          /\ staged' = Append(staged, W(runner.seq, "changes"))
          /\ runner' = [runner EXCEPT !.pc = "rtx"]
    /\ UNCHANGED <<ccVars, vr, db, unsupported, flags, crashed>>

\* RunTransactionProcessorsOnLedger: NewLedgerTransactionReader gets the
\* ledger, then checkIfProtocolVersionSupported gets it again.
RunTransactionProcessorsOnLedger ==
    /\ runner.pc = "rtx"
    /\ RunnerGetLedger("tx_reader", "none")
    /\ UNCHANGED <<vr, staged, db, unsupported, flags, crashed>>

RunTransactionProcessorsOnLedgerReader ==
    /\ runner.pc = "tx_reader" /\ BackendReturned
    /\ \/ result # "found" /\ RunnerFail("err_ledger") /\ UNCHANGED ccVars
       \/ result = "found" /\ RunnerGetLedger("protocol", "rtx_stream")
    /\ UNCHANGED <<vr, staged, db, unsupported, flags, crashed>>

(* The transaction group's writer, TransactionProcessor: ProcessTransaction *)
(* adds each transaction of the ledger to its batch insert builder and      *)
(* Commit executes the batch; an error of either ends the runner.          *)
TransactionProcessorCommit ==
    \/ SinkMayFail /\ RunnerFail("err_commit") /\ UNCHANGED staged
    \/ staged' = Append(staged, W(runner.seq, "txs")) /\ RunnerOk

\* Fault variant: the transaction group's Commit error is dropped.
MutRunTxCommitErrorDropped ==
    /\ runner.pc = "rtx_stream"
    /\ \/ SinkMayFail /\ RunnerOk /\ UNCHANGED staged
       \/ staged' = Append(staged, W(runner.seq, "txs")) /\ RunnerOk
    /\ UNCHANGED <<ccVars, vr, db, unsupported, flags, crashed>>

\* StreamLedgerTransactions into the transaction group, then Commit.
RunTransactionProcessorsOnLedgerCommit ==
    /\ runner.pc = "rtx_stream"
    /\ TransactionProcessorCommit
    /\ UNCHANGED <<ccVars, vr, db, unsupported, flags, crashed>>

RunnerStep ==
    \/ RunHistoryArchiveIngestion \/ CheckIfProtocolVersionSupported
    \/ ValidateBucketList \/ ValidateBucketListCompare
    \/ RunHistoryArchiveIngestionStream \/ RunAllProcessorsOnLedger
    \/ RunChangeProcessorOnLedger \/ RunChangeProcessorOnLedgerCommit
    \/ RunTransactionProcessorsOnLedger \/ RunTransactionProcessorsOnLedgerReader
    \/ RunTransactionProcessorsOnLedgerCommit

-----------------------------------------------------------------------------
(* The verify-range command.                                               *)

Done(res) == vr' = [vr EXCEPT !.pc = "done", !.result = res]

\* The flag checks of verify-range: --from must be a checkpoint or 1, and
\* --to a checkpoint when --verify-state is set (log.Fatal otherwise).
VerifyRangeCmd ==
    /\ vr.pc = "start"
    /\ \/ ~(CC!IsCheckpoint(flags.from) \/ flags.from = 1) /\ Done("err_from")
       \/ /\ CC!IsCheckpoint(flags.from) \/ flags.from = 1
          /\ flags.verifyState /\ ~CC!IsCheckpoint(flags.to)
          /\ Done("err_to")
       \/ /\ CC!IsCheckpoint(flags.from) \/ flags.from = 1
          /\ ~flags.verifyState \/ CC!IsCheckpoint(flags.to)
          /\ vr' = [vr EXCEPT !.pc = "prepare"]
    /\ UNCHANGED <<ccVars, runner, staged, db, unsupported, flags, crashed>>

\* PrepareRange(BoundedRange(from, to)) on the backend.
VerifyRangePrepare ==
    /\ vr.pc = "prepare"
    /\ CC!PrepareRange(CC!Range(TRUE, flags.from, flags.to))
    /\ vr' = [vr EXCEPT !.pc = "prepared"]
    /\ UNCHANGED <<runner, staged, db, unsupported, flags, crashed>>

\* Once prepared, ingest the state at `from` in the first sink transaction.
VerifyRangeBootstrap ==
    /\ vr.pc = "prepared" /\ BackendReturned
    /\ \/ result \notin {"ok", "opened"} /\ Done(result) /\ UNCHANGED runner
       \/ /\ result \in {"ok", "opened"}
          /\ vr' = [vr EXCEPT !.pc = "running"]
          /\ runner' = [pc |-> "hai", seq |-> flags.from, after |-> "none", err |-> "none"]
    /\ UNCHANGED <<ccVars, staged, db, unsupported, flags, crashed>>

\* The runner returned: commit its writes and go on with the next ledger,
\* or roll them back and stop at the error.
VerifyRangeCommit ==
    /\ vr.pc = "running" /\ runner.pc = "idle"
    /\ \/ /\ runner.err = "none"
          /\ db' = db \o staged
          /\ staged' = <<>>
          /\ IF vr.seq = flags.to
               THEN Done("ok") /\ UNCHANGED runner
               ELSE /\ vr' = [vr EXCEPT !.seq = @ + 1]
                    /\ runner' = [pc |-> "rall", seq |-> vr.seq + 1,
                                  after |-> "none", err |-> "none"]
       \/ /\ runner.err # "none"
          /\ staged' = <<>>
          /\ Done(runner.err)
          /\ UNCHANGED <<runner, db>>
    /\ UNCHANGED <<ccVars, unsupported, flags, crashed>>

CommandStep ==
    \/ VerifyRangeCmd \/ VerifyRangePrepare \/ VerifyRangeBootstrap \/ VerifyRangeCommit

\* The backend's read-ahead goroutine, subprocess and reaper, and the
\* backend's own continuation of a call, run beside the command. A crash
\* of the subprocess is recorded in the ghost (CoreMaySkip is FALSE here,
\* so CoreSkipFrame is left out of CC!CoreStep).
BackendInternal ==
    \/ /\ CC!BackendStep \/ CC!ReaderStep \/ CC!CoreWrite
          \/ CC!CoreCatchupExit \/ CC!ReaperWake
       /\ UNCHANGED runVars
    \/ CC!CoreCrash /\ crashed' = TRUE
       /\ UNCHANGED <<runner, vr, staged, db, unsupported, flags>>

Next == CommandStep \/ RunnerStep \/ BackendInternal

\* One goroutine runs the command and the runner: its steps are weakly fair,
\* as are the backend's goroutines and subprocess (CaptiveCore's Fairness).
Spec == Init /\ [][Next]_vars
FairSpec ==
    /\ Spec
    /\ WF_vars(CommandStep) /\ WF_vars(RunnerStep)
    /\ WF_vars(CC!BackendStep /\ UNCHANGED runVars)
    /\ WF_vars(CC!ReaderStep /\ UNCHANGED runVars)
    /\ WF_vars(CC!CoreWrite /\ UNCHANGED runVars)
    /\ WF_vars(CC!CoreCatchupExit /\ UNCHANGED runVars)
    /\ WF_vars(CC!ReaperWake /\ UNCHANGED runVars)

-----------------------------------------------------------------------------
TypeOK ==
    /\ CC!TypeOK
    /\ runner \in [pc : RunnerPcs, seq : 0..LedgerTop,
                   after : {"none", "hai_bucket", "rall_change", "rtx_stream"},
                   err : {"none", "err_ledger", "err_protocol", "err_archive",
                          "err_hash", "err_commit"}]
    /\ vr.pc \in {"start", "prepare", "prepared", "running", "done"}
    /\ vr.seq \in flags.from..flags.to
    /\ staged \in Seq([seq : flags.from..flags.to, kind : Kinds])
    /\ db \in Seq([seq : flags.from..flags.to, kind : Kinds])
    /\ crashed \in BOOLEAN

\* How the command's state reads as a run of IngestRange: the flags are the
\* range, `db` the sink, and the command's end its outcome.
Outcome ==
    IF vr.pc # "done" THEN "running"
    ELSE IF vr.result = "ok" THEN "ok" ELSE "failed"

IR == INSTANCE IngestRange
        WITH from <- flags.from, to <- flags.to, sink <- db, outcome <- Outcome

(* verify-range implements IngestRange: the sink only ever grows by one    *)
(* whole ledger at a time, in order (the state at `from`, then both the    *)
(* change group and the transaction group of each later ledger), nothing   *)
(* is committed after the command has ended, and it reports success        *)
(* exactly when ledger `to` is in. RunAllProcessorsOnLedger flushes the    *)
(* change group into the sink transaction before it runs the transaction   *)
(* group, so this rests on every failure after that point reaching the     *)
(* command, which rolls the ledger back.                                   *)
IngestsWholeLedgers == IR!Spec

(* No write of a ledger whose protocol version Aurora does not support      *)
(* (checkIfProtocolVersionSupported) reaches the sink.                      *)
UnsupportedNeverIngested ==
    \A i \in 1..Len(db) : db[i].seq \notin unsupported

(* verify-range always ends, and it fails only for a reason of its own:    *)
(* invalid flags, a ledger above the supported protocol version, an        *)
(* archive, hash or sink fault, or a failure of the subprocess (a crash, or *)
(* hcnet-core failing to start, which PrepareRange returns). A backend     *)
(* error without such a failure is ruled out: the backend keeps serving    *)
(* the ledger RunAllProcessorsOnLedger asks for four times, the last of    *)
(* them after GetLedger(to) has closed the bounded session.                *)
OwnFailures == {"err_from", "err_to", "err_protocol", "err_archive", "err_hash", "err_commit"}

VerifyRangeEnds ==
    <>(vr.pc = "done" /\ (vr.result = "ok" \/ vr.result \in OwnFailures
                           \/ crashed \/ vr.result = "err_run"))
=============================================================================
