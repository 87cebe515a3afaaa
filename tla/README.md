# TLA+ models of the Aurora ledger-ingestion core

This directory holds TLA+ models of the ledger-ingestion code in `src/`, and the
TLC configurations that check them. Each model is written from the Go source.
`PROJECT.json` maps each definition to the lines it translates. It also lists
the runs, the mutants that show each property can fail, the findings, and the
hazards of the code.

## 1. Inventory of the system

| Component | Source | State it keeps | Operations |
|---|---|---|---|
| Captive backend `CaptiveHcnetCore` | `ingest/ledgerbackend/captive_core_backend.go` | `nextLedger` (0 = closed), `lastLedger` (nil = online), `blocking`, `cachedMeta`, `metaC` (capacity `readAheadBufferSize` = 2), `shutdown`, `processExit`/`processErr` under a mutex, the runner, a WaitGroup | `PrepareRange`, `IsPrepared`, `GetLedger`, `GetLatestLedgerSequence`, `Close`; internal `openOfflineReplaySubprocess`, `openOnlineReplaySubprocess`, `runFromParams` |
| Read-ahead goroutine | same file, `sendLedgerMeta` / `readLedgerMetaFromPipe` | its loop position, the item it holds, `untilSequence` | decode a frame, push it to `metaC`, stop on shutdown, on error, or after the last bounded ledger |
| Subprocess runner `hcnetCoreRunner` | `unnamed/part_012` (lines 871-1119), `stellar_core_runner_posix.go`, `_windows.go` | `cmd`, `metaPipe`, `started`, `shutdown`, `processExit` (unbuffered), a WaitGroup, a temporary directory | `catchup`, `runFrom`, `start` (launches the reaper goroutine), `close` (kill, wait, remove dir, stop reaper) |
| hcnet-core subprocess (external) | not in the repository | the next ledger it writes | writes one frame per ledger into the pipe; catchup exits after `to`; run mode streams indefinitely; may die |
| Remote captive core client | `ingest/ledgerbackend/remote_captive_core.go` | URL, HTTP client, a `cancel` func (on a value receiver) | `PrepareRange` polls the server; `GetLedger`, `IsPrepared`, `GetLatestLedgerSequence` are single RPCs; `Close` cancels the poll |
| Processor runner | `services/aurora/internal/ingest/processors/claimable_balances_processor.go` 108-428 | the change and transaction processor groups of one ledger | `RunHistoryArchiveIngestion`, `RunAllProcessorsOnLedger` (`GetLedger` of one sequence several times), protocol-version and bucket-list checks |
| State processors | same file 1-107 (claimable balances), `unnamed/part_005` (offers) | a change cache per ledger | `ProcessChange` (flushes when the cache exceeds `maxBatchSize`), `Commit` (rows-affected must be 1; offers compact rows deleted before `sequence-100`) |
| Transaction processor | `unnamed/part_004` | a batch insert builder | `ProcessTransaction`, `Commit` |
| Ingestion key-value store | `db2/history/claimable_balances_batch_insert_builder_test.go` 78-270 | `exp_ingest_last_ledger`, `exp_ingest_version`, `exp_state_invalid`, `offer_compaction_sequence` | getters (one with `FOR UPDATE`), setters |
| Ingest CLI | `services/aurora/cmd/ingest.go` | none | `verify-range`, `stress-test`, `trigger-state-rebuild`, `init-genesis-state` argument checks |

The spec also names parts that are not under `src/`: the ingestion state
machine (`System`, `VerifyRange`, live following) and the
`LedgerEntryChangeCache` fold. The rest of `src/` is HTTP handlers, resource
adapters, friendbot, the SEP-10 challenge handler, tests, the integration
harness and build files. These are request-to-response code or test code, and
`PROJECT.json` lists them as not modelled.

**How the parts interact.** The processor runner is the backend's single
caller. It asks for one ledger at a time. The captive backend starts
hcnet-core as a subprocess: `catchup to/count` for a bounded range, `run
--start-at-ledger` for an online one. The subprocess writes framed
`LedgerCloseMeta` into a pipe. `sendLedgerMeta` decodes the frames into
`metaC`, and `GetLedger` takes them out in order. A reaper goroutine waits on
the subprocess and offers its exit status on an unbuffered channel. The reader
polls that channel when a read fails.

**Hard behaviours.** Several things make this code hard to get right:

- Four concurrent actors interleave: the caller, the reader, the reaper and the
  subprocess.
- The subprocess can die at any point, and the reader can see EOF before or
  after the reaper has the exit status.
- Backpressure runs through a 2-slot buffer and the pipe.
- The session is torn down in two steps, and the second step waits for a
  goroutine that may be blocked in a read.
- Checkpoint arithmetic must agree with where the subprocess starts streaming.
- Online mode is non-blocking, with a fast-forward done in blocking mode.
- A cached last ledger outlives `Close`.
- Bounded sessions close themselves after their last ledger.

## 2. Modules

| Module | Models | Composed with |
|---|---|---|
| `CaptiveCore` (+ `MC_CaptiveCore`) | the captive backend, its reader goroutine, the runner's reaper and `close`, the subprocess, one caller | |
| `RemoteCaptiveCore` | the remote captive core HTTP client, its poll loop, `GetLedger` with its 5 s timeout, and `Close`; the server (from the spec) runs `CaptiveHcnetCore.GetLedger` on a bounded session | |
| `IngestRange` | the abstract promise of `verify-range` (spec 4.3): whole ledgers committed in order, success exactly when `to` is in | implemented by `VerifyRange` |
| `VerifyRange` | the processor runner and the transaction processor, driven by `verify-range` | `INSTANCE CaptiveCore` as its ledger backend |
| `OffersProcessor` (+ `MC_OffersProcessor`) | the offers and claimable-balances processors, their change caches, flushes, `Commit` and offer compaction, ledger after ledger with rollback and retry | |
| `IngestStore` | the key-value store cursors and the `trigger-state-rebuild` and `init-genesis-state` commands | |

Still open: an abstract `LedgerBackend` (a stream of ledgers handed out in
order) with `CaptiveCore` shown to refine it. The violation runs show that the
refinement can only hold for bounded sessions whose caller stays in range.

## 3. Module `CaptiveCore`

**State.** The backend's fields appear under their Go names:

- `nextLedger`, `lastLedger` and `cachedMeta` use 0 for closed or nil.
- `metaC` is a sequence of `metaResult` items: a ledger sequence or an error
  kind.
- `shutdown` is `"nil"`, `"open"` or `"closed"`.
- `processExit` and `processErr` keep their Go meaning.

The other processes and the caller are modelled as follows:

- `rd` is the reader goroutine: its loop position, the item it holds and
  `untilSequence`.
- `core` and `pipe` are the subprocess and its pipe.
- `reaper` is the goroutine of `hcnetCoreRunner.start`.
- `pc` and `call` are the caller's position inside a call and that call's
  arguments.
- `result` is the outcome of the last call, and `latestSeq` the value the
  last `GetLatestLedgerSequence` returned. `call.op` and `call.closed`
  record which call it was and whether the backend was closed when it began.
- `sessions` counts subprocesses started, and is bounded.
- `skipped` records whether the subprocess wrote a frame out of sequence.

A `LedgerCloseMeta` is reduced to its sequence, because the chain is
deterministic. The checkpoint frequency is the constant `Freq`, which is 64 in
the code. `63` and `2*64` in the code become `Freq-1` and `2*Freq`.

**Actions.** Each call is split at the points where the Go code blocks or
waits:

- **`Close`** is two actions. `CloseSignal` forgets the range and closes
  `shutdown`. `CloseJoin` runs `wait.Wait()`, closes `metaC` and then runs
  `hcnetCoreRunner.close`, which kills and waits the subprocess and releases
  the reaper. `call.after` records where the caller goes on after `Close`
  returns: to open a session, to return from `GetLedger`, or back to idle.
- **`PrepareRange`** works as follows:
  - `PrepareRange(r)` runs `IsPrepared`, then either returns or runs the
    first half of `Close`. `CallPrepareRange` is the free caller: it picks
    `r` from the configured ranges.
  - `OpenOffline` and `OpenOnline` are the rest of
    `open*ReplaySubprocess`: the archive checks, `runFromParams`, starting
    the subprocess, reader and reaper, and the online fast-forward through a
    blocking `GetLedger`.
  - `PrepWait` is the poll loop.
- **`GetLedger`** has these actions:
  - `GetLedger(s)` does the entry checks: the cache, closed, and behind.
    `CallGetLedger` is the free caller, which picks `s` under
    `CallerBound`. `CallGetLatestLedgerSequence` is the whole of `GetLatestLedgerSequence`.
  - Each receive outcome of the loop is its own action: `NotReady`,
    `ReceiveError`, `ReceiveUnexpected`, `ReceiveSkip` and `ReceiveFound`.
    `ReceiveFound` closes the session first when the ledger is the last of
    a bounded range.
- **`sendLedgerMeta`** has one action per branch: `ReaderStop`,
  `ReaderStartRead`, `ReaderReadFrame`, `ReaderSeesExit`, `ReaderSeesEOF`,
  `ReaderSend` and `ReaderShutdownWhileSending`.
- **The runner**: `StartSession` is `catchup`/`runFrom` starting the
  subprocess and the reaper. `RunnerStartFails` is their failure
  (`new-db` exiting with an error, or `cmd.Start` failing): `PrepareRange`
  returns "error running hcnet-core" on a backend its own `Close` has already
  closed. `RunnerClose` is `hcnetCoreRunner.close`, the last step of
  `CloseJoin`. `ReaderSeesExit` is enabled
  only when the reaper is already blocked on its unbuffered send. Otherwise
  the `default` branch is taken.
- **The subprocess (environment)**: `CoreWrite`, `CoreSkipFrame` (a fault, at
  most once per session), `CoreCatchupExit` and `CoreCrash`. The reaper's step
  is `ReaperWake`: `cmd.Wait()` returns. The subprocess streams from the first
  ledger of the checkpoint that holds its start ledger, and never from ledger
  1. This is `CoreStreamStart`, the behaviour the code's comments and tests
  rely on.

**Fairness.** `FairSpec` puts weak fairness on the caller's continuation
inside a call (`BackendStep`), on the reader, on `CoreWrite` and
`CoreCatchupExit`, and on the reaper. Goroutines are scheduled preemptively by
the Go runtime, and the subprocess runs on its own, so none of them is starved
while it stays enabled. New calls, crashes and skipped frames get no fairness:
the caller may stop calling, and faults need not happen.

## 3a. Module `RemoteCaptiveCore`

This module models the HTTP client in `remote_captive_core.go`. Two goroutines
share one `RemoteCaptiveHcnetCore` value:

- the ingestion goroutine calls `PrepareRange`, `IsPrepared`, `GetLedger` and
  `GetLatestLedgerSequence`;
- a shutdown goroutine calls `Close`.

Every method has a value receiver, so each call works on a copy of the struct.
The mutex is a pointer and is shared; the `cancel` field is not.

**State.**

- `cancel` is the field of the value the callers hold.
- `ctx` is the state of the context made by the latest `createContext`.
- `poll` is the position of `PrepareRange` in its loop. Its ghost field
  `closed` records a `Close` that lands during the poll.
- `ready` is the abstract server: whether it has the polled range prepared.
- `result` is what the last call returned.
- `get` is the ingestion goroutine's `GetLedger` request: idle, or waiting
  for the ledger `seq`, with the server's `reply` once it is served.
- `want` (a ghost) is the ledger the caller needs next. The caller asks for
  ledgers in order and repeats a request that failed.
- `orphans` are requests that the client gave up on but the server still
  holds.
- `srv` is the server's embedded backend: its `nextLedger` (0 = closed) and
  the sequence of its `cachedMeta`, over a bounded session
  `SessionFrom..SessionLast`.

**Actions.**

- `CallPrepareRange` runs `createContext`. The store `c.cancel = cancel` goes
  to the copy, so `cancel` stays unchanged.
- `PollRequest` is one POST and `decodeResponse`. `RequestOutcomes` and
  `Replies` list what it can yield: ready, not ready, a transport error from
  `client.Do` (which covers the 5 s client timeout), or a non-200 status.
- `PollWait` is the `select` on `ctx.Done()` and the timer. `WaitCases` lists
  the ready cases.
- `Close` cancels the copy's `cancel` if it is set.
- `CallIsPrepared` and `CallGetLatestLedgerSequence` are single RPCs that
  change no client state.
- `GetLedger` is split into its steps. `CallGetLedger` is `client.Get`
  sending the request, or the connection being refused. `ReceiveLedger` is
  `decodeResponse` returning the reply. `GetLedgerTimeout` is `client.Get`
  failing on the 5 s `Timeout` set in `NewRemoteCaptive`. If the server has
  not served the request yet, it becomes an orphan.
- `ServeRequest` and `ServeOrphan` are the server's ledger handler. It is
  modelled from the spec (section 4.4), because the server is not under
  `src/`. Both run `SrvGetLedger`, which translates
  `CaptiveHcnetCore.GetLedger` on a bounded session:
  - the cached ledger is served first;
  - a closed session is an error;
  - a ledger behind `nextLedger` is an error;
  - otherwise the stream moves to the ledger, caches it, and closes after
    `SessionLast`.

  The reply to an orphan goes nowhere.
- `ServerPrepared` is the server finishing the preparation.

**Fairness.** Only the poll loop is weakly fair (`FairSpec`): it runs on its
own goroutine and the timer always fires. The server need never become ready,
and `Close` need never be called.

## 3b. Module `VerifyRange`

This module composes the processor runner (`ProcessorRunner` in
`claimable_balances_processor.go`, from line 108) with the captive backend. It
uses `CC == INSTANCE CaptiveCore WITH ...` and shares the backend's variables.
The `expingest verify-range` command drives the runner. The command, the
runner and the backend's caller are one goroutine; the backend's reader,
reaper and subprocess run beside it (`BackendInternal`).

A runner step that needs a ledger starts `CC!GetLedger(seq)`. The next step
runs once the backend's caller is back at `pc = "idle"`, and it reads
`result`. The runner's actions follow the code's calls and early returns:

- `RunHistoryArchiveIngestion` handles genesis, or otherwise starts the
  protocol check.
- `CheckIfProtocolVersionSupported` returns to the caller's continuation
  (`runner.after`).
- `ValidateBucketList` and `ValidateBucketListCompare` check the bucket-list
  hash.
- `RunHistoryArchiveIngestionStream` runs `GetState`, then `StreamChanges` and
  `Commit`.
- `RunAllProcessorsOnLedger` starts the per-ledger work.
- `RunChangeProcessorOnLedger` and `...Commit` run the change group.
- `RunTransactionProcessorsOnLedger`, `...Reader` and `...Commit` run the
  transaction group.

So one ledger costs four `GetLedger` calls, as in the code. The writer of the
transaction group is `TransactionProcessor` (`unnamed/part_004`):
`TransactionProcessorCommit` is its batch `Add` and `Exec`, one write that may
fail.

Processor output is reduced to one write per group and ledger. `staged` is
the open sink transaction and `db` what is committed.

**Inputs.**

- The flags (`flags`) are chosen in `Init` from `Froms`, `Tos` and
  `--verify-state`.
- The chain's unsupported ledgers (`unsupported`) are a subset of
  `MayBeUnsupported`, fixed for a behaviour, because a ledger's protocol
  version does not change between two reads.
- Archive failures, hash mismatches and sink failures are nondeterministic
  when enabled.

**Spec-modelled parts.** `System.VerifyRange` is not under `src/`, so three
actions follow the spec (4.3): `VerifyRangePrepare`, `VerifyRangeBootstrap`
and `VerifyRangeCommit`. The command prepares `BoundedRange(from, to)`,
ingests the state at `from` (the reason `--from` must be a checkpoint or 1),
then runs all processors on each later ledger. Each ledger is its own sink
transaction, and the command stops at the first error. The state verifier run
after `--verify-state` is not modelled.

The ghost `crashed` records a `CoreCrash` step of the backend, so that a
property can tell a backend error caused by a crash from one that is not.

**Fairness.** `FairSpec` makes the command/runner goroutine weakly fair. It
also adds the backend's own fairness conditions, each conjoined with the
runner's variables being unchanged. Crashes and faults get no fairness.

## 3c. Module `OffersProcessor`

This module models two processors of the change group: `OffersProcessor`
(`unnamed/part_005`) and `ClaimableBalancesProcessor` (the top of
`claimable_balances_processor.go`). They run ledger after ledger.

**State.**

- `chain` is the state of each entry on the chain: absent, live or removed.
  An entry is an id, and the chain never reuses one.
- `rows` holds the committed tables: a row's status (live, deleted, absent)
  and its `last_modified_ledger`. `txRows` is what the open sink transaction
  sees.
- `cache` holds each processor's `LedgerEntryChangeCache`. A change is
  `[pre, post]`, the presence of the entry before and after it.
- `sequence`, `ledger`, `pos` and `pc` track the ledger being ingested and
  its change stream.
- The ghosts `createdAt`, `removedAt` and `err` record when each entry was
  created and removed, and the last error.

**Operations.**

- `AddChange` folds changes as the spec's cache does: it keeps the `pre` of
  the first change and the `post` of the last, and drops a net no-op.
- `OffersProcessChange` and `ClaimableBalancesProcessChange` add the change.
  When the cache holds more than `maxBatchSize` entries they flush it and
  reset it.
- `ApplyChanges` is the flush. A removal or update without a row is the
  rows-affected state error. An insert over an existing row is an exec
  error. Offers are soft-deleted (`OffersFlushCache`) and claimable balances
  are deleted (`ClaimableBalancesCommit`).
- `OffersCommit` flushes the cache. If `sequence > offerCompactionWindow`, it
  then runs `CompactOffers(sequence - offerCompactionWindow)` with uint32
  subtraction (`UIntSub`, `SeqBits` wide).

**Environment.** `BeginLedger` picks one of the change streams that are
consistent with the chain, from the `RECURSIVE` operator `LedgerStreams`.
`ProcessChange` feeds the stream to the processors, and `CommitLedger`
commits both. The transaction and the group are not under `src/` and follow
spec sections 4.2 and 4.3: the ledger commits if both processors commit, and
a failure rolls back. `RetryLedger` then replays the same ledger. With
`SinkMayFail`, any database call may fail.

## 3d. Module `IngestStore`

This module models the key-value cursors of `db2/history`
(`claimable_balances_batch_insert_builder_test.go`, from line 88) and the two
`expingest` commands that touch only them.

**State.**

- `store` maps each key to its stored value or to no row. A decimal string
  is modelled by the number or boolean it spells.
- `written` (ghost) holds the value each cursor was last set to.
- `read` (ghost) holds the last read: its key, value and error. A write
  clears it.
- `cmd` holds the outcome of the last command.

**Operations.**

- `Upsert` and `updateValueInStore` are the setter. `Get`/`Decode` are
  `getValueFromStore` plus the getter's conversion. A parser is modelled by
  the range it accepts (`Uint32`, `Int32`, `BOOLEAN`), at width `Bits`
  (32 in the code).
- There is one action per getter and setter.
- `IngestTriggerStateRebuildCmd` resets the ingest version, and reports
  fatal if that write fails.
- `IngestInitGenesisStateCmd` refuses a non-empty database.
- With `StoreMayFail`, any query may fail.

## 4. Runs

| Run | Config | Expect | Checks |
|---|---|---|---|
| `captive_safety` | `MC_CaptiveCore_safety.cfg` | pass | `TypeOK`, `StreamAligned`, `FailedCallLeavesClosed` |
| `captive_liveness` | `MC_CaptiveCore_liveness.cfg` | pass | `CallsReturn` |
| `prepare_exit` | `MC_CaptiveCore_exit.cfg` | violation | `PrepareReportsExit` |
| `prepared_range_hang` | `MC_CaptiveCore_nested.cfg` | violation | `CallsReturn` |
| `close_stalled_core` | `MC_CaptiveCore_stall.cfg` | violation | `CallsReturn` |
| `closed_cached_ledger` | `MC_CaptiveCore_closedcache.cfg` | violation | `ClosedGetLedgerFails` |
| `latest_counts_error` | `MC_CaptiveCore_latest.cfg` | violation | `LatestIsAvailable` |
| `remote_poll` | `RemoteCaptiveCore_poll.cfg` | pass | `RetryServesLedger` |
| `remote_close_cancel` | `RemoteCaptiveCore_close.cfg` | violation | `CloseCancelsPoll` |
| `verify_range` | `VerifyRange.cfg` | pass | `TypeOK`, `UnsupportedNeverIngested`, `IngestsWholeLedgers`, `VerifyRangeEnds` |
| `offers_compaction` | `MC_OffersProcessor.cfg` | pass | `ProjectionMatchesChain`, `CompactionKeepsWindow` |
| `offer_compaction_sequence_parse` | `IngestStore_compaction.cfg` | violation | `OfferCompactionSequenceReadsBack` |

The `MC_CaptiveCore` runs share these bounds: `Freq = 4`, so the checkpoints are 3, 7, 11 and
so on, and the archive's latest checkpoint is 7. These are the smallest values
where three things all happen: a range inside the first checkpoint (rounded
down to 2), a range starting mid-checkpoint (rounded to 4), and `to` beyond the
archive (clamped). With `PipeCap = 1` and `ReadAheadBufferSize = 2`, both the
pipe and the buffer fill, so backpressure happens. `MaxSessions = 2` allows a
session to be closed and a second one opened on the same backend, which is
where stale state would show.

- **`captive_safety`** covers bounded ranges {[5,7], [3,8], [9,9]} and online
  starts {1, 2, 7, 12, 16}. Together these reach every error branch of the
  two open functions. The caller may request {5, 7}. That is enough to reach
  the cached, behind, closed and auto-close paths of `GetLedger`. Crashes and
  one skipped frame are allowed. The run reaches 8M states in about 70 s. It checks two
  things:
  - The backend's expected ledger always matches the first frame of the
    subprocess (`StreamAligned`).
  - A `GetLedger` that fails on the stream returns only once the session is
    completely torn down (`FailedCallLeavesClosed`). The failures are a read
    error, an exit reported by the reader, or an unexpected ledger. Torn down
    means `nextLedger` is reset, the reader has ended, the subprocess has been
    killed and reaped, and `shutdown` is nil. The same holds for a
    `PrepareRange` whose `catchup` or `runFrom` fails. The check covers a
    crash with ledgers still buffered and a reader blocked on a full `metaC`.
    The mutant `MutGetLedgerReceiveErrorNoClose` returns the read error
    without the `c.Close()` that the code's `break loop` leads to, and it
    breaks the property. A `PrepareRange` that returns an exit error from its
    wait is not included, because it leaves the session open (see
    `prepare_exit`).

  This run sets `CHECK_DEADLOCK FALSE`. Its caller may ask for a ledger past
  the range, and the system then really does stop. That stop is the subject
  of `prepared_range_hang` and `close_stalled_core`.
- **`captive_liveness`** restricts the caller to ledgers inside the backend's
  range (`CallerBound = "backend"`). Under that restriction, every call
  returns, crashes and skipped frames included. An idle caller can always
  call `Close`, so every deadlock leaves a call unreturned and violates
  `CallsReturn`. The run therefore sets `CHECK_DEADLOCK FALSE`, and its
  mutant fails `CallsReturn` itself.
- **`prepare_exit`**: the subprocess dies before its first frame.
  `PrepareReportsExit` states spec 4.1 step 7, scenarios 2 and 3, and
  section 7: the exit is reported, and the backend is closed. The code
  breaks it in two ways.
  - The reader reads EOF while the reaper is still in `cmd.Wait()`, so
    `PrepareRange` returns nil with an error at the head of the buffer. The
    unit tests pass only because they use a buffered exit channel. This is
    the shortest trace, and the one TLC prints.
  - When the reader does see the exit, `PrepareRange` returns the exit error
    but leaves `nextLedger` set: nothing closes the backend. A retried
    `PrepareRange` of the same range returns nil from the `IsPrepared`
    short-circuit, on a dead subprocess. With the first conjunct removed,
    the same configuration yields this trace in 10 steps.
- **`prepared_range_hang`**: the caller prepares [4,5] and then [4,7], and
  `IsPrepared` says yes. Alternatively it prepares [5,9], which is clamped to
  7. It then asks for a ledger of its own range that the session does not
  hold, and blocks forever.
- **`closed_cached_ledger`**: `GetLedger(7)` ends the bounded session [5,7],
  which closes itself. A second `GetLedger(7)` is served from `cachedMeta`
  instead of failing with "session is closed". The spec (section 8) says
  every `get_ledger` after `close()` fails. The code's
  `TestCaptiveGetLedger` asserts the opposite.
- **`latest_counts_error`**: the online subprocess dies and the reader
  buffers the read error. `GetLatestLedgerSequence` returns
  `nextLedger - 1 + len(metaC)` and counts the error as a ledger.
- **`close_stalled_core`**: an online session whose subprocess stops writing
  but stays alive. `Close` waits on the reader, which is blocked in a pipe
  read, before it kills the subprocess. The spec has close() kill the child
  first.

- **`remote_poll`**: requests may fail or time out. A repeated `GetLedger`
  is never answered "behind the stream" or "session is closed"
  (`RetryServesLedger`). This is about the 5 s client timeout (`remote_captive_core.go`
  line 96). The spec (section 5) says there is no implicit timeout on
  `get_ledger`. A request the client timed out on may still be served. When
  that happens, the server's stream moves past the ledger, and at
  `SessionLast` it closes the session. The caller's repeat then succeeds
  only because `GetLedger` checks `cachedMeta` before it checks whether the
  session is closed or the ledger is behind. The mutant that drops that check
  fails the property. The session is 1..3, so an orphan can be served both
  before and after the caller has moved on, and the last ledger closes the
  session. The run reaches about 3,400 states.
- **`remote_close_cancel`**: `Close` lands during a poll, and the server never
  gets ready. The poll never ends, because `cancel` is nil on the callers'
  value. The comment on `Close` and spec 4.4 both say `Close` cancels the
  poll.
- **`verify_range`** uses these inputs:
  - `--from` in {1, 5, 7}: 1 takes the genesis branch, 5 is not a
    checkpoint, 7 is.
  - `--to` in {9, 11}, and `--verify-state` either way, which reaches both
    flag errors.
  - Ledger 9 may be of an unsupported protocol.
  - Subprocess crashes, start failures, and archive, hash and sink failures
    are all enabled.

  `ArchiveLatest = 11` is a checkpoint, so the range [7, 11] is not clamped.
  The run reaches 106k states in about 10 s, under `FairSpec`. It checks
  three things:
  - The sink only ever holds the state at `from`, followed by whole ledgers
    (change group and transaction group) in order. After success it holds
    the whole range. This is checked as a refinement
    (`IngestsWholeLedgers == IR!Spec`). `IR` is an `INSTANCE IngestRange`
    with this mapping:
    - `from` and `to` come from the flags;
    - `sink` is `db`;
    - `outcome` is "running" until the command is done, then "ok" or
      "failed" (`Outcome`).

    Every command step is therefore either a stutter, one whole ledger
    committed, or the run stopping. Nothing is committed after the end, and
    the run reports success exactly when `to` is in.
    `RunAllProcessorsOnLedger` flushes the change group while the
    transaction group can still fail, so this rests on every error reaching
    the command's rollback.
  - No ledger of an unsupported protocol is committed
    (`UnsupportedNeverIngested`).
  - `verify-range` always ends, and it fails only for a reason of its own
    (`VerifyRangeEnds`). Those reasons are a flag error, an unsupported
    protocol, an archive, hash or sink fault, or a failure of the subprocess.
    The runner asks the backend for every ledger four times. After
    `GetLedger(11)` has closed the bounded session, the later three calls
    are served from `cachedMeta`. The mutant that checks "closed" before the
    cache (`MutGetLedgerClosedFirst`) fails this property at the last
    ledger, with no crash involved. So the runner depends on the very
    behaviour that `closed_cached_ledger` shows diverging from spec section
    8: a backend that followed the spec there would break `verify-range`.

  `CHECK_DEADLOCK FALSE` is set here because `verify-range` exits when it is
  done.
- **`offers_compaction`** uses two offers (symmetric) and one claimable
  balance, over six ledgers of at most two changes each.
  - `MaxBatchSize = 1`, so a cache of two entries is flushed mid-ledger.
  - With a window of 3, compaction starts at ledger 4 and reaches the
    deletions of ledgers 1 to 3, the last one at the boundary.
  - Sequences are 4 bits wide, so a cutoff taken below the window would
    wrap.
  - Database failures, and the rollback and retry that follow them, are
    enabled.

  The run reaches 1.37M states in about 25 s. It checks two things:
  - After every committed ledger, the live rows are exactly the live
    entries, and no state error or failed insert ever happens
    (`ProjectionMatchesChain`). This depends on each flush resetting its
    cache.
  - Every offer deleted within the window still has its row, marked at the
    removing ledger (`CompactionKeepsWindow`). This depends on the
    `sequence > offerCompactionWindow` guard.
- **`offer_compaction_sequence_parse`**: `UpdateOfferCompactionSequence`
  writes a uint32 with `FormatUint`, and `GetOfferCompactionSequence` reads
  it back with `ParseInt(..., 32)`. With `Bits = 4` and sequences
  {0, 1, 7, 8, 15}, the value 8 (2^31 in the code) fails to parse. The spec
  (section 6) gives the cursor as a uint32.

## 5. Not modelled, and why

- **The runner factory, temporary-directory creation and removal, and config
  generation**: file-system I/O. A failure returns an error before any state
  the model keeps changes. The failure of `new-db` or `cmd.Start` is
  modelled (`RunnerStartFails`).
- **The Windows named-pipe variant**: it differs only in how the pipe is
  created.
- **The decoding of XDR frames**: the model reduces a frame to its sequence.
- **The 5-second debug ticker in the reader**: it only logs.
- **The `shutdown` case of the `PrepareRange` poll**: unreachable with a
  single caller, because only that caller closes `shutdown`.
- **The reuse branch of `openOnlineReplaySubprocess`**: unreachable from
  `PrepareRange`, because it is exactly the condition under which
  `IsPrepared` already returned true.
- **The remote captive core server beyond `GetLedger`**: not under `src/`.
  Its `GetLedger` handler is modelled from the spec over the backend's own
  `GetLedger`. Its `PrepareRange` handler is reduced to the `ready` flag.
- **The other processors of the groups** (accounts, trustlines, effects,
  trades, ...): not under `src/`. `VerifyRange` reduces each group to one
  write per ledger, and `OffersProcessor` models the two that are under
  `src/`.
- **`System`'s state machine, the state verifier, and `stress-test`**: not
  under `src/`. `stress-test` only checks its flags and calls
  `System.StressTest`. `verify-range`'s loop is modelled from the spec.
- **HTTP handlers, adapters, friendbot, webauth, the history mocks and
  signer queries, the tests and build files**: no state or concurrency to
  check.
