----------------------------- MODULE CaptiveCore -----------------------------
(***************************************************************************)
(* CaptiveHcnetCore (ingest/ledgerbackend/captive_core_backend.go) and the *)
(* processes it drives:                                                    *)
(*   - the caller thread, which calls PrepareRange, GetLedger and Close    *)
(*     one at a time (the backend has a single consumer);                  *)
(*   - the read-ahead goroutine sendLedgerMeta, which decodes frames from   *)
(*     the meta pipe into the channel metaC of capacity                     *)
(*     readAheadBufferSize;                                                 *)
(*   - the reaper goroutine of hcnetCoreRunner.start, which waits for the   *)
(*     subprocess and offers its exit status on the UNBUFFERED channel      *)
(*     processExit;                                                         *)
(*   - the hcnet-core subprocess, which writes one frame per ledger into    *)
(*     the pipe, in catchup mode up to `to` and then exits, in run mode     *)
(*     until the network stops, and may die at any moment.                  *)
(* A LedgerCloseMeta is abstracted to its ledger sequence: the chain is     *)
(* deterministic, so two frames with the same sequence carry the same meta. *)
(* Checkpoints are every Freq ledgers (64 in the code; the literals 63 and  *)
(* 2*64 of the code are Freq-1 and 2*Freq here).                            *)
(***************************************************************************)
EXTENDS Naturals, Sequences, FiniteSets

CONSTANTS
    Freq,                 \* ledgers per checkpoint (ledgersPerCheckpoint)
    ArchiveLatest,        \* CurrentLedger of the root HAS: the latest checkpoint
    NetworkHead,          \* last ledger the network closes within the model
    PipeCap,              \* frames the OS pipe and its bufio reader can hold
    ReadAheadBufferSize,  \* capacity of metaC
    MaxSessions,          \* bound on the subprocesses started in a behaviour
    BoundedRanges,        \* <<from, to>> pairs the caller may prepare as BoundedRange
    UnboundedFroms,       \* `from` values the caller may prepare as UnboundedRange
    Requests,             \* sequences the caller may pass to GetLedger
    CoreMayCrash,         \* may the subprocess exit at any moment?
    CoreMaySkip,          \* may the subprocess emit a frame out of sequence (once)?
    CallerBound           \* which GetLedger sequences the caller asks for (see CallerAllows)

ASSUME Freq >= 4 /\ IsFiniteSet(BoundedRanges) /\ IsFiniteSet(Requests)
ASSUME ReadAheadBufferSize >= 1 /\ PipeCap >= 1 /\ MaxSessions >= 1
ASSUME (ArchiveLatest + 1) % Freq = 0
ASSUME CallerBound \in {"any", "backend", "prepared"}

LedgerMax == ArchiveLatest + 2 * Freq + 1
Ledgers   == 1..LedgerMax
Nil       == 0            \* nil pointer / closed session (nextLedger = 0)

Range(b, f, t) == [bounded |-> b, from |-> f, to |-> t]
Ranges == {Range(TRUE, r[1], r[2]) : r \in BoundedRanges}
            \cup {Range(FALSE, f, 0) : f \in UnboundedFroms}

\* metaResult: a decoded meta, or an error of the pipe read.  "exit" and
\* "exit_clean" are the two process-exit errors, "eof" any other read error.
ItemErrs == {"none", "eof", "exit", "exit_clean"}
Item(s, e) == [seq |-> s, err |-> e]
NoItem == Item(Nil, "none")

Results == {"none", "ok", "opened", "found", "absent", "err_closed", "err_behind",
            "err_unexpected", "err_eof", "err_exit", "err_exit_clean", "err_ahead",
            "err_toofar", "err_ledger1", "err_header", "err_run", "latest"}

VARIABLES
    \* fields of CaptiveHcnetCore
    nextLedger, lastLedger, blocking, cachedMeta, metaC, shutdown,
    processExit, processErr,
    rd,        \* the sendLedgerMeta goroutine: [pc, item, until]
    core,      \* the hcnet-core subprocess: [state, mode, next, last, exitErr]
    pipe,      \* frames written by the subprocess and not yet decoded
    reaper,    \* the goroutine blocked in cmd.Wait / on `processExit <- err`
    pc,        \* the caller thread
    call,      \* arguments of the call in progress: [rng, seq, ff, after, err]
    result,    \* outcome of the last call that returned
    latestSeq, \* value returned by the last GetLatestLedgerSequence
    sessions,  \* subprocesses started so far
    skipped    \* the current subprocess emitted a frame out of sequence

backendVars == <<nextLedger, lastLedger, blocking, cachedMeta, metaC, shutdown,
                 processExit, processErr>>
procVars    == <<rd, core, pipe, reaper>>
vars        == <<backendVars, procVars, pc, call, result, latestSeq, sessions, skipped>>

NoCore     == [state |-> "none", mode |-> "catchup", next |-> Nil, last |-> Nil, exitErr |-> "nil"]
IdleReader == [pc |-> "idle", item |-> NoItem, until |-> Nil]

-----------------------------------------------------------------------------
(* Ledger arithmetic of the backend.                                       *)

MinOf(a, b) == IF a <= b THEN a ELSE b
MaxOf(a, b) == IF a >= b THEN a ELSE b

\* historyarchive.IsCheckpoint and PrevCheckpoint
IsCheckpoint(s)   == (s + 1) % Freq = 0
PrevCheckpoint(s) == (s \div Freq) * Freq - 1

\* Fault variant: the start ledger is used unrounded.
MutRoundDownUnrounded(ledger) == ledger

RoundDownToFirstReplayAfterCheckpointStart(ledger) ==
    LET v == (ledger \div Freq) * Freq
    IN  IF v = 0 THEN 2 ELSE v

\* runFromParams: the ledger to pass to `run --start-at-ledger`, the first
\* ledger the stream will carry, and the error if any.  The ledger header
\* fetched for the hash must be in the archive.
RunFromParams(from) ==
    LET f  == IF from <= Freq - 1 THEN 3
              ELSE IF IsCheckpoint(from) THEN from ELSE PrevCheckpoint(from)
        nl == IF from <= Freq - 1 THEN 2 ELSE MaxOf(2, f - (Freq - 1))
    IN  [err     |-> IF from = 1 THEN "err_ledger1"
                     ELSE IF f > ArchiveLatest THEN "err_header" ELSE "none",
         runFrom |-> f - 1,
         next    |-> nl]

IsPrepared(r) ==
    /\ nextLedger # Nil
    /\ IF lastLedger = Nil
         THEN nextLedger <= r.from
         ELSE r.bounded /\ nextLedger <= r.from /\ nextLedger <= lastLedger

(* Environment: hcnet-core streams from the first ledger of the checkpoint  *)
(* containing the ledger it starts at, and never ledger 1.                  *)
CoreStreamStart(l) == IF l < Freq THEN 2 ELSE l - (l % Freq)

\* The caller's discipline for GetLedger: any sequence; only ledgers the
\* backend's bounded range contains; or only ledgers of the range it prepared.
CallerAllows(s) ==
    CASE CallerBound = "any"     -> TRUE
      [] CallerBound = "backend" -> lastLedger = Nil \/ s <= lastLedger
      [] CallerBound = "prepared" -> ~call.rng.bounded \/ s <= call.rng.to

-----------------------------------------------------------------------------
Init ==
    /\ nextLedger = Nil /\ lastLedger = Nil /\ blocking = FALSE
    /\ cachedMeta = Nil /\ metaC = <<>> /\ shutdown = "nil"
    /\ processExit = FALSE /\ processErr = "nil"
    /\ rd = IdleReader /\ core = NoCore /\ pipe = <<>> /\ reaper = "none"
    /\ pc = "idle"
    /\ call = [op |-> "none", closed |-> FALSE, rng |-> Range(TRUE, Nil, Nil),
               seq |-> Nil, ff |-> FALSE, after |-> "return", err |-> "none"]
    /\ result = "none" /\ latestSeq = Nil /\ sessions = 0 /\ skipped = FALSE

-----------------------------------------------------------------------------
(* Close, first half: forget the range and signal shutdown.  The second    *)
(* half (CloseJoin) has to wait for the read-ahead goroutine.  `after` is   *)
(* where the caller continues once Close has returned.                      *)
CloseSignal(c, after, err) ==
    /\ nextLedger' = Nil
    /\ lastLedger' = Nil
    /\ shutdown' = IF shutdown = "open" THEN "closed" ELSE shutdown
    /\ pc' = "close_join"
    /\ call' = [c EXCEPT !.after = after, !.err = err]

\* Return from GetLedger; inside PrepareRange's fast-forward, restore the
\* non-blocking mode and go on with PrepareRange.
GetLedgerReturn(res) ==
    IF call.ff
      THEN /\ blocking' = FALSE
           /\ pc' = IF res = "found" THEN "prep_wait" ELSE "idle"
           /\ result' = IF res = "found" THEN result ELSE res
      ELSE /\ pc' = "idle" /\ result' = res /\ UNCHANGED blocking

(* hcnetCoreRunner.close(): kill the subprocess if it is alive and wait    *)
(* for it, remove the temporary directory, and if the runner was started    *)
(* close its shutdown channel (releasing a reaper blocked on processExit)   *)
(* and wait for the reaper.                                                 *)
RunnerClose == core' = NoCore /\ pipe' = <<>> /\ reaper' = "none"

(* Close, second half: c.wait.Wait(), close(metaC), then                  *)
(* hcnetCoreRunner.close().                                                 *)
CloseJoin ==
    /\ pc = "close_join"
    /\ shutdown = "nil" \/ rd.pc = "done"
    /\ rd' = IdleReader /\ metaC' = <<>> /\ shutdown' = "nil"
    /\ RunnerClose
    /\ CASE call.after = "return" ->
              pc' = "idle" /\ result' = "ok" /\ UNCHANGED blocking
         [] call.after \in {"open_offline", "open_online"} ->
              pc' = call.after /\ UNCHANGED <<result, blocking>>
         [] call.after = "gl_found" -> GetLedgerReturn("found")
         [] call.after = "gl_error" -> GetLedgerReturn(call.err)
    /\ UNCHANGED <<nextLedger, lastLedger, cachedMeta, processExit, processErr,
                   call, latestSeq, sessions, skipped>>

CallClose ==
    /\ pc = "idle"
    /\ CloseSignal([call EXCEPT !.op = "close", !.closed = (nextLedger = Nil)], "return", "none")
    /\ UNCHANGED <<blocking, cachedMeta, metaC, processExit, processErr,
                   procVars, result, latestSeq, sessions, skipped>>

-----------------------------------------------------------------------------
(* PrepareRange: return at once if IsPrepared, else Close the current       *)
(* session and open a new one.                                             *)
PrepareRange(r) ==
    /\ pc = "idle"
    /\ IF IsPrepared(r)
         THEN /\ result' = "ok"
              /\ call' = [call EXCEPT !.op = "prepare", !.closed = (nextLedger = Nil), !.rng = r]
              /\ UNCHANGED <<backendVars, procVars, pc, latestSeq, sessions, skipped>>
         ELSE /\ sessions < MaxSessions
              /\ CloseSignal([call EXCEPT !.op = "prepare", !.closed = (nextLedger = Nil), !.rng = r],
                             IF r.bounded THEN "open_offline" ELSE "open_online", "none")
              /\ UNCHANGED <<blocking, cachedMeta, metaC, processExit, processErr,
                             procVars, result, latestSeq, sessions, skipped>>

CallPrepareRange == \E r \in Ranges : PrepareRange(r)

\* Start the subprocess and the read-ahead goroutine for a new session.
StartSession(mode, start, last, next, lastL, until) ==
    /\ core' = [state |-> "running", mode |-> mode, next |-> CoreStreamStart(start),
                last |-> last, exitErr |-> "nil"]
    /\ pipe' = <<>> /\ reaper' = "wait"
    /\ nextLedger' = next /\ lastLedger' = lastL
    /\ processExit' = FALSE /\ processErr' = "nil"
    /\ metaC' = <<>> /\ shutdown' = "open"
    /\ rd' = [pc |-> "loop", item |-> NoItem, until |-> until]
    /\ sessions' = sessions + 1 /\ skipped' = FALSE

(* hcnetCoreRunner.catchup or runFrom fails: `hcnet-core new-db` exits   *)
(* with an error, or cmd.Start fails. Close has already ended the old     *)
(* session, so the backend is left closed and PrepareRange returns "error  *)
(* running hcnet-core"; the runner, never started, is closed by the next  *)
(* Close. A failure of the binary, so it comes with CoreMayCrash.          *)
RunnerStartFails ==
    /\ CoreMayCrash
    /\ pc' = "idle" /\ result' = "err_run"
    /\ UNCHANGED <<backendVars, procVars, sessions, skipped>>

\* openOfflineReplaySubprocess after its Close: check the archive, clamp
\* `to`, run `catchup to/count`.
OpenOffline ==
    /\ pc = "open_offline"
    /\ LET from == call.rng.from
           to   == MinOf(call.rng.to, ArchiveLatest)
       IN  IF from > ArchiveLatest
             THEN /\ pc' = "idle" /\ result' = "err_ahead"
                  /\ UNCHANGED <<backendVars, procVars, latestSeq, sessions, skipped>>
             ELSE \/ /\ StartSession("catchup", from, to,
                                     RoundDownToFirstReplayAfterCheckpointStart(from), to, to)
                     /\ blocking' = TRUE
                     /\ pc' = "prep_wait"
                     /\ UNCHANGED result
                  \/ RunnerStartFails
    /\ UNCHANGED <<cachedMeta, call, latestSeq>>

\* openOnlineReplaySubprocess after its Close: check the distance to the
\* archive, compute runFromParams, run `run --start-at-ledger`, and
\* fast-forward with a blocking GetLedger(from) when the stream starts
\* earlier than `from`.  (Its reuse branch is never taken from PrepareRange:
\* it is the condition under which IsPrepared already returned true.)
OpenOnline ==
    /\ pc = "open_online"
    /\ LET from == call.rng.from
           p    == RunFromParams(from)
       IN  CASE from > ArchiveLatest + 2 * Freq ->
                  /\ pc' = "idle" /\ result' = "err_toofar"
                  /\ UNCHANGED <<backendVars, procVars, call, latestSeq, sessions, skipped>>
             [] p.err # "none" ->
                  /\ pc' = "idle" /\ result' = p.err
                  /\ UNCHANGED <<backendVars, procVars, call, latestSeq, sessions, skipped>>
             [] OTHER ->
                  \/ /\ StartSession("run", p.runFrom, NetworkHead, p.next, Nil, Nil)
                     /\ UNCHANGED <<cachedMeta, result, latestSeq>>
                     /\ IF p.next < from /\ ~(cachedMeta # Nil /\ cachedMeta = from)
                          THEN /\ blocking' = TRUE /\ pc' = "gl_loop"
                               /\ call' = [call EXCEPT !.seq = from, !.ff = TRUE]
                          ELSE /\ blocking' = FALSE /\ pc' = "prep_wait"
                               /\ UNCHANGED call
                  \/ RunnerStartFails /\ UNCHANGED <<call, latestSeq>>

\* PrepareRange's wait loop: poll until the buffer holds an item, then report
\* the process exit if the reader recorded one.
PrepWait ==
    /\ pc = "prep_wait"
    /\ Len(metaC) > 0
    /\ pc' = "idle"
    /\ result' = IF ~processExit THEN "opened"
                 ELSE IF processErr = "nil" THEN "err_exit_clean" ELSE "err_exit"
    /\ UNCHANGED <<backendVars, procVars, call, latestSeq, sessions, skipped>>

-----------------------------------------------------------------------------
(* GetLedger                                                               *)
\* Fault variant: the closed check comes before the cached-ledger check.
MutGetLedgerClosedFirst(s) ==
    /\ pc = "idle"
    /\ call' = [call EXCEPT !.op = "get", !.closed = (nextLedger = Nil), !.seq = s, !.ff = FALSE]
    /\ CASE nextLedger = Nil ->
              result' = "err_closed" /\ UNCHANGED pc
         [] cachedMeta # Nil /\ s = cachedMeta ->
              result' = "found" /\ UNCHANGED pc
         [] s < nextLedger ->
              result' = "err_behind" /\ UNCHANGED pc
         [] OTHER ->
              pc' = "gl_loop" /\ UNCHANGED result
    /\ UNCHANGED <<backendVars, procVars, latestSeq, sessions, skipped>>

\* GetLedger's checks: the cached ledger, a closed session, a sequence
\* behind the stream; otherwise read the buffer (gl_loop).
GetLedger(s) ==
    /\ pc = "idle"
    /\ call' = [call EXCEPT !.op = "get", !.closed = (nextLedger = Nil), !.seq = s, !.ff = FALSE]
    /\ CASE cachedMeta # Nil /\ s = cachedMeta ->
              result' = "found" /\ UNCHANGED pc
         [] nextLedger = Nil ->
              result' = "err_closed" /\ UNCHANGED pc
         [] s < nextLedger ->
              result' = "err_behind" /\ UNCHANGED pc
         [] OTHER ->
              pc' = "gl_loop" /\ UNCHANGED result
    /\ UNCHANGED <<backendVars, procVars, latestSeq, sessions, skipped>>

CallGetLedger == \E s \in Requests : CallerAllows(s) /\ GetLedger(s)

\* Non-blocking mode and an empty buffer: return (false, nil).
GetLedgerNotReady ==
    /\ pc = "gl_loop" /\ ~blocking /\ metaC = <<>>
    /\ GetLedgerReturn("absent")
    /\ UNCHANGED <<nextLedger, lastLedger, cachedMeta, metaC, shutdown, processExit,
                   processErr, procVars, call, latestSeq, sessions, skipped>>

\* Fault variant: the read error is returned at once (`return false, ...,
\* metaResult.err`) instead of breaking out of the loop to c.Close().
MutGetLedgerReceiveErrorNoClose ==
    /\ pc = "gl_loop" /\ metaC # <<>> /\ Head(metaC).err # "none"
    /\ metaC' = Tail(metaC)
    /\ GetLedgerReturn("err_" \o Head(metaC).err)
    /\ UNCHANGED <<nextLedger, lastLedger, cachedMeta, shutdown, processExit,
                   processErr, procVars, call, latestSeq, sessions, skipped>>

\* A read error from the buffer: Close and return it.
GetLedgerReceiveError ==
    /\ pc = "gl_loop" /\ metaC # <<>> /\ Head(metaC).err # "none"
    /\ metaC' = Tail(metaC)
    /\ CloseSignal(call, "gl_error", "err_" \o Head(metaC).err)
    /\ UNCHANGED <<blocking, cachedMeta, processExit, processErr, procVars,
                   result, latestSeq, sessions, skipped>>

\* A ledger other than nextLedger: Close and return "unexpected ledger".
GetLedgerReceiveUnexpected ==
    /\ pc = "gl_loop" /\ metaC # <<>> /\ Head(metaC).err = "none"
    /\ Head(metaC).seq # nextLedger
    /\ metaC' = Tail(metaC)
    /\ CloseSignal(call, "gl_error", "err_unexpected")
    /\ UNCHANGED <<blocking, cachedMeta, processExit, processErr, procVars,
                   result, latestSeq, sessions, skipped>>

\* nextLedger, but not yet the requested one: skip it.
GetLedgerReceiveSkip ==
    /\ pc = "gl_loop" /\ metaC # <<>> /\ Head(metaC).err = "none"
    /\ Head(metaC).seq = nextLedger
    /\ Head(metaC).seq # call.seq
    /\ metaC' = Tail(metaC)
    /\ nextLedger' = nextLedger + 1
    /\ UNCHANGED <<lastLedger, blocking, cachedMeta, shutdown, processExit, processErr,
                   procVars, pc, call, result, latestSeq, sessions, skipped>>

\* The requested ledger: cache it; Close first if it ends the bounded range.
GetLedgerReceiveFound ==
    /\ pc = "gl_loop" /\ metaC # <<>> /\ Head(metaC).err = "none"
    /\ Head(metaC).seq = nextLedger
    /\ Head(metaC).seq = call.seq
    /\ metaC' = Tail(metaC)
    /\ cachedMeta' = Head(metaC).seq
    /\ IF lastLedger # Nil /\ lastLedger = Head(metaC).seq
         THEN /\ CloseSignal(call, "gl_found", "none")
              /\ UNCHANGED <<blocking, result>>
         ELSE /\ nextLedger' = nextLedger + 1
              /\ GetLedgerReturn("found")
              /\ UNCHANGED <<lastLedger, shutdown, call>>
    /\ UNCHANGED <<processExit, processErr, procVars, latestSeq, sessions, skipped>>

\* GetLatestLedgerSequence: online, the ledgers consumed plus those buffered
\* (len(c.metaC)); bounded, the end of the range.
CallGetLatestLedgerSequence ==
    /\ pc = "idle"
    /\ call' = [call EXCEPT !.op = "latest", !.closed = (nextLedger = Nil)]
    /\ IF nextLedger = Nil
         THEN result' = "err_closed" /\ UNCHANGED latestSeq
         ELSE /\ result' = "latest"
              /\ latestSeq' = IF lastLedger = Nil THEN nextLedger - 1 + Len(metaC)
                                                 ELSE lastLedger
    /\ UNCHANGED <<backendVars, procVars, pc, sessions, skipped>>

-----------------------------------------------------------------------------
(* sendLedgerMeta                                                          *)

\* Top of the loop: `case <-c.shutdown: return`, else go and read.
ReaderStop ==
    /\ rd.pc = "loop" /\ shutdown = "closed"
    /\ rd' = [rd EXCEPT !.pc = "done"]
    /\ UNCHANGED <<backendVars, core, pipe, reaper, pc, call, result, latestSeq, sessions, skipped>>

ReaderStartRead ==
    /\ rd.pc = "loop" /\ shutdown # "closed"
    /\ rd' = [rd EXCEPT !.pc = "read"]
    /\ UNCHANGED <<backendVars, core, pipe, reaper, pc, call, result, latestSeq, sessions, skipped>>

\* readLedgerMetaFromPipe decodes one frame (blocking until one is there).
ReaderReadFrame ==
    /\ rd.pc = "read" /\ pipe # <<>>
    /\ rd' = [rd EXCEPT !.pc = "send", !.item = Item(Head(pipe), "none")]
    /\ pipe' = Tail(pipe)
    /\ UNCHANGED <<backendVars, core, reaper, pc, call, result, latestSeq, sessions, skipped>>

\* The read fails (EOF: the subprocess is gone) and the non-blocking receive
\* from processExit succeeds: the reaper was already blocked on its send.
ReaderSeesExit ==
    /\ rd.pc = "read" /\ pipe = <<>> /\ core.state = "exited"
    /\ reaper = "send"
    /\ processExit' = TRUE
    /\ processErr' = core.exitErr
    /\ reaper' = "done"
    /\ rd' = [rd EXCEPT !.pc = "send",
                        !.item = Item(Nil, IF core.exitErr = "nil" THEN "exit_clean" ELSE "exit")]
    /\ UNCHANGED <<nextLedger, lastLedger, blocking, cachedMeta, metaC, shutdown,
                   core, pipe, pc, call, result, latestSeq, sessions, skipped>>

\* The read fails and the `default` branch is taken: a plain read error.
ReaderSeesEOF ==
    /\ rd.pc = "read" /\ pipe = <<>> /\ core.state = "exited"
    /\ reaper # "send"
    /\ rd' = [rd EXCEPT !.pc = "send", !.item = Item(Nil, "eof")]
    /\ UNCHANGED <<backendVars, core, pipe, reaper, pc, call, result, latestSeq, sessions, skipped>>

\* `c.metaC <- item`; an error ends the goroutine, and so does the last
\* ledger of a bounded range (untilSequence).
\* Fault variant: the send ignores the capacity of metaC.
MutReaderSendUnbounded ==
    /\ rd.pc = "send"
    /\ metaC' = Append(metaC, rd.item)
    /\ rd' = [rd EXCEPT !.pc =
                IF rd.item.err # "none" \/ (rd.until # Nil /\ rd.item.seq >= rd.until)
                  THEN "done" ELSE "loop"]
    /\ UNCHANGED <<nextLedger, lastLedger, blocking, cachedMeta, shutdown, processExit,
                   processErr, core, pipe, reaper, pc, call, result, latestSeq, sessions, skipped>>

\* Fault variant: the bounded reader stops one ledger before untilSequence.
MutReaderSendStopsEarly ==
    /\ rd.pc = "send" /\ Len(metaC) < ReadAheadBufferSize
    /\ metaC' = Append(metaC, rd.item)
    /\ rd' = [rd EXCEPT !.pc =
                IF rd.item.err # "none" \/ (rd.until # Nil /\ rd.item.seq >= rd.until - 1)
                  THEN "done" ELSE "loop"]
    /\ UNCHANGED <<nextLedger, lastLedger, blocking, cachedMeta, shutdown, processExit,
                   processErr, core, pipe, reaper, pc, call, result, latestSeq, sessions, skipped>>

ReaderSend ==
    /\ rd.pc = "send" /\ Len(metaC) < ReadAheadBufferSize
    /\ metaC' = Append(metaC, rd.item)
    /\ rd' = [rd EXCEPT !.pc =
                IF rd.item.err # "none" \/ (rd.until # Nil /\ rd.item.seq >= rd.until)
                  THEN "done" ELSE "loop"]
    /\ UNCHANGED <<nextLedger, lastLedger, blocking, cachedMeta, shutdown, processExit,
                   processErr, core, pipe, reaper, pc, call, result, latestSeq, sessions, skipped>>

\* `case <-c.shutdown: return` while waiting to send.
ReaderShutdownWhileSending ==
    /\ rd.pc = "send" /\ shutdown = "closed"
    /\ rd' = [rd EXCEPT !.pc = "done"]
    /\ UNCHANGED <<backendVars, core, pipe, reaper, pc, call, result, latestSeq, sessions, skipped>>

-----------------------------------------------------------------------------
(* The hcnet-core subprocess and the reaper (environment).                 *)

CoreWrite ==
    /\ core.state = "running" /\ core.next <= core.last /\ Len(pipe) < PipeCap
    /\ pipe' = Append(pipe, core.next)
    /\ core' = [core EXCEPT !.next = @ + 1]
    /\ UNCHANGED <<backendVars, rd, reaper, pc, call, result, latestSeq, sessions, skipped>>

\* A frame out of sequence (a ledger left out of the stream).
CoreSkipFrame ==
    /\ CoreMaySkip /\ ~skipped
    /\ core.state = "running" /\ core.next + 1 <= core.last /\ Len(pipe) < PipeCap
    /\ pipe' = Append(pipe, core.next + 1)
    /\ core' = [core EXCEPT !.next = @ + 2]
    /\ skipped' = TRUE
    /\ UNCHANGED <<backendVars, rd, reaper, pc, call, result, latestSeq, sessions>>

\* catchup has replayed its whole range and exits with status 0.
CoreCatchupExit ==
    /\ core.state = "running" /\ core.mode = "catchup" /\ core.next > core.last
    /\ core' = [core EXCEPT !.state = "exited", !.exitErr = "nil"]
    /\ UNCHANGED <<backendVars, rd, pipe, reaper, pc, call, result, latestSeq, sessions, skipped>>

CoreCrash ==
    /\ CoreMayCrash /\ core.state = "running"
    /\ \E e \in {"nil", "fail"} :
         core' = [core EXCEPT !.state = "exited", !.exitErr = e]
    /\ UNCHANGED <<backendVars, rd, pipe, reaper, pc, call, result, latestSeq, sessions, skipped>>

\* cmd.Wait() returns in the reaper, which then blocks on `processExit <- err`.
ReaperWake ==
    /\ reaper = "wait" /\ core.state = "exited"
    /\ reaper' = "send"
    /\ UNCHANGED <<backendVars, rd, core, pipe, pc, call, result, latestSeq, sessions, skipped>>

-----------------------------------------------------------------------------
CallerStep ==
    \/ CallPrepareRange \/ CallGetLedger \/ CallGetLatestLedgerSequence \/ CallClose

BackendStep ==
    \/ OpenOffline \/ OpenOnline \/ PrepWait \/ CloseJoin
    \/ GetLedgerNotReady \/ GetLedgerReceiveError \/ GetLedgerReceiveUnexpected
    \/ GetLedgerReceiveSkip \/ GetLedgerReceiveFound

ReaderStep ==
    \/ ReaderStop \/ ReaderStartRead \/ ReaderReadFrame \/ ReaderSeesExit
    \/ ReaderSeesEOF \/ ReaderSend \/ ReaderShutdownWhileSending

CoreStep ==
    \/ CoreWrite \/ CoreSkipFrame \/ CoreCatchupExit \/ CoreCrash \/ ReaperWake

Next == CallerStep \/ BackendStep \/ ReaderStep \/ CoreStep

\* The goroutines, the subprocess and the caller's own continuation are
\* scheduled fairly; new calls, crashes and skipped frames are not.
Fairness ==
    /\ WF_vars(BackendStep)
    /\ WF_vars(ReaderStep)
    /\ WF_vars(CoreWrite) /\ WF_vars(CoreCatchupExit) /\ WF_vars(ReaperWake)

Spec     == Init /\ [][Next]_vars
FairSpec == Spec /\ Fairness

-----------------------------------------------------------------------------
(* Properties                                                              *)

TypeOK ==
    /\ nextLedger \in 0..LedgerMax + 1
    /\ lastLedger \in 0..LedgerMax
    /\ blocking \in BOOLEAN
    /\ cachedMeta \in 0..LedgerMax
    /\ metaC \in Seq([seq : 0..LedgerMax, err : ItemErrs])
    /\ Len(metaC) <= ReadAheadBufferSize
    /\ shutdown \in {"nil", "open", "closed"}
    /\ processExit \in BOOLEAN /\ processErr \in {"nil", "fail"}
    /\ rd \in [pc : {"idle", "loop", "read", "send", "done"},
               item : [seq : 0..LedgerMax, err : ItemErrs], until : 0..LedgerMax]
    /\ core \in [state : {"none", "running", "exited"}, mode : {"catchup", "run"},
                 next : 0..LedgerMax + 2, last : 0..LedgerMax, exitErr : {"nil", "fail"}]
    /\ pipe \in Seq(Ledgers) /\ Len(pipe) <= PipeCap
    /\ reaper \in {"none", "wait", "send", "done"}
    /\ pc \in {"idle", "close_join", "open_offline", "open_online", "prep_wait", "gl_loop"}
    /\ result \in Results
    /\ latestSeq \in 0..LedgerMax + ReadAheadBufferSize
    /\ sessions \in 0..MaxSessions

(* The ledger the backend expects next (nextLedger, from runFromParams or   *)
(* roundDownToFirstReplayAfterCheckpointStart) is the first ledger the      *)
(* subprocess streams, for every range: GetLedger fails with "unexpected    *)
(* ledger" only when the subprocess really left a ledger out.               *)
StreamAligned ==
    (pc = "idle" /\ result = "err_unexpected") => skipped

(* A GetLedger that fails on the stream (a read error or exit reported by  *)
(* the read-ahead goroutine, or an unexpected ledger) returns only after    *)
(* c.Close() has torn the whole session down: nextLedger is reset, the      *)
(* read-ahead goroutine has ended, the subprocess has been killed and       *)
(* reaped, and no shutdown channel is left open. A PrepareRange whose       *)
(* catchup or runFrom fails leaves the backend just as closed. This spans   *)
(* a crash mid-stream with ledgers still buffered, the reader blocked on a  *)
(* full metaC, and the reaper racing the reader for the exit status.       *)
StreamErrors == {"err_eof", "err_exit", "err_exit_clean", "err_unexpected"}

FailedCallLeavesClosed ==
    (pc = "idle" /\ \/ call.op = "get" /\ result \in StreamErrors
                    \/ call.op = "prepare" /\ result = "err_run") =>
        /\ nextLedger = Nil /\ shutdown = "nil" /\ metaC = <<>>
        /\ rd.pc = "idle" /\ core.state = "none" /\ reaper = "none"

(* Every call the caller makes on the backend returns.                      *)
CallsReturn == (pc # "idle") ~> (pc = "idle")

(* A subprocess that exits while PrepareRange waits is reported, and the  *)
(* backend is closed: PrepareRange returns success only when the buffer    *)
(* starts with a ledger (spec 4.1 step 7 and scenarios 2 and 3), and it     *)
(* returns the exit error only with the session closed, a child-lifecycle   *)
(* error (spec section 7). Were the session left open, a retried            *)
(* PrepareRange of the same range would find it prepared and return nil on  *)
(* a dead subprocess.                                                       *)
PrepareReportsExit ==
    /\ (pc = "idle" /\ result = "opened") => (metaC # <<>> /\ Head(metaC).err = "none")
    /\ (pc = "idle" /\ result \in {"err_exit", "err_exit_clean"}) => nextLedger = Nil

(* After Close, every GetLedger returns "session is closed" (spec section  *)
(* 8), including a request for the ledger GetLedger returned last.        *)
ClosedGetLedgerFails ==
    (pc = "idle" /\ call.op = "get" /\ call.closed) => result = "err_closed"

(* In an online session, GetLatestLedgerSequence reports a ledger that the  *)
(* backend has returned or holds in its buffer ("the last value available   *)
(* in the backend"), never one it does not have.                            *)
LatestIsAvailable ==
    (pc = "idle" /\ result = "latest" /\ lastLedger = Nil) =>
        \/ latestSeq < nextLedger
        \/ \E i \in 1..Len(metaC) : metaC[i].err = "none" /\ metaC[i].seq = latestSeq

=============================================================================
