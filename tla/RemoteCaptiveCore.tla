--------------------------- MODULE RemoteCaptiveCore ---------------------------
(***************************************************************************)
(* The HTTP client of a remote captive core server                         *)
(* (ingest/ledgerbackend/remote_captive_core.go).                          *)
(*                                                                         *)
(* Two goroutines use one RemoteCaptiveHcnetCore value: the ingestion      *)
(* goroutine, which calls PrepareRange, IsPrepared, GetLedger and          *)
(* GetLatestLedgerSequence, and a shutdown goroutine, which calls Close.   *)
(* Every method has a VALUE receiver, so each call works on a copy of the  *)
(* struct: the mutex is shared (it is a pointer), the cancel field is not. *)
(* The variable cancel is the cancel field of the value the callers hold;  *)
(* what createContext stores goes to its copy and is lost when it returns. *)
(*                                                                         *)
(* The server is not under src/ and follows the spec (section 4.4): its   *)
(* handlers run the calls on one embedded captive backend under a mutex.   *)
(* For PrepareRange it is abstract: `ready` says whether the polled range  *)
(* is prepared. For GetLedger its backend holds a bounded session          *)
(* SessionFrom..SessionLast and answers with CaptiveHcnetCore.GetLedger's  *)
(* own checks. A request may fail at the transport (a refused connection,  *)
(* the client's 5 s timeout) or come back with a status other than 200     *)
(* when ServerMayFail; a request the client gave up on may still be served.*)
(***************************************************************************)
EXTENDS Naturals

CONSTANTS
    ServerMayFail,             \* BOOLEAN: requests may fail or time out
    SessionFrom, SessionLast   \* the server backend's bounded session

Nil == 0   \* no ledger: ledgers are numbered from 1

VARIABLES
    cancel,   \* c.cancel of the callers' value: "nil" or "set"
    ctx,      \* the context of the latest createContext: "none", "live", "cancelled"
    poll,     \* the ingestion goroutine: [pc, closed]; closed is a ghost
              \* that records a Close landing while PrepareRange polls
    ready,    \* the server has the polled range prepared
    result,   \* ghost: what the last client call returned
    get,      \* the ingestion goroutine's GetLedger request: [pc, seq, reply]
    want,     \* ghost: the ledger the caller needs next (it asks in order)
    orphans,  \* requests the client gave up on that the server still holds
    srv       \* the server backend's [next, cached]: nextLedger, cachedMeta

getVars == <<get, want, orphans, srv>>
vars == <<cancel, ctx, poll, ready, result, getVars>>

PollPcs == {"idle", "request", "wait"}

Results == {"none", "ok", "err_request", "err_status", "err_shutdown",
            "ready", "not_ready", "present", "absent", "sequence",
            "err_behind", "err_closed"}

(* The replies a request can get: the server's answer, a transport error  *)
(* from client.Do, or a non-200 status that decodeResponse turns into an  *)
(* error with the body as its message.                                   *)
Replies ==
    (IF ready THEN {"ready"} ELSE {"not_ready"})
        \cup (IF ServerMayFail THEN {"err_request", "err_status"} ELSE {})

(* What the POST of one poll iteration yields: client.Do fails at once on *)
(* a cancelled context; otherwise the server's reply.                    *)
RequestOutcomes == IF ctx = "cancelled" THEN {"err_request"} ELSE Replies

(* The cases of the select that ends an iteration: the timer always       *)
(* fires; ctx.Done() is ready only once the context is cancelled.         *)
WaitCases == {"timer"} \cup (IF ctx = "cancelled" THEN {"done"} ELSE {})

Init ==
    \* NewRemoteCaptive leaves cancel nil.
    /\ cancel = "nil"
    /\ ctx = "none"
    /\ poll = [pc |-> "idle", closed |-> FALSE]
    /\ ready \in BOOLEAN
    /\ result = "none"
    /\ get = [pc |-> "idle", seq |-> Nil, reply |-> "none"]
    /\ want = SessionFrom
    /\ orphans = {}
    /\ srv = [next |-> SessionFrom, cached |-> Nil]

Return(res) ==
    /\ poll' = [pc |-> "idle", closed |-> FALSE]
    /\ result' = res

(* PrepareRange starts with createContext on its receiver copy: lock,     *)
(* cancel the copy's previous cancel func if it is set, create a context  *)
(* and store its cancel func in the copy. The store is invisible to the   *)
(* callers' value, so cancel is unchanged. The range to prepare is a new  *)
(* one, so the server may or may not have it prepared already.           *)
CallPrepareRange ==
    /\ poll.pc = "idle"
    /\ ctx' = "live"
    /\ get.pc = "idle"
    /\ UNCHANGED <<cancel, getVars>>
    /\ poll' = [pc |-> "request", closed |-> FALSE]
    /\ ready' \in BOOLEAN
    /\ UNCHANGED result

(* One iteration of the poll loop: POST prepare-range with the context,   *)
(* decode the reply; a ready range returns nil, a pending one waits.      *)
PollRequest ==
    /\ poll.pc = "request"
    /\ \E r \in RequestOutcomes :
          \/ r \in {"err_request", "err_status"} /\ Return(r)
          \/ r = "ready" /\ Return("ok")
          \/ r = "not_ready"
             /\ poll' = [poll EXCEPT !.pc = "wait"] /\ UNCHANGED result
    /\ UNCHANGED <<cancel, ctx, ready, getVars>>

(* The select at the end of the loop: a cancelled context returns         *)
(* "shutting down"; the timer firing resets it and polls again. When both *)
(* are ready Go picks either.                                             *)
PollWait ==
    /\ poll.pc = "wait"
    /\ \E case \in WaitCases :
          \/ case = "done" /\ Return("err_shutdown")
          \/ case = "timer"
             /\ poll' = [poll EXCEPT !.pc = "request"] /\ UNCHANGED result
    /\ UNCHANGED <<cancel, ctx, ready, getVars>>

(* The synchronous RPCs of the ingestion goroutine. None of them touches  *)
(* the context or the cancel field; each returns the server's answer or   *)
(* the transport or status error.                                         *)
CallIsPrepared ==
    /\ poll.pc = "idle" /\ get.pc = "idle"
    /\ \E r \in Replies : result' = r
    /\ UNCHANGED <<cancel, ctx, poll, ready, getVars>>

(* GetLedger: GET ledger/{seq} with the client's 5 s timeout and no      *)
(* context, so Close cannot cancel it. The connection may be refused       *)
(* before the server sees the request.                                     *)
CallGetLedger ==
    /\ poll.pc = "idle" /\ get.pc = "idle" /\ want <= SessionLast
    /\ \/ get' = [pc |-> "wait", seq |-> want, reply |-> "none"] /\ UNCHANGED result
       \/ ServerMayFail /\ result' = "err_request" /\ UNCHANGED get
    /\ UNCHANGED <<cancel, ctx, poll, ready, want, orphans, srv>>

(* A plausible bug in the backend: the cached ledger is not looked at.     *)
MutSrvGetLedgerNoCache(s) ==
    CASE srv.next = Nil -> [srv |-> srv, reply |-> "err_closed"]
      [] s < srv.next   -> [srv |-> srv, reply |-> "err_behind"]
      [] OTHER -> [srv |-> [next |-> IF s = SessionLast THEN Nil ELSE s + 1, cached |-> s],
                   reply |-> "present"]

(* CaptiveHcnetCore.GetLedger(s) on the server's bounded session: the     *)
(* cached last ledger is served first; a closed session and a ledger       *)
(* behind nextLedger are errors; otherwise the blocking loop reads up to   *)
(* s, caches it, and closes the session after its last ledger.             *)
SrvGetLedger(s) ==
    CASE srv.cached = s -> [srv |-> srv, reply |-> "present"]
      [] srv.next = Nil -> [srv |-> srv, reply |-> "err_closed"]
      [] s < srv.next   -> [srv |-> srv, reply |-> "err_behind"]
      [] OTHER -> [srv |-> [next |-> IF s = SessionLast THEN Nil ELSE s + 1, cached |-> s],
                   reply |-> "present"]

\* The server's handler answers the request the client waits on ...
ServeRequest ==
    /\ get.pc = "wait" /\ get.reply = "none"
    /\ srv' = SrvGetLedger(get.seq).srv
    /\ get' = [get EXCEPT !.reply = SrvGetLedger(get.seq).reply]
    /\ UNCHANGED <<cancel, ctx, poll, ready, result, want, orphans>>

\* ... or one the client gave up on; its reply goes nowhere.
ServeOrphan ==
    /\ \E o \in orphans :
          /\ srv' = SrvGetLedger(o).srv
          /\ orphans' = orphans \ {o}
    /\ UNCHANGED <<cancel, ctx, poll, ready, result, get, want>>

(* The reply arrives and decodeResponse returns it: the ledger, or the    *)
(* error body of a non-200 status. The caller asks for the next ledger    *)
(* once it has this one, and repeats the request otherwise.               *)
ReceiveLedger ==
    /\ get.pc = "wait" /\ get.reply # "none"
    /\ result' = get.reply
    /\ want' = IF get.reply = "present" THEN want + 1 ELSE want
    /\ get' = [pc |-> "idle", seq |-> Nil, reply |-> "none"]
    /\ UNCHANGED <<cancel, ctx, poll, ready, orphans, srv>>

(* client.Get fails: the 5 s timeout, or the connection drops. The server  *)
(* may not have served the request yet, and then still holds it.          *)
GetLedgerTimeout ==
    /\ ServerMayFail /\ get.pc = "wait"
    /\ result' = "err_request"
    /\ orphans' = IF get.reply = "none" THEN orphans \cup {get.seq} ELSE orphans
    /\ get' = [pc |-> "idle", seq |-> Nil, reply |-> "none"]
    /\ UNCHANGED <<cancel, ctx, poll, ready, want, srv>>

CallGetLatestLedgerSequence ==
    /\ poll.pc = "idle" /\ get.pc = "idle"
    /\ \E r \in {"sequence"}
                \cup (IF ServerMayFail THEN {"err_request", "err_status"} ELSE {}) :
          result' = r
    /\ UNCHANGED <<cancel, ctx, poll, ready, getVars>>

(* Close, from the shutdown goroutine: lock, and cancel the receiver      *)
(* copy's cancel func if it is set. The ghost notes a Close that lands    *)
(* while PrepareRange polls.                                              *)
Close ==
    /\ ctx' = IF cancel = "set" THEN "cancelled" ELSE ctx
    /\ poll' = IF poll.pc \in {"request", "wait"}
                 THEN [poll EXCEPT !.closed = TRUE] ELSE poll
    /\ UNCHANGED <<cancel, ready, result, getVars>>

(* The server's embedded backend finishes preparing the range.            *)
ServerPrepared ==
    /\ ~ready
    /\ ready' = TRUE
    /\ UNCHANGED <<cancel, ctx, poll, result, getVars>>

PollStep == PollRequest \/ PollWait

Next ==
    \/ CallPrepareRange \/ CallIsPrepared \/ CallGetLedger
    \/ CallGetLatestLedgerSequence
    \/ ServeRequest \/ ServeOrphan \/ ReceiveLedger \/ GetLedgerTimeout
    \/ PollStep
    \/ Close
    \/ ServerPrepared

Spec == Init /\ [][Next]_vars

(* The poll loop runs on its own goroutine and the timer always fires, so *)
(* the loop is weakly fair. Callers, Close and the server are not.        *)
FairSpec == Spec /\ WF_vars(PollStep)

-----------------------------------------------------------------------------
(* Close "cancels any pending PrepareRange requests" (the comment on      *)
(* Close): a Close that lands while PrepareRange polls makes it return,   *)
(* even if the server never gets the range ready.                         *)
CloseCancelsPoll == poll.closed ~> (poll.pc = "idle")

(* A GetLedger the client timed out on may still be served by the server, *)
(* which then moves its stream past that ledger. The caller asks for       *)
(* ledgers in order and repeats a failed request; the repeat is answered   *)
(* from the backend's cachedMeta, so no GetLedger of an in-order caller    *)
(* ever fails as behind the stream or on the session the last ledger       *)
(* closed.                                                                 *)
RetryServesLedger == result \notin {"err_behind", "err_closed"}
=============================================================================
