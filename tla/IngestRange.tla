----------------------------- MODULE IngestRange -----------------------------
(***************************************************************************)
(* What ingesting a bounded range of ledgers into the sink promises       *)
(* (spec section 4.3, verify-range): the state at `from`, then every       *)
(* later ledger up to `to`, each committed as one whole unit, in order.    *)
(* The run may stop with a failure at any point; it succeeds exactly when *)
(* the ledger `to` has been committed, and the sink does not change once   *)
(* the run has ended.                                                      *)
(*                                                                         *)
(* A ledger's writes are the sink writes verify-range produces for it: the *)
(* state a history archive snapshot yields at `from`, and the change group *)
(* and transaction group of each later ledger.                             *)
(***************************************************************************)
EXTENDS Naturals, Sequences

VARIABLES
    from, to,   \* the range to ingest
    sink,       \* the writes committed to the sink, in commit order
    outcome     \* "running", "ok" or "failed"

vars == <<from, to, sink, outcome>>

Write(s, kind) == [seq |-> s, kind |-> kind]

\* The writes of one ledger of the range.
LedgerWrites(s) ==
    IF s = from THEN <<Write(s, "state")>>
                ELSE <<Write(s, "changes"), Write(s, "txs")>>

\* The ledger the sink holds next: `from` first, then the one after the last.
NextLedger == IF sink = <<>> THEN from ELSE sink[Len(sink)].seq + 1

Init ==
    /\ from \in Nat /\ to \in Nat /\ from <= to
    /\ sink = <<>>
    /\ outcome = "running"

\* One whole ledger is committed; the last one of the range ends the run.
Ingest ==
    /\ outcome = "running"
    /\ NextLedger <= to
    /\ sink' = sink \o LedgerWrites(NextLedger)
    /\ outcome' = IF NextLedger = to THEN "ok" ELSE "running"
    /\ UNCHANGED <<from, to>>

\* The run stops with an error, leaving the sink as it is.
Fail ==
    /\ outcome = "running"
    /\ outcome' = "failed"
    /\ UNCHANGED <<from, to, sink>>

Next == Ingest \/ Fail

Spec == Init /\ [][Next]_vars
=============================================================================
