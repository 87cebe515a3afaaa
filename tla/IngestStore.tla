----------------------------- MODULE IngestStore -----------------------------
(***************************************************************************)
(* The ingestion cursors in the key_value_store table (the Q methods in    *)
(* db2/history, claimable_balances_batch_insert_builder_test.go from line  *)
(* 88 on) and the two `expingest` commands that only touch them:           *)
(* trigger-state-rebuild and init-genesis-state (cmd/ingest.go).           *)
(*                                                                         *)
(* A value is stored as a decimal string; the model keeps the number (or   *)
(* the boolean) the string spells, and "" is a missing key. The parsers are *)
(* modelled by the range they accept: ParseUint(s, 10, 32) takes           *)
(* 0..2^32-1, ParseInt(s, 10, 32) takes -2^31..2^31-1. Widths are scaled   *)
(* to Bits (32 in the code).                                               *)
(***************************************************************************)
EXTENDS Naturals

CONSTANTS
    Bits,          \* the width of uint32 / int32
    LedgerSeqs,    \* the uint32 sequences written as cursors
    Versions,      \* the ingest versions written (CurrentVersion and 0)
    StoreMayFail   \* a query on the key_value_store may fail

ASSUME LedgerSeqs \subseteq 0..(2^Bits - 1)

ingestVersion           == "exp_ingest_version"
lastLedgerKey           == "exp_ingest_last_ledger"
stateInvalid            == "exp_state_invalid"
offerCompactionSequence == "offer_compaction_sequence"

Keys == {ingestVersion, lastLedgerKey, stateInvalid, offerCompactionSequence}
\* A row's value: the number or boolean its string spells; no row at all.
NoValue == [present |-> FALSE]
Value(x) == [present |-> TRUE, v |-> x]

VARIABLES
    store,    \* key_value_store: key -> value
    written,  \* ghost: the value each cursor was last set to
    read,     \* ghost: the last read, [key, val, err]
    cmd       \* the outcome of the last command run

vars == <<store, written, read, cmd>>

NoRead == [key |-> "none", val |-> 0, err |-> "none"]

\* What each getter returns for a missing key.
Default(k) == IF k = stateInvalid THEN FALSE ELSE 0

Init ==
    \* The last ledger key is created by the migrations.
    /\ store = [k \in Keys |-> IF k = lastLedgerKey THEN Value(0) ELSE NoValue]
    /\ written = [k \in Keys |-> Default(k)]
    /\ read = NoRead
    /\ cmd = "none"

-----------------------------------------------------------------------------
(* The parsers, by the values they accept.                                *)
Ok(v)      == [val |-> v, err |-> "none"]
ParseErr   == [val |-> 0, err |-> "parse"]
\* What ParseUint(s, 10, 32), ParseInt(s, 10, 32) (of the non-negative
\* values the setters write) and ParseBool accept.
Uint32 == 0..(2^Bits - 1)
Int32  == 0..(2^(Bits - 1) - 1)
Parse(v, accepted) == IF v \in accepted THEN Ok(v) ELSE ParseErr

(* updateValueInStore: an upsert of the formatted value; the query may    *)
(* fail, and the error is returned with nothing written. (The ghost of   *)
(* the last read is cleared: the call is not a read.)                     *)
Upsert(k, v) ==
    /\ store' = [store EXCEPT ![k] = Value(v)]
    /\ written' = [written EXCEPT ![k] = v]

updateValueInStore(k, v) ==
    /\ \/ Upsert(k, v)
       \/ StoreMayFail /\ UNCHANGED <<store, written>>
    /\ read' = NoRead

(* getValueFromStore and the conversion of one getter: a failed query is  *)
(* an error, a missing key takes the getter's branch for "", any other    *)
(* value is parsed.                                                       *)
Decode(k, ifMissing, accepted) ==
    IF store[k] = NoValue THEN ifMissing ELSE Parse(store[k].v, accepted)

Get(k, ifMissing, accepted) ==
    /\ \/ LET d == Decode(k, ifMissing, accepted)
          IN  read' = [key |-> k, val |-> d.val, err |-> d.err]
       \/ StoreMayFail /\ read' = [key |-> k, val |-> 0, err |-> "db"]
    /\ UNCHANGED <<store, written, cmd>>

UpdateLastLedgerExpIngest ==
    /\ \E s \in LedgerSeqs : updateValueInStore(lastLedgerKey, s)
    /\ UNCHANGED cmd

GetLastLedgerExpIngestNonBlocking ==
    Get(lastLedgerKey, Ok(0), Uint32)

\* With FOR UPDATE; a missing key is an error.
GetLastLedgerExpIngest ==
    Get(lastLedgerKey, [val |-> 0, err |-> "missing"], Uint32)

UpdateExpIngestVersion ==
    /\ \E v \in Versions : updateValueInStore(ingestVersion, v)
    /\ UNCHANGED cmd

GetExpIngestVersion == Get(ingestVersion, Ok(0), Int32)

UpdateExpStateInvalid ==
    /\ \E b \in BOOLEAN : updateValueInStore(stateInvalid, b)
    /\ UNCHANGED cmd

GetExpStateInvalid == Get(stateInvalid, Ok(FALSE), BOOLEAN)

UpdateOfferCompactionSequence ==
    /\ \E s \in LedgerSeqs : updateValueInStore(offerCompactionSequence, s)
    /\ UNCHANGED cmd

\* Written with FormatUint of the uint32, read with ParseInt(..., 32).
GetOfferCompactionSequence == Get(offerCompactionSequence, Ok(0), Int32)

-----------------------------------------------------------------------------
(* expingest trigger-state-rebuild: UpdateExpIngestVersion(0), fatal on   *)
(* error.                                                                 *)
IngestTriggerStateRebuildCmd ==
    /\ \/ Upsert(ingestVersion, 0) /\ cmd' = "rebuild_triggered"
       \/ StoreMayFail /\ cmd' = "fatal" /\ UNCHANGED <<store, written>>
    /\ read' = NoRead

(* expingest init-genesis-state: GetLastLedgerExpIngestNonBlocking must  *)
(* succeed and return 0 ("cannot run on non-empty DB"), then              *)
(* BuildGenesisState runs (not under src/; its writes are not modelled).  *)
IngestInitGenesisStateCmd ==
    /\ LET d == Decode(lastLedgerKey, Ok(0), Uint32)
       IN  \/ StoreMayFail /\ cmd' = "fatal"
           \/ (d.err # "none" \/ d.val # 0) /\ cmd' = "fatal"
           \/ d.err = "none" /\ d.val = 0 /\ cmd' = "genesis"
    /\ UNCHANGED <<store, written, read>>

Next ==
    \/ UpdateLastLedgerExpIngest \/ GetLastLedgerExpIngestNonBlocking
    \/ GetLastLedgerExpIngest
    \/ UpdateExpIngestVersion \/ GetExpIngestVersion
    \/ UpdateExpStateInvalid \/ GetExpStateInvalid
    \/ UpdateOfferCompactionSequence \/ GetOfferCompactionSequence
    \/ IngestTriggerStateRebuildCmd \/ IngestInitGenesisStateCmd

Spec == Init /\ [][Next]_vars

-----------------------------------------------------------------------------
\* A read of cursor k that reached the database returns the value k was
\* last set to.
ReadsBack(k) == (read.key = k /\ read.err # "db") => (read.err = "none" /\ read.val = written[k])

(* offer_compaction_sequence is "uint32 decimal" (the spec, section 6):   *)
(* UpdateOfferCompactionSequence writes a uint32 with FormatUint, and     *)
(* GetOfferCompactionSequence should return it.                           *)
OfferCompactionSequenceReadsBack == ReadsBack(offerCompactionSequence)
=============================================================================
