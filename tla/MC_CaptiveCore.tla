--------------------------- MODULE MC_CaptiveCore ---------------------------
(* Model values for CaptiveCore: checkpoints every 4 ledgers (3, 7, 11, ...), *)
(* the archive at checkpoint 7, the network at ledger 9.                     *)
EXTENDS CaptiveCore

\* Ranges of the safety run: one aligned to a checkpoint start, one inside
\* the first checkpoint (rounded down to 2), one past the archive's latest
\* checkpoint (clamped), one ahead of the archive (rejected).
MCBoundedRanges == {<<5, 7>>, <<3, 8>>, <<9, 9>>}
\* Online starts: ledger 1 (rejected), inside the first checkpoint, a
\* checkpoint, beyond the archive header (rejected), too far ahead (rejected).
MCUnboundedFroms == {1, 2, 7, 12, 16}
MCRequests == {5, 7}

\* Bounded ranges whose ends the caller trusts, for the liveness run.
MCLiveRanges == {<<5, 7>>, <<3, 7>>}
MCLiveRequests == {3, 5, 7}

\* One bounded range with a ledger before it in its checkpoint.
MCExitRanges == {<<5, 7>>}

\* A range, a wider range from the same start, and a range past the
\* archive, for the caller that asks for ledgers of the range it prepared.
MCNestedRanges == {<<4, 5>>, <<4, 7>>, <<5, 9>>}
MCNestedRequests == {6, 8}

\* An online session on a network that stops at ledger 4.
MCStallFroms == {2}
MCStallRequests == {3}
=============================================================================
