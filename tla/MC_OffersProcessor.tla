------------------------- MODULE MC_OffersProcessor -------------------------
EXTENDS OffersProcessor, TLC

CONSTANTS o1, o2, b1

MCOfferIds   == {o1, o2}
MCBalanceIds == {b1}

\* The properties do not tell offers apart.
OfferSymmetry == Permutations(MCOfferIds)
=============================================================================
