--------------------------- MODULE MCBranchCatalog ---------------------------
EXTENDS BranchCatalog, SequencesExt

MCCandidates == <<"main", "dev">>
MCListings   == UNION {SetToSeqs(S) : S \in SUBSET Names}
MCSymmetry   == Permutations(Threads)
=============================================================================
