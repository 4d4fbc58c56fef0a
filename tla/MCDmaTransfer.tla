---------------------------- MODULE MCDmaTransfer ----------------------------
EXTENDS DmaTransfer, TLC

CONSTANTS k1, k2, c1, c2

MCOwners == {k1, k2}
MCChannels == {c1, c2}

\* Contexts and channels are interchangeable: the code treats them alike.
MCSymmetry == Permutations(MCOwners) \cup Permutations(MCChannels)
=============================================================================
