----------------------------- MODULE MCEmbassyTime -----------------------------
EXTENDS EmbassyTime

CONSTANTS t1, t2
=============================================================================
