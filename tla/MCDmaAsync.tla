------------------------------ MODULE MCDmaAsync ------------------------------
EXTENDS DmaAsync

CONSTANTS t1, t2, c1, c2
=============================================================================
