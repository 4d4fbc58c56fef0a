---------------------------- MODULE MCDelayAsync ----------------------------
EXTENDS DelayAsync

CONSTANTS t1, t2, c1, c2
=============================================================================
