------------------------------ MODULE MCGpioAsync ------------------------------
EXTENDS GpioAsync, TLC

CONSTANTS t1, t2, b1, b2

OwnBanks == t1 :> b1 @@ t2 :> b2
=============================================================================
