------------------------------- MODULE I2cWire -------------------------------
(***************************************************************************)
(* What a master may do on an I2C bus with one slave answering: address    *)
(* it, send to it or receive from it for as long as it agrees, address     *)
(* again or stop, but never while the slave is the one that talks.         *)
(***************************************************************************)
VARIABLE wire

\* The bus is "free", or taken: then the slave "listens", "talks", has
\* "refused", or is "released": told that the byte it sent was the last.
MasterMayMove == wire # "talks"

Init == wire = "free"

Start == MasterMayMove /\ wire' \in {"listens", "talks", "refused"}

Send == wire = "listens" /\ wire' \in {"listens", "refused"}

Receive == wire = "talks" /\ wire' \in {"talks", "released"}

Stop == MasterMayMove /\ wire' = "free"

Next == Start \/ Send \/ Receive \/ Stop

Spec == Init /\ [][Next]_wire
=============================================================================
