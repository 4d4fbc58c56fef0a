---------------------------- MODULE LoanedBuffers ----------------------------
(***************************************************************************)
(* What an owned-buffer DMA API promises, with no channels in sight.  A    *)
(* buffer is lent, written any number of times while it is lent, and       *)
(* returned; nobody but its owner touches it at any other time.            *)
(***************************************************************************)
EXTENDS Naturals

CONSTANT Owners

VARIABLES lent,     \* whose buffers the engine has
          written   \* how often it wrote them on this loan

Init == /\ lent = [k \in Owners |-> FALSE]
        /\ written = [k \in Owners |-> 0]

Lend(k) == /\ ~ lent[k]
           /\ lent' = [lent EXCEPT ![k] = TRUE]
           /\ UNCHANGED written

Write(k) == /\ lent[k]
            /\ written' = [written EXCEPT ![k] = @ + 1]
            /\ UNCHANGED lent

Return(k) == /\ lent[k]
             /\ lent' = [lent EXCEPT ![k] = FALSE]
             /\ written' = [written EXCEPT ![k] = 0]

Next == \E k \in Owners : Lend(k) \/ Write(k) \/ Return(k)

Spec == Init /\ [][Next]_<<lent, written>>
=============================================================================
