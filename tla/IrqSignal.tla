------------------------------ MODULE IrqSignal ------------------------------
(***************************************************************************)
(* The one-shot bridge from an interrupt handler to a waiting future       *)
(* (asynch.rs): a `fired` flag and one parked waker per signal.  A waker   *)
(* names the task it wakes; waking it makes that task runnable.            *)
(*                                                                         *)
(* `signal` runs in an interrupt handler, which no task interleaves with   *)
(* on the single hart; the other three run in a task, and an interrupt may *)
(* come between any two of them.                                           *)
(***************************************************************************)
EXTENDS FiniteSets

CONSTANTS Signals,  \* the statics, one per channel, bank or port
          Tasks,    \* the futures being driven
          NoTask    \* no waker parked

ASSUME NoTaskAssumption == NoTask \notin Tasks

VARIABLES fired,    \* IrqSignal::fired
          waker,    \* IrqSignal::waker
          woken     \* tasks a waker has made runnable

signalVars == <<fired, waker, woken>>

SignalTypeOK ==
    /\ fired \in [Signals -> BOOLEAN]
    /\ waker \in [Signals -> Tasks \cup {NoTask}]
    /\ woken \in SUBSET Tasks

SignalInit ==
    /\ fired = [s \in Signals |-> FALSE]
    /\ waker = [s \in Signals |-> NoTask]
    /\ woken = {}

\* Set the flag, then take the parked waker and wake it; S is the set of
\* signals the handler walks.
signal(S) ==
    /\ fired' = [s \in Signals |-> s \in S \/ fired[s]]
    /\ waker' = [s \in Signals |-> IF s \in S THEN NoTask ELSE waker[s]]
    /\ woken' = woken \cup ({waker[s] : s \in S} \ {NoTask})

\* Park t's waker, whoever's was there.
register(s, t) ==
    /\ waker' = [waker EXCEPT ![s] = t]
    /\ UNCHANGED <<fired, woken>>

\* swap(false): the guard `fired[s]` is the value it returns.
take_fired(s) ==
    /\ fired' = [fired EXCEPT ![s] = FALSE]
    /\ UNCHANGED <<waker, woken>>

reset(s) ==
    /\ fired' = [fired EXCEPT ![s] = FALSE]
    /\ waker' = [waker EXCEPT ![s] = NoTask]
    /\ UNCHANGED woken
=============================================================================
