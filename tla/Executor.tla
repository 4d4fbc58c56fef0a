------------------------------- MODULE Executor -------------------------------
(***************************************************************************)
(* A future that waits for an IrqSignal, and what drives it: `block_on`    *)
(* (asynch.rs), which sleeps in `wfi` between polls and has a waker that   *)
(* does nothing, or a real executor such as Embassy, which polls a task    *)
(* again when its waker has been called.                                   *)
(*                                                                         *)
(* The futures of timer.rs and dma.rs poll alike: take the fired flag, and *)
(* if it was not set park the waker and return Pending.                    *)
(***************************************************************************)
EXTENDS IrqSignal

CONSTANTS Driver,    \* "block_on" or "wakers"
          OtherWakes \* whether unrelated events have tasks polled too

ASSUME ExecutorAssumption ==
    /\ Driver \in {"block_on", "wakers"}
    /\ OtherWakes \in BOOLEAN

VARIABLE poll  \* where a task's innermost future is

\* `off` while the task runs code outside such a future.
PollStates == {"off", "poll", "register", "pending", "asleep"}

executorVars == <<signalVars, poll>>

ExecutorTypeOK ==
    /\ SignalTypeOK
    /\ poll \in [Tasks -> PollStates]

ExecutorInit ==
    /\ SignalInit
    /\ poll = [t \in Tasks |-> "off"]

MovePoll(t, from, to) == poll[t] = from /\ poll' = [poll EXCEPT ![t] = to]

-----------------------------------------------------------------------------
(* Future::poll *)

\* take_fired returned true: Poll::Ready.
PollReady(s, t) == MovePoll(t, "poll", "off") /\ fired[s] /\ take_fired(s)

\* It returned false; what arrives now is seen by neither side until ...
PollNotFired(s, t) ==
    MovePoll(t, "poll", "register") /\ ~ fired[s] /\ take_fired(s)

\* ... the waker is parked.  Poll::Pending.
PollPark(s, t) == MovePoll(t, "register", "pending") /\ register(s, t)

-----------------------------------------------------------------------------
(* Between polls. *)

\* wfi, or the executor going idle.
Sleep(t) == MovePoll(t, "pending", "asleep") /\ UNCHANGED signalVars

\* An executor polls a task whose waker has been called.
PolledAgain(t) ==
    /\ Driver = "wakers"
    /\ t \in woken
    /\ MovePoll(t, "asleep", "poll")
    /\ woken' = woken \ {t}
    /\ UNCHANGED <<fired, waker>>

\* What poll becomes when any interrupt is taken: wfi completes, and block_on
\* polls again once the handler has returned.  An interrupt taken before the
\* wfi leaves nothing behind that would end it.
Interrupted ==
    [t \in Tasks |-> IF Driver = "block_on" /\ poll[t] = "asleep"
                     THEN "poll" ELSE poll[t]]

\* Something that has nothing to do with the signals has a task polled: any
\* other interrupt under block_on; under an executor the waker of another
\* branch of the same task, since a `join` or `select` polls all its branches.
OtherWake ==
    /\ OtherWakes
    /\ poll' = Interrupted
    /\ woken' = IF Driver = "block_on" THEN woken
                ELSE woken \cup {t \in Tasks : poll[t] = "asleep"}
    /\ UNCHANGED <<fired, waker>>

\* A task's own progress through the future it is in.
FutureStep(s, t) == PollNotFired(s, t) \/ PollPark(s, t)
SleepStep(t) == Sleep(t) \/ PolledAgain(t)
=============================================================================
