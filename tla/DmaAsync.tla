------------------------------- MODULE DmaAsync -------------------------------
(***************************************************************************)
(* The async DMA calls of spi.rs (write_dma_async on one channel,          *)
(* transfer_dma_async on two) and what they await: wait_transfer_done and  *)
(* the DMA interrupt handler of dma.rs.                                    *)
(*                                                                         *)
(* A task lends its buffers to the channels in `awaits`, from the launch   *)
(* until the call returns, and awaits the channels in that order.  The     *)
(* handler runs to its end before any task does, but the controller keeps  *)
(* moving under it, and it may come between any two steps of a task.       *)
(***************************************************************************)
EXTENDS DmaEngine, Executor, Sequences

CONSTANTS MaxBeats,     \* longest transfer tried; stands for 4095
          MaxCalls      \* async calls a task makes

ASSUME DmaAsyncAssumption ==
    /\ Channels = Signals   \* DMA_SIGNAL has one signal per channel
    /\ Jobs = Tasks
    /\ MaxBeats \in Nat \ {0}
    /\ MaxCalls \in Nat

VARIABLES done,    \* dmac_ori_int_st: transfer-done bits
          irqOn,   \* DMA_INT has been enabled
          isr,     \* where the handler is
          seen,    \* its `done` mask
          pc,      \* where a task is
          awaits,  \* channels of its call, in the order it awaits them
          at,      \* which of them it is at
          dmaReq,  \* tden (and rden) of its SPI
          calls    \* calls it has made

waitVars == <<done, irqOn, isr, seen>>
taskVars == <<pc, awaits, at, dmaReq, calls>>
vars == <<engineVars, executorVars, waitVars, taskVars>>

Steps == {"idle", "check", "reset", "enable", "recheck", "await", "clear",
          "rxdrain"}

TypeOK ==
    /\ EngineTypeOK
    /\ ExecutorTypeOK
    /\ done \in SUBSET Channels
    /\ irqOn \in BOOLEAN
    /\ isr \in {"none", "signal", "clear"}
    /\ seen \in SUBSET Channels
    /\ pc \in [Tasks -> Steps]
    /\ awaits \in [Tasks -> Seq(Channels)]
    /\ at \in [Tasks -> Nat]
    /\ \A t \in Tasks : IF awaits[t] = <<>> THEN at[t] = 1
                        ELSE at[t] \in DOMAIN awaits[t]
    /\ dmaReq \in [Tasks -> BOOLEAN]
    /\ calls \in [Tasks -> 0..MaxCalls]

Init ==
    /\ EngineInit
    /\ ExecutorInit
    /\ done = {}
    /\ irqOn = FALSE
    /\ isr = "none"
    /\ seen = {}
    /\ pc = [t \in Tasks |-> "idle"]
    /\ awaits = [t \in Tasks |-> <<>>]
    /\ at = [t \in Tasks |-> 1]
    /\ dmaReq = [t \in Tasks |-> FALSE]
    /\ calls = [t \in Tasks |-> 0]

\* A task keeps the hart until it goes to sleep or returns to its caller; the
\* handler preempts it.
Turn(t) == /\ isr = "none"
           /\ \A u \in Tasks \ {t} : pc[u] = "idle" \/ poll[u] = "asleep"

Goto(t, from, to) ==
    /\ Turn(t)
    /\ pc[t] = from
    /\ pc' = [pc EXCEPT ![t] = to]

Lent(t) == IF pc[t] = "idle" THEN {} ELSE {awaits[t][i] : i \in DOMAIN awaits[t]}

Awaited(t) == awaits[t][at[t]]

-----------------------------------------------------------------------------
(* The calls. *)

\* write_dma_async (one channel) and transfer_dma_async (transmit, then
\* receive).  The tokens they take belong to nobody else.  Neither call
\* switches the controller on: the firmware has done that.
Launch(t, cs, beats) ==
    /\ Goto(t, "idle", "check")
    /\ calls[t] < MaxCalls
    /\ \A i \in DOMAIN cs, r \in Tasks : cs[i] \notin Lent(r)
    /\ clk
    /\ configure_channel_raw({cs[i] : i \in DOMAIN cs}, t, "spi", beats)
    /\ dmaReq' = [dmaReq EXCEPT ![t] = TRUE]
    /\ awaits' = [awaits EXCEPT ![t] = cs]
    /\ at' = [at EXCEPT ![t] = 1]
    /\ calls' = [calls EXCEPT ![t] = @ + 1]
    /\ UNCHANGED <<clk, executorVars, waitVars>>

\* wait_transfer_done, for the channel at hand.
Check(t) ==
    /\ Goto(t, "check", IF Awaited(t) \in done THEN "clear" ELSE "reset")
    /\ UNCHANGED <<engineVars, executorVars, waitVars, awaits, at, dmaReq,
                   calls>>

ResetSignal(t) ==
    /\ Goto(t, "reset", "enable")
    /\ reset(Awaited(t))
    /\ UNCHANGED <<engineVars, poll, waitVars, awaits, at, dmaReq, calls>>

EnableIrq(t) ==
    /\ Goto(t, "enable", "recheck")
    /\ irqOn' = TRUE
    /\ UNCHANGED <<engineVars, executorVars, done, isr, seen, awaits, at,
                   dmaReq, calls>>

Recheck(t) ==
    /\ Goto(t, "recheck", IF Awaited(t) \in done THEN "clear" ELSE "await")
    /\ poll' = [poll EXCEPT ![t] = IF Awaited(t) \in done THEN @ ELSE "poll"]
    /\ UNCHANGED <<engineVars, signalVars, waitVars, awaits, at, dmaReq, calls>>

FutureReady(t) ==
    /\ Goto(t, "await", "clear")
    /\ PollReady(Awaited(t), t)
    /\ UNCHANGED <<engineVars, waitVars, awaits, at, dmaReq, calls>>

AwaitStep(t) ==
    /\ Turn(t)
    /\ pc[t] = "await"
    /\ FutureStep(Awaited(t), t) \/ SleepStep(t)
    /\ UNCHANGED <<engineVars, waitVars, taskVars>>

\* Where a wait leads: to the next channel; after the last to the receive drain
\* of write_dma_async, or, for transfer_dma_async, back to the caller.
AfterClear(t) == CASE at[t] < Len(awaits[t]) -> "check"
                   [] Len(awaits[t]) = 1 -> "rxdrain"
                   [] OTHER -> "idle"

\* Variant: count a channel too many.
ClearDonePastEnd(t) ==
    /\ Goto(t, "clear", IF at[t] <= Len(awaits[t]) THEN "check" ELSE "idle")
    /\ done' = done \ {Awaited(t)}
    /\ at' = [at EXCEPT ![t] = @ + 1]
    /\ dmaReq' = [dmaReq EXCEPT ![t] = at[t] <= Len(awaits[t])]
    /\ UNCHANGED <<engineVars, executorVars, irqOn, isr, seen, awaits, calls>>

\* clear_transfer_interrupt_raw.
ClearDone(t) ==
    /\ Goto(t, "clear", AfterClear(t))
    /\ done' = done \ {Awaited(t)}
    /\ at' = [at EXCEPT ![t] = IF @ < Len(awaits[t]) THEN @ + 1 ELSE 1]
    /\ dmaReq' = [dmaReq EXCEPT ![t] = AfterClear(t) # "idle"]
    /\ UNCHANGED <<engineVars, executorVars, irqOn, isr, seen, awaits, calls>>

\* write_dma_async reads until the SSI has no answer left, with no other task
\* polled meanwhile, and returns the buffer.  That the loop ends is the SSI's
\* doing: DmaTransfer has it pass by pass.
RxDrained(t) ==
    /\ Goto(t, "rxdrain", "idle")
    /\ dmaReq' = [dmaReq EXCEPT ![t] = FALSE]
    /\ UNCHANGED <<engineVars, executorVars, waitVars, awaits, at, calls>>

\* enable_controller, from the firmware's start-up.
ControllerOn ==
    /\ ~ clk
    /\ enable_controller
    /\ UNCHANGED <<enabled, halted, left, flow, job, flight, executorVars,
                   waitVars, taskVars>>

-----------------------------------------------------------------------------
(* The handler. *)

\* The line is a level: it is asserted while a done bit is set.
IsrEnter ==
    /\ isr = "none"
    /\ irqOn
    /\ done # {}
    /\ isr' = "signal"
    /\ seen' = done
    /\ poll' = Interrupted
    /\ UNCHANGED <<engineVars, signalVars, done, irqOn, taskVars>>

\* Variant: one signal for the whole controller.
IsrSignalAll ==
    /\ isr = "signal"
    /\ isr' = "clear"
    /\ signal(Channels)
    /\ UNCHANGED <<engineVars, poll, done, irqOn, seen, taskVars>>

\* Variant: only where a future has parked its waker.
IsrSignalParked ==
    /\ isr = "signal"
    /\ isr' = "clear"
    /\ signal({c \in seen : waker[c] # NoTask})
    /\ UNCHANGED <<engineVars, poll, done, irqOn, seen, taskVars>>

IsrSignal ==
    /\ isr = "signal"
    /\ isr' = "clear"
    /\ signal(seen)
    /\ UNCHANGED <<engineVars, poll, done, irqOn, seen, taskVars>>

\* dmac_int_clr takes the mask that was read, not what is set by now.
IsrClear ==
    /\ isr = "clear"
    /\ isr' = "none"
    /\ done' = done \ seen
    /\ seen' = {}
    /\ UNCHANGED <<engineVars, executorVars, irqOn, taskVars>>

OtherEvent ==
    /\ isr = "none"
    /\ OtherWake
    /\ UNCHANGED <<engineVars, waitVars, taskVars>>

-----------------------------------------------------------------------------
(* The controller (outside the code). *)

\* The SSI requests while tden/rden is set, and receives one word for each
\* that it has transmitted.
Requested(c) ==
    \E t \in Tasks :
        /\ job[c] = t
        /\ dmaReq[t]
        /\ Len(awaits[t]) = 2 /\ awaits[t][2] = c
              => left[c] > left[awaits[t][1]]

FetchBeat(c) ==
    /\ Fetch(c, Requested(c))
    /\ UNCHANGED <<executorVars, waitVars, taskVars>>

\* The last beat sets the done bit.
LandBeat(c) ==
    /\ Land(c)
    /\ done' = IF left[c] = 0 THEN done \cup {c} ELSE done
    /\ UNCHANGED <<executorVars, irqOn, isr, seen, taskVars>>

-----------------------------------------------------------------------------
TaskStep(t) ==
    \/ Check(t) \/ ResetSignal(t) \/ EnableIrq(t) \/ Recheck(t)
    \/ FutureReady(t) \/ AwaitStep(t) \/ ClearDone(t)
    \/ RxDrained(t)

Handler == IsrEnter \/ IsrSignal \/ IsrClear

Next ==
    \/ ControllerOn
    \/ \E t \in Tasks :
          \/ \E c \in Channels, beats \in 1..MaxBeats : Launch(t, <<c>>, beats)
          \/ \E tx, rx \in Channels, beats \in 1..MaxBeats :
                tx # rx /\ Launch(t, <<tx, rx>>, beats)
          \/ TaskStep(t)
    \/ Handler \/ OtherEvent
    \/ \E c \in Channels : FetchBeat(c) \/ LandBeat(c)

Spec == Init /\ [][Next]_vars

\* A task that can run gets its turn (the executor polls all that is in its
\* run queue before it polls any of it again), a pending interrupt is taken,
\* and the SPI shifts as long as it is told to (it is the bus master).  Where
\* OtherWakes is set, tasks keep being polled for other reasons too.
FairSpec ==
    /\ Spec
    /\ \A t \in Tasks : SF_vars(TaskStep(t))
    /\ \A c \in Channels : WF_vars(FetchBeat(c) \/ LandBeat(c))
    /\ WF_vars(Handler)
    /\ WF_vars(OtherEvent)

-----------------------------------------------------------------------------
(* Properties. *)

\* The controller can still reach t's buffers through channel c.
Touches(c, t) == flight[c] = t \/ (enabled[c] /\ job[c] = t /\ left[c] > 0)

\* An async call returns its buffers only when the controller has finished
\* with them: no done bit or fired flag of another channel, or of an earlier
\* transfer on this one, passes for the completion.  spi.rs:309-311 "The buffer is
\* owned for the whole call (a use-after-free of an in-flight DMA region is
\* unrepresentable in safe code)"; dma.rs:1829 "Await transfer-complete".
BufferHeld ==
    \A c \in Channels, t \in Tasks : Touches(c, t) => c \in Lent(t)

\* A completion that comes after the signal has been reset ends the wait,
\* whether it comes before or after the interrupt is enabled, before or after
\* the second look at the done bit, while the waker is being parked, or while
\* the handler is still busy with the other channel.  dma.rs:1829-1832 "Await
\* transfer-complete ... the per-channel demux means a concurrent transfer on
\* another channel won't false-wake this one".
CompletionNoticed ==
    \A t \in Tasks :
        /\ pc[t] \in {"enable", "recheck", "await"}
        /\ Touches(Awaited(t), t)
        ~> pc[t] = "clear"

\* A call is answered: once it has been launched it returns, whatever the
\* handler and the controller do between its checks.  dma.rs:1829 "Await
\* transfer-complete", spi.rs:515 "awaits each channel's completion on IRQ 59
\* in turn".
CallReturns == \A t \in Tasks : pc[t] # "idle" ~> pc[t] = "idle"

\* In states of its type, no call returns a buffer that the controller can still reach:
\* spi.rs:309-311, as above.
BufferSafe == TypeOK /\ BufferHeld

-----------------------------------------------------------------------------
(* Why no buffer is returned early: what every step preserves. *)

\* Channel c has beats to move or one on the bus.
Busy(c) == left[c] > 0 \/ flight[c] # NoJob

\* The channels that t's call has still to await, the one at hand included
\* until its wait is over.
Pending(t) ==
    IF pc[t] \in {"idle", "rxdrain"} THEN {}
    ELSE {awaits[t][i] : i \in {j \in DOMAIN awaits[t] :
                                  IF pc[t] = "clear" THEN j > at[t]
                                  ELSE j >= at[t]}}

\* A channel that is still busy is awaited by the task whose addresses it
\* holds.  A done bit that is set, or that the handler has read, belongs to a
\* channel that has finished, and to a call: it is cleared, by the handler or
\* by the call, before the channel can be launched again.
ChannelInv(c) ==
    /\ flight[c] \in {NoJob, job[c]}
    /\ Busy(c) => job[c] \in Tasks /\ c \in Pending(job[c])
    /\ c \in done \cup seen => ~ Busy(c)
    /\ c \in done => \E t \in Tasks : \/ c \in Pending(t)
                                      \/ pc[t] = "clear" /\ c = Awaited(t)

\* Once a wait has reset it, so does a fired flag.
TaskInv(t) ==
    /\ pc[t] # "idle" => awaits[t] # <<>>
    /\ pc[t] \in {"enable", "recheck", "await"} /\ fired[Awaited(t)]
          => ~ Busy(Awaited(t))

BufferInv ==
    /\ TypeOK
    /\ isr = "none" => seen = {}
    /\ \A c \in Channels : ChannelInv(c)
    /\ \A t \in Tasks : TaskInv(t)
=============================================================================
