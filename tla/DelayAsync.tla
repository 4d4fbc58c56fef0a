------------------------------ MODULE DelayAsync ------------------------------
(***************************************************************************)
(* AsyncDelay (timer.rs): a task arms one TIMER channel as a one-shot and  *)
(* awaits the signal that the channel's interrupt handler raises.  Delays  *)
(* follow one another, and a delay may be dropped before it returns, as    *)
(* the losing branch of a `select` is.                                     *)
(***************************************************************************)
EXTENDS Executor, Integers

CONSTANT MaxTicks  \* longest delay tried

ASSUME DelayAssumption == MaxTicks \in Nat \ {0}

Timers == Signals

VARIABLES load,     \* timerN_load_count
          running,  \* timerN_control.enable
          count,    \* the down-counter
          raised,   \* timerN_raw_intr, a level until EOI
          irqOn,    \* interrupt::enable has been called for the channel
          pc,       \* where a task is in delay_ticks
          ch,       \* AsyncDelay::channel
          asked,    \* ticks it asked for
          elapsed,  \* ticks its channel has counted since it was enabled
          reused    \* its channel still ran when it began (a dropped delay's)

timerVars == <<load, running, count, raised>>
vars == <<executorVars, timerVars, irqOn, pc, ch, asked, elapsed, reused>>

Steps == {"idle", "reset", "clear", "configure", "irq", "enable", "await"}

TypeOK ==
    /\ ExecutorTypeOK
    /\ load \in [Timers -> 0..MaxTicks]
    /\ running \in [Timers -> BOOLEAN]
    /\ count \in [Timers -> 0..MaxTicks]
    /\ raised \in [Timers -> BOOLEAN]
    /\ irqOn \in SUBSET Timers
    /\ pc \in [Tasks -> Steps]
    /\ ch \in [Tasks -> Timers]
    /\ asked \in [Tasks -> 0..MaxTicks]
    /\ elapsed \in [Tasks -> 0..MaxTicks]
    /\ reused \in [Tasks -> BOOLEAN]

Init ==
    /\ ExecutorInit
    /\ load = [c \in Timers |-> 0]
    /\ running = [c \in Timers |-> FALSE]
    /\ count = [c \in Timers |-> 0]
    /\ raised = [c \in Timers |-> FALSE]
    /\ irqOn = {}
    /\ pc = [t \in Tasks |-> "idle"]
    /\ ch \in [Tasks -> Timers]
    /\ \A t, u \in Tasks : t # u => ch[t] # ch[u]  \* one AsyncDelay each
    /\ asked = [t \in Tasks |-> 0]
    /\ elapsed = [t \in Tasks |-> 0]
    /\ reused = [t \in Tasks |-> FALSE]

\* A task keeps the hart until it goes to sleep or returns to its caller.
Turn(t) == \A u \in Tasks \ {t} : pc[u] = "idle" \/ poll[u] = "asleep"

Goto(t, from, to) == Turn(t) /\ pc[t] = from /\ pc' = [pc EXCEPT ![t] = to]

-----------------------------------------------------------------------------
(* delay_ticks *)

\* Variant: a delay of no ticks is armed as it stands.
delay_ticks_unclamped(t, ticks) ==
    /\ Goto(t, "idle", "reset")
    /\ asked' = [asked EXCEPT ![t] = ticks]
    /\ elapsed' = [elapsed EXCEPT ![t] = 0]
    /\ reused' = [reused EXCEPT ![t] = running[ch[t]]]
    /\ UNCHANGED <<executorVars, timerVars, irqOn, ch>>

\* ticks.max(1): a channel loaded with zero would never expire.
delay_ticks(t, ticks) ==
    /\ Goto(t, "idle", "reset")
    /\ asked' = [asked EXCEPT ![t] = IF ticks = 0 THEN 1 ELSE ticks]
    /\ elapsed' = [elapsed EXCEPT ![t] = 0]
    /\ reused' = [reused EXCEPT ![t] = running[ch[t]]]
    /\ UNCHANGED <<executorVars, timerVars, irqOn, ch>>

ResetSignal(t) ==
    /\ Goto(t, "reset", "clear")
    /\ reset(ch[t])
    /\ UNCHANGED <<poll, timerVars, irqOn, ch, asked, elapsed, reused>>

\* clear_interrupt: EOI and the pending bit.
ClearInterrupt(t) ==
    /\ Goto(t, "clear", "configure")
    /\ raised' = [raised EXCEPT ![ch[t]] = FALSE]
    /\ UNCHANGED <<executorVars, load, running, count, irqOn, ch, asked,
                   elapsed, reused>>

\* configure(OneShot): the load count, and a control word with enable clear.
Configure(t) ==
    /\ Goto(t, "configure", "irq")
    /\ load' = [load EXCEPT ![ch[t]] = asked[t]]
    /\ running' = [running EXCEPT ![ch[t]] = FALSE]
    /\ UNCHANGED <<executorVars, count, raised, irqOn, ch, asked, elapsed, reused>>

EnableIrq(t) ==
    /\ Goto(t, "irq", "enable")
    /\ irqOn' = irqOn \cup {ch[t]}
    /\ UNCHANGED <<executorVars, timerVars, ch, asked, elapsed, reused>>

\* The counter starts from the load count, and the future is polled.
Enable(t) ==
    /\ Goto(t, "enable", "await")
    /\ running' = [running EXCEPT ![ch[t]] = TRUE]
    /\ count' = [count EXCEPT ![ch[t]] = load[ch[t]]]
    /\ poll' = [poll EXCEPT ![t] = "poll"]
    /\ UNCHANGED <<signalVars, load, raised, irqOn, ch, asked, elapsed, reused>>

Return(t) ==
    /\ Goto(t, "await", "idle")
    /\ PollReady(ch[t], t)
    /\ UNCHANGED <<timerVars, irqOn, ch, asked, elapsed, reused>>

AwaitStep(t) ==
    /\ Turn(t)
    /\ pc[t] = "await"
    /\ FutureStep(ch[t], t) \/ SleepStep(t)
    /\ UNCHANGED <<timerVars, irqOn, pc, ch, asked, elapsed, reused>>

\* Drop the future: neither it nor AsyncDelay has drop glue, so the channel
\* and the parked waker stay as they are.
Cancel(t) ==
    /\ Goto(t, "await", "idle")
    /\ poll[t] \in {"pending", "asleep"}
    /\ poll' = [poll EXCEPT ![t] = "off"]
    /\ UNCHANGED <<signalVars, timerVars, irqOn, ch, asked, elapsed, reused>>

-----------------------------------------------------------------------------
(* Interrupts. *)

\* Variant: one signal for all the channels.
on_interrupt_shared(c) ==
    /\ c \in irqOn
    /\ raised[c]
    /\ running' = [running EXCEPT ![c] = FALSE]
    /\ raised' = [raised EXCEPT ![c] = FALSE]
    /\ signal(Timers)
    /\ poll' = Interrupted
    /\ UNCHANGED <<load, count, irqOn, pc, ch, asked, elapsed, reused>>

\* Stop the channel, EOI, clear the pending bit, signal.  No task runs until
\* the handler is through.
on_interrupt(c) ==
    /\ c \in irqOn
    /\ raised[c]
    /\ running' = [running EXCEPT ![c] = FALSE]
    /\ raised' = [raised EXCEPT ![c] = FALSE]
    /\ signal({c})
    /\ poll' = Interrupted
    /\ UNCHANGED <<load, count, irqOn, pc, ch, asked, elapsed, reused>>

OtherEvent ==
    /\ OtherWake
    /\ UNCHANGED <<timerVars, irqOn, pc, ch, asked, elapsed, reused>>

-----------------------------------------------------------------------------
(* The timer block (outside the code). *)

\* Variant: the channel is left in a periodic mode.
TickPeriodic(c) ==
    /\ running[c]
    /\ count[c] > 0
    /\ count' = [count EXCEPT ![c] = IF @ = 1 THEN load[c] ELSE @ - 1]
    /\ raised' = [raised EXCEPT ![c] = @ \/ count[c] = 1]
    /\ elapsed' = [t \in Tasks |->
                     IF ch[t] = c /\ pc[t] = "await" THEN elapsed[t] + 1
                     ELSE elapsed[t]]
    /\ UNCHANGED <<executorVars, load, running, irqOn, pc, ch, asked,
                   reused>>

\* One tick of a running channel.  Reaching zero raises the level; in
\* one-shot mode the counter then stays at zero.
Tick(c) ==
    /\ running[c]
    /\ count[c] > 0
    /\ count' = [count EXCEPT ![c] = @ - 1]
    /\ raised' = [raised EXCEPT ![c] = @ \/ count[c] = 1]
    /\ elapsed' = [t \in Tasks |->
                     IF ch[t] = c /\ pc[t] = "await" THEN elapsed[t] + 1
                     ELSE elapsed[t]]
    /\ UNCHANGED <<executorVars, load, running, irqOn, pc, ch, asked,
                   reused>>

-----------------------------------------------------------------------------
TaskStep(t) ==
    \/ ResetSignal(t) \/ ClearInterrupt(t) \/ Configure(t) \/ EnableIrq(t)
    \/ Enable(t) \/ Return(t) \/ AwaitStep(t)

Next ==
    \/ \E t \in Tasks :
          \/ \E ticks \in 0..MaxTicks : delay_ticks(t, ticks)
          \/ TaskStep(t) \/ Cancel(t)
    \/ \E c \in Timers : on_interrupt(c) \/ Tick(c)
    \/ OtherEvent

Spec == Init /\ [][Next]_vars

\* Running channels count, pending interrupts are taken (the firmware has
\* enabled them globally), a task that can run gets its turn (the executor
\* polls all that is in its run queue before it polls any of it again) and,
\* where OtherWakes is set, tasks keep being polled for other reasons too.
FairSpec ==
    /\ Spec
    /\ \A t \in Tasks : SF_vars(TaskStep(t))
    /\ \A c \in Timers : WF_vars(on_interrupt(c)) /\ WF_vars(Tick(c))
    /\ WF_vars(OtherEvent)

-----------------------------------------------------------------------------
(* Properties. *)

Returns(t) == pc[t] = "await" /\ poll[t] = "poll" /\ pc'[t] = "idle"

\* A delay returns only after its own channel has counted the ticks it asked
\* for: no flag, level or load count left by an earlier delay, finished or
\* dropped, ends it early.  The exception is a delay that found its channel
\* still running for a dropped one.  timer.rs:634-636 "arms the channel
\* one-shot, parks the task until the channel's IRQ fires, then returns".
OnTime ==
    [][\A t \in Tasks :
          Returns(t) /\ ~ reused[t] => elapsed[t] >= asked[t]]_vars

\* A delay returns, of no ticks too: its interrupt is not lost between the
\* poll that found nothing and the wait for the next one.  asynch.rs:5-8 "The
\* hardware interrupt that will eventually complete the future wakes the core,
\* and `block_on` re-polls"; asynch.rs:78 "mark the event fired and wake any
\* parked waker".
DelayReturns == \A t \in Tasks : pc[t] = "await" ~> pc[t] = "idle"

\* In states of its type, no delay returns before it has counted: timer.rs:634-636, as
\* above.
DelaySafe == []TypeOK /\ OnTime
-----------------------------------------------------------------------------
(* Why no delay returns early: what every step preserves. *)

\* What is known of t's channel where t is.  An interrupt is pending on a
\* channel that is stopped only where a delay has just taken the channel over
\* from a dropped one; a delay that found its channel at rest is not woken
\* before its count is over.
DelayInv(t) ==
    /\ pc[t] \notin {"irq", "enable"} /\ raised[ch[t]] => running[ch[t]]
    /\ pc[t] \in {"irq", "enable"} => load[ch[t]] = asked[t]
    /\ pc[t] \notin {"idle", "await"} => elapsed[t] = 0
    /\ pc[t] = "await" => elapsed[t] + count[ch[t]] = asked[t]
    /\ ~ reused[t] =>
          /\ pc[t] \notin {"idle", "await"} => ~ running[ch[t]] /\ ~ raised[ch[t]]
          /\ pc[t] \notin {"idle", "reset", "await"} => ~ fired[ch[t]]
          /\ pc[t] = "await" /\ (raised[ch[t]] \/ fired[ch[t]])
                => count[ch[t]] = 0

TimeInv ==
    /\ TypeOK
    /\ \A t, u \in Tasks : t # u => ch[t] # ch[u]
    /\ \A t \in Tasks : DelayInv(t)
=============================================================================
