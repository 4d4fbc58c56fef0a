--------------------------- MODULE DelayAsyncProofs ---------------------------
(***************************************************************************)
(* No async delay returns before its channel has counted: TimeInv is       *)
(* inductive and implies DelaySafe, for any tasks, channels and lengths,   *)
(* under block_on and under an executor with wakers.                       *)
(***************************************************************************)
EXTENDS DelayAsync, TLAPS

\* A reset system is well typed.
LEMMA TypeInit == Init => TypeOK
<1> SUFFICES ASSUME Init
             PROVE  TypeOK
  OBVIOUS
<1>1. ExecutorTypeOK
  BY DEF Init, ExecutorInit, SignalInit, ExecutorTypeOK, SignalTypeOK, PollStates
<1>2. 0 \in 0..MaxTicks
  BY DelayAssumption
<1>. QED
  BY <1>1, <1>2 DEF Init, TypeOK, Steps

\* The signals and the polls stay well typed, whoever moves.
LEMMA ExecutorStepType ==
    ASSUME ExecutorTypeOK, NEW t \in Tasks, NEW s \in Signals,
           \/ PollReady(s, t) \/ FutureStep(s, t) \/ SleepStep(t)
           \/ reset(s) /\ UNCHANGED poll
           \/ signal({s}) /\ poll' = Interrupted
           \/ UNCHANGED executorVars
    PROVE  ExecutorTypeOK'
<1> USE DEF ExecutorTypeOK, SignalTypeOK, PollStates
<1>1. CASE PollReady(s, t)
  BY <1>1 DEF PollReady, MovePoll, take_fired
<1>2. CASE FutureStep(s, t)
  BY <1>2 DEF FutureStep, PollNotFired, PollPark, MovePoll, take_fired, register
<1>3. CASE SleepStep(t)
  BY <1>3 DEF SleepStep, Sleep, PolledAgain, MovePoll, signalVars
<1>4. CASE reset(s) /\ UNCHANGED poll
  BY <1>4 DEF reset
<1>5. CASE signal({s}) /\ poll' = Interrupted
  BY <1>5 DEF signal, Interrupted
<1>6. CASE UNCHANGED executorVars
  BY <1>6 DEF executorVars, signalVars
<1>. QED
  BY <1>1, <1>2, <1>3, <1>4, <1>5, <1>6

\* What one step of a task does to everything but its own channel: nothing.
Elsewhere(t) ==
    /\ irqOn' \in SUBSET Timers
    /\ UNCHANGED ch
    /\ \A u \in Tasks \ {t} : /\ pc'[u] = pc[u] /\ asked'[u] = asked[u]
                              /\ elapsed'[u] = elapsed[u]
                              /\ reused'[u] = reused[u]
    /\ \A c \in Timers \ {ch[t]} :
          /\ load'[c] = load[c] /\ running'[c] = running[c]
          /\ count'[c] = count[c] /\ raised'[c] = raised[c]
          /\ fired'[c] => fired[c]

\* Tasks have channels of their own, so a task's step keeps what is known of
\* the others.
LEMMA OneTask ==
    ASSUME TimeInv, TypeOK', NEW t \in Tasks, Elsewhere(t), DelayInv(t)'
    PROVE  TimeInv'
<1>1. ASSUME NEW u \in Tasks, u # t
      PROVE  DelayInv(u)'
  <2>1. ch[u] \in Timers \ {ch[t]}
    BY <1>1 DEF TimeInv, TypeOK
  <2>. QED
    BY <1>1, <2>1 DEF Elsewhere, DelayInv, TimeInv
<1>. QED
  BY <1>1 DEF TimeInv, Elsewhere

\* A task's own steps.
LEMMA TaskKeepsInv ==
    ASSUME TimeInv, NEW t \in Tasks,
           \/ \E ticks \in 0..MaxTicks : delay_ticks(t, ticks)
           \/ TaskStep(t) \/ Cancel(t)
    PROVE  TimeInv'
<1>0. TypeOK /\ DelayInv(t) /\ ch[t] \in Signals /\ ch[t] \in Timers
  BY DEF TimeInv, TypeOK, Timers
<1> USE DEF TypeOK, Goto, Steps
<1>1. ASSUME NEW ticks \in 0..MaxTicks, delay_ticks(t, ticks)
      PROVE  TimeInv'
  <2>1. (IF ticks = 0 THEN 1 ELSE ticks) \in 0..MaxTicks
    BY DelayAssumption
  <2>2. TypeOK'
    <3>1. ExecutorTypeOK'
      BY <1>0, <1>1, ExecutorStepType DEF delay_ticks
    <3>2. 0 \in 0..MaxTicks
      BY DelayAssumption
    <3>. QED  BY <3>1, <3>2, <2>1, <1>0, <1>1 DEF delay_ticks, timerVars
  <2>3. Elsewhere(t) /\ DelayInv(t)'
    BY <1>0, <1>1 DEF delay_ticks, timerVars, executorVars, signalVars,
       Elsewhere, DelayInv
  <2>. QED  BY <2>2, <2>3, OneTask
<1>2. CASE ResetSignal(t)
  <2>1. TypeOK'
    BY <1>0, <1>2, ExecutorStepType DEF ResetSignal, timerVars
  <2>2. fired' = [fired EXCEPT ![ch[t]] = FALSE]
    BY <1>2 DEF ResetSignal, reset
  <2>3. Elsewhere(t) /\ DelayInv(t)'
    BY <1>0, <1>2, <2>2 DEF ResetSignal, timerVars, Elsewhere, DelayInv,
       ExecutorTypeOK, SignalTypeOK
  <2>. QED  BY <2>1, <2>3, OneTask
<1>3. CASE ClearInterrupt(t)
  <2>1. TypeOK'
    BY <1>0, <1>3, ExecutorStepType DEF ClearInterrupt
  <2>2. Elsewhere(t) /\ DelayInv(t)'
    BY <1>0, <1>3 DEF ClearInterrupt, executorVars, signalVars, Elsewhere, DelayInv
  <2>. QED  BY <2>1, <2>2, OneTask
<1>4. CASE Configure(t)
  <2>1. TypeOK'
    BY <1>0, <1>4, ExecutorStepType DEF Configure
  <2>2. Elsewhere(t) /\ DelayInv(t)'
    BY <1>0, <1>4 DEF Configure, executorVars, signalVars, Elsewhere, DelayInv
  <2>. QED  BY <2>1, <2>2, OneTask
<1>5. CASE EnableIrq(t)
  <2>1. TypeOK'
    BY <1>0, <1>5, ExecutorStepType DEF EnableIrq, timerVars
  <2>2. Elsewhere(t) /\ DelayInv(t)'
    BY <1>0, <1>5 DEF EnableIrq, timerVars, executorVars, signalVars, Elsewhere,
       DelayInv
  <2>. QED  BY <2>1, <2>2, OneTask
<1>6. CASE Enable(t)
  <2>1. TypeOK'
    <3>1. ExecutorTypeOK'
      BY <1>0, <1>6 DEF Enable, signalVars, ExecutorTypeOK, SignalTypeOK, PollStates
    <3>. QED  BY <3>1, <1>0, <1>6 DEF Enable
  <2>2. Elsewhere(t) /\ DelayInv(t)'
    BY <1>0, <1>6 DEF Enable, signalVars, Elsewhere, DelayInv
  <2>. QED  BY <2>1, <2>2, OneTask
<1>7. CASE Return(t) \/ AwaitStep(t)
  <2>1. TypeOK'
    BY <1>0, <1>7, ExecutorStepType DEF Return, AwaitStep, timerVars
  <2>2. /\ UNCHANGED <<timerVars, irqOn, ch, asked, elapsed, reused>>
        /\ pc[t] = "await" /\ pc'[t] \in {"idle", "await"}
        /\ \A u \in Tasks \ {t} : pc'[u] = pc[u]
    BY <1>0, <1>7 DEF Return, AwaitStep
  <2>3. \A s \in Signals : fired'[s] => fired[s]
    BY <1>0, <1>7 DEF Return, AwaitStep, PollReady, FutureStep, SleepStep,
       PollNotFired, PollPark, Sleep, PolledAgain, take_fired, register,
       signalVars, ExecutorTypeOK, SignalTypeOK
  <2>4. Elsewhere(t) /\ DelayInv(t)'
    BY <1>0, <2>2, <2>3 DEF timerVars, Elsewhere, DelayInv, Timers
  <2>. QED  BY <2>1, <2>4, OneTask
<1>8. CASE Cancel(t)
  <2>1. TypeOK'
    <3>1. ExecutorTypeOK'
      BY <1>0, <1>8 DEF Cancel, signalVars, ExecutorTypeOK, SignalTypeOK, PollStates
    <3>. QED  BY <3>1, <1>0, <1>8 DEF Cancel, timerVars
  <2>2. Elsewhere(t) /\ DelayInv(t)'
    BY <1>0, <1>8 DEF Cancel, signalVars, timerVars, Elsewhere, DelayInv
  <2>. QED  BY <2>1, <2>2, OneTask
<1>. QED
  BY <1>1, <1>2, <1>3, <1>4, <1>5, <1>6, <1>7, <1>8 DEF TaskStep

\* The handler stops its channel, so that the flag it raises stands for a count
\* that is over.
LEMMA InterruptKeepsInv ==
    ASSUME TimeInv, NEW c \in Timers, on_interrupt(c)
    PROVE  TimeInv'
<1>0. TypeOK /\ c \in Signals
  BY DEF TimeInv, Timers
<1>1. ExecutorTypeOK'
  <2>1. CASE Tasks = {}
    BY <2>1, <1>0 DEF on_interrupt, signal, Interrupted, TypeOK, ExecutorTypeOK,
       SignalTypeOK
  <2>2. ASSUME NEW t \in Tasks
        PROVE  ExecutorTypeOK'
    BY <1>0, <2>2, ExecutorStepType DEF on_interrupt, TypeOK
  <2>. QED  BY <2>1, <2>2
<1>2. TypeOK'
  BY <1>0, <1>1 DEF on_interrupt, TypeOK
<1>3. /\ UNCHANGED <<load, count, pc, ch, asked, elapsed, reused>>
      /\ ~ running'[c] /\ ~ raised'[c] /\ raised[c]
      /\ \A d \in Timers \ {c} : /\ running'[d] = running[d]
                                 /\ raised'[d] = raised[d]
                                 /\ fired'[d] <=> fired[d]
  <2>1. \A d \in Timers \ {c} : fired'[d] <=> fired[d]
    BY DEF on_interrupt, signal, Timers
  <2>. QED  BY <2>1, <1>0 DEF on_interrupt, TypeOK
<1>4. ASSUME NEW t \in Tasks
      PROVE  DelayInv(t)'
  <2>1. DelayInv(t) /\ ch[t] \in Timers
    BY DEF TimeInv, TypeOK
  <2>2. CASE ch[t] = c
    BY <2>1, <2>2, <1>0, <1>3 DEF DelayInv, TypeOK, Steps
  <2>3. CASE ch[t] # c
    BY <2>1, <2>3, <1>3 DEF DelayInv
  <2>. QED  BY <2>2, <2>3
<1>. QED
  BY <1>2, <1>3, <1>4 DEF TimeInv

\* A tick counts for the delay that awaits the channel.
LEMMA TickKeepsInv ==
    ASSUME TimeInv, NEW c \in Timers, Tick(c)
    PROVE  TimeInv'
<1>0. TypeOK /\ MaxTicks \in Nat \ {0}
  BY DelayAssumption DEF TimeInv
<1>1. /\ UNCHANGED <<load, running, fired, pc, ch, asked, reused>>
      /\ count[c] \in 1..MaxTicks /\ count'[c] = count[c] - 1
      /\ raised'[c] <=> raised[c] \/ count[c] = 1
      /\ running[c]
      /\ \A d \in Timers \ {c} : count'[d] = count[d] /\ raised'[d] = raised[d]
      /\ \A t \in Tasks : elapsed'[t] = IF ch[t] = c /\ pc[t] = "await"
                                        THEN elapsed[t] + 1 ELSE elapsed[t]
  BY <1>0 DEF Tick, TypeOK, executorVars, signalVars
<1>2. \A t \in Tasks : DelayInv(t) /\ ch[t] \in Timers
  BY DEF TimeInv, TypeOK
<1>3. \A t \in Tasks : elapsed'[t] \in 0..MaxTicks
  BY <1>0, <1>1, <1>2 DEF DelayInv, TypeOK
<1>4. TypeOK'
  <2>1. ExecutorTypeOK'
    BY <1>0 DEF Tick, executorVars, signalVars, TypeOK, ExecutorTypeOK, SignalTypeOK
  <2>2. elapsed' \in [Tasks -> 0..MaxTicks]
    BY <1>3 DEF Tick
  <2>3. count' \in [Timers -> 0..MaxTicks]
    BY <1>0, <1>1 DEF Tick, TypeOK
  <2>. QED  BY <2>1, <2>2, <2>3, <1>0 DEF Tick, TypeOK
<1>5. ASSUME NEW t \in Tasks
      PROVE  DelayInv(t)'
  <2>0. /\ elapsed[t] \in Nat /\ asked[t] \in Nat /\ count[ch[t]] \in Nat
        /\ pc[t] \in Steps
    BY <1>0, <1>2 DEF TypeOK
  <2>2. CASE ch[t] = c
    BY <2>0, <2>2, <1>1, <1>2 DEF DelayInv, Steps
  <2>3. CASE ch[t] # c
    BY <2>3, <1>1, <1>2 DEF DelayInv
  <2>. QED  BY <2>2, <2>3
<1>. QED
  BY <1>1, <1>4, <1>5 DEF TimeInv

LEMMA TimeStep == TimeInv /\ [Next]_vars => TimeInv'
<1> SUFFICES ASSUME TimeInv, [Next]_vars
             PROVE  TimeInv'
  OBVIOUS
<1>1. CASE OtherEvent \/ UNCHANGED vars
  <2>1. UNCHANGED <<timerVars, fired, irqOn, pc, ch, asked, elapsed, reused>>
    BY <1>1 DEF OtherEvent, OtherWake, vars, executorVars, signalVars
  <2>2. ExecutorTypeOK'
    BY <1>1 DEF OtherEvent, OtherWake, Interrupted, vars, executorVars,
       signalVars, TimeInv, TypeOK, ExecutorTypeOK, SignalTypeOK, PollStates
  <2>. QED
    BY <2>1, <2>2 DEF timerVars, TimeInv, TypeOK, DelayInv
<1>. QED
  BY <1>1, TaskKeepsInv, InterruptKeepsInv, TickKeepsInv DEF Next

LEMMA TimeInit == Init => TimeInv
BY TypeInit DEF Init, TimeInv, DelayInv, Timers, TypeOK

-----------------------------------------------------------------------------
\* The step that returns has taken the flag of its own channel.
LEMMA ReturnsOnTime ==
    ASSUME TimeInv, [Next]_vars, NEW t \in Tasks, Returns(t), ~ reused[t]
    PROVE  elapsed[t] >= asked[t]
<1>0. TypeOK /\ DelayInv(t) /\ ch[t] \in Signals
  BY DEF TimeInv, TypeOK, Timers
<1>1. fired[ch[t]]
  <2>1. \A u \in Tasks \ {t} : ~ \/ \E ticks \in 0..MaxTicks : delay_ticks(u, ticks)
                                 \/ TaskStep(u) \/ Cancel(u)
    BY DEF Returns, TaskStep, delay_ticks, ResetSignal, ClearInterrupt, Configure,
       EnableIrq, Enable, Return, AwaitStep, Cancel, Goto, Turn
  <2>2. \A c \in Timers : ~ on_interrupt(c) /\ ~ Tick(c)
    BY DEF Returns, on_interrupt, Tick
  <2>3. ~ OtherEvent /\ ~ UNCHANGED vars
    BY DEF Returns, OtherEvent, vars
  <2>4. \/ \E ticks \in 0..MaxTicks : delay_ticks(t, ticks)
        \/ TaskStep(t) \/ Cancel(t)
    BY <2>1, <2>2, <2>3 DEF Next
  <2>5. Return(t)
    BY <2>4, <1>0 DEF Returns, TaskStep, delay_ticks, ResetSignal, ClearInterrupt,
       Configure, EnableIrq, Enable, AwaitStep, Cancel, Goto, TypeOK
  <2>. QED  BY <2>5 DEF Return, PollReady
<1>2. elapsed[t] + count[ch[t]] = asked[t] /\ count[ch[t]] = 0
  BY <1>0, <1>1 DEF Returns, DelayInv
<1>. QED
  BY <1>0, <1>2 DEF TypeOK

\* A delay (timer.rs AsyncDelay::delay_ticks) that finds its channel at rest
\* returns only after that channel has counted what was asked for, for any
\* number of tasks and channels and any length, whatever earlier delays that
\* were dropped have left behind.
THEOREM DelaysNeverShort == Spec => DelaySafe
<1>1. TimeInv /\ [Next]_vars
        => [\A t \in Tasks : Returns(t) /\ ~ reused[t] => elapsed[t] >= asked[t]]_vars
  BY ReturnsOnTime
<1>2. TimeInv => TypeOK
  BY DEF TimeInv
<1>. QED
  BY <1>1, <1>2, TimeInit, TimeStep, PTL DEF Spec, DelaySafe, OnTime
===============================================================================
