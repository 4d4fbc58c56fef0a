---------------------------- MODULE DmaAsyncProofs ----------------------------
(***************************************************************************)
(* No async DMA call returns a buffer that the controller can still reach: *)
(* BufferInv is inductive and implies BufferSafe, for any tasks, channels, *)
(* beats and calls, under block_on and under an executor with wakers.      *)
(***************************************************************************)
EXTENDS DmaAsync, TLAPS

-----------------------------------------------------------------------------
(* Types. *)

\* A reset system is well typed.
LEMMA TypeInit == Init => TypeOK
<1> SUFFICES ASSUME Init
             PROVE  TypeOK
  OBVIOUS
<1>1. EngineTypeOK
  BY DEF Init, EngineInit, EngineTypeOK, Flows
<1>2. ExecutorTypeOK
  BY DEF Init, ExecutorInit, SignalInit, ExecutorTypeOK, SignalTypeOK, PollStates
<1>3. \A t \in Tasks : awaits[t] = <<>> /\ at[t] = 1
  BY DEF Init
<1>4. /\ awaits \in [Tasks -> Seq(Channels)] /\ pc \in [Tasks -> Steps]
      /\ calls \in [Tasks -> 0..MaxCalls]
  BY DmaAsyncAssumption DEF Init, Steps
<1>. QED
  BY <1>1, <1>2, <1>3, <1>4 DEF Init, TypeOK

\* What the executor does to a task and to the signals is well typed.
LEMMA ExecutorStepType ==
    ASSUME ExecutorTypeOK, NEW t \in Tasks, NEW s \in Signals,
           \/ PollReady(s, t) \/ FutureStep(s, t) \/ SleepStep(t)
           \/ reset(s) /\ UNCHANGED poll
           \/ OtherWake
           \/ UNCHANGED executorVars
    PROVE  ExecutorTypeOK'
<1> USE DEF ExecutorTypeOK, SignalTypeOK, PollStates
<1>1. CASE PollReady(s, t)
  BY <1>1 DEF PollReady, MovePoll, take_fired
<1>2. CASE FutureStep(s, t)
  BY <1>2 DEF FutureStep, PollNotFired, PollPark, MovePoll, take_fired, register
<1>3. CASE SleepStep(t)
  BY <1>3 DEF SleepStep, Sleep, PolledAgain, MovePoll, signalVars
<1>4. CASE reset(s) /\ UNCHANGED poll
  BY <1>4 DEF reset
<1>5. CASE OtherWake
  BY <1>5 DEF OtherWake, Interrupted
<1>6. CASE UNCHANGED executorVars
  BY <1>6 DEF executorVars, signalVars
<1>. QED
  BY <1>1, <1>2, <1>3, <1>4, <1>5, <1>6

\* A launch leaves the state well typed.
LEMMA LaunchType ==
    ASSUME TypeOK, NEW t \in Tasks, NEW cs \in Seq(Channels), cs # <<>>,
           NEW beats \in 1..MaxBeats, Launch(t, cs, beats)
    PROVE  TypeOK'
<1> USE DEF TypeOK
<1>1. EngineTypeOK'
  <2>1. beats \in Nat /\ t \in Jobs /\ "spi" \in Flows
    BY DmaAsyncAssumption DEF Flows
  <2>. QED
    BY <2>1 DEF Launch, configure_channel_raw, EngineTypeOK
<1>2. ExecutorTypeOK'
  BY DEF Launch, executorVars, signalVars, ExecutorTypeOK, SignalTypeOK
<1>3. /\ pc' \in [Tasks -> Steps] /\ dmaReq' \in [Tasks -> BOOLEAN]
      /\ calls' \in [Tasks -> 0..MaxCalls]
      /\ awaits' \in [Tasks -> Seq(Channels)] /\ at' \in [Tasks -> Nat]
  BY DmaAsyncAssumption DEF Launch, Goto, Steps
<1>4. 1 \in DOMAIN cs
  OBVIOUS
<1>5. \A u \in Tasks : IF awaits'[u] = <<>> THEN at'[u] = 1
                       ELSE at'[u] \in DOMAIN awaits'[u]
  BY <1>4 DEF Launch
<1>. QED
  BY <1>1, <1>2, <1>3, <1>5 DEF Launch, waitVars

\* So does every step of a task: it awaits a channel of its own.
LEMMA TaskType ==
    ASSUME TypeOK, NEW t \in Tasks, awaits[t] # <<>>, TaskStep(t)
    PROVE  TypeOK'
<1> USE DEF TypeOK
<1>a. Awaited(t) \in Channels /\ Awaited(t) \in Signals
  BY DmaAsyncAssumption DEF Awaited
<1>1. CASE Check(t)
  BY <1>1, <1>a, ExecutorStepType DEF Check, Goto, Steps, engineVars, EngineTypeOK, waitVars
<1>2. CASE ResetSignal(t)
  BY <1>2, <1>a, ExecutorStepType DEF ResetSignal, Goto, Steps, engineVars, EngineTypeOK, waitVars
<1>3. CASE EnableIrq(t)
  BY <1>3, <1>a, ExecutorStepType DEF EnableIrq, Goto, Steps, engineVars, EngineTypeOK
<1>4. CASE Recheck(t)
  <2>1. ExecutorTypeOK'
    BY <1>4 DEF Recheck, ExecutorTypeOK, SignalTypeOK, PollStates, signalVars
  <2>. QED
    BY <1>4, <2>1 DEF Recheck, Goto, Steps, engineVars, EngineTypeOK, waitVars
<1>5. CASE FutureReady(t)
  BY <1>5, <1>a, ExecutorStepType DEF FutureReady, Goto, Steps, engineVars, EngineTypeOK, waitVars
<1>6. CASE AwaitStep(t)
  BY <1>6, <1>a, ExecutorStepType DEF AwaitStep, engineVars, EngineTypeOK, waitVars, taskVars
<1>7. CASE ClearDone(t)
  <2>1. EngineTypeOK' /\ ExecutorTypeOK'
    BY <1>7, <1>a, ExecutorStepType DEF ClearDone, engineVars, EngineTypeOK
  <2>2. \A u \in Tasks : IF awaits'[u] = <<>> THEN at'[u] = 1
                         ELSE at'[u] \in DOMAIN awaits'[u]
    BY <1>7 DEF ClearDone
  <2>3. AfterClear(t) \in Steps
    BY DEF AfterClear, Steps
  <2>. QED
    BY <1>7, <2>1, <2>2, <2>3 DEF ClearDone, Goto
<1>8. CASE RxDrained(t)
  BY <1>8, <1>a, ExecutorStepType DEF RxDrained, Goto, Steps, engineVars,
     EngineTypeOK, waitVars
<1>. QED
  BY <1>1, <1>2, <1>3, <1>4, <1>5, <1>6, <1>7, <1>8 DEF TaskStep

\* So do the handler, the controller and everybody else.
LEMMA OtherType ==
    ASSUME TypeOK,
           \/ Handler \/ OtherEvent \/ ControllerOn
           \/ \E c \in Channels : FetchBeat(c) \/ LandBeat(c)
           \/ UNCHANGED vars
    PROVE  TypeOK'
<1> USE DEF TypeOK
<1>1. CASE IsrEnter
  BY <1>1 DEF IsrEnter, engineVars, EngineTypeOK, ExecutorTypeOK, SignalTypeOK,
     signalVars, Interrupted, PollStates, taskVars
<1>2. CASE IsrSignal
  <2>1. ExecutorTypeOK'
    BY <1>2, DmaAsyncAssumption
       DEF IsrSignal, signal, ExecutorTypeOK, SignalTypeOK
  <2>. QED
    BY <1>2, <2>1 DEF IsrSignal, engineVars, EngineTypeOK, taskVars
<1>3. CASE IsrClear
  BY <1>3 DEF IsrClear, engineVars, EngineTypeOK, ExecutorTypeOK, SignalTypeOK,
     executorVars, signalVars, taskVars
<1>4. CASE OtherEvent
  <2>1. ExecutorTypeOK'
    BY <1>4 DEF OtherEvent, OtherWake, Interrupted, ExecutorTypeOK,
       SignalTypeOK, PollStates
  <2>. QED
    BY <1>4, <2>1 DEF OtherEvent, engineVars, EngineTypeOK, waitVars, taskVars
<1>5. CASE ControllerOn
  BY <1>5 DEF ControllerOn, enable_controller, EngineTypeOK, ExecutorTypeOK,
     SignalTypeOK, executorVars, signalVars, waitVars, taskVars
<1>6. ASSUME NEW c \in Channels, FetchBeat(c)
      PROVE  TypeOK'
  <2>1. EngineTypeOK'
    BY <1>6 DEF FetchBeat, Fetch, EngineTypeOK
  <2>. QED
    BY <1>6, <2>1 DEF FetchBeat, ExecutorTypeOK, SignalTypeOK, executorVars,
       signalVars, waitVars, taskVars
<1>7. ASSUME NEW c \in Channels, LandBeat(c)
      PROVE  TypeOK'
  <2>1. EngineTypeOK'
    BY <1>7 DEF LandBeat, Land, EngineTypeOK
  <2>. QED
    BY <1>7, <2>1 DEF LandBeat, ExecutorTypeOK, SignalTypeOK, executorVars,
       signalVars, taskVars
<1>8. CASE UNCHANGED vars
  BY <1>8 DEF vars, engineVars, EngineTypeOK, ExecutorTypeOK, SignalTypeOK,
     executorVars, signalVars, waitVars, taskVars
<1>. QED
  BY <1>1, <1>2, <1>3, <1>4, <1>5, <1>6, <1>7, <1>8 DEF Handler

-----------------------------------------------------------------------------
(* The invariant. *)

\* What a call still awaits, it has been lent.
LEMMA PendingLent ==
    \A t \in Tasks : Pending(t) \subseteq Lent(t)
BY DEF Pending, Lent

LEMMA AwaitedLent ==
    ASSUME TypeOK, NEW t \in Tasks, TaskInv(t), pc[t] # "idle"
    PROVE  Awaited(t) \in Lent(t) /\ Awaited(t) \in Channels
BY DEF TypeOK, TaskInv, Lent, Awaited

LEMMA BufferInit == Init => BufferInv
<1> SUFFICES ASSUME Init
             PROVE  BufferInv
  OBVIOUS
<1>1. TypeOK
  BY TypeInit
<1>. QED
  BY <1>1 DEF Init, EngineInit, BufferInv, ChannelInv, TaskInv, Busy

\* A launch starts channels that nothing is left over from.
LEMMA LaunchInv ==
    ASSUME BufferInv, NEW t \in Tasks, NEW cs \in Seq(Channels), cs # <<>>,
           NEW beats \in 1..MaxBeats, Launch(t, cs, beats)
    PROVE  BufferInv'
<1>0. TypeOK /\ TypeOK'
  BY LaunchType DEF BufferInv
<1> DEFINE C == {cs[i] : i \in DOMAIN cs}
<1>1. /\ isr = "none" /\ seen = {} /\ pc[t] = "idle"
      /\ UNCHANGED <<done, seen, isr, fired>>
      /\ \A c \in C, r \in Tasks : c \notin Lent(r)
  BY DEF Launch, Goto, Turn, BufferInv, waitVars, executorVars, signalVars
<1>2. \A c \in C : c \notin done
  <2> SUFFICES ASSUME NEW c \in C, c \in done
               PROVE  FALSE
    OBVIOUS
  <2>1. c \in Channels
    BY <1>0, <1>1 DEF TypeOK
  <2>2. PICK r \in Tasks : c \in Pending(r) \/ (pc[r] = "clear" /\ c = Awaited(r))
    BY <2>1 DEF BufferInv, ChannelInv
  <2>3. c \in Lent(r)
    BY <2>2, <1>0, PendingLent, AwaitedLent DEF BufferInv
  <2>. QED  BY <2>3, <1>1
<1>3. /\ \A u \in Tasks \ {t} : /\ pc'[u] = pc[u] /\ awaits'[u] = awaits[u]
                               /\ at'[u] = at[u]
      /\ pc'[t] = "check" /\ awaits'[t] = cs /\ at'[t] = 1
  BY <1>0 DEF Launch, Goto, TypeOK
<1>4. /\ \A u \in Tasks \ {t} : Pending(u)' = Pending(u) /\ Awaited(u)' = Awaited(u)
      /\ Pending(t) = {} /\ C \subseteq Pending(t)'
  <2>1. ASSUME NEW u \in Tasks \ {t}
        PROVE  Pending(u)' = Pending(u) /\ Awaited(u)' = Awaited(u)
    <3>1. pc'[u] = pc[u] /\ awaits'[u] = awaits[u] /\ at'[u] = at[u]
      BY <1>3
    <3>. QED  BY <3>1 DEF Pending, Awaited
  <2>2. Pending(t) = {}
    BY <1>1 DEF Pending
  <2>3. Pending(t)' = {cs[i] : i \in {j \in DOMAIN cs : j >= 1}}
    BY <1>3 DEF Pending
  <2>. QED  BY <2>1, <2>2, <2>3
<1>5. \A c \in Channels : /\ c \in C => job'[c] = t
                          /\ c \notin C => /\ job'[c] = job[c]
                                          /\ left'[c] = left[c]
                          /\ flight'[c] = flight[c]
  BY <1>0 DEF Launch, configure_channel_raw, TypeOK, EngineTypeOK
<1>6. \A c \in C : flight[c] = NoJob
  <2> SUFFICES ASSUME NEW c \in C, flight[c] # NoJob
               PROVE  FALSE
    OBVIOUS
  <2>1. c \in Channels
    OBVIOUS
  <2>2. job[c] \in Tasks /\ c \in Pending(job[c])
    BY <2>1 DEF BufferInv, ChannelInv, Busy
  <2>. QED  BY <2>2, <1>1, PendingLent
<1>7. \A c \in Channels : ChannelInv(c)'
  <2> TAKE c \in Channels
  <2>1. CASE c \in C
    BY <2>1, <1>1, <1>2, <1>4, <1>5, <1>6 DEF ChannelInv, Busy
  <2>2. CASE c \notin C
    <3>1. Busy(c)' <=> Busy(c)
      BY <2>2, <1>5 DEF Busy
    <3>2. Busy(c) => job[c] # t
      BY <1>4 DEF BufferInv, ChannelInv
    <3>3. c \in done => \E u \in Tasks \ {t} :
                          c \in Pending(u) \/ (pc[u] = "clear" /\ c = Awaited(u))
      BY <1>1, <1>4 DEF BufferInv, ChannelInv
    <3>. QED
      BY <3>1, <3>2, <3>3, <2>2, <1>1, <1>3, <1>4, <1>5 DEF ChannelInv, BufferInv
  <2>. QED  BY <2>1, <2>2
<1>8. \A u \in Tasks : TaskInv(u)'
  <2> TAKE u \in Tasks
  <2>1. CASE u = t
    BY <2>1, <1>3 DEF TaskInv
  <2>2. CASE u # t
    <3> SUFFICES ASSUME pc[u] # "idle"
                 PROVE  TaskInv(u)'
      BY <2>2, <1>3 DEF TaskInv
    <3>1. Awaited(u) \in Channels /\ Awaited(u) \notin C
      BY <1>0, <1>1, AwaitedLent DEF BufferInv
    <3>2. Busy(Awaited(u))' <=> Busy(Awaited(u))
      BY <3>1, <2>2, <1>4, <1>5 DEF Busy
    <3>. QED  BY <3>2, <2>2, <1>1, <1>3, <1>4 DEF BufferInv, TaskInv
  <2>. QED  BY <2>1, <2>2
<1>. QED  BY <1>0, <1>1, <1>7, <1>8 DEF BufferInv

\* A step of one task leaves the channels as they are: what matters is which
\* of them it stops awaiting.
LEMMA TaskStepInv ==
    ASSUME BufferInv, TypeOK', NEW t \in Tasks,
           UNCHANGED <<left, flight, job, awaits, isr, seen>>,
           \A u \in Tasks \ {t} : pc'[u] = pc[u] /\ at'[u] = at[u],
           \A s \in Signals : fired'[s] => fired[s],
           done' \subseteq done,
           pc[t] # "idle",
           \A c \in Pending(t) : c \notin Pending(t)' => ~ Busy(c),
           \A c \in done' : c \in Pending(t) \/ (pc[t] = "clear" /\ c = Awaited(t))
                => c \in Pending(t)' \/ (pc'[t] = "clear" /\ c = Awaited(t)'),
           TaskInv(t)'
    PROVE  BufferInv'
<1>1. \A u \in Tasks \ {t} : Pending(u)' = Pending(u) /\ Awaited(u)' = Awaited(u)
  BY DEF Pending, Awaited
<1>2. \A c : Busy(c)' <=> Busy(c)
  BY DEF Busy
<1>3. ASSUME NEW c \in Channels
      PROVE  ChannelInv(c)'
  <2>1. Busy(c)' => job'[c] \in Tasks /\ c \in Pending(job[c])'
    <3>1. Busy(c) => job[c] \in Tasks /\ c \in Pending(job[c])
      BY DEF BufferInv, ChannelInv
    <3>2. CASE job[c] = t
      BY <3>1, <3>2, <1>2
    <3>3. CASE job[c] # t
      BY <3>1, <3>3, <1>1, <1>2
    <3>. QED  BY <3>2, <3>3
  <2>2. c \in done' => \E u \in Tasks : \/ c \in Pending(u)'
                                        \/ pc'[u] = "clear" /\ c = Awaited(u)'
    <3> SUFFICES ASSUME c \in done'
                 PROVE  \E u \in Tasks : \/ c \in Pending(u)'
                                         \/ pc'[u] = "clear" /\ c = Awaited(u)'
      OBVIOUS
    <3>1. PICK u \in Tasks : c \in Pending(u) \/ (pc[u] = "clear" /\ c = Awaited(u))
      BY DEF BufferInv, ChannelInv
    <3>2. CASE u = t
      BY <3>1, <3>2
    <3>3. CASE u # t
      BY <3>1, <3>3, <1>1
    <3>. QED  BY <3>2, <3>3
  <2>3. /\ flight'[c] \in {NoJob, job'[c]}
        /\ c \in done' \cup seen' => ~ Busy(c)'
    BY <1>2 DEF BufferInv, ChannelInv
  <2>. QED  BY <2>1, <2>2, <2>3 DEF ChannelInv
<1>4. ASSUME NEW u \in Tasks
      PROVE  TaskInv(u)'
  <2>1. CASE u = t
    BY <2>1
  <2>2. CASE u # t
    <3> SUFFICES ASSUME pc[u] # "idle"
                 PROVE  TaskInv(u)'
      BY <2>2 DEF TaskInv
    <3>1. TaskInv(u) /\ Awaited(u) \in Signals
      BY AwaitedLent, DmaAsyncAssumption DEF BufferInv
    <3>. QED  BY <3>1, <2>2, <1>1, <1>2 DEF TaskInv
  <2>. QED  BY <2>1, <2>2
<1>. QED
  BY <1>3, <1>4 DEF BufferInv

LEMMA TaskKeepsInv ==
    ASSUME BufferInv, NEW t \in Tasks, TaskStep(t)
    PROVE  BufferInv'
<1>0. TypeOK /\ TaskInv(t) /\ pc[t] # "idle" /\ awaits[t] # <<>>
  BY DEF BufferInv, TaskInv, TaskStep, Check, ResetSignal, EnableIrq, Recheck,
     FutureReady, AwaitStep, ClearDone, RxDrained, Goto
<1>t. TypeOK'
  BY <1>0, TaskType
<1>a. /\ Awaited(t) \in Channels /\ Awaited(t) \in Signals
      /\ at[t] \in DOMAIN awaits[t]
      /\ Awaited(t) \in done => ~ Busy(Awaited(t))
  BY <1>0, AwaitedLent, DmaAsyncAssumption DEF BufferInv, ChannelInv, TypeOK
\* Until the last step of a wait, the call awaits what it did.
<1> DEFINE Waiting == {"check", "reset", "enable", "recheck", "await"}
           Same == /\ UNCHANGED <<left, flight, job, awaits, isr, seen, at, done>>
                   /\ \A u \in Tasks \ {t} : pc'[u] = pc[u]
                   /\ \A s \in Signals : fired'[s] => fired[s]
                   /\ pc[t] \in Waiting
<1>s. ASSUME Same, TaskInv(t)', pc'[t] \in Waiting
      PROVE  BufferInv'
  <2>1. Pending(t)' = Pending(t) /\ Awaited(t)' = Awaited(t)
    BY <1>s DEF Pending, Awaited
  <2>. QED  BY <2>1, <1>0, <1>t, <1>s, TaskStepInv
<1>e. ASSUME Same, pc'[t] = "clear", ~ Busy(Awaited(t))
      PROVE  BufferInv'
  <2>1. Awaited(t)' = Awaited(t) /\ TaskInv(t)'
    BY <1>e, <1>0 DEF Awaited, TaskInv
  <2>2. Pending(t) = {awaits[t][i] : i \in {j \in DOMAIN awaits[t] : j >= at[t]}}
    BY <1>e DEF Pending
  <2>3. Pending(t)' = {awaits[t][i] : i \in {j \in DOMAIN awaits[t] : j > at[t]}}
    BY <1>e DEF Pending
  <2>4. \A c \in Pending(t) : c \in Pending(t)' \/ c = Awaited(t)
    BY <2>2, <2>3, <1>0, <1>a DEF Awaited, TypeOK
  <2>. QED  BY <2>1, <2>4, <1>0, <1>t, <1>e, TaskStepInv
<1>1. CASE Check(t)
  <2>1. Same /\ pc'[t] = IF Awaited(t) \in done THEN "clear" ELSE "reset"
    BY <1>1, <1>0 DEF Check, Goto, engineVars, executorVars, signalVars,
       waitVars, TypeOK
  <2>. QED  BY <2>1, <1>0, <1>a, <1>s, <1>e DEF TaskInv
<1>2. CASE ResetSignal(t)
  <2>1. Same /\ pc'[t] = "enable" /\ ~ fired'[Awaited(t)]
    BY <1>2, <1>0, <1>a DEF ResetSignal, reset, Goto, engineVars, waitVars,
       TypeOK, ExecutorTypeOK, SignalTypeOK
  <2>2. TaskInv(t)'
    BY <2>1, <1>0 DEF TaskInv, Awaited
  <2>. QED  BY <2>1, <2>2, <1>s
<1>3. CASE EnableIrq(t)
  <2>1. Same /\ pc'[t] = "recheck" /\ pc[t] = "enable" /\ fired' = fired
    BY <1>3, <1>0 DEF EnableIrq, Goto, engineVars, executorVars, signalVars, TypeOK
  <2>2. TaskInv(t)'
    BY <2>1, <1>0 DEF TaskInv, Awaited, Busy
  <2>. QED  BY <2>1, <2>2, <1>s
<1>4. CASE Recheck(t)
  <2>1. /\ Same /\ pc[t] = "recheck" /\ fired' = fired
        /\ pc'[t] = IF Awaited(t) \in done THEN "clear" ELSE "await"
    BY <1>4, <1>0 DEF Recheck, Goto, engineVars, signalVars, waitVars, TypeOK
  <2>2. pc'[t] = "await" => TaskInv(t)'
    BY <2>1, <1>0 DEF TaskInv, Awaited, Busy
  <2>. QED  BY <2>1, <2>2, <1>a, <1>s, <1>e
<1>5. CASE FutureReady(t)
  <2>1. Same /\ pc'[t] = "clear" /\ pc[t] = "await" /\ fired[Awaited(t)]
    BY <1>5, <1>0, <1>a DEF FutureReady, PollReady, take_fired, Goto, engineVars,
       waitVars, TypeOK, ExecutorTypeOK, SignalTypeOK
  <2>. QED  BY <2>1, <1>0, <1>e DEF TaskInv
<1>6. CASE AwaitStep(t)
  <2>1. /\ Same /\ pc' = pc /\ pc[t] = "await"
        /\ fired'[Awaited(t)] => fired[Awaited(t)]
    BY <1>6, <1>0, <1>a DEF AwaitStep, FutureStep, SleepStep, PollNotFired,
       PollPark, Sleep, PolledAgain, take_fired, register, engineVars, waitVars,
       taskVars, signalVars, TypeOK, ExecutorTypeOK, SignalTypeOK
  <2>2. TaskInv(t)'
    BY <2>1, <1>0 DEF TaskInv, Awaited, Busy
  <2>. QED  BY <2>1, <2>2, <1>s
<1>7. CASE ClearDone(t)
  <2>1. /\ UNCHANGED <<left, flight, job, awaits, isr, seen, fired>>
        /\ done' = done \ {Awaited(t)} /\ pc[t] = "clear"
        /\ \A u \in Tasks \ {t} : pc'[u] = pc[u] /\ at'[u] = at[u]
        /\ at[t] < Len(awaits[t]) => pc'[t] = "check"
        /\ ~ (at[t] < Len(awaits[t])) => pc'[t] \in {"idle", "rxdrain"}
        /\ at'[t] = IF at[t] < Len(awaits[t]) THEN at[t] + 1 ELSE 1
    <3>1. /\ at[t] < Len(awaits[t]) => AfterClear(t) = "check"
          /\ ~ (at[t] < Len(awaits[t])) => AfterClear(t) \in {"idle", "rxdrain"}
      <4>1. at[t] \in 1..Len(awaits[t]) /\ Len(awaits[t]) \in Nat
        BY <1>0, <1>a DEF TypeOK
      <4>3. \A n \in Nat : \A a \in 1..n : a < n => n # 1
        OBVIOUS
      <4>2. at[t] < Len(awaits[t]) => Len(awaits[t]) # 1
        BY <4>1, <4>3
      <4>. QED  BY <4>2 DEF AfterClear
    <3>2. pc'[t] = AfterClear(t)
      BY <1>7, <1>0 DEF ClearDone, Goto, TypeOK
    <3>. QED
      BY <1>7, <1>0, <3>1, <3>2 DEF ClearDone, Goto, engineVars, executorVars,
         signalVars, TypeOK
  <2>2. Pending(t) = {awaits[t][i] : i \in {j \in DOMAIN awaits[t] : j > at[t]}}
    BY <2>1 DEF Pending
  <2>3. Pending(t)' = Pending(t)
    <3>1. CASE at[t] < Len(awaits[t])
      <4>1. Pending(t)' = {awaits[t][i] : i \in {j \in DOMAIN awaits[t] : j >= at[t] + 1}}
        BY <2>1, <3>1 DEF Pending
      <4>2. \A j \in DOMAIN awaits[t] : j > at[t] <=> j >= at[t] + 1
        BY <1>0, <1>a DEF TypeOK
      <4>. QED  BY <4>1, <4>2, <2>2
    <3>2. CASE ~ (at[t] < Len(awaits[t]))
      <4>1. Pending(t)' = {}
        BY <2>1, <3>2 DEF Pending
      <4>2. \A j \in DOMAIN awaits[t] : ~ (j > at[t])
        BY <3>2, <1>0, <1>a DEF TypeOK
      <4>. QED  BY <4>1, <4>2, <2>2
    <3>. QED  BY <3>1, <3>2
  <2>4. TaskInv(t)'
    BY <2>1, <1>0 DEF TaskInv
  <2>. QED  BY <2>1, <2>3, <2>4, <1>0, <1>t, TaskStepInv
<1>8. CASE RxDrained(t)
  <2>1. /\ UNCHANGED <<left, flight, job, awaits, isr, seen, fired, at, done>>
        /\ \A u \in Tasks \ {t} : pc'[u] = pc[u]
        /\ pc[t] = "rxdrain" /\ pc'[t] = "idle"
    BY <1>8, <1>0 DEF RxDrained, Goto, engineVars, executorVars, signalVars,
       waitVars, TypeOK
  <2>2. Pending(t) = {} /\ TaskInv(t)'
    BY <2>1 DEF Pending, TaskInv
  <2>. QED  BY <2>1, <2>2, <1>0, <1>t, TaskStepInv
<1>. QED
  BY <1>1, <1>2, <1>3, <1>4, <1>5, <1>6, <1>7, <1>8 DEF TaskStep

\* The handler signals channels that have finished, and clears what it has
\* read.
LEMMA HandlerKeepsInv ==
    ASSUME BufferInv, Handler \/ OtherEvent \/ ControllerOn \/ UNCHANGED vars
    PROVE  BufferInv'
<1>t. TypeOK /\ TypeOK'
  BY OtherType DEF BufferInv
<1>1. /\ UNCHANGED <<left, flight, job, pc, awaits, at>>
      /\ done' \subseteq done /\ seen' \subseteq done \cup seen
      /\ isr' = "none" => seen' = {}
      /\ \A s \in Signals : fired'[s] => fired[s] \/ s \in seen
  BY <1>t DEF BufferInv, Handler, IsrEnter, IsrSignal, IsrClear, OtherEvent,
     OtherWake, ControllerOn, signal, vars, engineVars, executorVars, signalVars,
     waitVars, taskVars
<1>2. \A c : Busy(c)' <=> Busy(c)
  BY <1>1 DEF Busy
<1>3. \A u \in Tasks : Pending(u)' = Pending(u) /\ Awaited(u)' = Awaited(u)
  BY <1>1 DEF Pending, Awaited
<1>4. ASSUME NEW c \in Channels
      PROVE  ChannelInv(c)'
  <2>1. Busy(c)' => job'[c] \in Tasks /\ c \in Pending(job[c])'
    BY <1>1, <1>2, <1>3 DEF BufferInv, ChannelInv
  <2>2. c \in done' => \E u \in Tasks :
                          c \in Pending(u)' \/ (pc'[u] = "clear" /\ c = Awaited(u)')
    BY <1>1, <1>3 DEF BufferInv, ChannelInv
  <2>3. /\ flight'[c] \in {NoJob, job'[c]}
        /\ c \in done' \cup seen' => ~ Busy(c)'
    BY <1>1, <1>2 DEF BufferInv, ChannelInv
  <2>. QED  BY <2>1, <2>2, <2>3 DEF ChannelInv
<1>5. ASSUME NEW u \in Tasks
      PROVE  TaskInv(u)'
  <2> SUFFICES ASSUME pc[u] # "idle"
               PROVE  TaskInv(u)'
    BY <1>1 DEF TaskInv
  <2>1. TaskInv(u) /\ Awaited(u) \in Signals /\ Awaited(u) \in Channels
    BY <1>t, AwaitedLent, DmaAsyncAssumption DEF BufferInv
  <2>2. Awaited(u) \in seen => ~ Busy(Awaited(u))
    BY <2>1 DEF BufferInv, ChannelInv
  <2>. QED  BY <2>1, <2>2, <1>1, <1>2, <1>3 DEF TaskInv
<1>. QED
  BY <1>t, <1>1, <1>4, <1>5 DEF BufferInv

\* A beat keeps its channel as busy as it was, until the last one has landed.
LEMMA BeatKeepsInv ==
    ASSUME BufferInv, NEW c \in Channels, FetchBeat(c) \/ LandBeat(c)
    PROVE  BufferInv'
<1>t. TypeOK /\ TypeOK'
  BY OtherType DEF BufferInv
<1>1. /\ UNCHANGED <<job, isr, seen, fired, pc, awaits, at>>
      /\ \A d \in Channels \ {c} : left'[d] = left[d] /\ flight'[d] = flight[d]
      /\ Busy(c) /\ flight'[c] \in {NoJob, job[c]}
      /\ done' \subseteq done \cup {c}
      /\ c \in done' => ~ Busy(c)'
  <2>1. CASE FetchBeat(c)
    <3>1. c \notin done
      BY <2>1 DEF FetchBeat, Fetch, BufferInv, ChannelInv, Busy
    <3>. QED
      BY <2>1, <3>1, <1>t DEF FetchBeat, Fetch, Busy, executorVars, signalVars,
         waitVars, taskVars, TypeOK, EngineTypeOK
  <2>2. CASE LandBeat(c)
    <3>1. c \notin done
      BY <2>2 DEF LandBeat, Land, BufferInv, ChannelInv, Busy
    <3>. QED
      BY <2>2, <3>1, <1>t DEF LandBeat, Land, Busy, executorVars, signalVars,
         taskVars, TypeOK, EngineTypeOK
  <2>. QED  BY <2>1, <2>2
<1>2. \A d \in Channels : Busy(d)' => Busy(d)
  BY <1>1 DEF Busy
<1>3. \A u \in Tasks : Pending(u)' = Pending(u) /\ Awaited(u)' = Awaited(u)
  BY <1>1 DEF Pending, Awaited
<1>4. ASSUME NEW d \in Channels
      PROVE  ChannelInv(d)'
  <2>1. Busy(d)' => job'[d] \in Tasks /\ d \in Pending(job[d])'
    BY <1>1, <1>2, <1>3 DEF BufferInv, ChannelInv
  <2>2. d \in done' => \E u \in Tasks :
                          d \in Pending(u)' \/ (pc'[u] = "clear" /\ d = Awaited(u)')
    <3>1. CASE d = c
      <4>1. job[c] \in Tasks /\ c \in Pending(job[c])
        BY <1>1 DEF BufferInv, ChannelInv
      <4>. QED  BY <4>1, <3>1, <1>3
    <3>2. CASE d # c
      BY <3>2, <1>1, <1>3 DEF BufferInv, ChannelInv
    <3>. QED  BY <3>1, <3>2
  <2>3. flight'[d] \in {NoJob, job'[d]}
    BY <1>1 DEF BufferInv, ChannelInv
  <2>4. d \in done' \cup seen' => ~ Busy(d)'
    BY <1>1, <1>2 DEF BufferInv, ChannelInv
  <2>. QED  BY <2>1, <2>2, <2>3, <2>4 DEF ChannelInv
<1>5. ASSUME NEW u \in Tasks
      PROVE  TaskInv(u)'
  <2> SUFFICES ASSUME pc[u] # "idle"
               PROVE  TaskInv(u)'
    BY <1>1 DEF TaskInv
  <2>1. TaskInv(u) /\ Awaited(u) \in Channels
    BY <1>t, AwaitedLent DEF BufferInv
  <2>. QED  BY <2>1, <1>1, <1>2, <1>3 DEF TaskInv
<1>. QED
  BY <1>t, <1>1, <1>4, <1>5 DEF BufferInv

LEMMA BufferStep == BufferInv /\ [Next]_vars => BufferInv'
<1> SUFFICES ASSUME BufferInv, [Next]_vars
             PROVE  BufferInv'
  OBVIOUS
<1>1. ASSUME NEW t \in Tasks, NEW c \in Channels, NEW beats \in 1..MaxBeats,
             Launch(t, <<c>>, beats)
      PROVE  BufferInv'
  <2>1. <<c>> \in Seq(Channels) /\ <<c>> # <<>>
    OBVIOUS
  <2>. QED  BY <1>1, <2>1, LaunchInv
<1>2. ASSUME NEW t \in Tasks, NEW tx \in Channels, NEW rx \in Channels,
             NEW beats \in 1..MaxBeats, Launch(t, <<tx, rx>>, beats)
      PROVE  BufferInv'
  <2>1. <<tx, rx>> \in Seq(Channels) /\ <<tx, rx>> # <<>>
    OBVIOUS
  <2>. QED  BY <1>2, <2>1, LaunchInv
<1>. QED
  BY <1>1, <1>2, TaskKeepsInv, HandlerKeepsInv, BeatKeepsInv DEF Next

-----------------------------------------------------------------------------
\* A channel that can reach a buffer is busy, and a busy channel is lent.
LEMMA BufferImplies == BufferInv => BufferSafe
<1> SUFFICES ASSUME BufferInv, NEW c \in Channels, NEW t \in Tasks, Touches(c, t)
             PROVE  c \in Lent(t)
  BY DEF BufferSafe, BufferHeld, BufferInv
<1>1. t # NoJob
  BY NoJobAssumption, DmaAsyncAssumption
<1>2. Busy(c) /\ job[c] = t
  BY <1>1 DEF Touches, Busy, BufferInv, ChannelInv
<1>. QED
  BY <1>2, PendingLent DEF BufferInv, ChannelInv

\* An async DMA call (spi.rs write_dma_async, transfer_dma_async) returns its
\* buffers only when the controller has finished with them, for any tasks,
\* channels, lengths and number of calls, whatever the handler does between two
\* steps of the wait (dma.rs wait_transfer_done).
THEOREM BuffersHeldUntilDone == Spec => []BufferSafe
BY BufferInit, BufferStep, BufferImplies, PTL DEF Spec
===============================================================================
