---------------------------- MODULE GpioAsyncProofs ----------------------------
(***************************************************************************)
(* An async wait on a pin ends only for an event of its own: PinInv is     *)
(* inductive, for any pins, banks and waits, where no two awaited pins are *)
(* in one bank, and implies WaitSafe.  The types need no such assumption.  *)
(***************************************************************************)
EXTENDS GpioAsync, TLAPS

-----------------------------------------------------------------------------
(* Types. *)

\* A reset system is well typed, whatever is on its pins.
LEMMA TypeInit == Init => TypeOK
<1> SUFFICES ASSUME Init
             PROVE  TypeOK
  OBVIOUS
<1>1. ExecutorTypeOK
  BY DEF Init, ExecutorInit, SignalInit, ExecutorTypeOK, SignalTypeOK, PollStates
<1>. QED
  BY <1>1 DEF Init, TypeOK, Steps, AllWaits, Triggers

\* The signals and the polls stay well typed, whoever moves.
LEMMA ExecutorStepType ==
    ASSUME ExecutorTypeOK, NEW s \in Signals,
           \/ \E t \in Tasks : PollReady(s, t) \/ FutureStep(s, t) \/ SleepStep(t)
           \/ reset(s) /\ UNCHANGED poll
           \/ signal({s}) /\ poll' = Interrupted
           \/ UNCHANGED executorVars
    PROVE  ExecutorTypeOK'
<1> USE DEF ExecutorTypeOK, SignalTypeOK, PollStates
<1>1. ASSUME NEW t \in Tasks, PollReady(s, t)
      PROVE  ExecutorTypeOK'
  BY <1>1 DEF PollReady, MovePoll, take_fired
<1>2. ASSUME NEW t \in Tasks, FutureStep(s, t)
      PROVE  ExecutorTypeOK'
  BY <1>2 DEF FutureStep, PollNotFired, PollPark, MovePoll, take_fired, register
<1>3. ASSUME NEW t \in Tasks, SleepStep(t)
      PROVE  ExecutorTypeOK'
  BY <1>3 DEF SleepStep, Sleep, PolledAgain, MovePoll, signalVars
<1>4. CASE reset(s) /\ UNCHANGED poll
  BY <1>4 DEF reset
<1>5. CASE signal({s}) /\ poll' = Interrupted
  BY <1>5 DEF signal, Interrupted
<1>6. CASE UNCHANGED executorVars
  BY <1>6 DEF executorVars, signalVars
<1>. QED
  BY <1>1, <1>2, <1>3, <1>4, <1>5, <1>6

\* A wait has one of the four triggers.
LEMMA TriggerRange == {"high", "low", "rising", "falling"} = Triggers
BY DEF Triggers, AllWaits

LEMMA TypeStep == TypeOK /\ [Next]_vars => TypeOK'
<1> SUFFICES ASSUME TypeOK, [Next]_vars
             PROVE  TypeOK'
  OBVIOUS
<1>b. \A t \in Tasks : BankOf[t] \in Signals
  BY GpioAssumption
<1> USE DEF TypeOK, Goto, Steps
<1>1. ASSUME NEW t \in Tasks, NEW w \in Waits, wait_for(t, w)
      PROVE  TypeOK'
  <2>1. w \in AllWaits
    BY GpioAssumption
  <2>2. (IF w # "any" THEN w ELSE IF level[t] THEN "falling" ELSE "rising")
          \in Triggers
    BY <2>1, TriggerRange DEF AllWaits
  <2>3. ExecutorTypeOK'
    BY <1>1, <1>b, ExecutorStepType DEF wait_for
  <2>. QED  BY <1>1, <2>1, <2>2, <2>3 DEF wait_for, pinVars
<1>2. ASSUME NEW t \in Tasks, TaskStep(t)
      PROVE  TypeOK'
  <2>1. CASE TriggerType(t)
    BY <2>1, <1>b, ExecutorStepType DEF TriggerType
  <2>2. CASE TriggerPolarity(t)
    BY <2>2, <1>b, ExecutorStepType DEF TriggerPolarity
  <2>3. CASE ClearInterrupt(t)
    BY <2>3, <1>b, ExecutorStepType DEF ClearInterrupt
  <2>4. CASE ResetSignal(t)
    BY <2>4, <1>b, ExecutorStepType DEF ResetSignal, pinVars
  <2>5. CASE EnableRead(t)
    <3>1. ExecutorTypeOK'
      BY <2>5, <1>b, ExecutorStepType DEF EnableRead
    <3>2. \A u \in Tasks : \A p \in read'[u] : BankOf[p] = BankOf[u]
      BY <2>5 DEF EnableRead, PinsOf
    <3>. QED  BY <2>5, <3>1, <3>2 DEF EnableRead, pinVars
  <2>6. CASE EnableWrite(t)
    <3>1. ExecutorTypeOK'
      BY <2>6, <1>b, ExecutorStepType DEF EnableWrite
    <3>2. en' \in SUBSET Tasks
      BY <2>6 DEF EnableWrite
    <3>. QED  BY <2>6, <3>1, <3>2 DEF EnableWrite
  <2>7. CASE EnableIrq(t)
    <3>1. ExecutorTypeOK'
      BY <2>7 DEF EnableIrq, signalVars, ExecutorTypeOK, SignalTypeOK, PollStates
    <3>. QED  BY <2>7, <3>1, <1>b DEF EnableIrq
  <2>8. CASE AwaitStep(t)
    BY <2>8, <1>b, ExecutorStepType DEF AwaitStep, pinVars, taskVars
  <2>9. CASE Return(t)
    BY <2>9, <1>b, ExecutorStepType DEF Return, pinVars
  <2>. QED
    BY <1>2, <2>1, <2>2, <2>3, <2>4, <2>5, <2>6, <2>7, <2>8, <2>9 DEF TaskStep
<1>3. ASSUME NEW t \in Tasks, Toggle(t)
      PROVE  TypeOK'
  <2>1. ExecutorTypeOK'
    BY <1>3, <1>b, ExecutorStepType DEF Toggle
  <2>2. level' \in [Tasks -> BOOLEAN]
    BY <1>3 DEF Toggle
  <2>3. /\ latch' \in [Tasks -> BOOLEAN] /\ met' \in [Tasks -> BOOLEAN]
        /\ due' \in [Tasks -> BOOLEAN]
    BY <1>3, <2>2 DEF Toggle, Matches
  <2>. QED  BY <1>3, <2>1, <2>2, <2>3 DEF Toggle
<1>4. ASSUME NEW b \in Signals, on_interrupt(b)
      PROVE  TypeOK'
  BY <1>4, ExecutorStepType DEF on_interrupt, taskVars
<1>5. CASE OtherEvent
  <2>1. ExecutorTypeOK'
    BY <1>5 DEF OtherEvent, OtherWake, Interrupted, ExecutorTypeOK, SignalTypeOK,
       PollStates
  <2>. QED  BY <1>5, <2>1 DEF OtherEvent, pinVars, taskVars
<1>6. CASE UNCHANGED vars
  BY <1>6 DEF vars, executorVars, signalVars, ExecutorTypeOK, SignalTypeOK,
     pinVars, taskVars
<1>. QED
  BY <1>1, <1>2, <1>3, <1>4, <1>5, <1>6 DEF Next

\* The state of GpioAsync stays well typed, pins that share a bank included: a
\* bank's register is read and written for pins of that bank only.
THEOREM TypeCorrect == Spec => []TypeOK
BY TypeInit, TypeStep, PTL DEF Spec

-----------------------------------------------------------------------------
(* Waits. *)

LEMMA PinInit == Init => PinInv
BY TypeInit DEF Init, PinInv, WaitInv, Past, Triggered, Cleared, Armed

\* A step of one task, or of one pin, sets nothing that another waits for.
LEMMA OneTask ==
    ASSUME PinInv, TypeOK', NEW t \in Tasks, WaitInv(t)',
           \A u \in Tasks \ {t} :
              /\ pc'[u] = pc[u] /\ asked'[u] = asked[u] /\ trig'[u] = trig[u]
              /\ level'[u] = level[u] /\ edge'[u] = edge[u] /\ high'[u] = high[u]
              /\ met'[u] = met[u]
              /\ latch'[u] => latch[u]
              /\ fired'[BankOf[u]] => fired[BankOf[u]]
    PROVE  PinInv'
<1>1. ASSUME NEW u \in Tasks, u # t
      PROVE  WaitInv(u)'
  <2>1. Matches(asked[u], level[u])' <=> Matches(asked[u], level[u])
    BY <1>1 DEF Matches
  <2>. QED  BY <1>1, <2>1, SMTT(30) DEF PinInv, WaitInv, Past
<1>. QED
  BY <1>1 DEF PinInv

\* What a task programs agrees with its wait.
LEMMA TaskKeepsInv ==
    ASSUME PinInv, TypeOK', NEW t \in Tasks,
           (\E w \in Waits : wait_for(t, w)) \/ TaskStep(t)
    PROVE  PinInv'
<1>0. TypeOK /\ WaitInv(t) /\ BankOf[t] \in Signals
  BY GpioAssumption DEF PinInv
<1> USE DEF TypeOK, Goto, Past, Triggered, Cleared, Armed
<1>1. ASSUME NEW w \in Waits, wait_for(t, w)
      PROVE  PinInv'
  <2>1. /\ w \in AllWaits
        /\ pc'[t] = "type" /\ asked'[t] = w /\ level' = level
        /\ trig'[t] \in IF w = "any" THEN {"rising", "falling"} ELSE {w}
        /\ w \in {"high", "low"} => ~ Matches(w, level[t])
    BY <1>0, <1>1, GpioAssumption DEF wait_for, pinVars
  <2>2. WaitInv(t)'
    BY <2>1 DEF WaitInv, Matches
  <2>. QED
    BY <1>0, <1>1, <2>2, OneTask DEF wait_for, pinVars, executorVars, signalVars
<1>2. CASE TriggerType(t)
  <2>1. WaitInv(t)'
    BY <1>0, <1>2 DEF TriggerType, WaitInv, Matches
  <2>. QED
    BY <1>0, <1>2, <2>1, OneTask DEF TriggerType, executorVars, signalVars
<1>3. CASE TriggerPolarity(t)
  <2>1. WaitInv(t)'
    BY <1>0, <1>3 DEF TriggerPolarity, WaitInv, Matches
  <2>. QED
    BY <1>0, <1>3, <2>1, OneTask DEF TriggerPolarity, executorVars, signalVars
<1>4. CASE ClearInterrupt(t)
  <2>1. WaitInv(t)'
    BY <1>0, <1>4 DEF ClearInterrupt, WaitInv, Matches
  <2>. QED
    BY <1>0, <1>4, <2>1, OneTask DEF ClearInterrupt, executorVars, signalVars
<1>5. CASE ResetSignal(t)
  <2>1. fired' = [fired EXCEPT ![BankOf[t]] = FALSE]
    BY <1>5 DEF ResetSignal, reset
  <2>2. \A s \in Signals : fired'[s] => fired[s]
    BY <1>0, <2>1 DEF ExecutorTypeOK, SignalTypeOK
  <2>3. ~ fired'[BankOf[t]]
    BY <1>0, <2>1 DEF ExecutorTypeOK, SignalTypeOK
  <2>4. WaitInv(t)'
    BY <1>0, <1>5, <2>3 DEF ResetSignal, pinVars, WaitInv, Matches
  <2>. QED
    BY <1>0, <1>5, <2>2, <2>4, OneTask, GpioAssumption DEF ResetSignal, pinVars
<1>6. CASE EnableRead(t) \/ EnableWrite(t) \/ EnableIrq(t)
  <2>1. /\ UNCHANGED <<level, edge, high, latch, asked, trig, met, fired>>
        /\ pc[t] \in Armed /\ pc'[t] \in Armed
        /\ \A u \in Tasks \ {t} : pc'[u] = pc[u]
    BY <1>0, <1>6 DEF EnableRead, EnableWrite, EnableIrq, pinVars, executorVars,
       signalVars
  <2>2. WaitInv(t)'
    BY <1>0, <2>1 DEF WaitInv, Matches
  <2>. QED  BY <2>1, <2>2, OneTask
<1>7. CASE AwaitStep(t) \/ Return(t)
  <2>1. /\ UNCHANGED <<level, edge, high, latch, asked, trig, met>>
        /\ pc[t] = "await" /\ pc'[t] \in {"await", "idle"}
        /\ \A u \in Tasks \ {t} : pc'[u] = pc[u]
    BY <1>0, <1>7 DEF AwaitStep, Return, pinVars, taskVars
  <2>2. \A s \in Signals : fired'[s] => fired[s]
    BY <1>0, <1>7 DEF Return, AwaitStep, PollReady, FutureStep, SleepStep,
       PollNotFired, PollPark, Sleep, PolledAgain, take_fired, register,
       signalVars, ExecutorTypeOK, SignalTypeOK
  <2>3. WaitInv(t)'
    BY <1>0, <2>1, <2>2 DEF WaitInv, Matches
  <2>. QED  BY <2>1, <2>2, <2>3, OneTask, GpioAssumption
<1>. QED
  BY <1>1, <1>2, <1>3, <1>4, <1>5, <1>6, <1>7 DEF TaskStep

\* A change of level is an event of the pin's own wait.
LEMMA ToggleKeepsInv ==
    ASSUME PinInv, TypeOK', NEW t \in Tasks, Toggle(t)
    PROVE  PinInv'
<1>0. TypeOK /\ WaitInv(t)
  BY DEF PinInv
<1>1. /\ UNCHANGED <<edge, high, pc, asked, trig, fired>>
      /\ level'[t] \in BOOLEAN /\ edge[t] \in BOOLEAN /\ high[t] \in BOOLEAN
      /\ latch'[t] <=> latch[t] \/ (edge[t] /\ level'[t] = high[t])
      /\ met'[t] <=> met[t] \/ (pc[t] # "idle" /\ Matches(asked[t], level'[t]))
      /\ asked[t] \in AllWaits /\ pc[t] \in Steps
      /\ \A u \in Tasks \ {t} : /\ level'[u] = level[u] /\ latch'[u] = latch[u]
                                /\ met'[u] = met[u]
  BY <1>0 DEF Toggle, TypeOK, executorVars, signalVars
<1>2. Past(t, Cleared) /\ edge[t] /\ level'[t] = high[t]
        => Matches(asked[t], level'[t])
  BY <1>0, <1>1 DEF WaitInv, Past, Triggered, Cleared, Matches
<1>3. WaitInv(t)'
  BY <1>0, <1>1, <1>2 DEF WaitInv, Past, Triggered, Cleared, Armed
<1>. QED
  BY <1>1, <1>3, OneTask

\* A pin that is raw, of a wait that is armed, has had its event.
LEMMA RawMet ==
    ASSUME PinInv, NEW t \in Tasks, Past(t, Armed), Raw(t)
    PROVE  met[t]
<1>0. TypeOK /\ WaitInv(t)
  BY DEF PinInv
<1>1. CASE edge[t]
  BY <1>0, <1>1 DEF Raw, WaitInv, Past, Armed, Cleared, Triggered
<1>2. CASE ~ edge[t]
  <2>1. /\ level[t] \in BOOLEAN /\ edge[t] \in BOOLEAN /\ high[t] \in BOOLEAN
        /\ asked[t] \in AllWaits
    BY <1>0 DEF TypeOK
  <2>2. trig[t] = asked[t] /\ asked[t] \in {"high", "low"}
    BY <1>0, <1>2, <2>1 DEF WaitInv, Past, Armed, Cleared, Triggered, AllWaits
  <2>3. Matches(asked[t], level[t])
    BY <1>0, <1>2, <2>1, <2>2 DEF Raw, WaitInv, Past, Armed, Cleared, Triggered, Matches
  <2>. QED
    BY <1>0, <2>2, <2>3 DEF WaitInv, Past, Armed, Cleared, Triggered
<1>. QED
  BY <1>1, <1>2

\* So the flag the handler raises stands for an event of the wait it ends,
\* where that is the only wait in the bank.
LEMMA InterruptKeepsInv ==
    ASSUME PinsApart, PinInv, TypeOK', NEW b \in Signals, on_interrupt(b)
    PROVE  PinInv'
<1>0. TypeOK
  BY DEF PinInv
<1>1. /\ UNCHANGED <<level, edge, high, taskVars>>
      /\ \A u \in Tasks : latch'[u] => latch[u]
      /\ \A s \in Signals : fired'[s] => s = b \/ fired[s]
  BY <1>0 DEF on_interrupt, signal, TypeOK
<1>2. PICK p \in Tasks : BankOf[p] = b /\ Raw(p)
  BY DEF on_interrupt, Raised, PinsOf
<1>3. ASSUME NEW u \in Tasks
      PROVE  WaitInv(u)'
  <2>1. WaitInv(u)
    BY DEF PinInv
  <2>2. Past(u, Armed) /\ fired'[BankOf[u]] => met[u]
    <3>1. CASE BankOf[u] = b
      BY <3>1, <1>2, RawMet DEF PinsApart
    <3>2. CASE BankOf[u] # b
      BY <3>2, <2>1, <1>1, GpioAssumption DEF WaitInv
    <3>. QED  BY <3>1, <3>2
  <2>. QED
    BY <2>1, <2>2, <1>1 DEF WaitInv, Past, Matches, taskVars
<1>. QED
  BY <1>3 DEF PinInv

LEMMA PinStep == PinsApart /\ PinInv /\ [Next]_vars => PinInv'
<1> SUFFICES ASSUME PinsApart, PinInv, [Next]_vars
             PROVE  PinInv'
  OBVIOUS
<1>0. TypeOK'
  BY TypeStep DEF PinInv
<1>1. CASE OtherEvent \/ UNCHANGED vars
  <2>1. UNCHANGED <<pinVars, taskVars, fired>>
    BY <1>1 DEF OtherEvent, OtherWake, vars, executorVars, signalVars
  <2>. QED
    BY <1>0, <2>1 DEF PinInv, WaitInv, Past, Matches, pinVars, taskVars
<1>. QED
  BY <1>0, <1>1, TaskKeepsInv, ToggleKeepsInv, InterruptKeepsInv DEF Next

\* A step that ends a wait has taken the flag of its bank.
LEMMA ReturnsMet ==
    ASSUME PinInv, [Next]_vars, NEW t \in Tasks, pc[t] = "await", pc'[t] = "idle"
    PROVE  met[t]
<1>0. TypeOK /\ WaitInv(t)
  BY DEF PinInv
<1>1. \A u \in Tasks \ {t} : ~ \/ \E w \in Waits : wait_for(u, w)
                               \/ TaskStep(u)
  BY <1>0 DEF TaskStep, wait_for, TriggerType, TriggerPolarity, ClearInterrupt,
     ResetSignal, EnableRead, EnableWrite, EnableIrq, AwaitStep, Return, Goto,
     taskVars, TypeOK
<1>2. /\ \A u \in Tasks : ~ Toggle(u)
      /\ \A b \in Signals : ~ on_interrupt(b)
      /\ ~ OtherEvent /\ ~ UNCHANGED vars
  BY DEF Toggle, on_interrupt, OtherEvent, vars, taskVars
<1>3. (\E w \in Waits : wait_for(t, w)) \/ TaskStep(t)
  BY <1>1, <1>2 DEF Next
<1>4. Return(t)
  BY <1>0, <1>3 DEF TaskStep, wait_for, TriggerType, TriggerPolarity,
     ClearInterrupt, ResetSignal, EnableRead, EnableWrite, EnableIrq, AwaitStep,
     Goto, taskVars, TypeOK
<1>. QED
  BY <1>0, <1>4 DEF Return, PollReady, WaitInv, Past, Armed, Cleared, Triggered

\* A wait for a level or an edge (gpio.rs Wait) returns only when that level or
\* edge has come on its own pin since the call, for any number of pins and any
\* waits, where no two tasks await pins of one bank: the bank's flag cannot tell
\* its pins apart.
THEOREM WokenByOwnEvent ==
    ASSUME PinsApart
    PROVE  Spec => WaitSafe
<1>1. PinInv /\ [Next]_vars
        => [\A t \in Tasks : pc[t] = "await" /\ pc'[t] = "idle" => met[t]]_vars
  BY ReturnsMet
<1>2. PinInv => TypeOK
  BY DEF PinInv
<1>. QED
  BY <1>1, <1>2, PinInit, PinStep, PTL DEF Spec, WaitSafe, WokenByOwnPin
===============================================================================
