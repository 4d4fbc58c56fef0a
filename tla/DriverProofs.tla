------------------------------ MODULE DriverProofs ------------------------------
(***************************************************************************)
(* More proofs about the drivers of independent peripherals, and about all *)
(* of them side by side, for every value of their constants.               *)
(***************************************************************************)
EXTENDS MCPeripherals, PeripheralProofs

-----------------------------------------------------------------------------
(* EmbassyTime: the alarm is never lost, for any tasks, deadlines, clock    *)
(* rates and word sizes.                                                    *)

\* Deadlines are numbers below Never.
LEMMA DeadlineRange ==
    /\ Never \in Nat
    /\ \A d \in Deadlines : d \in Nat /\ d < Never
BY EmbassyAssumption DEF Never

\* Remainders of numbers are numbers, and so are quotients.
LEMMA DivModType ==
    \A a \in Nat : \A b \in Nat \ {0} : a % b \in 0..(b - 1) /\ a \div b \in Nat
OBVIOUS

\* Numbers put together from two parts are numbers.
LEMMA PartsType == \A a \in Nat : \A b \in Nat : \A c \in Nat : a * b + c \in Nat
OBVIOUS

\* Ticks and counts are numbers.
LEMMA ConversionType ==
    \A n \in Nat : TicksOf(n) \in Nat /\ CountsOf(n) \in Nat
<1> SUFFICES ASSUME NEW n \in Nat
             PROVE  TicksOf(n) \in Nat /\ CountsOf(n) \in Nat
  OBVIOUS
<1>1. n * TickHz \in Nat /\ n * TcxoHz \in Nat
  BY EmbassyAssumption
<1>2. (n * TickHz) % Word \in Nat /\ (n * TcxoHz) % Word \in Nat
  BY <1>1, DivModType, EmbassyAssumption
<1>. QED
  BY <1>2, DivModType, EmbassyAssumption DEF TicksOf, CountsOf

\* Division and remainder round down.
LEMMA RoundsDown ==
    ASSUME NEW a \in Nat, NEW b \in Nat \ {0}
    PROVE  a % b <= a /\ (a \div b) * b <= a
<1>1. a % b <= a
  OBVIOUS
<1>2. (a \div b) * b <= a
  BY SMTT(30)
<1>. QED
  BY <1>1, <1>2

\* A product grows with its factors.
LEMMA ProductGrows ==
    ASSUME NEW a \in Nat, NEW b \in Nat, NEW c \in Nat, a <= b
    PROVE  a * c <= b * c
BY SMTT(30)

\* So does one after the other.
LEMMA RoundsDownTwice ==
    ASSUME NEW a \in Nat, NEW w \in Nat \ {0}, NEW c \in Nat \ {0},
           NEW d \in Nat, d <= (a % w) \div c
    PROVE  d * c <= a
<1> DEFINE rest == a % w
           quot == rest \div c
<1>1. rest \in Nat /\ rest <= a
  BY DivModType, RoundsDown
<1>2. d <= quot
  OBVIOUS
<1> HIDE DEF rest
<1>3. quot \in Nat /\ quot * c <= rest
  BY <1>1, DivModType, RoundsDown
<1> HIDE DEF quot
<1>4. d * c <= quot * c
  BY <1>2, <1>3, ProductGrows
<1>5. d * c \in Nat /\ quot * c \in Nat
  BY <1>3
<1>. QED
  BY <1>1, <1>3, <1>4, <1>5

\* The time read is never ahead of the counter, even when the product has
\* wrapped round.
LEMMA TicksNotAhead ==
    ASSUME NEW n \in Nat, NEW d \in Nat, d <= TicksOf(n)
    PROVE  d * TcxoHz <= n * TickHz
<1>1. n * TickHz \in Nat
  BY EmbassyAssumption
<1>2. d <= ((n * TickHz) % Word) \div TcxoHz
  BY DEF TicksOf
<1>. QED
  BY <1>1, <1>2, RoundsDownTwice, EmbassyAssumption

\* A load count is at least one and fits the register.
LEMMA LoadRange == \A n \in Nat : LoadFor(n) \in 1..MaxLoad
BY ConversionType, EmbassyAssumption DEF LoadFor

\* The driver starts with nothing queued and nothing armed.
LEMMA AlarmInit == Init => AlarmInv
<1> SUFFICES ASSUME Init
             PROVE  AlarmInv
  OBVIOUS
<1>0. 0 \in 0..(Lane - 1) /\ 0 \in 0..MaxLoad
  BY EmbassyAssumption
<1>1. TypeOK
  BY <1>0 DEF Init, TypeOK
<1>2. AlarmPending /\ AlarmForEarliest
  BY DEF Init, AlarmPending, AlarmForEarliest
<1>. QED
  BY <1>1, <1>2 DEF AlarmInv, Init

\* Every step leaves the state well typed.
LEMMA TypeStep == TypeOK /\ [Next]_vars => TypeOK'
<1> SUFFICES ASSUME TypeOK, [Next]_vars
             PROVE  TypeOK'
  OBVIOUS
<1> USE DEF TypeOK, alarmVars, nowVars
<1>1. ASSUME NEW t \in Sleepers, NEW at \in Deadlines, schedule_wake(t, at)
      PROVE  TypeOK'
  BY <1>1 DEF schedule_wake
<1>2. CASE on_alarm_interrupt
  BY <1>2 DEF on_alarm_interrupt
<1>3. CASE Expire
  <2>1. next' \in Deadlines \cup {Never}
    BY <1>3 DEF Expire, NextExpiration
  <2>. QED
    BY <1>3, <2>1 DEF Expire
<1>4. CASE Stop \/ Acknowledge
  BY <1>4 DEF Stop, Acknowledge
<1>5. CASE Arm
  <2>1. Delta(next, TicksOf(count)) \in Nat
    BY ConversionType, DeadlineRange DEF Delta
  <2>2. load' \in 0..MaxLoad
    BY <1>5, <2>1, LoadRange, EmbassyAssumption DEF Arm
  <2>. QED
    BY <1>5, <2>2 DEF Arm
<1>6. CASE Start
  BY <1>6 DEF Start
<1>7. CASE NowLatch
  BY <1>7 DEF NowLatch
<1>8. CASE NowLow
  <2>1. latch % Lane \in 0..(Lane - 1)
    BY DivModType, EmbassyAssumption
  <2>. QED
    BY <1>8, <2>1 DEF NowLow
<1>9. CASE NowHigh
  <2> DEFINE upper == latch \div Lane
  <2>0. upper \in Nat
    BY DivModType, EmbassyAssumption
  <2> HIDE DEF upper
  <2>1. upper * Lane + low \in Nat
    <3>1. Lane \in Nat /\ low \in Nat
      BY EmbassyAssumption
    <3>. QED
      BY <2>0, <3>1, PartsType
  <2>2. last' \in Nat
    <3>1. last' = TicksOf(upper * Lane + low)
      BY <1>9 DEF NowHigh, upper
    <3>. QED
      BY <2>1, <3>1, ConversionType
  <2>3. low' \in 0..(Lane - 1)
    BY <1>9, EmbassyAssumption DEF NowHigh
  <2>. QED
    BY <1>9, <2>2, <2>3 DEF NowHigh
<1>10. CASE Tick
  <2>1. left' \in 0..MaxLoad
    BY <1>10, EmbassyAssumption DEF Tick
  <2>. QED
    BY <1>10, <2>1 DEF Tick
<1>11. CASE UNCHANGED vars
  BY <1>11 DEF vars
<1>. QED
  BY <1>1, <1>2, <1>3, <1>4, <1>5, <1>6, <1>7, <1>8, <1>9, <1>10, <1>11
  DEF Next, Section

\* Outside the two steps that touch them, the critical section and the alarm
\* keep what they have established.
LEMMA AlarmUntouched ==
    ASSUME AlarmInv, TypeOK',
           UNCHANGED <<queue, running, load, left, raised, irqOn, cs, next>>
    PROVE  AlarmInv'
BY DEF AlarmInv, AlarmPending, AlarmForEarliest, Earliest

\* A queue whose earliest deadline is Never holds none.
LEMMA NothingQueued ==
    ASSUME TypeOK, Earliest(Never, queue)
    PROVE  \A t \in Sleepers : queue[t] = Never
<1> SUFFICES ASSUME NEW t \in Sleepers
             PROVE  queue[t] = Never
  OBVIOUS
<1>1. Never <= queue[t] /\ queue[t] \in Deadlines \cup {Never}
  BY DEF Earliest, TypeOK
<1>. QED
  BY <1>1, DeadlineRange

\* Every step keeps the alarm on its way.
LEMMA AlarmStep == AlarmInv /\ [Next]_vars => AlarmInv'
<1> SUFFICES ASSUME AlarmInv, [Next]_vars
             PROVE  AlarmInv'
  OBVIOUS
<1>0. TypeOK'
  BY TypeStep DEF AlarmInv
<1> USE DEF AlarmInv, AlarmPending, AlarmForEarliest, alarmVars, nowVars
<1>1. ASSUME NEW t \in Sleepers, NEW at \in Deadlines, schedule_wake(t, at)
      PROVE  AlarmInv'
  <2>1. CASE at < queue[t]
    BY <1>0, <1>1, <2>1 DEF schedule_wake
  <2>2. CASE ~ (at < queue[t])
    <3>1. queue' = queue /\ cs' = cs
      BY <1>1, <2>2 DEF schedule_wake, TypeOK
    <3>. QED
      BY <1>0, <1>1, <3>1, AlarmUntouched DEF schedule_wake
  <2>. QED
    BY <2>1, <2>2
<1>2. CASE on_alarm_interrupt
  BY <1>0, <1>2 DEF on_alarm_interrupt
<1>3. CASE Expire
  <2>1. Earliest(next, queue)'
    BY <1>3 DEF Expire, NextExpiration
  <2>. QED
    BY <1>0, <1>3, <2>1 DEF Expire
<1>4. CASE Stop
  BY <1>0, <1>4 DEF Stop, Earliest
<1>5. CASE Acknowledge
  <2>1. CASE next = Never
    <3>1. \A t \in Sleepers : queue[t] = Never
      BY <1>5, <2>1, NothingQueued DEF Acknowledge
    <3>. QED
      BY <1>0, <1>5, <2>1, <3>1 DEF Acknowledge, Earliest
  <2>2. CASE next # Never
    BY <1>0, <1>5, <2>2 DEF Acknowledge, Earliest
  <2>. QED
    BY <2>1, <2>2
<1>6. CASE Arm
  <2>1. Delta(next, TicksOf(count)) \in Nat
    BY ConversionType, DeadlineRange DEF Delta, TypeOK
  <2>2. load' > 0
    BY <1>6, <2>1, LoadRange, EmbassyAssumption DEF Arm
  <2>. QED
    BY <1>0, <1>6, <2>2 DEF Arm, Earliest
<1>7. CASE Start
  BY <1>0, <1>7 DEF Start, Earliest
<1>8. CASE NowLatch \/ NowLow \/ NowHigh
  BY <1>0, <1>8, AlarmUntouched DEF NowLatch, NowLow, NowHigh
<1>9. CASE Tick
  <2>1. UNCHANGED <<queue, running, load, irqOn, cs, next>>
    BY <1>9 DEF Tick
  <2>2. raised \/ (running /\ left > 0) => raised' \/ (running' /\ left' > 0)
    BY <1>9 DEF Tick, TypeOK
  <2>. QED
    BY <1>0, <2>1, <2>2 DEF Earliest
<1>10. CASE UNCHANGED vars
  BY <1>0, <1>10, AlarmUntouched DEF vars
<1>. QED
  BY <1>1, <1>2, <1>3, <1>4, <1>5, <1>6, <1>7, <1>8, <1>9, <1>10
  DEF Next, Section

\* The alarm is never lost: with a deadline in the queue it is counting, or
\* raised, with its interrupt on.
THEOREM AlarmAlwaysPending == Spec => []AlarmPending
<1>1. AlarmInv => AlarmPending
  BY DEF AlarmInv
<1>. QED
  BY <1>1, AlarmInit, AlarmStep, PTL DEF Spec

\* The alarm is never set for anything but the earliest deadline.
THEOREM AlarmAlwaysEarliest == Spec => []AlarmForEarliest
<1>1. AlarmInv => AlarmForEarliest
  BY DEF AlarmInv
<1>. QED
  BY <1>1, AlarmInit, AlarmStep, PTL DEF Spec

\* No task is woken before its deadline, though alarms fire early.
THEOREM NeverWokenEarly == Spec => NeverEarly
<1>1. ASSUME TypeOK, [Next]_vars
      PROVE  [\A t \in Sleepers :
                 queue[t] # Never /\ queue'[t] = Never =>
                    queue[t] * TcxoHz <= count * TickHz]_vars
  <2> SUFFICES ASSUME NEW t \in Sleepers, queue[t] # Never, queue'[t] = Never
               PROVE  queue[t] * TcxoHz <= count * TickHz
    OBVIOUS
  <2>1. queue[t] \in Nat /\ count \in Nat
    BY <1>1, DeadlineRange DEF TypeOK
  <2>2. CASE Expire
    <3>1. queue[t] <= TicksOf(count)
      BY <2>2, <1>1 DEF Expire, TypeOK
    <3>. QED
      BY <2>1, <3>1, TicksNotAhead
  <2>3. ASSUME NEW u \in Sleepers, NEW at \in Deadlines, schedule_wake(u, at)
        PROVE  FALSE
    <3>1. queue'[t] = queue[t] \/ queue'[t] = at
      BY <2>3, <1>1 DEF schedule_wake, TypeOK
    <3>2. at # Never
      BY DeadlineRange
    <3>. QED
      BY <3>1, <3>2
  <2>4. CASE UNCHANGED queue
    BY <2>4
  <2>. QED
    BY <1>1, <2>2, <2>3, <2>4
    DEF Next, Section, on_alarm_interrupt, Stop, Acknowledge, Arm, Start,
        NowLatch, NowLow, NowHigh, Tick, vars
<1>2. AlarmInv => TypeOK
  BY DEF AlarmInv
<1>. QED
  BY <1>1, <1>2, AlarmInit, AlarmStep, PTL DEF Spec, NeverEarly

-----------------------------------------------------------------------------
(* Async reception.                                                         *)

\* The reader and its signal are of the program.
LEMMA OneReader == Reader \in Tasks /\ Port \in Signals
BY UartAssumption DEF Reader, Port

\* The FIFO holds what has come in, and the status bit never hides a byte.
FifoSeen ==
    /\ fifo # <<>> => notEmpty
    /\ \A i \in 1..Len(fifo) : fifo[i] \in 1..sent
    /\ since <= sent

\* While a read waits, whatever can reach it came in since it began: what is in the FIFO,
\* and once the signal has fired what is in the slot.
WaitsForFresh ==
    /\ uartPc \in {"reset", "enable", "await", "get"} =>
         \A i \in 1..Len(fifo) : fifo[i] > since
    /\ uartPc \in {"enable", "await"} /\ fired[Port] => slot > since
    /\ uartPc = "get" => slot > since

UartInv == UartTypeOK /\ FifoSeen /\ WaitsForFresh

\* At reset nothing has come in.
LEMMA UartStarts == UartInit => UartInv
<1>. SUFFICES ASSUME UartInit PROVE UartInv
  OBVIOUS
<1>1. ExecutorTypeOK
  BY DEF UartInit, ExecutorInit, SignalInit, ExecutorTypeOK, SignalTypeOK, PollStates
<1>2. 0 \in Bytes
  BY UartAssumption DEF Bytes
<1>. QED
  <2>1. fifo \in Seq(Bytes) /\ Len(fifo) = 0 /\ 1..Len(fifo) = {}
    BY NothingYet DEF UartInit
  <2>2. UartTypeOK
    BY <1>1, <1>2, <2>1 DEF UartInit, UartTypeOK
  <2>3. FifoSeen /\ WaitsForFresh
    BY <2>1 DEF UartInit, FifoSeen, WaitsForFresh
  <2>. QED  BY <2>2, <2>3 DEF UartInv

\* What the future and the executor do keeps their types.
LEMMA FutureKeepsTypes ==
    ASSUME ExecutorTypeOK,
           \/ FutureStep(Port, Reader) \/ SleepStep(Reader) \/ OtherWake
           \/ PollReady(Port, Reader)
    PROVE  ExecutorTypeOK'
BY OneReader
   DEF ExecutorTypeOK, SignalTypeOK, PollStates, FutureStep, SleepStep, PollNotFired, PollPark,
       Sleep, PolledAgain, OtherWake, Interrupted, PollReady, MovePoll, take_fired, register,
       signalVars

\* The signal fires in a handler alone: the other steps leave it, or take it.
LEMMA FutureTakes ==
    ASSUME ExecutorTypeOK,
           \/ FutureStep(Port, Reader) \/ SleepStep(Reader) \/ OtherWake
           \/ PollReady(Port, Reader)
    PROVE  fired'[Port] => fired[Port]
BY OneReader
   DEF ExecutorTypeOK, SignalTypeOK, FutureStep, SleepStep, PollNotFired, PollPark,
       Sleep, PolledAgain, OtherWake, PollReady, take_fired, register, signalVars

\* What a read of the data register leaves in the FIFO was there before.
LEMMA PopKeeps ==
    ASSUME UartTypeOK, FifoSeen, Popped
    PROVE  /\ fifo' \in Seq(Bytes) /\ notEmpty' \in BOOLEAN
           /\ fifo' # <<>> => notEmpty'
           /\ \A i \in 1..Len(fifo') : \E j \in 1..Len(fifo) : fifo'[i] = fifo[j]
<1>1. fifo \in Seq(Bytes) /\ notEmpty \in BOOLEAN
  BY DEF UartTypeOK
<1>a. (Len(fifo) > 1) \in BOOLEAN
  OBVIOUS
<1>b. notEmpty' = notEmpty \/ notEmpty' = (Len(fifo) > 1)
  BY Zenon DEF Popped
<1>c. notEmpty' \in BOOLEAN
  BY <1>1, <1>a, <1>b, Zenon
<1>2. CASE fifo = <<>>
  <2>1. fifo' = <<>> /\ Len(fifo') = 0 /\ fifo' \in Seq(Bytes)
    BY <1>2, NothingYet DEF Popped
  <2>2. 1..Len(fifo') = {}
    BY <2>1
  <2>. QED  BY <1>c, <2>1, <2>2
<1>3. CASE fifo # <<>>
  <2>1. /\ fifo' = Tail(fifo) /\ fifo' \in Seq(Bytes) /\ Len(fifo') = Len(fifo) - 1
        /\ Len(fifo) \in Nat /\ \A i \in 1..Len(fifo') : fifo'[i] = fifo[i + 1]
    BY <1>1, <1>3, HeadTailProperties, LenProperties DEF Popped
  <2>2. ASSUME NEW i \in 1..Len(fifo')
        PROVE  \E j \in 1..Len(fifo) : fifo'[i] = fifo[j]
    <3>1. i + 1 \in 1..Len(fifo)
      BY <2>1
    <3>. QED  BY <2>1, <3>1
  <2>3. fifo' # <<>> => Len(fifo') # 0
    BY <2>1, EmptySeq
  <2>4. fifo' # <<>> => Len(fifo) > 1
    BY <2>1, <2>3
  <2>5. fifo' # <<>> => notEmpty'
    BY <1>3, <1>b, <2>4, Zenon DEF FifoSeen
  <2>. QED  BY <1>c, <2>1, <2>2, <2>5
<1>. QED
  BY <1>2, <1>3

\* A byte taken from the FIFO is one of its bytes.
LEMMA OldestByte ==
    ASSUME UartTypeOK, fifo # <<>>
    PROVE  1 \in 1..Len(fifo) /\ Head(fifo) = fifo[1] /\ Head(fifo) \in Bytes
<1>1. fifo \in Seq(Bytes)
  BY DEF UartTypeOK
<1>2. Len(fifo) \in Nat /\ Len(fifo) # 0
  BY <1>1, EmptySeq, LenProperties
<1>3. 1 \in 1..Len(fifo)
  BY <1>2
<1>4. fifo[1] \in Bytes
  BY <1>1, <1>3, ElementOfSeq
<1>. QED
  BY <1>1, <1>3, <1>4, HeadTailProperties

\* Every step keeps the types, what the FIFO holds, and what a waiting read may see.
LEMMA UartStepKeeps == UartInv /\ [UartNext]_uartAsyncVars => UartInv'
<1>. SUFFICES ASSUME UartInv, [UartNext]_uartAsyncVars
              PROVE  UartInv'
  OBVIOUS
<1>t. UartTypeOK /\ FifoSeen /\ WaitsForFresh /\ ExecutorTypeOK
  BY DEF UartInv, UartTypeOK
<1>s. /\ fired \in [Signals -> BOOLEAN] /\ waker \in [Signals -> Tasks \cup {NoTask}]
      /\ woken \in SUBSET Tasks /\ poll \in [Tasks -> PollStates]
  BY <1>t DEF ExecutorTypeOK, SignalTypeOK
<1>b. sent \in Nat /\ since \in Nat /\ sent <= MaxBytes /\ MaxBytes \in Nat
  BY <1>t, UartAssumption DEF UartTypeOK, Bytes
<1>0. CASE UNCHANGED uartAsyncVars
  BY <1>0, <1>t DEF uartAsyncVars, executorVars, signalVars, uartVars, readVars, UartInv,
     UartTypeOK, ExecutorTypeOK, SignalTypeOK, FifoSeen, WaitsForFresh
<1>1. CASE read_one
  <2>1. ExecutorTypeOK' /\ UNCHANGED <<uartVars, lastByte, due>> /\ since' = sent
    BY <1>1, <1>t DEF read_one, executorVars, signalVars, ExecutorTypeOK, SignalTypeOK
  <2>2. uartPc' = (IF notEmpty THEN "pop" ELSE "reset")
    BY <1>1 DEF read_one, UartGoto
  <2>3. uartPc' = "reset" => fifo = <<>> /\ Len(fifo) = 0
    BY <1>t, <2>2, NothingYet DEF FifoSeen
  <2>. QED  BY <1>t, <1>b, <2>1, <2>2, <2>3 DEF UartInv, UartTypeOK, FifoSeen, WaitsForFresh, uartVars
<1>2. CASE PopDirect
  <2>1. ExecutorTypeOK' /\ UNCHANGED <<sent, rxIrqOn, slot, since, due>> /\ uartPc' = "idle"
    BY <1>2, <1>t DEF PopDirect, UartGoto, executorVars, signalVars, ExecutorTypeOK, SignalTypeOK
  <2>2. Popped
    BY <1>2 DEF PopDirect
  <2>3. lastByte' \in Bytes
    BY <1>2, <1>t, <1>b, OldestByte DEF PopDirect, DataRead, Bytes
  <2>4. /\ fifo' \in Seq(Bytes) /\ notEmpty' \in BOOLEAN /\ (fifo' # <<>> => notEmpty')
        /\ \A i \in 1..Len(fifo') : \E j \in 1..Len(fifo) : fifo'[i] = fifo[j]
    BY <1>t, <2>2, PopKeeps
  <2>5. FifoSeen'
    BY <1>t, <2>1, <2>4 DEF FifoSeen
  <2>. QED  BY <1>t, <2>1, <2>3, <2>4, <2>5 DEF UartInv, UartTypeOK, WaitsForFresh
<1>3. CASE ResetSignal
  <2>1. /\ UNCHANGED <<poll, uartVars, readVars>> /\ uartPc = "reset" /\ uartPc' = "enable"
        /\ fired' = [fired EXCEPT ![Port] = FALSE] /\ waker' = [waker EXCEPT ![Port] = NoTask]
        /\ UNCHANGED woken
    BY <1>3 DEF ResetSignal, UartGoto, reset
  <2>2. ExecutorTypeOK' /\ ~ fired'[Port]
    BY <1>s, <2>1, OneReader DEF ExecutorTypeOK, SignalTypeOK
  <2>. QED  BY <1>t, <2>1, <2>2 DEF UartInv, UartTypeOK, FifoSeen, WaitsForFresh, uartVars, readVars
<1>4. CASE EnableIrq
  <2>1. /\ uartPc = "enable" /\ uartPc' = "await" /\ rxIrqOn' = TRUE /\ due' = FALSE
        /\ poll' = [poll EXCEPT ![Reader] = "poll"]
        /\ UNCHANGED <<fired, waker, woken, sent, fifo, notEmpty, slot, since, lastByte>>
    BY <1>4 DEF EnableIrq, UartGoto, signalVars
  <2>2. ExecutorTypeOK'
    BY <1>s, <2>1, OneReader DEF ExecutorTypeOK, SignalTypeOK, PollStates
  <2>. QED  BY <1>t, <2>1, <2>2 DEF UartInv, UartTypeOK, FifoSeen, WaitsForFresh
<1>5. CASE AwaitStep \/ OtherEvent
  <2>1. /\ UNCHANGED <<uartVars, uartPc, readVars>>
        /\ FutureStep(Port, Reader) \/ SleepStep(Reader) \/ OtherWake
    BY <1>5 DEF AwaitStep, OtherEvent
  <2>2. ExecutorTypeOK' /\ (fired'[Port] => fired[Port])
    BY <1>t, <2>1, FutureKeepsTypes, FutureTakes
  <2>. QED  BY <1>t, <2>1, <2>2 DEF UartInv, UartTypeOK, FifoSeen, WaitsForFresh, uartVars, readVars
<1>6. CASE FutureReady
  <2>1. /\ UNCHANGED <<uartVars, readVars>> /\ uartPc = "await" /\ uartPc' = "get"
        /\ PollReady(Port, Reader) /\ fired[Port]
    BY <1>6 DEF FutureReady, UartGoto, PollReady
  <2>2. ExecutorTypeOK'
    BY <1>t, <2>1, FutureKeepsTypes
  <2>. QED  BY <1>t, <2>1, <2>2 DEF UartInv, UartTypeOK, FifoSeen, WaitsForFresh, uartVars, readVars
<1>7. CASE GetSlot
  <2>1. ExecutorTypeOK' /\ UNCHANGED <<uartVars, since>> /\ uartPc' = "idle" /\ lastByte' = slot
        /\ due' = FALSE
    BY <1>7, <1>t DEF GetSlot, UartGoto, executorVars, signalVars, ExecutorTypeOK, SignalTypeOK
  <2>. QED  BY <1>t, <2>1 DEF UartInv, UartTypeOK, FifoSeen, WaitsForFresh, uartVars
<1>8. CASE on_interrupt
  <2>1. /\ fifo # <<>> /\ slot' = Head(fifo) /\ Popped /\ signal({Port}) /\ poll' = Interrupted
        /\ UNCHANGED <<sent, rxIrqOn, uartPc, since, lastByte, due>>
    BY <1>8 DEF on_interrupt, readVars
  <2>2. fired' \in [Signals -> BOOLEAN] /\ waker' \in [Signals -> Tasks \cup {NoTask}]
    BY <1>s, <2>1 DEF signal
  <2>3. woken' \in SUBSET Tasks
    BY <1>s, <2>1, OneReader DEF signal
  <2>4. poll' \in [Tasks -> PollStates]
    BY <1>s, <2>1 DEF Interrupted, PollStates
  <2>5. ExecutorTypeOK'
    BY <2>2, <2>3, <2>4 DEF ExecutorTypeOK, SignalTypeOK
  <2>6. 1 \in 1..Len(fifo) /\ slot' = fifo[1] /\ slot' \in Bytes
    BY <1>t, <2>1, OldestByte
  <2>7. /\ fifo' \in Seq(Bytes) /\ notEmpty' \in BOOLEAN /\ (fifo' # <<>> => notEmpty')
        /\ \A i \in 1..Len(fifo') : \E j \in 1..Len(fifo) : fifo'[i] = fifo[j]
    BY <1>t, <2>1, PopKeeps
  <2>8. FifoSeen'
    BY <1>t, <2>1, <2>7 DEF FifoSeen
  <2>9. UartTypeOK'
    BY <1>t, <2>1, <2>5, <2>6, <2>7 DEF UartTypeOK
  <2>10. WaitsForFresh'
    <3>1. ASSUME uartPc \in {"reset", "enable", "await", "get"}
          PROVE  slot' > since /\ \A i \in 1..Len(fifo') : fifo'[i] > since
      BY <1>t, <2>6, <2>7, <3>1 DEF WaitsForFresh
    <3>. QED  BY <2>1, <3>1 DEF WaitsForFresh
  <2>. QED  BY <2>8, <2>9, <2>10 DEF UartInv
<1>9. CASE Arrive
  <2>1. /\ sent < MaxBytes /\ sent' = sent + 1 /\ fifo' = Append(fifo, sent + 1)
        /\ notEmpty' = TRUE /\ due' = (due \/ uartPc = "await")
        /\ UNCHANGED <<fired, waker, woken, poll, rxIrqOn, slot, uartPc, since, lastByte>>
    BY <1>9 DEF Arrive, executorVars, signalVars
  <2>2. sent' \in Bytes /\ sent + 1 \in Bytes
    BY <1>b, <2>1 DEF Bytes
  <2>3. /\ fifo' \in Seq(Bytes) /\ Len(fifo') = Len(fifo) + 1 /\ Len(fifo) \in Nat
        /\ fifo'[Len(fifo) + 1] = sent + 1
        /\ \A i \in 1..Len(fifo) : fifo'[i] = fifo[i]
    BY <1>t, <2>1, <2>2, AppendProperties, LenProperties DEF UartTypeOK
  <2>4. \A i \in 1..Len(fifo') : i \in 1..Len(fifo) \/ i = Len(fifo) + 1
    BY <2>3
  <2>5. ExecutorTypeOK'
    BY <1>s, <2>1 DEF ExecutorTypeOK, SignalTypeOK
  <2>6. UartTypeOK'
    BY <1>t, <2>1, <2>2, <2>3, <2>5 DEF UartTypeOK
  <2>7. FifoSeen'
    <3>1. \A i \in 1..Len(fifo') : fifo'[i] \in 1..sent'
      BY <1>t, <1>b, <2>1, <2>3, <2>4 DEF FifoSeen
    <3>. QED  BY <1>t, <1>b, <2>1, <3>1 DEF FifoSeen
  <2>8. WaitsForFresh'
    <3>1. sent + 1 > since
      BY <1>t, <1>b DEF FifoSeen
    <3>2. uartPc \in {"reset", "enable", "await", "get"} =>
            \A i \in 1..Len(fifo') : fifo'[i] > since
      BY <1>t, <2>3, <2>4, <3>1 DEF WaitsForFresh
    <3>. QED  BY <1>t, <2>1, <3>2 DEF WaitsForFresh
  <2>. QED  BY <2>6, <2>7, <2>8 DEF UartInv
<1>. QED
  BY <1>0, <1>1, <1>2, <1>3, <1>4, <1>5, <1>6, <1>7, <1>8, <1>9 DEF UartNext, TaskStep

\* The byte handed out is the slot's, which the signal said was fresh.
LEMMA UartGives ==
    ASSUME UartInv, [UartNext]_uartAsyncVars, uartPc = "get", uartPc' = "idle"
    PROVE  lastByte' > since
<1>1. GetSlot
  BY DEF UartNext, TaskStep, uartAsyncVars, read_one, PopDirect, ResetSignal, EnableIrq, AwaitStep,
     FutureReady, on_interrupt, OtherEvent, Arrive, UartGoto
<1>. QED
  BY <1>1 DEF GetSlot, UartInv, WaitsForFresh

\* However bytes, interrupts and other events fall, a byte that a read had to wait for
\* came in while it waited (uart.rs, read_one and on_interrupt).
THEOREM AwaitedBytesFresh == UartSpec => AwaitedByteIsFresh
<1>1. UartInv /\ [UartNext]_uartAsyncVars =>
        [uartPc = "get" /\ uartPc' = "idle" => lastByte' > since]_uartAsyncVars
  BY UartGives
<1>. QED
  BY <1>1, UartStarts, UartStepKeeps, PTL DEF UartSpec, AwaitedByteIsFresh

\* The state of the async UART stays well typed.
LEMMA UartTyped == UartSpec => []UartTypeOK
<1>1. UartInv => UartTypeOK
  BY DEF UartInv
<1>. QED
  BY <1>1, UartStarts, UartStepKeeps, PTL DEF UartSpec

-----------------------------------------------------------------------------
(* Random numbers.                                                          *)

TrTyped ==
    /\ trKind \in {"ws63", "bs2x"} /\ trRings \in BOOLEAN /\ trDone \in BOOLEAN
    /\ trFifo \in Seq(Nat) /\ Len(trFifo) <= TrngDepth /\ trMade \in 0..TrngWords
    /\ trCall \in [TrContexts -> [op : TrOps \cup {"none"}, want : Nat]]
    /\ trStep \in [TrContexts -> {"poll", "pop"}]
    /\ trBuffer \in [TrContexts -> Seq(Nat \X Nat)]
    /\ trResult \in [TrContexts -> {"none", "ok", "no data", "timeout"}]

\* The words of the FIFO are in the order they were made, and later than every word that
\* a buffer has bytes of.
TrOrdered ==
    /\ \A i \in 1..Len(trFifo) : trFifo[i] \in 1..trMade
    /\ \A i, j \in 1..Len(trFifo) : i < j => trFifo[i] < trFifo[j]
    /\ \A c \in TrContexts : \A k \in 1..Len(trBuffer[c]) :
         /\ trBuffer[c][k][1] \in 1..trMade
         /\ \A i \in 1..Len(trFifo) : trBuffer[c][k][1] < trFifo[i]

\* No byte is in two places.
TrApart ==
    /\ \A c \in TrContexts : \A k, l \in 1..Len(trBuffer[c]) :
         trBuffer[c][k] = trBuffer[c][l] => k = l
    /\ \A k \in 1..Len(trBuffer["main"]) : \A l \in 1..Len(trBuffer["handler"]) :
         trBuffer["main"][k] # trBuffer["handler"][l]

\* One context calls at a time; one that is about to pop has a whole word there and room.
TrCalling ==
    /\ trCall["main"].op = "none" \/ trCall["handler"].op = "none"
    /\ \A c \in TrContexts :
         /\ trStep[c] = "pop" =>
              /\ trCall[c].op # "none" /\ ~ Filled(c) /\ trFifo # <<>>
              /\ ~ trDone => Len(trFifo) > 1
         /\ trCall[c].op # "none" => Len(trBuffer[c]) <= trCall[c].want
    /\ trKind = "ws63" => trDone

TrInv == TrTyped /\ TrOrdered /\ TrApart /\ TrCalling

\* The numbers among them.
LEMMA TrNumbers ==
    ASSUME TrTyped
    PROVE  /\ trFifo \in Seq(Nat) /\ Len(trFifo) \in Nat /\ Len(trFifo) <= TrngDepth
           /\ trMade \in Nat /\ trMade <= TrngWords /\ TrngWords \in Nat /\ TrngDepth \in Nat
           /\ \A c \in TrContexts : trBuffer[c] \in Seq(Nat \X Nat)
<1>1. trFifo \in Seq(Nat) /\ Len(trFifo) <= TrngDepth /\ trMade \in 0..TrngWords
  BY Zenon DEF TrTyped
<1>2. trBuffer \in [TrContexts -> Seq(Nat \X Nat)]
  BY Zenon DEF TrTyped
<1>3. TrngWords \in Nat /\ TrngDepth \in Nat
  BY TrngAssumption
<1>4. Len(trFifo) \in Nat
  BY <1>1, LenProperties
<1>5. trMade \in Nat /\ trMade <= TrngWords
  BY <1>1, <1>3
<1>. QED
  BY <1>1, <1>2, <1>3, <1>4, <1>5

\* Nothing is made or called at first.
LEMMA TrStarts == TrInit => TrInv
<1>. SUFFICES ASSUME TrInit PROVE TrInv
  OBVIOUS
<1>1. trFifo \in Seq(Nat) /\ Len(trFifo) = 0 /\ 1..Len(trFifo) = {}
  BY NothingYet DEF TrInit
<1>2. <<>> \in Seq(Nat \X Nat) /\ Len(<<>>) = 0 /\ 1..0 = {}
  BY NothingYet
<1>3. \A c \in TrContexts : trBuffer[c] = <<>> /\ trCall[c] = TrIdle /\ trStep[c] = "poll"
  BY DEF TrInit
<1>4. TrIdle \in [op : TrOps \cup {"none"}, want : Nat] /\ TrIdle.op = "none"
  BY DEF TrIdle
<1>5. TrTyped
  BY <1>1, <1>2, <1>4, TrngAssumption DEF TrInit, TrTyped
<1>6. TrOrdered /\ TrApart
  BY <1>1, <1>2, <1>3 DEF TrOrdered, TrApart, TrContexts
<1>7. TrCalling
  BY <1>3, <1>4 DEF TrInit, TrCalling, TrContexts
<1>. QED
  BY <1>5, <1>6, <1>7 DEF TrInv

\* A word more.
LEMMA TrMakeKeeps == TrInv /\ MakeWord => TrInv'
<1>. SUFFICES ASSUME TrInv, MakeWord PROVE TrInv'
  OBVIOUS
<1>t. TrTyped /\ TrOrdered /\ TrApart /\ TrCalling
  BY DEF TrInv
<1>1. /\ trMade < TrngWords /\ Len(trFifo) < TrngDepth /\ trMade' = trMade + 1 /\ trDone
      /\ trFifo' = Append(trFifo, trMade + 1) /\ trDone' = (trKind = "ws63")
      /\ UNCHANGED <<trKind, trRings, trCall, trStep, trBuffer, trResult>>
  BY DEF MakeWord
<1>n. /\ trFifo \in Seq(Nat) /\ Len(trFifo) \in Nat /\ Len(trFifo) <= TrngDepth
      /\ trMade \in Nat /\ trMade <= TrngWords /\ TrngWords \in Nat /\ TrngDepth \in Nat
  BY <1>t, TrNumbers
<1>2. trMade \in Nat /\ trMade + 1 \in Nat /\ trMade + 1 \in 0..TrngWords
  BY <1>n, <1>1
<1>3. /\ trFifo' \in Seq(Nat) /\ Len(trFifo') = Len(trFifo) + 1 /\ Len(trFifo) \in Nat
      /\ trFifo'[Len(trFifo) + 1] = trMade + 1
      /\ \A i \in 1..Len(trFifo) : trFifo'[i] = trFifo[i]
  BY <1>n, <1>1, <1>2, OneAfter
<1>4. \A i \in 1..Len(trFifo') : i \in 1..Len(trFifo) \/ i = Len(trFifo) + 1
  BY <1>3
<1>5. TrTyped'
  <2>1. Len(trFifo') <= TrngDepth /\ trMade' \in 0..TrngWords
    BY <1>n, <1>1, <1>2, <1>3
  <2>2. trDone' \in BOOLEAN
    BY <1>1
  <2>. QED  BY <1>t, <1>1, <1>3, <2>1, <2>2, Zenon DEF TrTyped
<1>6. TrOrdered'
  <2>1. \A i \in 1..Len(trFifo') : trFifo'[i] \in 1..(trMade + 1)
    BY <1>t, <1>2, <1>3, <1>4 DEF TrOrdered
  <2>2. \A i, j \in 1..Len(trFifo') : i < j => trFifo'[i] < trFifo'[j]
    BY <1>t, <1>2, <1>3, <1>4 DEF TrOrdered
  <2>3. ASSUME NEW c \in TrContexts, NEW k \in 1..Len(trBuffer[c])
        PROVE  /\ trBuffer[c][k][1] \in 1..(trMade + 1)
               /\ \A i \in 1..Len(trFifo') : trBuffer[c][k][1] < trFifo'[i]
    <3>1. trBuffer[c][k][1] \in 1..trMade /\ \A i \in 1..Len(trFifo) : trBuffer[c][k][1] < trFifo[i]
      BY <1>t DEF TrOrdered
    <3>2. trBuffer[c][k][1] < trMade + 1 /\ trBuffer[c][k][1] \in 1..(trMade + 1)
      BY <1>n, <3>1
    <3>3. ASSUME NEW i \in 1..Len(trFifo')
          PROVE  trBuffer[c][k][1] < trFifo'[i]
      <4>1. CASE i \in 1..Len(trFifo)
        BY <1>3, <3>1, <4>1
      <4>2. CASE i = Len(trFifo) + 1
        BY <1>3, <3>2, <4>2
      <4>. QED  BY <1>4, <4>1, <4>2
    <3>. QED  BY <3>2, <3>3
  <2>. QED  BY <1>1, <2>1, <2>2, <2>3 DEF TrOrdered
<1>7. TrApart'
  BY <1>t, <1>1 DEF TrApart
<1>8. TrCalling'
  <2>1. trFifo # <<>> => Len(trFifo) # 0
    BY <1>t, EmptySeq DEF TrTyped
  <2>2. trFifo # <<>> => Len(trFifo') > 1 /\ trFifo' # <<>>
    BY <1>3, <2>1, NothingYet
  <2>. QED  BY <1>t, <1>1, <2>2 DEF TrCalling, Filled
<1>. QED
  BY <1>5, <1>6, <1>7, <1>8 DEF TrInv

\* A call begins with an empty buffer, where no other is under way.
LEMMA TrCallKeeps ==
    ASSUME ~ TrngShared, TrInv, NEW c \in TrContexts, TrCall(c)
    PROVE  TrInv'
<1>t. TrTyped /\ TrOrdered /\ TrApart /\ TrCalling
  BY DEF TrInv
<1>1. PICK call \in [op : TrOps, want : Nat] : trCall' = [trCall EXCEPT ![c] = call]
  <2>1. \A want \in TrngAsked : want * TrngBytes \in Nat /\ want \in Nat
    BY TrngAssumption
  <2>2. \/ \E op \in {"read", "read_blocking"} :
              trCall' = [trCall EXCEPT ![c] = [op |-> op, want |-> TrngBytes]]
        \/ \E want \in TrngAsked :
              trCall' = [trCall EXCEPT ![c] = [op |-> "fill_bytes", want |-> want]]
        \/ \E want \in TrngAsked :
              trCall' = [trCall EXCEPT ![c] = [op |-> "fill_words", want |-> want * TrngBytes]]
    BY DEF TrCall
  <2>3. CASE \E op \in {"read", "read_blocking"} :
              trCall' = [trCall EXCEPT ![c] = [op |-> op, want |-> TrngBytes]]
    BY <2>3, TrngAssumption DEF TrOps
  <2>4. CASE \E want \in TrngAsked :
              trCall' = [trCall EXCEPT ![c] = [op |-> "fill_bytes", want |-> want]]
    BY <2>1, <2>4 DEF TrOps
  <2>5. CASE \E want \in TrngAsked :
              trCall' = [trCall EXCEPT ![c] = [op |-> "fill_words", want |-> want * TrngBytes]]
    BY <2>1, <2>5 DEF TrOps
  <2>. QED  BY <2>2, <2>3, <2>4, <2>5
<1>2. /\ trBuffer' = [trBuffer EXCEPT ![c] = <<>>] /\ trResult' = [trResult EXCEPT ![c] = "none"]
      /\ UNCHANGED <<trKind, trRings, trFifo, trDone, trMade, trStep>>
      /\ trCall[c].op = "none" /\ TrngRuns(c)
  BY DEF TrCall
<1>3. <<>> \in Seq(Nat \X Nat) /\ Len(<<>>) = 0 /\ 1..0 = {}
  BY NothingYet
<1>4. /\ trBuffer'[c] = <<>> /\ \A d \in TrContexts : d # c => trBuffer'[d] = trBuffer[d]
      /\ trCall'[c] = call /\ \A d \in TrContexts : d # c => trCall'[d] = trCall[d]
  BY <1>t, <1>1, <1>2 DEF TrTyped
<1>5. TrTyped'
  BY <1>t, <1>1, <1>2, <1>3 DEF TrTyped
<1>6. TrOrdered' /\ TrApart'
  BY <1>t, <1>2, <1>3, <1>4 DEF TrOrdered, TrApart, TrContexts
<1>7. TrCalling'
  <2>1. \A d \in TrContexts : d # c => trCall[d].op = "none"
    BY <1>2 DEF TrngRuns, TrContexts
  <2>2. trStep[c] # "pop"
    BY <1>t, <1>2 DEF TrCalling
  <2>3. \A d \in TrContexts : d # c => trCall'[d].op = "none" /\ trStep'[d] # "pop"
    BY <1>t, <1>2, <1>4, <2>1 DEF TrCalling
  <2>4. Len(trBuffer'[c]) <= trCall'[c].want
    BY <1>1, <1>3, <1>4
  <2>. QED  BY <1>t, <1>2, <1>4, <2>2, <2>3, <2>4 DEF TrCalling, TrContexts
<1>. QED
  BY <1>5, <1>6, <1>7 DEF TrInv

\* A look at the FIFO ends the call, or sees a whole word and goes on to take it.
LEMMA TrPollKeeps ==
    ASSUME TrInv, NEW c \in TrContexts, TrPoll(c)
    PROVE  TrInv'
<1>t. TrTyped /\ TrOrdered /\ TrApart /\ TrCalling
  BY DEF TrInv
<1>0. UNCHANGED <<trKind, trRings, trFifo, trDone, trMade, trBuffer>>
  BY DEF TrPoll, Return
<1>1. TrOrdered' /\ TrApart'
  BY <1>t, <1>0 DEF TrOrdered, TrApart
<1>2. CASE \E res \in {"ok", "no data", "timeout"} : Return(c, res)
  <2>1. PICK res \in {"ok", "no data", "timeout"} : Return(c, res)
    BY <1>2
  <2>2. /\ trCall' = [trCall EXCEPT ![c] = TrIdle] /\ UNCHANGED trStep /\ trStep[c] = "poll"
        /\ trResult' = [trResult EXCEPT ![c] = res]
    BY <2>1 DEF Return, TrPoll
  <2>3. TrIdle \in [op : TrOps \cup {"none"}, want : Nat] /\ TrIdle.op = "none"
    BY DEF TrIdle
  <2>4. TrTyped'
    BY <1>t, <1>0, <2>2, <2>3 DEF TrTyped
  <2>5. trCall'[c].op = "none" /\ \A d \in TrContexts : d # c => trCall'[d] = trCall[d]
    BY <1>t, <2>2, <2>3 DEF TrTyped
  <2>6. TrCalling'
    BY <1>t, <1>0, <2>2, <2>5 DEF TrCalling, Filled, TrContexts
  <2>. QED  BY <1>1, <2>4, <2>6 DEF TrInv
<1>3. CASE /\ ~ Filled(c) /\ trng_data_ready /\ trStep' = [trStep EXCEPT ![c] = "pop"]
           /\ UNCHANGED <<trCall, trResult>>
  <2>1. TrTyped'
    BY <1>t, <1>0, <1>3 DEF TrTyped
  <2>2. trFifo # <<>> /\ trDone
    BY <1>t, <1>3 DEF trng_data_ready, TrCalling, TrTyped
  <2>3. trCall[c].op # "none"
    BY DEF TrPoll
  <2>4. \A d \in TrContexts : d # c => trStep'[d] = trStep[d]
    BY <1>t, <1>3 DEF TrTyped
  <2>5. TrCalling'
    BY <1>t, <1>0, <1>3, <2>2, <2>3, <2>4 DEF TrCalling, Filled
  <2>. QED  BY <1>1, <2>1, <2>5 DEF TrInv
<1>. QED
  BY <1>2, <1>3 DEF TrPoll

\* The bytes that are kept of a word are at most those there is room for.
LEMMA KeptFits ==
    ASSUME TrTyped, NEW c \in TrContexts, ~ Filled(c)
    PROVE  /\ Kept(c) \in Nat /\ Len(trBuffer[c]) + Kept(c) <= trCall[c].want
           /\ Len(trBuffer[c]) \in Nat
<1>1. trBuffer[c] \in Seq(Nat \X Nat) /\ trCall[c].want \in Nat
  BY DEF TrTyped
<1>2. Len(trBuffer[c]) \in Nat
  BY <1>1, LenProperties
<1>. QED
  BY <1>1, <1>2, TrngAssumption DEF Kept, Filled

\* The oldest word leaves the FIFO, and its bytes come after those of earlier words.
LEMMA TrPopKeeps ==
    ASSUME ~ TrngShared, TrInv, NEW c \in TrContexts, TrPop(c)
    PROVE  TrInv'
<1>t. TrTyped /\ TrOrdered /\ TrApart /\ TrCalling
  BY DEF TrInv
<1>0. /\ trFifo # <<>> /\ (~ trDone => Len(trFifo) > 1) /\ ~ Filled(c) /\ trCall[c].op # "none"
  BY <1>t DEF TrPop, TrCalling
<1>n. /\ trFifo \in Seq(Nat) /\ Len(trFifo) \in Nat /\ Len(trFifo) <= TrngDepth
      /\ trMade \in Nat /\ trMade <= TrngWords /\ TrngWords \in Nat /\ TrngDepth \in Nat
  BY <1>t, TrNumbers
<1>. DEFINE word == trFifo[1]
            n == Kept(c)
            piece == [k \in 1..n |-> <<word, k>>]
            old == trBuffer[c]
            m == Len(old)
<1>1. /\ Len(trFifo) \in Nat /\ 1 \in 1..Len(trFifo) /\ Head(trFifo) = word /\ word \in Nat
      /\ Tail(trFifo) \in Seq(Nat) /\ Len(Tail(trFifo)) = Len(trFifo) - 1
      /\ \A i \in 1..Len(Tail(trFifo)) : i + 1 \in 1..Len(trFifo) /\ Tail(trFifo)[i] = trFifo[i + 1]
  BY <1>t, <1>0, OneLess DEF TrTyped
<1>2. /\ trBuffer' = [trBuffer EXCEPT ![c] = old \o piece] /\ trFifo' = Tail(trFifo)
      /\ trStep' = [trStep EXCEPT ![c] = "poll"]
      /\ UNCHANGED <<trKind, trRings, trDone, trMade, trCall, trResult>>
  <2>1. ~ (Len(trFifo) = 1 /\ ~ trDone)
    <3>1. \A k \in Nat : k > 1 => k # 1
      OBVIOUS
    <3>. QED  BY <1>0, <1>n, <3>1, Zenon
  <2>. QED  BY <1>0, <1>1, <2>1 DEF TrPop
<1>3. n \in Nat /\ m + n <= trCall[c].want /\ m \in Nat /\ old \in Seq(Nat \X Nat)
  BY <1>t, <1>0, KeptFits DEF TrTyped
<1>4. piece \in Seq(Nat \X Nat) /\ Len(piece) = n /\ \A k \in 1..n : piece[k] = <<word, k>>
  <2>. HIDE DEF word, n
  <2>. QED  BY <1>1, <1>3
<1>. HIDE DEF word, n, piece, old, m
<1>5. /\ old \o piece \in Seq(Nat \X Nat) /\ Len(old \o piece) = m + n
      /\ \A k \in 1..m : (old \o piece)[k] = old[k]
      /\ \A k \in 1..n : (old \o piece)[m + k] = <<word, k>>
  <2>1. /\ old \o piece \in Seq(Nat \X Nat) /\ Len(old \o piece) = Len(old) + Len(piece)
        /\ \A k \in 1..Len(old) : (old \o piece)[k] = old[k]
        /\ \A k \in 1..Len(piece) : (old \o piece)[Len(old) + k] = piece[k]
    <3>1. PICK T : T = Nat \X Nat
      OBVIOUS
    <3>2. old \in Seq(T) /\ piece \in Seq(T)
      BY <1>3, <1>4, <3>1
    <3>. QED  BY <3>1, <3>2, Joined
  <2>. QED  BY <1>4, <2>1 DEF m
<1>6. /\ trBuffer'[c] = old \o piece /\ \A d \in TrContexts : d # c => trBuffer'[d] = trBuffer[d]
      /\ trStep'[c] = "poll" /\ \A d \in TrContexts : d # c => trStep'[d] = trStep[d]
  BY <1>t, <1>2 DEF TrTyped
<1>. DEFINE new == trBuffer'[c]
<1>7. /\ new \in Seq(Nat \X Nat) /\ Len(new) = m + n
      /\ \A k \in 1..m : new[k] = old[k]
      /\ \A k \in 1..n : new[m + k] = <<word, k>>
      /\ \A k \in 1..Len(new) : k \in 1..m \/ \E l \in 1..n : k = m + l /\ new[k] = <<word, l>>
  <2>1. \A k \in 1..(m + n) : k \in 1..m \/ (k - m \in 1..n /\ k = m + (k - m))
    BY <1>3
  <2>2. new = old \o piece
    BY <1>6
  <2>. HIDE DEF new
  <2>3. /\ new \in Seq(Nat \X Nat) /\ Len(new) = m + n
        /\ \A k \in 1..m : new[k] = old[k]
        /\ \A k \in 1..n : new[m + k] = <<word, k>>
    BY <1>5, <2>2, Zenon
  <2>4. \A k \in 1..Len(new) : k \in 1..m \/ \E l \in 1..n : k = m + l /\ new[k] = <<word, l>>
    <3>. SUFFICES ASSUME NEW k \in 1..(m + n), k \notin 1..m
                  PROVE  \E l \in 1..n : k = m + l /\ new[k] = <<word, l>>
      BY <2>3
    <3>1. k - m \in 1..n /\ k = m + (k - m)
      BY <2>1
    <3>2. new[m + (k - m)] = <<word, k - m>>
      BY <2>3, <3>1
    <3>. QED  BY <3>1, <3>2
  <2>. QED  BY <2>3, <2>4
<1>. HIDE DEF new
<1>8. /\ \A k \in 1..m : old[k][1] \in 1..trMade /\ old[k][1] < word
      /\ \A i \in 1..Len(trFifo) : trFifo[i] \in 1..trMade
      /\ \A i \in 1..Len(trFifo') : trFifo'[i] \in 1..trMade /\ word < trFifo'[i]
      /\ \A d \in TrContexts : \A k \in 1..Len(trBuffer[d]) : trBuffer[d][k][1] < word
  <2>1. \A i \in 1..Len(trFifo') : 1 < i + 1 /\ i + 1 \in 1..Len(trFifo) /\ trFifo'[i] = trFifo[i + 1]
    BY <1>1, <1>2
  <2>2. \A i \in 1..Len(trFifo') : trFifo'[i] \in 1..trMade /\ word < trFifo'[i]
    BY <1>t, <1>1, <2>1 DEF TrOrdered, word
  <2>. QED  BY <1>t, <1>1, <2>2 DEF TrOrdered, word, old, m
<1>9. \A k \in 1..Len(new) :
         /\ new[k][1] \in 1..trMade
         /\ \A i \in 1..Len(trFifo') : new[k][1] < trFifo'[i]
  <2>. SUFFICES ASSUME NEW k \in 1..Len(new)
                PROVE  /\ new[k][1] \in 1..trMade
                       /\ \A i \in 1..Len(trFifo') : new[k][1] < trFifo'[i]
    OBVIOUS
  <2>0. trMade \in Nat /\ word \in 1..trMade
    BY <1>n, <1>1, <1>8 DEF word
  <2>a. \A i \in 1..Len(trFifo') : trFifo'[i] \in Nat /\ word < trFifo'[i]
    BY <1>n, <1>8
  <2>1. CASE k \in 1..m
    <3>1. new[k][1] \in 1..trMade /\ new[k][1] < word
      BY <1>7, <1>8, <2>1
    <3>. QED  BY <2>0, <2>a, <3>1
  <2>2. CASE \E l \in 1..n : k = m + l /\ new[k] = <<word, l>>
    <3>1. new[k][1] = word
      BY <2>2
    <3>. QED  BY <2>0, <2>a, <3>1
  <2>. QED  BY <1>7, <2>1, <2>2
<1>10. TrTyped'
  <2>1. trBuffer' \in [TrContexts -> Seq(Nat \X Nat)]
    BY <1>t, <1>2, <1>5 DEF TrTyped
  <2>2. trFifo' \in Seq(Nat) /\ Len(trFifo') <= TrngDepth
    BY <1>n, <1>1, <1>2
  <2>3. trStep' \in [TrContexts -> {"poll", "pop"}]
    BY <1>t, <1>2 DEF TrTyped
  <2>. QED  BY <1>t, <1>2, <2>1, <2>2, <2>3 DEF TrTyped
<1>11. TrOrdered'
  <2>1. \A i, j \in 1..Len(trFifo') : i < j => trFifo'[i] < trFifo'[j]
    <3>1. \A i \in 1..Len(trFifo') : i + 1 \in 1..Len(trFifo) /\ trFifo'[i] = trFifo[i + 1]
      BY <1>1, <1>2
    <3>2. \A i, j \in 1..Len(trFifo') : i < j => i + 1 < j + 1
      OBVIOUS
    <3>. QED  BY <1>t, <3>1, <3>2 DEF TrOrdered
  <2>2. ASSUME NEW d \in TrContexts, NEW k \in 1..Len(trBuffer'[d])
        PROVE  /\ trBuffer'[d][k][1] \in 1..trMade
               /\ \A i \in 1..Len(trFifo') : trBuffer'[d][k][1] < trFifo'[i]
    <3>1. CASE d = c
      BY <1>9, <3>1 DEF new
    <3>2. CASE d # c
      <4>1. \A i \in 1..Len(trFifo') : i + 1 \in 1..Len(trFifo) /\ trFifo'[i] = trFifo[i + 1]
        BY <1>1, <1>2
      <4>. QED  BY <1>t, <1>6, <3>2, <4>1 DEF TrOrdered
    <3>. QED  BY <3>1, <3>2
  <2>. QED  BY <1>2, <1>8, <2>1, <2>2 DEF TrOrdered
<1>12. \A k, l \in 1..Len(new) : new[k] = new[l] => k = l
  <2>. SUFFICES ASSUME NEW k \in 1..Len(new), NEW l \in 1..Len(new), new[k] = new[l]
                PROVE  k = l
    OBVIOUS
  <2>0. trMade \in Nat /\ word \in 1..trMade
    BY <1>n, <1>1, <1>8 DEF word
  <2>1. k \in 1..m => new[k] = old[k] /\ old[k][1] < word /\ old[k][1] \in 1..trMade
    BY <1>7, <1>8
  <2>2. l \in 1..m => new[l] = old[l] /\ old[l][1] < word /\ old[l][1] \in 1..trMade
    BY <1>7, <1>8
  <2>3. k \notin 1..m => \E i \in 1..n : k = m + i /\ new[k] = <<word, i>>
    BY <1>7
  <2>4. l \notin 1..m => \E i \in 1..n : l = m + i /\ new[l] = <<word, i>>
    BY <1>7
  <2>5. CASE k \in 1..m /\ l \in 1..m
    <3>1. old[k] = old[l]
      BY <2>1, <2>2, <2>5
    <3>. QED  BY <1>t, <2>5, <3>1 DEF TrApart, old, m
  <2>6. CASE k \notin 1..m /\ l \notin 1..m
    BY <2>3, <2>4, <2>6
  <2>7. CASE k \in 1..m /\ l \notin 1..m
    BY <2>0, <2>1, <2>4, <2>7
  <2>8. CASE k \notin 1..m /\ l \in 1..m
    BY <2>0, <2>2, <2>3, <2>8
  <2>. QED  BY <2>5, <2>6, <2>7, <2>8
<1>13. ASSUME NEW d \in TrContexts, d # c, NEW k \in 1..Len(new), NEW l \in 1..Len(trBuffer[d])
       PROVE  new[k] # trBuffer[d][l]
  <2>0. trMade \in Nat /\ word \in 1..trMade
    BY <1>n, <1>1, <1>8 DEF word
  <2>1. trBuffer[d][l][1] < word
    BY <1>8
  <2>2. CASE k \in 1..m
    <3>1. new[k] = old[k] /\ k \in 1..Len(trBuffer[c])
      BY <1>7, <2>2 DEF m, old
    <3>. QED  BY <1>t, <1>13, <3>1 DEF TrApart, TrContexts, old
  <2>3. CASE k \notin 1..m
    <3>1. PICK i \in 1..n : new[k] = <<word, i>>
      BY <1>7, <2>3
    <3>2. new[k][1] = word /\ trBuffer[d][l][1] \in 1..trMade
      BY <1>t, <3>1 DEF TrOrdered
    <3>. QED  BY <2>0, <2>1, <3>2
  <2>. QED  BY <2>2, <2>3
<1>14. TrApart'
  <2>1. ASSUME NEW d \in TrContexts, NEW k \in 1..Len(trBuffer'[d]), NEW l \in 1..Len(trBuffer'[d]),
               trBuffer'[d][k] = trBuffer'[d][l]
        PROVE  k = l
    <3>1. CASE d = c
      BY <1>12, <2>1, <3>1 DEF new
    <3>2. CASE d # c
      BY <1>t, <1>6, <2>1, <3>2 DEF TrApart
    <3>. QED  BY <3>1, <3>2
  <2>2. ASSUME NEW k \in 1..Len(trBuffer'["main"]), NEW l \in 1..Len(trBuffer'["handler"])
        PROVE  trBuffer'["main"][k] # trBuffer'["handler"][l]
    <3>1. "main" \in TrContexts /\ "handler" \in TrContexts /\ (c = "main" \/ c = "handler")
      BY DEF TrContexts
    <3>2. CASE c = "main"
      <4>1. "handler" # c /\ trBuffer'["handler"] = trBuffer["handler"] /\ new = trBuffer'["main"]
        BY <1>6, <3>1, <3>2 DEF new
      <4>. QED  BY <1>13, <3>1, <4>1
    <3>3. CASE c = "handler"
      <4>1. "main" # c /\ trBuffer'["main"] = trBuffer["main"] /\ new = trBuffer'["handler"]
        BY <1>6, <3>1, <3>3 DEF new
      <4>. QED  BY <1>13, <3>1, <4>1
    <3>. QED  BY <3>1, <3>2, <3>3
  <2>. QED  BY <2>1, <2>2 DEF TrApart
<1>15. TrCalling'
  <2>1. \A d \in TrContexts : d # c => trCall[d].op = "none"
    BY <1>t, <1>0 DEF TrCalling, TrContexts
  <2>2. Len(trBuffer'[c]) <= trCall[c].want
    BY <1>3, <1>7 DEF new
  <2>3. \A d \in TrContexts : d # c => trStep[d] # "pop"
    BY <1>t, <2>1 DEF TrCalling
  <2>4. \A d \in TrContexts : trStep'[d] # "pop"
    BY <1>6, <2>3
  <2>. QED  BY <1>t, <1>2, <2>1, <2>2, <2>4 DEF TrCalling
<1>. QED
  BY <1>10, <1>11, <1>14, <1>15 DEF TrInv

\* Every step keeps it, where one context has the driver.
LEMMA TrStepKeeps == ~ TrngShared /\ TrInv /\ [TrNext]_trVars => TrInv'
<1>. SUFFICES ASSUME ~ TrngShared, TrInv, [TrNext]_trVars
              PROVE  TrInv'
  OBVIOUS
<1>t. TrTyped /\ TrOrdered /\ TrApart /\ TrCalling
  BY DEF TrInv
<1>1. CASE UNCHANGED trVars
  BY <1>1, <1>t DEF trVars, TrInv, TrTyped, TrOrdered, TrApart, TrCalling, Filled
<1>2. CASE NewTrng
  BY <1>2, <1>t DEF NewTrng, TrInv, TrTyped, TrOrdered, TrApart, TrCalling, Filled
<1>3. CASE CompleteWord
  <2>1. trDone' = TRUE /\ UNCHANGED <<trKind, trRings, trFifo, trMade, trCall, trStep, trBuffer, trResult>>
    BY <1>3 DEF CompleteWord
  <2>. QED  BY <1>t, <2>1 DEF TrInv, TrTyped, TrOrdered, TrApart, TrCalling, Filled
<1>. QED
  BY <1>1, <1>2, <1>3, TrMakeKeeps, TrCallKeeps, TrPollKeeps, TrPopKeeps DEF TrNext

\* What the buffers hold is as RandomOnce says.
LEMMA TrInvOnce == TrInv => RandomOnce /\ TrTypeOK
<1>. SUFFICES ASSUME TrInv PROVE RandomOnce /\ TrTypeOK
  OBVIOUS
<1>t. TrTyped /\ TrOrdered /\ TrApart /\ TrCalling
  BY DEF TrInv
<1>n. /\ trFifo \in Seq(Nat) /\ Len(trFifo) \in Nat /\ Len(trFifo) <= TrngDepth
      /\ trMade \in Nat /\ trMade <= TrngWords /\ TrngWords \in Nat /\ TrngDepth \in Nat
  BY <1>t, TrNumbers
<1>0. \A c \in TrContexts : trBuffer[c] \in Seq(Nat \X Nat)
  BY <1>t, TrNumbers
<1>1. \A c \in TrContexts : DOMAIN trBuffer[c] = 1..Len(trBuffer[c])
  BY <1>0, LenProperties
<1>2. \A c \in TrContexts : IsInjective(trBuffer[c])
  BY <1>t, <1>1 DEF TrApart, IsInjective
<1>3. \A c \in TrContexts : \A k \in DOMAIN trBuffer[c] : trBuffer[c][k][1] # 0
  <2>. SUFFICES ASSUME NEW c \in TrContexts, NEW k \in 1..Len(trBuffer[c])
                PROVE  trBuffer[c][k][1] # 0
    BY <1>1
  <2>1. trBuffer[c][k][1] \in 1..trMade /\ trMade \in Nat
    BY <1>t, <1>n DEF TrOrdered
  <2>. QED  BY <2>1
<1>4. Range(trBuffer["main"]) \cap Range(trBuffer["handler"]) = {}
  <2>1. "main" \in TrContexts /\ "handler" \in TrContexts
    BY DEF TrContexts
  <2>. QED  BY <1>t, <1>1, <2>1 DEF TrApart, Range
<1>5. trFifo \in BoundedSeq(1..TrngWords, TrngDepth)
  <2>1. \A i \in 1..Len(trFifo) : trFifo[i] \in 1..TrngWords
    BY <1>t, <1>n DEF TrOrdered
  <2>2. /\ Len(trFifo) \in 0..TrngDepth /\ trFifo \in [1..Len(trFifo) -> Nat]
    BY <1>n, LenProperties
  <2>3. trFifo \in [1..Len(trFifo) -> 1..TrngWords]
    BY <2>1, <2>2
  <2>. QED  BY <2>2, <2>3 DEF BoundedSeq, SeqOf
<1>6. TrTypeOK
  BY <1>t, <1>5 DEF TrTyped, TrTypeOK
<1>. QED
  BY <1>2, <1>3, <1>4, <1>6 DEF RandomOnce

\* Ok is returned where the buffer is full, and never too full.
LEMMA TrReturnsFull ==
    ASSUME TrInv, [TrNext]_trVars, NEW c \in TrContexts,
           trCall[c].op # "none", trCall'[c].op = "none", trResult'[c] = "ok"
    PROVE  Len(trBuffer[c]) = trCall[c].want
<1>t. TrTyped /\ TrCalling
  BY DEF TrInv
<1>0. \A d \in TrContexts : trCall[d] \in [op : TrOps \cup {"none"}, want : Nat]
  BY <1>t DEF TrTyped
<1>1. PICK d \in TrContexts : TrPoll(d)
  <2>1. trCall' # trCall
    OBVIOUS
  <2>2. ASSUME NEW d \in TrContexts, TrCall(d)
        PROVE  FALSE
    <3>1. trCall[d].op = "none"
      BY <2>2 DEF TrCall
    <3>2. trCall'[c] = trCall[c]
      BY <1>t, <2>2, <3>1 DEF TrCall, TrTyped
    <3>. QED  BY <3>2
  <2>. QED  BY <2>1, <2>2 DEF TrNext, trVars, NewTrng, MakeWord, CompleteWord, TrPop
<1>2. d = c
  BY <1>t, <1>1 DEF TrPoll, Return, TrTyped
<1>3. Filled(c)
  BY <1>t, <1>1, <1>2 DEF TrPoll, Return, TrTyped
<1>4. Len(trBuffer[c]) \in Nat
  BY <1>t, LenProperties DEF TrTyped
<1>. QED
  BY <1>0, <1>t, <1>3, <1>4 DEF Filled, TrCalling

\* With one context calling, and for words, FIFOs and buffers of any length: no byte of
\* randomness is given out twice or unfinished, and Ok means a buffer that is full to the
\* byte (trng.rs and trng_v1.rs).
THEOREM RandomnessOnce == ~ TrngShared => (TrSpec => RandomSafe)
<1>. SUFFICES ASSUME ~ TrngShared PROVE TrSpec => RandomSafe
  OBVIOUS
<1>2. TrInv /\ [TrNext]_trVars => TrInv'
  BY TrStepKeeps
<1>1. TrInv /\ [TrNext]_trVars =>
        [\A c \in TrContexts :
           trCall[c].op # "none" /\ trCall'[c].op = "none" /\ trResult'[c] = "ok"
              => Len(trBuffer[c]) = trCall[c].want]_trVars
  BY TrReturnsFull
<1>. QED
  BY <1>1, <1>2, TrStarts, TrInvOnce, PTL DEF TrSpec, RandomSafe, FillsExactly

\* And the driver's state stays well typed.
LEMMA TrAlwaysTyped == ~ TrngShared => (TrSpec => []TrTypeOK)
<1>. SUFFICES ASSUME ~ TrngShared PROVE TrSpec => []TrTypeOK
  OBVIOUS
<1>1. TrInv /\ [TrNext]_trVars => TrInv'
  BY TrStepKeeps
<1>. QED
  BY <1>1, TrStarts, TrInvOnce, PTL DEF TrSpec

-----------------------------------------------------------------------------
(* The low-speed ADC and the temperature sensor.                            *)

\* The newest conversion that a read has returned.
AdcNewest == IF adcGot = NoSample THEN adcSeen ELSE adcGot.nr

\* The scan lists channels that are enabled; the FIFO holds samples of such channels, in
\* the order they were converted, all later than what has been returned.
AdcSamples ==
    /\ adcScan \subseteq AdcChannels /\ IsFiniteSet(adcScan)
    /\ adcQueue \in Seq(adcScan)
    /\ adcFifo \in Seq([ch : adcScan, nr : Nat])
    /\ \A i \in 1..Len(adcFifo) : AdcNewest < adcFifo[i].nr /\ adcFifo[i].nr < conversions
    /\ \A i, j \in 1..Len(adcFifo) : i < j => adcFifo[i].nr < adcFifo[j].nr
    /\ adcSeen \in Int /\ -1 <= adcSeen /\ adcSeen < conversions
    /\ \/ adcGot = NoSample
       \/ /\ adcGot \in [ch : adcScan, nr : Nat]
          /\ adcSeen < adcGot.nr /\ adcGot.nr < conversions

AdcControl ==
    /\ adcOn \in BOOLEAN /\ adcPending \in BOOLEAN /\ adcIrqOn \in BOOLEAN
    /\ adcFired \in BOOLEAN /\ adcWaker \in BOOLEAN /\ adcWoken \in BOOLEAN
    /\ adcDriver \in {"block_on", "executor"}
    /\ adcPc \in {"idle", "reset", "enable", "start", "look", "poll", "register", "pending",
                  "asleep", "read"}

\* What is ready, and what was read, was converted after the last clear_status.
TsSince ==
    /\ tsCode \in Nat /\ tsCode <= conversions
    /\ tsCleared \in Nat /\ tsCleared <= conversions
    /\ tsReady => tsCleared <= tsCode
    /\ tsGot \in Int /\ tsGot <= conversions
    /\ tsGot = -1 \/ tsCleared <= tsGot

TsControlTyped ==
    /\ tsOn \in BOOLEAN /\ tsMode \in 0..3 /\ tsBusy \in BOOLEAN /\ tsReady \in BOOLEAN
    /\ tsWaits \in BOOLEAN /\ tsEvents \subseteq TsInterrupts /\ tsIntEn \subseteq TsInterrupts

Conversions == conversions \in Nat /\ conversions <= MaxConversions

SensorsInv == AdcSamples /\ AdcControl /\ TsSince /\ TsControlTyped /\ Conversions

LEMMA SensorsStart == SensorsInit => SensorsInv
<1>. SUFFICES ASSUME SensorsInit PROVE SensorsInv
  OBVIOUS
<1>1. Conversions /\ AdcControl /\ TsSince /\ TsControlTyped
  <2>1. 0 \in Nat /\ 0 <= MaxConversions /\ MaxConversions \in Nat
    BY SensorsAssumption
  <2>2. Conversions
    BY <2>1 DEF SensorsInit, Conversions
  <2>3. TsSince
    BY DEF SensorsInit, TsSince
  <2>4. AdcControl
    BY DEF SensorsInit, AdcControl
  <2>5. TsControlTyped
    <3>1. 0 \in 0..3
      OBVIOUS
    <3>. QED  BY <3>1, Zenon DEF SensorsInit, TsControlTyped
  <2>. QED  BY <2>2, <2>3, <2>4, <2>5
<1>2. <<>> \in Seq({}) /\ <<>> \in Seq([ch : {}, nr : Nat]) /\ Len(<<>>) = 0 /\ 1..0 = {}
  BY NothingYet
<1>3. AdcSamples
  BY <1>2, FS_EmptySet DEF SensorsInit, AdcSamples
<1>. QED
  BY <1>1, <1>3 DEF SensorsInv

\* A sample is a sample of the channels that are enabled, however many are enabled later.
LEMMA SamplesOfMore ==
    ASSUME NEW S, NEW U, S \subseteq U,
           NEW chans \in Seq(S), NEW samples \in Seq([ch : S, nr : Nat])
    PROVE  chans \in Seq(U) /\ samples \in Seq([ch : U, nr : Nat])
<1>1. ASSUME NEW small, NEW large, small \subseteq large, NEW s \in Seq(small)
      PROVE  s \in Seq(large)
  <2>1. Len(s) \in Nat /\ s \in [1..Len(s) -> small]
    BY LenProperties
  <2>2. s \in [1..Len(s) -> large]
    BY <1>1, <2>1
  <2>. DEFINE n == Len(s)
  <2>3. n \in Nat /\ s \in [1..n -> large]
    BY <2>1, <2>2
  <2>. HIDE DEF n
  <2>. QED  BY <2>3
<1>2. [ch : S, nr : Nat] \subseteq [ch : U, nr : Nat]
  OBVIOUS
<1>3. chans \in Seq(U)
  BY <1>1
<1>4. samples \in Seq([ch : U, nr : Nat])
  <2>1. PICK small, large : small = [ch : S, nr : Nat] /\ large = [ch : U, nr : Nat]
    OBVIOUS
  <2>2. samples \in Seq(large)
    BY <1>1, <1>2, <2>1
  <2>. QED  BY <2>1, <2>2
<1>. QED
  BY <1>3, <1>4

\* A read takes the oldest sample, if there is one.
LEMMA AdcTakeKeeps ==
    ASSUME AdcSamples, Conversions, AdcTake, UNCHANGED <<adcScan, adcQueue, conversions>>
    PROVE  AdcSamples'
<1>1. AdcNewest \in Int /\ adcSeen' = AdcNewest /\ -1 <= AdcNewest /\ AdcNewest < conversions
  BY DEF AdcSamples, AdcTake, AdcNewest, Conversions
<1>2. CASE adcFifo = <<>>
  <2>1. adcGot' = NoSample /\ adcFifo' = <<>> /\ AdcNewest' = AdcNewest
    BY <1>1, <1>2 DEF AdcTake, data_ready, AdcNewest
  <2>2. Len(adcFifo') = 0 /\ 1..Len(adcFifo') = {} /\ adcFifo' \in Seq([ch : adcScan, nr : Nat])
    BY <2>1, NothingYet
  <2>. QED  BY <1>1, <2>1, <2>2 DEF AdcSamples
<1>3. CASE adcFifo # <<>>
  <2>. DEFINE T == [ch : adcScan, nr : Nat]
  <2>0. adcFifo \in Seq(T)
    BY DEF AdcSamples
  <2>. HIDE DEF T
  <2>1. /\ Len(adcFifo) \in Nat /\ Len(adcFifo) >= 1 /\ 1 \in 1..Len(adcFifo)
        /\ Head(adcFifo) = adcFifo[1] /\ adcFifo[1] \in T
        /\ Tail(adcFifo) \in Seq(T) /\ Len(Tail(adcFifo)) = Len(adcFifo) - 1
        /\ \A i \in 1..Len(Tail(adcFifo)) :
              i + 1 \in 1..Len(adcFifo) /\ Tail(adcFifo)[i] = adcFifo[i + 1]
    BY <1>3, <2>0, OneLess
  <2>2. adcGot' = adcFifo[1] /\ adcFifo' = Tail(adcFifo)
    BY <1>3, <2>1 DEF AdcTake, data_ready
  <2>3. adcFifo[1] # NoSample /\ adcFifo[1].nr \in Nat /\ adcFifo[1] \in [ch : adcScan, nr : Nat]
    BY <2>1 DEF T, NoSample
  <2>4. AdcNewest' = adcFifo[1].nr
    BY <2>2, <2>3 DEF AdcNewest, NoSample
  <2>5. AdcNewest < adcFifo[1].nr /\ adcFifo[1].nr < conversions
    BY <2>1 DEF AdcSamples
  <2>6. ASSUME NEW i \in 1..Len(adcFifo')
        PROVE  adcFifo[1].nr < adcFifo'[i].nr /\ adcFifo'[i].nr < conversions
    <3>1. i + 1 \in 1..Len(adcFifo) /\ adcFifo'[i] = adcFifo[i + 1] /\ 1 < i + 1
      BY <2>1, <2>2
    <3>. QED  BY <2>1, <3>1 DEF AdcSamples
  <2>7. ASSUME NEW i \in 1..Len(adcFifo'), NEW j \in 1..Len(adcFifo'), i < j
        PROVE  adcFifo'[i].nr < adcFifo'[j].nr
    <3>1. /\ i + 1 \in 1..Len(adcFifo) /\ adcFifo'[i] = adcFifo[i + 1]
          /\ j + 1 \in 1..Len(adcFifo) /\ adcFifo'[j] = adcFifo[j + 1] /\ i + 1 < j + 1
      BY <2>1, <2>2, <2>7
    <3>. QED  BY <3>1 DEF AdcSamples
  <2>8. adcFifo' \in Seq([ch : adcScan, nr : Nat])
    BY <2>1, <2>2 DEF T
  <2>9. UNCHANGED <<adcScan, adcQueue, conversions>>
    OBVIOUS
  <2>. QED  BY <1>1, <2>2, <2>3, <2>4, <2>5, <2>6, <2>7, <2>8, <2>9 DEF AdcSamples
<1>. QED
  BY <1>2, <1>3

\* A call forgets what the last one returned, which stays the newest.
LEMMA AdcForgets ==
    ASSUME AdcSamples, Conversions, ReadAsyncCall, UNCHANGED conversions
    PROVE  AdcSamples'
<1>1. AdcNewest \in Int /\ -1 <= AdcNewest /\ AdcNewest < conversions
  BY DEF AdcSamples, AdcNewest, Conversions
<1>2. /\ adcGot' = NoSample /\ adcSeen' = AdcNewest /\ AdcNewest' = AdcNewest
      /\ UNCHANGED <<adcScan, adcQueue, adcFifo>>
  BY DEF ReadAsyncCall, AdcNewest
<1>. QED
  BY <1>1, <1>2 DEF AdcSamples

\* Samples that are not touched stay as they are.
LEMMA AdcSamplesLeft ==
    ASSUME AdcSamples, UNCHANGED <<adcScan, adcFifo, adcGot, adcSeen, conversions>>,
           adcQueue' \in Seq(adcScan)
    PROVE  AdcSamples'
<1>1. AdcNewest' = AdcNewest
  BY DEF AdcNewest
<1>. QED
  BY <1>1 DEF AdcSamples

\* A conversion is the newest of all.
LEMMA AdcConvertKeeps ==
    ASSUME AdcSamples, Conversions, AdcConvert
    PROVE  AdcSamples'
<1>. DEFINE T == [ch : adcScan, nr : Nat]
            new == [ch |-> Head(adcQueue), nr |-> conversions]
<1>1. /\ adcQueue # <<>> /\ adcFifo' = Append(adcFifo, new) /\ adcQueue' = Tail(adcQueue)
      /\ conversions' = conversions + 1 /\ UNCHANGED <<adcScan, adcGot, adcSeen>>
  BY DEF AdcConvert
<1>2. Head(adcQueue) \in adcScan /\ adcQueue' \in Seq(adcScan)
  <2>1. Head(adcQueue) = adcQueue[1] /\ adcQueue[1] \in adcScan /\ Tail(adcQueue) \in Seq(adcScan)
    BY <1>1, OneLess DEF AdcSamples
  <2>. QED  BY <1>1, <2>1
<1>3. new \in T /\ new.nr = conversions /\ conversions \in Nat /\ adcFifo \in Seq(T)
  BY <1>2 DEF Conversions, AdcSamples
<1>. HIDE DEF T, new
<1>4. /\ adcFifo' \in Seq(T) /\ Len(adcFifo') = Len(adcFifo) + 1 /\ Len(adcFifo) \in Nat
      /\ \A i \in 1..Len(adcFifo) : adcFifo'[i] = adcFifo[i]
      /\ adcFifo'[Len(adcFifo) + 1] = new
  BY <1>1, <1>3, OneAfter, LenProperties
<1>5. \A i \in 1..Len(adcFifo') : i \in 1..Len(adcFifo) \/ i = Len(adcFifo) + 1
  BY <1>4
<1>6. AdcNewest' = AdcNewest /\ AdcNewest \in Int /\ AdcNewest < conversions
  BY <1>1 DEF AdcNewest, AdcSamples
<1>n. \A i \in 1..Len(adcFifo) :
        adcFifo[i].nr \in Nat /\ AdcNewest < adcFifo[i].nr /\ adcFifo[i].nr < conversions
  <2>1. ASSUME NEW i \in 1..Len(adcFifo)
        PROVE  adcFifo[i].nr \in Nat
    <3>1. adcFifo[i] \in T
      BY <1>3, ElementOfSeq
    <3>. QED  BY <3>1 DEF T
  <2>. QED  BY <2>1 DEF AdcSamples
<1>7. ASSUME NEW i \in 1..Len(adcFifo')
      PROVE  AdcNewest < adcFifo'[i].nr /\ adcFifo'[i].nr < conversions + 1
  <2>1. CASE i \in 1..Len(adcFifo)
    BY <1>3, <1>4, <1>n, <2>1
  <2>2. CASE i = Len(adcFifo) + 1
    BY <1>3, <1>4, <1>6, <2>2
  <2>. QED  BY <1>5, <2>1, <2>2
<1>8. ASSUME NEW i \in 1..Len(adcFifo'), NEW j \in 1..Len(adcFifo'), i < j
      PROVE  adcFifo'[i].nr < adcFifo'[j].nr
  <2>1. i \in 1..Len(adcFifo)
    BY <1>4, <1>8
  <2>2. CASE j \in 1..Len(adcFifo)
    BY <1>4, <1>8, <2>1, <2>2 DEF AdcSamples
  <2>3. CASE j = Len(adcFifo) + 1
    BY <1>3, <1>4, <1>n, <2>1, <2>3
  <2>. QED  BY <1>5, <2>2, <2>3
<1>9. /\ adcSeen \in Int /\ -1 <= adcSeen /\ adcSeen < conversions + 1
      /\ \/ adcGot = NoSample
         \/ /\ adcGot \in [ch : adcScan, nr : Nat]
            /\ adcSeen < adcGot.nr /\ adcGot.nr < conversions + 1
  BY <1>3 DEF AdcSamples
<1>10. adcFifo' \in Seq([ch : adcScan, nr : Nat])
  BY <1>4 DEF T
<1>11. adcScan \subseteq AdcChannels /\ IsFiniteSet(adcScan)
  BY DEF AdcSamples
<1>. QED
  BY <1>1, <1>2, <1>6, <1>7, <1>8, <1>9, <1>10, <1>11 DEF AdcSamples

\* What the ADC does, other than convert.
LEMMA AdcStepKeeps ==
    ASSUME SensorsInv, AdcNext, ~ AdcConvert
    PROVE  AdcSamples' /\ AdcControl' /\ UNCHANGED <<tsVars, conversions>>
<1>t. AdcSamples /\ AdcControl /\ Conversions
  BY DEF SensorsInv
<1>0. /\ UNCHANGED <<tsVars, conversions>>
      /\ \/ \E on \in BOOLEAN : AdcReset(on)
         \/ \E ch \in AdcChannels : configure_scan(ch)
         \/ start_scan \/ stop_scan \/ read_sample
         \/ ReadAsyncCall \/ read_async \/ AdcInterrupt \/ AdcOtherWake
  BY DEF AdcNext
<1>u. UNCHANGED <<tsVars, conversions>>
  BY <1>0, Zenon
<1>c. UNCHANGED conversions
  BY <1>u
<1>1. AdcControl'
  <2>1. CASE AdcInterrupt \/ AdcOtherWake
    BY <1>t, <2>1 DEF AdcControl, AdcInterrupt, AdcOtherWake, AdcWake
  <2>2. CASE read_async
    BY <1>t, <2>2 DEF AdcControl, read_async, ReadAsyncStep, AwaitConversion, AdcGoto, adcSignal
  <2>3. CASE \/ \E on \in BOOLEAN : AdcReset(on)
             \/ \E ch \in AdcChannels : configure_scan(ch)
             \/ start_scan \/ stop_scan \/ read_sample \/ ReadAsyncCall
    BY <1>t, <2>3 DEF AdcControl, AdcReset, configure_scan, start_scan, stop_scan, read_sample,
       ReadAsyncCall, AdcIdle, adcSignal
  <2>. QED  BY <1>0, <2>1, <2>2, <2>3
<1>q. adcQueue \in Seq(adcScan) /\ SetToSeq(adcScan) \in Seq(adcScan) /\ <<>> \in Seq(adcScan)
  BY <1>t, SetListed DEF AdcSamples
<1>2. CASE \/ \E on \in BOOLEAN : AdcReset(on)
           \/ start_scan \/ stop_scan \/ AdcInterrupt \/ AdcOtherWake
  <2>1. UNCHANGED <<adcScan, adcFifo, adcGot, adcSeen, conversions>>
    BY <1>2, <1>c DEF AdcReset, start_scan, stop_scan, AdcInterrupt, AdcOtherWake
  <2>2. adcQueue' = adcQueue \/ adcQueue' = SetToSeq(adcScan) \/ adcQueue' = <<>>
    BY <1>2 DEF AdcReset, start_scan, stop_scan, AdcInterrupt, AdcOtherWake, StartScan
  <2>. QED  BY <1>t, <1>q, <1>1, <1>u, <2>1, <2>2, AdcSamplesLeft
<1>3. ASSUME NEW ch \in AdcChannels, configure_scan(ch)
      PROVE  AdcSamples'
  <2>1. adcScan' = adcScan \cup {ch} /\ UNCHANGED <<adcQueue, adcFifo, adcGot, adcSeen>>
    BY <1>3 DEF configure_scan
  <2>2. IsFiniteSet(adcScan \cup {ch})
    BY <1>t, FS_AddElement DEF AdcSamples
  <2>3. adcQueue \in Seq(adcScan \cup {ch}) /\ adcFifo \in Seq([ch : adcScan \cup {ch}, nr : Nat])
    BY <1>t, SamplesOfMore DEF AdcSamples
  <2>4. AdcNewest' = AdcNewest
    BY <2>1 DEF AdcNewest
  <2>. QED  BY <1>t, <1>c, <2>1, <2>2, <2>3, <2>4 DEF AdcSamples
<1>4. CASE read_sample
  <2>1. AdcTake /\ UNCHANGED <<adcScan, adcQueue, conversions>>
    BY <1>4, <1>c DEF read_sample
  <2>. QED  BY <1>t, <1>1, <1>u, <2>1, AdcTakeKeeps
<1>5. CASE ReadAsyncCall
  BY <1>t, <1>1, <1>u, <1>5, <1>c, AdcForgets
<1>6. CASE read_async
  <2>1. UNCHANGED adcScan
    BY <1>6 DEF read_async
  <2>2. CASE AdcTake /\ UNCHANGED adcQueue
    BY <1>t, <1>1, <1>u, <1>c, <2>1, <2>2, AdcTakeKeeps
  <2>3. CASE /\ UNCHANGED <<adcFifo, adcGot, adcSeen>>
             /\ adcQueue' = adcQueue \/ adcQueue' = SetToSeq(adcScan)
    BY <1>t, <1>q, <1>1, <1>u, <1>c, <2>1, <2>3, AdcSamplesLeft
  <2>. QED  BY <1>6, <2>2, <2>3 DEF read_async, ReadAsyncStep, StartScan
<1>. QED
  BY <1>0, <1>1, <1>u, <1>2, <1>3, <1>4, <1>5, <1>6

\* And the temperature sensor.
LEMMA TsStepKeeps ==
    ASSUME SensorsInv, TsNext
    PROVE  /\ TsSince' /\ TsControlTyped' /\ Conversions' /\ UNCHANGED adcVars
           /\ conversions <= conversions'
<1>t. TsSince /\ TsControlTyped /\ Conversions
  BY DEF SensorsInv
<1>1. CASE TsConvert /\ UNCHANGED adcVars
  <2>1. Conversions' /\ conversions' = conversions + 1 /\ conversions <= conversions'
    BY <1>t, <1>1, SensorsAssumption DEF TsConvert, Conversions
  <2>2. TsSince'
    BY <1>t, <1>1, <2>1 DEF TsConvert, TsSince, Conversions
  <2>3. TsControlTyped'
    BY <1>t, <1>1 DEF TsConvert, TsControlTyped, TsInterrupts
  <2>. QED  BY <1>1, <2>1, <2>2, <2>3
<1>2. CASE /\ TsControl \/ start_conversion \/ TsRead \/ read_blocking \/ clear_status
              \/ TsInterruptCalls
           /\ UNCHANGED <<adcVars, conversions>>
  <2>0. UNCHANGED adcVars /\ UNCHANGED conversions
    BY <1>2, Zenon
  <2>1. Conversions' /\ conversions <= conversions'
    BY <1>t, <2>0 DEF Conversions
  <2>2. TsSince'
    BY <1>t, <1>2, <2>0 DEF TsSince, Conversions, TsControl, start_conversion, TsRead, TsReady,
       read_blocking, clear_status, TsInterruptCalls
  <2>3. TsControlTyped'
    <3>1. (~ tsReady /\ tsWaits) \in BOOLEAN /\ {"done"} \subseteq TsInterrupts
          /\ 0 \in 0..3 /\ 3 \in 0..3
      BY DEF TsInterrupts
    <3>2. CASE TsControl \/ start_conversion \/ read_blocking \/ clear_status \/ TsInterruptCalls
      BY <1>t, <3>1, <3>2 DEF TsControlTyped, TsControl, start_conversion, read_blocking,
         clear_status, TsInterruptCalls
    <3>3. CASE TsRead
      <4>1. /\ tsWaits' = (~ tsReady /\ tsWaits)
            /\ UNCHANGED <<tsOn, tsMode, tsBusy, tsReady, tsEvents, tsIntEn>>
        BY <3>3 DEF TsRead, TsReady
      <4>2. tsWaits' \in BOOLEAN
        BY <3>1, <4>1, Zenon
      <4>. QED  BY <1>t, <4>1, <4>2, Zenon DEF TsControlTyped
    <3>. QED  BY <1>2, <3>2, <3>3
  <2>. QED  BY <2>0, <2>1, <2>2, <2>3
<1>. QED
  BY <1>1, <1>2 DEF TsNext

\* More conversions leave what the samples are.
LEMMA SamplesKept ==
    ASSUME AdcSamples, Conversions, Conversions', conversions <= conversions', UNCHANGED adcVars
    PROVE  AdcSamples'
<1>1. UNCHANGED <<adcScan, adcQueue, adcFifo, adcGot, adcSeen>> /\ AdcNewest' = AdcNewest
  BY DEF adcVars, AdcNewest
<1>2. conversions \in Nat /\ conversions' \in Nat
  BY DEF Conversions
<1>3. \A i \in 1..Len(adcFifo) : adcFifo[i] \in [ch : adcScan, nr : Nat]
  BY ElementOfSeq DEF AdcSamples
<1>4. \A i \in 1..Len(adcFifo) : adcFifo[i].nr \in Nat
  BY <1>3
<1>. QED
  BY <1>1, <1>2, <1>4 DEF AdcSamples

\* Every step of either keeps it all.
LEMMA SensorsStepKeeps == SensorsInv /\ [AdcNext \/ TsNext]_sensorVars => SensorsInv'
<1>. SUFFICES ASSUME SensorsInv, [AdcNext \/ TsNext]_sensorVars
              PROVE  SensorsInv'
  OBVIOUS
<1>t. AdcSamples /\ AdcControl /\ TsSince /\ TsControlTyped /\ Conversions
  BY DEF SensorsInv
<1>1. CASE UNCHANGED sensorVars
  <2>1. UNCHANGED adcVars /\ UNCHANGED tsVars /\ UNCHANGED conversions
    BY <1>1, Zenon DEF sensorVars
  <2>2. Conversions' /\ conversions <= conversions'
    BY <1>t, <2>1 DEF Conversions
  <2>3. AdcSamples'
    BY <1>t, <2>1, <2>2, SamplesKept
  <2>. QED
    BY <1>t, <2>1, <2>2, <2>3 DEF SensorsInv, AdcControl, TsSince, TsControlTyped, adcVars, adcSignal, tsVars
<1>2. CASE AdcConvert /\ UNCHANGED tsVars
  <2>1. /\ conversions' = conversions + 1 /\ conversions < MaxConversions
        /\ UNCHANGED <<adcOn, adcIrqOn, adcFired, adcWaker, adcWoken, adcDriver, adcPc>>
        /\ adcPending' = TRUE
    BY <1>2 DEF AdcConvert, adcSignal
  <2>2. Conversions'
    BY <1>t, <2>1, SensorsAssumption DEF Conversions
  <2>3. AdcSamples'
    BY <1>t, <1>2, AdcConvertKeeps
  <2>4. TsSince' /\ TsControlTyped'
    BY <1>t, <1>2, <2>1 DEF TsSince, TsControlTyped, tsVars, Conversions
  <2>. QED  BY <1>t, <2>1, <2>2, <2>3, <2>4 DEF SensorsInv, AdcControl
<1>3. CASE AdcNext /\ ~ AdcConvert
  <2>1. AdcSamples' /\ AdcControl' /\ UNCHANGED <<tsVars, conversions>>
    BY <1>3, AdcStepKeeps
  <2>2. UNCHANGED tsVars /\ UNCHANGED conversions
    BY <2>1, Zenon
  <2>. QED  BY <1>t, <2>1, <2>2 DEF SensorsInv, TsSince, TsControlTyped, Conversions, tsVars
<1>4. CASE TsNext
  <2>1. /\ TsSince' /\ TsControlTyped' /\ Conversions' /\ UNCHANGED adcVars
        /\ conversions <= conversions'
    BY <1>4, TsStepKeeps
  <2>2. AdcSamples'
    BY <1>t, <2>1, SamplesKept
  <2>. QED  BY <1>t, <2>1, <2>2 DEF SensorsInv, AdcControl, adcVars, adcSignal
<1>. QED
  BY <1>1, <1>2, <1>3, <1>4 DEF AdcNext

LEMMA SensorsInvSafe == SensorsInv => SampleOnce /\ TemperatureAfterClear /\ SensorsTypeOK
<1>. SUFFICES ASSUME SensorsInv PROVE SampleOnce /\ TemperatureAfterClear /\ SensorsTypeOK
  OBVIOUS
<1>t. AdcSamples /\ AdcControl /\ TsSince /\ TsControlTyped /\ Conversions
  BY DEF SensorsInv
<1>1. SampleOnce
  BY <1>t DEF AdcSamples, SampleOnce
<1>2. TemperatureAfterClear
  BY <1>t DEF TsSince, TemperatureAfterClear
<1>n. /\ conversions \in Nat /\ MaxConversions \in Nat /\ conversions <= MaxConversions
  BY <1>t, SensorsAssumption DEF Conversions
<1>m. \A k \in Int : -1 <= k /\ k <= conversions => k \in Numbers
  BY <1>n DEF Numbers
<1>3. \A i \in DOMAIN adcQueue : adcQueue[i] \in AdcChannels
  BY <1>t, LenProperties, ElementOfSeq DEF AdcSamples
<1>4. \A i \in DOMAIN adcFifo : adcFifo[i] \in AdcSample
  <2>1. ASSUME NEW i \in DOMAIN adcFifo
        PROVE  adcFifo[i] \in AdcSample
    <3>1. i \in 1..Len(adcFifo) /\ adcFifo[i] \in [ch : adcScan, nr : Nat]
      BY <1>t, LenProperties, ElementOfSeq DEF AdcSamples
    <3>2. adcFifo[i].nr < conversions /\ adcFifo[i].nr \in Nat
      BY <1>t, <3>1 DEF AdcSamples
    <3>3. adcFifo[i].nr \in Numbers
      BY <1>n, <1>m, <3>2
    <3>. QED  BY <1>t, <3>1, <3>3 DEF AdcSample, AdcSamples
  <2>. QED  BY <2>1
<1>5. adcSeen \in Numbers
  BY <1>t, <1>n, <1>m DEF AdcSamples
<1>6. adcGot \in AdcSample \cup {NoSample}
  <2>1. CASE adcGot # NoSample
    <3>1. adcGot \in [ch : adcScan, nr : Nat] /\ adcGot.nr < conversions
      BY <1>t, <2>1 DEF AdcSamples
    <3>2. adcGot.nr \in Numbers
      BY <1>n, <1>m, <3>1
    <3>. QED  BY <1>t, <3>1, <3>2 DEF AdcSample, AdcSamples
  <2>. QED  BY <2>1
<1>7. tsCode \in Numbers /\ tsCleared \in Numbers /\ tsGot \in Numbers
  BY <1>t, <1>n, <1>m DEF TsSince
<1>8. conversions \in 0..MaxConversions
  BY <1>n
<1>9. SensorsTypeOK
  BY <1>t, <1>3, <1>4, <1>5, <1>6, <1>7, <1>8, Zenon
     DEF AdcSamples, AdcControl, TsControlTyped, SensorsTypeOK
<1>. QED
  BY <1>1, <1>2, <1>9

\* With channels, FIFO and conversions of any number: a sample is returned once, in order,
\* of a channel that is enabled; a temperature was taken after the last clear_status
\* (lsadc.rs and tsensor.rs).
THEOREM SamplesOwn == SensorsSpec => [](SampleOnce /\ TemperatureAfterClear /\ SensorsTypeOK)
BY SensorsStart, SensorsStepKeeps, SensorsInvSafe, PTL DEF SensorsSpec

-----------------------------------------------------------------------------
(* Latched counters.                                                        *)

\* A number is its quotient and its remainder.
LEMMA TwoHalves ==
    ASSUME NEW a \in Nat, NEW d \in Nat \ {0}
    PROVE  /\ (a % d) + ((a \div d) * d) = a
           /\ a % d \in 0..(d - 1) /\ a % d \in Nat /\ a % d <= a
<1>1. /\ a = d * (a \div d) + (a % d) /\ a % d \in 0..(d - 1) /\ a \div d \in Nat
  OBVIOUS
<1>2. d * (a \div d) = (a \div d) * d /\ d * (a \div d) \in Nat
  BY <1>1
<1>. QED
  BY <1>1, <1>2

LcNumbers ==
    /\ lcCount \in Nat /\ lcCount <= LcMax
    /\ lcSnap \in Nat /\ lcSnap <= LcMax
    /\ lcFrom \in Nat /\ lcFrom <= LcMax
    /\ lcLow \in Nat /\ lcLow < LcHalf
    /\ lcResult \in Int /\ -2 <= lcResult /\ lcResult <= LcMax

LcControl ==
    /\ lcReader \in {"tcxo", "tcxo32", "instant", "rtc"}
    /\ lcPc \in {"idle", "refresh", "poll", "low", "high"}
    /\ lcOn \in BOOLEAN /\ lcReq \in BOOLEAN /\ lcValid \in BOOLEAN

\* From its request on, a reading sees no snapshot but its own, and sees one to the end.
LcSnapshot ==
    /\ lcPc # "idle" /\ lcReader = "rtc" => lcOn
    /\ lcPc # "idle" => lcFrom <= lcCount
    /\ lcPc \in {"poll", "low", "high"} /\ lcValid =>
         ~ lcReq /\ lcFrom <= lcSnap /\ lcSnap <= lcCount
    /\ lcPc \in {"low", "high"} => lcValid
    /\ lcPc = "high" => lcLow = lcSnap % LcHalf

LcInv == LcNumbers /\ LcControl /\ LcSnapshot /\ CountCoherent

LEMMA LcStarts == LcInit => LcInv
<1>. SUFFICES ASSUME LcInit PROVE LcInv
  OBVIOUS
<1>1. LcNumbers
  BY LcAssumption DEF LcInit, LcNumbers, LcPending
<1>2. LcControl
  BY DEF LcInit, LcControl
<1>3. LcSnapshot
  BY DEF LcInit, LcSnapshot
<1>4. CountCoherent
  BY DEF LcInit, CountCoherent, LcPending
<1>. QED
  BY <1>1, <1>2, <1>3, <1>4 DEF LcInv

LEMMA LcStepKeeps == LcInv /\ [LcNext]_lcVars => LcInv'
<1>. SUFFICES ASSUME LcInv, [LcNext]_lcVars PROVE LcInv'
  OBVIOUS
<1>t. LcNumbers /\ LcControl /\ LcSnapshot /\ CountCoherent
  BY DEF LcInv
<1>0. CASE UNCHANGED lcVars
  BY <1>0, <1>t DEF lcVars, LcInv, LcNumbers, LcControl, LcSnapshot, CountCoherent
<1>1. CASE LcSwitch
  BY <1>1, <1>t, LcAssumption
     DEF LcSwitch, LcInv, LcNumbers, LcControl, LcSnapshot, CountCoherent, LcPending
<1>2. CASE LcClear
  BY <1>2, <1>t, LcAssumption
     DEF LcClear, LcInv, LcNumbers, LcControl, LcSnapshot, CountCoherent, LcPending
<1>3. CASE LcRead
  <2>1. /\ lcPc = "idle" /\ lcFrom' = lcCount
        /\ lcResult' \in {-1, -2} /\ lcPc' \in {"idle", "refresh"}
        /\ lcPc' = "refresh" => lcReader # "rtc" \/ lcOn
        /\ UNCHANGED <<lcReader, lcOn, lcCount, lcReq, lcValid, lcSnap, lcLow>>
    BY <1>3, <1>t DEF LcRead, LcPending, LcStale, LcControl
  <2>2. LcNumbers' /\ LcControl'
    BY <1>t, <2>1, LcAssumption DEF LcNumbers, LcControl
  <2>3. LcSnapshot' /\ CountCoherent'
    BY <1>t, <2>1 DEF LcNumbers, LcSnapshot, CountCoherent
  <2>. QED  BY <2>2, <2>3 DEF LcInv
<1>4. CASE LcRefresh
  BY <1>4, <1>t DEF LcRefresh, LcInv, LcNumbers, LcControl, LcSnapshot, CountCoherent
<1>5. CASE LcPoll
  BY <1>5, <1>t, LcAssumption
     DEF LcPoll, LcInv, LcNumbers, LcControl, LcSnapshot, CountCoherent, LcPending
<1>6. CASE LcReadLow
  <2>1. lcSnap % LcHalf \in 0..(LcHalf - 1)
    BY <1>t, TwoHalves, LcAssumption DEF LcNumbers
  <2>. QED
    BY <1>6, <1>t, <2>1, LcAssumption
       DEF LcReadLow, LcInv, LcNumbers, LcControl, LcSnapshot, CountCoherent
<1>7. CASE LcReadHigh
  <2>1. /\ (lcSnap % LcHalf) + ((lcSnap \div LcHalf) * LcHalf) = lcSnap
        /\ lcSnap % LcHalf \in Nat /\ lcSnap % LcHalf <= lcSnap
    BY <1>t, TwoHalves, LcAssumption DEF LcNumbers
  <2>2. lcLow = lcSnap % LcHalf /\ lcFrom <= lcSnap /\ lcSnap <= lcCount
    BY <1>7, <1>t DEF LcReadHigh, LcSnapshot
  <2>3. /\ lcResult' = (IF lcReader = "tcxo32" THEN lcSnap % LcHalf ELSE lcSnap)
        /\ lcPc' = "idle"
        /\ UNCHANGED <<lcReader, lcOn, lcCount, lcReq, lcValid, lcSnap, lcLow, lcFrom>>
    <3>1. CASE lcReader = "tcxo32"
      BY <1>7, <2>1, <2>2, <3>1 DEF LcReadHigh
    <3>2. CASE lcReader # "tcxo32"
      BY <1>7, <2>1, <2>2, <3>2 DEF LcReadHigh
    <3>. QED  BY <3>1, <3>2
  <2>4. CountCoherent'
    <3>1. lcSnap \in lcFrom..lcCount
      BY <1>t, <2>2 DEF LcNumbers
    <3>. QED  BY <2>3, <3>1 DEF CountCoherent
  <2>5. LcNumbers'
    BY <1>t, <2>1, <2>3, LcAssumption DEF LcNumbers
  <2>. QED
    BY <1>t, <2>3, <2>4, <2>5 DEF LcInv, LcControl, LcSnapshot
<1>8. CASE LcTick
  <2>1. \A c \in lcFrom..lcCount : c \in lcFrom..(lcCount + 1)
    BY <1>t DEF LcNumbers
  <2>2. /\ lcCount' = lcCount + 1 /\ lcCount < LcMax
        /\ UNCHANGED <<lcReader, lcPc, lcResult, lcOn, lcReq, lcValid, lcSnap, lcLow, lcFrom>>
    BY <1>8 DEF LcTick
  <2>3. LcNumbers' /\ LcControl'
    BY <1>t, <2>2, LcAssumption DEF LcNumbers, LcControl
  <2>4. LcSnapshot'
    <3>1. lcCount \in Nat /\ lcSnap \in Nat /\ lcFrom \in Nat
      BY <1>t DEF LcNumbers
    <3>. DEFINE lower == lcSnap % LcHalf
    <3>2. lower' = lower
      BY <2>2
    <3>. HIDE DEF lower
    <3>. QED  BY <1>t, <2>2, <3>1, <3>2 DEF LcSnapshot, lower
  <2>5. CountCoherent'
    BY <1>t, <2>1, <2>2, Zenon DEF CountCoherent
  <2>. QED  BY <2>3, <2>4, <2>5 DEF LcInv
<1>9. CASE LcLatch
  <2>1. /\ lcReq /\ lcReq' = FALSE /\ lcValid' = TRUE /\ lcSnap' = lcCount
        /\ UNCHANGED <<lcReader, lcPc, lcResult, lcOn, lcCount, lcLow, lcFrom>>
    BY <1>9 DEF LcLatch
  <2>2. lcPc \notin {"low", "high"}
    BY <1>t, <2>1 DEF LcSnapshot
  <2>3. LcNumbers' /\ LcControl'
    BY <1>t, <2>1 DEF LcNumbers, LcControl
  <2>4. LcSnapshot'
    BY <1>t, <2>1, <2>2 DEF LcSnapshot, LcNumbers
  <2>5. CountCoherent'
    BY <1>t, <2>1, Zenon DEF CountCoherent
  <2>. QED  BY <2>3, <2>4, <2>5 DEF LcInv
<1>. QED
  BY <1>0, <1>1, <1>2, <1>3, <1>4, <1>5, <1>6, <1>7, <1>8, <1>9 DEF LcNext, LcCode

LEMMA LcInvCoherent == LcInv => CountCoherent /\ LcTypeOK
BY LcAssumption DEF LcInv, LcNumbers, LcControl, LcTypeOK

\* However wide the halves and however fast the counter: a reading returns a value the
\* counter has had since the call began, both halves of one moment (tcxo.rs, time.rs and
\* rtc_v150.rs).
THEOREM ReadingsCoherent == LcSpec => [](CountCoherent /\ LcTypeOK)
BY LcStarts, LcStepKeeps, LcInvCoherent, PTL DEF LcSpec

-----------------------------------------------------------------------------
(* The USB core as a device.                                                *)

UsbOps == {"poll idle", "csftrst", "poll reset", "force device", "clear all", "connect",
           "poll usbrst", "clear usbrst", "poll enumdone", "clear enumdone", "speed"}

UsbTyped ==
    /\ usbTodo \in Seq(UsbOps)
    /\ usbResult \in {"none", "timeout", "not present", "high", "full", "low",
                      "full, FS PHY"}
    /\ usbPresent \in BOOLEAN /\ usbAttached \in BOOLEAN
    /\ usbCore \in {"idle", "busy", "resetting"}
    /\ usbMode \in {"otg", "device"}
    /\ usbIntSts \subseteq {"usbrst", "enumdone"}
    /\ usbSpeed \in EnumSpd /\ usbCall \in EnumSpd \cup {-1}
    /\ usbHost \in {"absent", "present", "reset", "enumerated"}

\* With n accesses of the call left: from its reset to its connection the device is
\* detached, so that an enumeration seen afterwards is one of this call.
UsbAt(n) ==
    /\ n = 10 => usbCore = "resetting" \/ ~ usbAttached
    /\ n >= 6 /\ n <= 9 => usbCore # "resetting" /\ ~ usbAttached
    /\ n = 6 => usbIntSts = {}
    /\ n >= 1 /\ n <= 5 =>
         /\ usbCore # "resetting"
         /\ "enumdone" \in usbIntSts => usbCall = usbSpeed /\ usbCall # -1
    /\ n = 1 \/ n = 2 => usbCall = usbSpeed /\ usbCall # -1
    /\ n > 0 => usbResult = "none"

UsbCalling == IsRest(usbTodo, DeviceEnumerate) /\ UsbAt(Len(usbTodo))

UsbInv == UsbTyped /\ UsbCalling /\ SpeedNegotiated

\* The plan of a call, access by access.
LEMMA UsbPlan ==
    /\ DeviceEnumerate \in Seq(UsbOps) /\ Len(DeviceEnumerate) = 12
    /\ DeviceEnumerate[1] = "poll idle" /\ DeviceEnumerate[2] = "csftrst"
    /\ DeviceEnumerate[3] = "poll reset" /\ DeviceEnumerate[4] = "poll idle"
    /\ DeviceEnumerate[5] = "force device" /\ DeviceEnumerate[6] = "clear all"
    /\ DeviceEnumerate[7] = "connect" /\ DeviceEnumerate[8] = "poll usbrst"
    /\ DeviceEnumerate[9] = "clear usbrst" /\ DeviceEnumerate[10] = "poll enumdone"
    /\ DeviceEnumerate[11] = "clear enumdone" /\ DeviceEnumerate[12] = "speed"
BY DEF DeviceEnumerate, UsbOps

\* Which access is next, by how many are left.
LEMMA UsbNextOp ==
    ASSUME UsbTyped, UsbCalling, usbTodo # <<>>
    PROVE  /\ Len(usbTodo) \in 1..12
           /\ Len(usbTodo) = 12 => Op = "poll idle"
           /\ Len(usbTodo) = 11 => Op = "csftrst"
           /\ Len(usbTodo) = 10 => Op = "poll reset"
           /\ Len(usbTodo) = 9 => Op = "poll idle"
           /\ Len(usbTodo) = 8 => Op = "force device"
           /\ Len(usbTodo) = 7 => Op = "clear all"
           /\ Len(usbTodo) = 6 => Op = "connect"
           /\ Len(usbTodo) = 5 => Op = "poll usbrst"
           /\ Len(usbTodo) = 4 => Op = "clear usbrst"
           /\ Len(usbTodo) = 3 => Op = "poll enumdone"
           /\ Len(usbTodo) = 2 => Op = "clear enumdone"
           /\ Len(usbTodo) = 1 => Op = "speed"
<1>1. usbTodo \in Seq(UsbOps) /\ IsRest(usbTodo, DeviceEnumerate)
  BY DEF UsbTyped, UsbCalling
<1>2. /\ Len(usbTodo) \in 1..Len(DeviceEnumerate)
      /\ Head(usbTodo) = DeviceEnumerate[(Len(DeviceEnumerate) + 1) - Len(usbTodo)]
  BY <1>1, RestShrinks, UsbPlan
<1>3. Len(DeviceEnumerate) = 12
  BY UsbPlan
<1>. DEFINE n == Len(usbTodo)
<1>4. n \in 1..12 /\ Op = DeviceEnumerate[(12 + 1) - n]
  BY <1>2, <1>3 DEF Op
<1>. HIDE DEF n
<1>5. \A k \in 1..12 : n = k => Op = DeviceEnumerate[(12 + 1) - k]
  BY <1>4
<1>6. /\ n = 12 => Op = DeviceEnumerate[1]
      /\ n = 11 => Op = DeviceEnumerate[2]
      /\ n = 10 => Op = DeviceEnumerate[3]
      /\ n = 9 => Op = DeviceEnumerate[4]
      /\ n = 8 => Op = DeviceEnumerate[5]
      /\ n = 7 => Op = DeviceEnumerate[6]
      /\ n = 6 => Op = DeviceEnumerate[7]
      /\ n = 5 => Op = DeviceEnumerate[8]
      /\ n = 4 => Op = DeviceEnumerate[9]
      /\ n = 3 => Op = DeviceEnumerate[10]
      /\ n = 2 => Op = DeviceEnumerate[11]
      /\ n = 1 => Op = DeviceEnumerate[12]
  BY <1>4
<1>. QED
  BY <1>4, <1>6, UsbPlan DEF n

\* All of the call, or none of it.
LEMMA UsbEnds ==
    /\ <<>> \in Seq(UsbOps) /\ Len(<<>>) = 0
    /\ IsRest(<<>>, DeviceEnumerate) /\ IsRest(DeviceEnumerate, DeviceEnumerate)
<1>1. DeviceEnumerate \in Seq(UsbOps)
  BY UsbPlan
<1>2. IsRest(<<>>, DeviceEnumerate) /\ IsRest(DeviceEnumerate, DeviceEnumerate)
  BY <1>1, RestStarts
<1>3. <<>> \in Seq(UsbOps)
  OBVIOUS
<1>. QED
  BY <1>2, <1>3, NothingYet

\* The call over, or begun anew.
LEMMA UsbEndsCalling ==
    ASSUME usbTodo' = <<>> \/ (usbTodo' = DeviceEnumerate /\ usbResult' = "none")
    PROVE  UsbCalling' /\ usbTodo' \in Seq(UsbOps)
<1>1. CASE usbTodo' = <<>>
  <2>1. Len(usbTodo') = 0 /\ IsRest(usbTodo', DeviceEnumerate) /\ usbTodo' \in Seq(UsbOps)
    BY <1>1, UsbEnds, Zenon
  <2>2. IsRest(usbTodo, DeviceEnumerate)'
    BY <2>1 DEF IsRest, DeviceEnumerate
  <2>3. UsbAt(Len(usbTodo))'
    BY <2>1 DEF UsbAt
  <2>. QED  BY <2>1, <2>2, <2>3 DEF UsbCalling
<1>2. CASE usbTodo' = DeviceEnumerate /\ usbResult' = "none"
  <2>1. Len(usbTodo') = 12 /\ IsRest(usbTodo', DeviceEnumerate) /\ usbTodo' \in Seq(UsbOps)
    BY <1>2, UsbEnds, UsbPlan, Zenon
  <2>2. IsRest(usbTodo, DeviceEnumerate)'
    BY <2>1 DEF IsRest, DeviceEnumerate
  <2>3. UsbAt(Len(usbTodo))'
    BY <1>2, <2>1 DEF UsbAt
  <2>. QED  BY <2>1, <2>2, <2>3 DEF UsbCalling
<1>. QED
  BY <1>1, <1>2

LEMMA UsbStarts == UsbInit => UsbInv
<1>. SUFFICES ASSUME UsbInit PROVE UsbInv
  OBVIOUS
<1>1. usbTodo = <<>> /\ Len(usbTodo) = 0 /\ usbTodo \in Seq(UsbOps)
  BY NothingYet DEF UsbInit
<1>2. UsbTyped
  BY <1>1 DEF UsbInit, UsbTyped, EnumSpd
<1>3. IsRest(usbTodo, DeviceEnumerate)
  BY <1>1, UsbEnds, Zenon
<1>4. UsbCalling
  BY <1>1, <1>3 DEF UsbCalling, UsbAt
<1>5. SpeedNegotiated
  BY DEF UsbInit, SpeedNegotiated
<1>. QED
  BY <1>2, <1>4, <1>5 DEF UsbInv

\* A call begins, or is refused.
LEMMA UsbCallKeeps == UsbInv /\ device_enumerate => UsbInv'
<1>. SUFFICES ASSUME UsbInv, device_enumerate PROVE UsbInv'
  OBVIOUS
<1>t. UsbTyped /\ UsbCalling
  BY DEF UsbInv
<1>0. /\ usbCall' = -1
      /\ UNCHANGED <<usbPresent, usbCore, usbAttached, usbMode, usbIntSts, usbSpeed, usbHost>>
  BY DEF device_enumerate
<1>1. CASE usbTodo' = DeviceEnumerate /\ usbResult' = "none"
  <2>3. UsbCalling' /\ usbTodo' \in Seq(UsbOps)
    BY <1>1, UsbEndsCalling
  <2>2. UsbTyped'
    BY <1>t, <1>0, <1>1, <2>3 DEF UsbTyped
  <2>4. SpeedNegotiated'
    BY <1>1 DEF SpeedNegotiated
  <2>. QED  BY <2>2, <2>3, <2>4 DEF UsbInv
<1>2. CASE usbTodo' = <<>> /\ usbResult' = "not present"
  <2>3. UsbCalling' /\ usbTodo' \in Seq(UsbOps)
    BY <1>2, UsbEndsCalling
  <2>2. UsbTyped'
    BY <1>t, <1>0, <1>2, <2>3 DEF UsbTyped
  <2>4. SpeedNegotiated'
    BY <1>2 DEF SpeedNegotiated
  <2>. QED  BY <2>2, <2>3, <2>4 DEF UsbInv
<1>. QED
  BY <1>1, <1>2 DEF device_enumerate

\* One access less is left.
LEMMA UsbShorter ==
    ASSUME UsbTyped, UsbCalling, usbTodo # <<>>, usbTodo' = Tail(usbTodo)
    PROVE  /\ usbTodo' \in Seq(UsbOps) /\ IsRest(usbTodo, DeviceEnumerate)'
           /\ Len(usbTodo) \in Nat /\ Len(usbTodo) >= 1 /\ Len(usbTodo) <= 12
           /\ Len(usbTodo') = Len(usbTodo) - 1
           /\ usbTodo' = <<>> => Len(usbTodo) = 1
<1>1. usbTodo \in Seq(UsbOps) /\ DeviceEnumerate \in Seq(UsbOps) /\ IsRest(usbTodo, DeviceEnumerate)
  BY UsbPlan DEF UsbTyped, UsbCalling
<1>2. /\ IsRest(Tail(usbTodo), DeviceEnumerate) /\ Tail(usbTodo) \in Seq(UsbOps)
      /\ Len(usbTodo) \in 1..Len(DeviceEnumerate) /\ Len(Tail(usbTodo)) = Len(usbTodo) - 1
  BY <1>1, RestShrinks
<1>3. Len(DeviceEnumerate) = 12
  BY UsbPlan
<1>4. IsRest(usbTodo, DeviceEnumerate)'
  BY <1>2, Zenon DEF IsRest, DeviceEnumerate
<1>5. usbTodo' = <<>> => Len(usbTodo') = 0
  BY NothingYet
<1>6. Len(usbTodo) \in 1..12 /\ Len(usbTodo') = Len(usbTodo) - 1
  BY <1>2, <1>3, Zenon
<1>. DEFINE n == Len(usbTodo)
            m == Len(usbTodo')
<1>7. n \in 1..12 /\ m = n - 1 /\ (usbTodo' = <<>> => m = 0)
  BY <1>5, <1>6
<1>. HIDE DEF n, m
<1>8. n \in Nat /\ n >= 1 /\ n <= 12 /\ m = n - 1 /\ (usbTodo' = <<>> => n = 1)
  BY <1>7
<1>. QED
  BY <1>2, <1>4, <1>8, Zenon DEF n, m

\* A poll ends with its bit, or ends the call.
LEMMA UsbPollKeeps == UsbInv /\ UsbPoll => UsbInv'
<1>. SUFFICES ASSUME UsbInv, UsbPoll PROVE UsbInv'
  OBVIOUS
<1>t. UsbTyped /\ UsbCalling
  BY DEF UsbInv
<1>0. /\ usbTodo # <<>>
      /\ UNCHANGED <<usbPresent, usbCore, usbAttached, usbMode, usbIntSts, usbSpeed, usbHost,
                     usbCall>>
  BY DEF UsbPoll, Polling
<1>1. CASE UsbReady /\ usbTodo' = Tail(usbTodo) /\ UNCHANGED usbResult
  <2>0. PICK n : n = Len(usbTodo)
    OBVIOUS
  <2>1. /\ usbTodo' \in Seq(UsbOps) /\ IsRest(usbTodo, DeviceEnumerate)'
        /\ n \in Nat /\ n >= 1 /\ n <= 12 /\ Len(usbTodo') = n - 1 /\ (usbTodo' = <<>> => n = 1)
    BY <1>t, <1>0, <1>1, <2>0, UsbShorter
  <2>2. Op \in {"poll idle", "poll reset", "poll usbrst", "poll enumdone"}
    BY DEF UsbPoll, Polling
  <2>3. \/ n = 12 \/ n = 9 \/ n = 5
        \/ n = 10 /\ usbCore # "resetting"
        \/ n = 3 /\ "enumdone" \in usbIntSts
    <3>1. \/ n = 1 \/ n = 2 \/ n = 3 \/ n = 4 \/ n = 5 \/ n = 6 \/ n = 7 \/ n = 8
          \/ n = 9 \/ n = 10 \/ n = 11 \/ n = 12
      BY <2>1
    <3>2. /\ Op = "poll reset" => usbCore # "resetting"
          /\ Op = "poll enumdone" => "enumdone" \in usbIntSts
      BY <1>1, Zenon DEF UsbReady
    <3>. QED  BY <1>t, <1>0, <2>0, <2>2, <3>1, <3>2, UsbNextOp, Zenon
  <2>4. UsbTyped'
    BY <1>t, <1>0, <1>1, <2>1 DEF UsbTyped
  <2>m. n \in Nat
    BY <2>1, Zenon
  <2>5. n # 1
    BY <2>3, <2>m
  <2>6. SpeedNegotiated'
    BY <2>1, <2>5 DEF SpeedNegotiated
  <2>7. UsbAt(n) /\ UNCHANGED <<usbCore, usbAttached, usbIntSts, usbSpeed, usbCall, usbResult>>
    BY <1>t, <1>0, <1>1, <2>0 DEF UsbCalling
  <2>8. UsbAt(n - 1)'
    <3>1. CASE n = 12
      BY <2>m, <2>7, <3>1 DEF UsbAt
    <3>2. CASE n = 10 /\ usbCore # "resetting"
      BY <2>m, <2>7, <3>2 DEF UsbAt
    <3>3. CASE n = 9
      BY <2>m, <2>7, <3>3 DEF UsbAt
    <3>4. CASE n = 5
      BY <2>m, <2>7, <3>4 DEF UsbAt
    <3>5. CASE n = 3 /\ "enumdone" \in usbIntSts
      BY <2>m, <2>7, <3>5 DEF UsbAt
    <3>. QED  BY <2>3, <3>1, <3>2, <3>3, <3>4, <3>5
  <2>9. UsbCalling'
    BY <2>1, <2>8 DEF UsbCalling
  <2>. QED  BY <2>4, <2>6, <2>9 DEF UsbInv
<1>2. CASE usbTodo' = <<>> /\ usbResult' = "timeout"
  <2>3. UsbCalling' /\ usbTodo' \in Seq(UsbOps)
    BY <1>2, UsbEndsCalling
  <2>2. UsbTyped'
    BY <1>t, <1>0, <1>2, <2>3 DEF UsbTyped
  <2>4. SpeedNegotiated'
    BY <1>2 DEF SpeedNegotiated
  <2>. QED  BY <2>2, <2>3, <2>4 DEF UsbInv
<1>. QED
  BY <1>1, <1>2 DEF UsbPoll

\* The other accesses, one by one.
LEMMA UsbAccessKeeps == UsbInv /\ UsbAccess => UsbInv'
<1>. SUFFICES ASSUME UsbInv, UsbAccess PROVE UsbInv'
  OBVIOUS
<1>t. UsbTyped /\ UsbCalling
  BY DEF UsbInv
<1>n. PICK n : n = Len(usbTodo)
  OBVIOUS
<1>0. /\ usbTodo # <<>> /\ usbTodo' = Tail(usbTodo)
      /\ Op \notin {"poll idle", "poll reset", "poll usbrst", "poll enumdone"}
      /\ UNCHANGED <<usbPresent, usbSpeed, usbHost>>
  BY DEF UsbAccess, Polling
<1>1. /\ usbTodo' \in Seq(UsbOps) /\ IsRest(usbTodo, DeviceEnumerate)'
      /\ n \in Nat /\ n >= 1 /\ n <= 12 /\ Len(usbTodo') = n - 1 /\ (usbTodo' = <<>> => n = 1)
  BY <1>t, <1>0, <1>n, UsbShorter
<1>2. \/ n = 11 /\ Op = "csftrst"
      \/ n = 8 /\ Op = "force device"
      \/ n = 7 /\ Op = "clear all"
      \/ n = 6 /\ Op = "connect"
      \/ n = 4 /\ Op = "clear usbrst"
      \/ n = 2 /\ Op = "clear enumdone"
      \/ n = 1 /\ Op = "speed"
  <2>1. \/ n = 1 \/ n = 2 \/ n = 3 \/ n = 4 \/ n = 5 \/ n = 6 \/ n = 7 \/ n = 8
        \/ n = 9 \/ n = 10 \/ n = 11 \/ n = 12
    BY <1>1
  <2>. QED  BY <1>t, <1>0, <1>n, <2>1, UsbNextOp
<1>3. /\ usbCore' = IF Op = "csftrst" THEN "resetting" ELSE usbCore
      /\ usbMode' = IF Op = "force device" THEN "device" ELSE usbMode
      /\ usbAttached' = (usbAttached \/ Op = "connect")
      /\ usbIntSts' \subseteq usbIntSts
      /\ Op = "clear all" => usbIntSts' = {}
      /\ usbResult' = IF Op = "speed" THEN speed_from_enumspd(usbSpeed) ELSE usbResult
      /\ usbCall' = IF Op = "csftrst" THEN -1 ELSE usbCall
  BY <1>t DEF UsbAccess, UsbTyped
<1>4. speed_from_enumspd(usbSpeed) \in {"high", "full", "low", "full, FS PHY"}
  BY DEF speed_from_enumspd
<1>5. UsbTyped'
  <2>1. usbAttached' \in BOOLEAN
    BY <1>3
  <2>2. /\ usbCore' \in {"idle", "busy", "resetting"} /\ usbMode' \in {"otg", "device"}
        /\ usbIntSts' \subseteq {"usbrst", "enumdone"}
        /\ usbCall' \in EnumSpd \cup {-1}
        /\ usbResult' \in {"none", "timeout", "not present", "high", "full", "low",
                           "full, FS PHY"}
    BY <1>t, <1>3, <1>4 DEF UsbTyped
  <2>. QED  BY <1>t, <1>0, <1>1, <2>1, <2>2 DEF UsbTyped
<1>7. UsbAt(n) /\ UNCHANGED usbSpeed
  BY <1>t, <1>0, <1>n DEF UsbCalling
<1>m. n \in Nat
  BY <1>1, Zenon
<1>i. usbIntSts' \subseteq usbIntSts
  BY <1>3, Zenon
<1>b. usbAttached \in BOOLEAN /\ \A x \in BOOLEAN : (x \/ FALSE) = x
  BY <1>t, Zenon DEF UsbTyped
<1>8. UsbAt(n - 1)'
  <2>1. CASE n = 11 /\ Op = "csftrst"
    <3>1. n = 11
      BY <2>1
    <3>2. /\ usbCore' = "resetting" /\ usbCall' = -1 /\ usbResult' = usbResult /\ usbAttached' = usbAttached
      BY <1>3, <1>b, <2>1, Zenon
    <3>. QED  BY <1>m, <1>7, <1>i, <3>1, <3>2 DEF UsbAt
  <2>2. CASE n = 8 /\ Op = "force device"
    <3>1. n = 8
      BY <2>2
    <3>2. /\ usbCore' = usbCore /\ usbCall' = usbCall /\ usbResult' = usbResult /\ usbAttached' = usbAttached
      BY <1>3, <1>b, <2>2, Zenon
    <3>. QED  BY <1>m, <1>7, <1>i, <3>1, <3>2 DEF UsbAt
  <2>3. CASE n = 7 /\ Op = "clear all"
    <3>1. n = 7
      BY <2>3
    <3>2. /\ usbCore' = usbCore /\ usbCall' = usbCall /\ usbResult' = usbResult /\ usbAttached' = usbAttached /\ usbIntSts' = {}
      BY <1>3, <1>b, <2>3, Zenon
    <3>. QED  BY <1>m, <1>7, <1>i, <3>1, <3>2 DEF UsbAt
  <2>4. CASE n = 6 /\ Op = "connect"
    <3>1. n = 6
      BY <2>4
    <3>2. /\ usbCore' = usbCore /\ usbCall' = usbCall /\ usbResult' = usbResult
      BY <1>3, <1>b, <2>4, Zenon
    <3>. QED  BY <1>m, <1>7, <1>i, <3>1, <3>2 DEF UsbAt
  <2>5. CASE n = 4 /\ Op = "clear usbrst"
    <3>1. n = 4
      BY <2>5
    <3>2. /\ usbCore' = usbCore /\ usbCall' = usbCall /\ usbResult' = usbResult /\ usbAttached' = usbAttached
      BY <1>3, <1>b, <2>5, Zenon
    <3>. QED  BY <1>m, <1>7, <1>i, <3>1, <3>2 DEF UsbAt
  <2>6. CASE n = 2 /\ Op = "clear enumdone"
    <3>1. n = 2
      BY <2>6
    <3>2. /\ usbCore' = usbCore /\ usbCall' = usbCall /\ usbResult' = usbResult /\ usbAttached' = usbAttached
      BY <1>3, <1>b, <2>6, Zenon
    <3>. QED  BY <1>m, <1>7, <1>i, <3>1, <3>2 DEF UsbAt
  <2>7. CASE n = 1
    BY <1>m, <2>7 DEF UsbAt
  <2>. QED  BY <1>2, <2>1, <2>2, <2>3, <2>4, <2>5, <2>6, <2>7, Zenon
<1>9. UsbCalling'
  BY <1>1, <1>8 DEF UsbCalling
<1>10. SpeedNegotiated'
  <2>1. CASE n = 1 /\ Op = "speed"
    <3>1. usbCall' = usbSpeed /\ usbCall' # -1 /\ usbResult' = speed_from_enumspd(usbSpeed)
      BY <1>3, <1>7, <2>1, Zenon DEF UsbAt
    <3>2. usbSpeed = 0 \/ usbSpeed = 1 \/ usbSpeed = 2 \/ usbSpeed = 3
      <4>1. usbSpeed \in 0..3
        BY <1>t, Zenon DEF UsbTyped, EnumSpd
      <4>. QED  BY <4>1
    <3>3. usbSpeed = 3 => usbSpeed # 0 /\ usbSpeed # 1 /\ usbSpeed # 2
      OBVIOUS
    <3>4. usbSpeed = 2 => usbSpeed # 0 /\ usbSpeed # 1
      OBVIOUS
    <3>5. usbSpeed = 1 => usbSpeed # 0
      OBVIOUS
    <3>6. speed_from_enumspd(usbSpeed) =
            (CASE usbSpeed = 0 -> "high" [] usbSpeed = 1 -> "full, FS PHY"
               [] usbSpeed = 2 -> "low" [] usbSpeed = 3 -> "full")
      BY <3>2, <3>3, <3>4, <3>5, Zenon DEF speed_from_enumspd
    <3>7. usbResult' = (CASE usbCall' = 0 -> "high" [] usbCall' = 1 -> "full, FS PHY"
                          [] usbCall' = 2 -> "low" [] usbCall' = 3 -> "full")
      BY <3>1, <3>6, Zenon
    <3>. QED  BY <3>1, <3>7, Zenon DEF SpeedNegotiated
  <2>2. CASE n # 1
    <3>1. usbTodo' # <<>>
      BY <1>1, <2>2, Zenon
    <3>. QED  BY <3>1, Zenon DEF SpeedNegotiated
  <2>3. n = 1 => Op = "speed"
    BY <1>t, <1>0, <1>n, UsbNextOp, Zenon
  <2>. QED  BY <2>1, <2>2, <2>3, Zenon
<1>. QED
  BY <1>5, <1>9, <1>10 DEF UsbInv

\* The core and the host, while a call is at any point.
LEMMA UsbOutsideKeeps == UsbInv /\ (UsbCoreStep \/ UsbHostStep \/ UsbPlug) => UsbInv'
<1>. SUFFICES ASSUME UsbInv, UsbCoreStep \/ UsbHostStep \/ UsbPlug PROVE UsbInv'
  OBVIOUS
<1>t. UsbTyped /\ UsbCalling /\ SpeedNegotiated
  BY DEF UsbInv
<1>. DEFINE n == Len(usbTodo)
<1>0. UNCHANGED <<usbTodo, usbResult, usbPresent, usbMode>>
  BY DEF UsbCoreStep, UsbHostStep, UsbPlug
<1>1. n \in Nat /\ UsbAt(n)
  BY <1>t, LenProperties DEF UsbTyped, UsbCalling
<1>2. usbTodo = <<>> => n = 0
  BY NothingYet
<1>3. UsbTyped'
  BY <1>t DEF UsbTyped, UsbCoreStep, UsbHostStep, UsbPlug, EnumSpd
<1>4. ASSUME UsbAt(n)'
      PROVE  UsbCalling'
  BY <1>0, <1>4, <1>t DEF UsbCalling, IsRest, DeviceEnumerate
<1>n. n' = n
  BY <1>0
<1>. HIDE DEF n
<1>5. CASE UsbCoreStep
  <2>1. UsbCalling'
    BY <1>0, <1>1, <1>n, <1>4, <1>5 DEF UsbCoreStep, UsbAt
  <2>2. SpeedNegotiated'
    BY <1>t, <1>5 DEF UsbCoreStep, SpeedNegotiated
  <2>. QED  BY <1>3, <2>1, <2>2 DEF UsbInv
<1>6. CASE UsbHostStep
  <2>1. usbCore = "idle" /\ usbAttached /\ UNCHANGED <<usbCore, usbAttached>>
    BY <1>6 DEF UsbHostStep
  <2>2. ~ (n >= 6 /\ n <= 10)
    BY <1>1, <2>1 DEF UsbAt
  <2>3. CASE /\ usbIntSts' = usbIntSts \cup {"usbrst"} /\ UNCHANGED <<usbSpeed, usbCall>>
    <3>1. UsbCalling'
      BY <1>0, <1>1, <1>n, <1>4, <2>1, <2>2, <2>3 DEF UsbAt
    <3>2. SpeedNegotiated'
      BY <1>t, <1>0, <2>3 DEF SpeedNegotiated
    <3>. QED  BY <1>3, <3>1, <3>2 DEF UsbInv
  <2>4. CASE /\ usbSpeed' \in EnumSpd /\ usbCall' = IF usbTodo = <<>> THEN usbCall ELSE usbSpeed'
    <3>1. usbTodo # <<>> => usbCall' = usbSpeed' /\ usbCall' # -1
      BY <2>4 DEF EnumSpd
    <3>2. UsbCalling'
      <4>1. n > 0 => usbTodo # <<>>
        BY <1>2
      <4>. QED  BY <1>0, <1>1, <1>n, <1>4, <2>1, <2>2, <3>1, <4>1 DEF UsbAt
    <3>3. SpeedNegotiated'
      BY <1>t, <1>0, <2>4 DEF SpeedNegotiated
    <3>. QED  BY <1>3, <3>2, <3>3 DEF UsbInv
  <2>. QED  BY <1>6, <2>3, <2>4 DEF UsbHostStep
<1>7. CASE UsbPlug
  <2>1. UNCHANGED <<usbTodo, usbResult, usbCore, usbAttached, usbIntSts, usbSpeed, usbCall>>
    BY <1>7 DEF UsbPlug
  <2>2. UsbCalling'
    BY <1>1, <1>n, <1>4, <2>1 DEF UsbAt
  <2>3. SpeedNegotiated'
    BY <1>t, <2>1 DEF SpeedNegotiated
  <2>. QED  BY <1>3, <2>2, <2>3 DEF UsbInv
<1>. QED
  BY <1>5, <1>6, <1>7

LEMMA UsbStepKeeps == UsbInv /\ [UsbNext]_usbVars => UsbInv'
<1>. SUFFICES ASSUME UsbInv, UNCHANGED usbVars PROVE UsbInv'
  BY UsbCallKeeps, UsbPollKeeps, UsbAccessKeeps, UsbOutsideKeeps DEF UsbNext
<1>1. UNCHANGED <<usbTodo, usbResult, usbPresent, usbCore, usbAttached, usbMode, usbIntSts,
                  usbSpeed, usbHost, usbCall>>
  BY DEF usbVars
<1>t. UsbTyped /\ UsbCalling /\ SpeedNegotiated
  BY DEF UsbInv
<1>2. UsbTyped'
  BY <1>1, <1>t, Zenon DEF UsbTyped, EnumSpd
<1>3. UsbCalling'
  <2>1. IsRest(usbTodo, DeviceEnumerate)'
    BY <1>1, <1>t, Zenon DEF UsbCalling, IsRest, DeviceEnumerate
  <2>2. UsbAt(Len(usbTodo))'
    <3>1. PICK n : n = Len(usbTodo)
      OBVIOUS
    <3>2. UsbAt(n)
      BY <1>t, <3>1 DEF UsbCalling
    <3>3. UsbAt(n)'
      BY <1>1, <3>2 DEF UsbAt
    <3>. QED  BY <1>1, <3>1, <3>3
  <2>. QED  BY <2>1, <2>2 DEF UsbCalling
<1>4. SpeedNegotiated'
  BY <1>1, <1>t DEF SpeedNegotiated
<1>. QED
  BY <1>2, <1>3, <1>4 DEF UsbInv

LEMMA UsbInvTyped == UsbInv => SpeedNegotiated /\ UsbTypeOK
<1>. SUFFICES ASSUME UsbInv PROVE SpeedNegotiated /\ UsbTypeOK
  OBVIOUS
<1>1. Len(usbTodo) <= Len(DeviceEnumerate)
  <2>1. Len(usbTodo) \in 0..Len(DeviceEnumerate) /\ Len(DeviceEnumerate) = 12
    BY UsbPlan, Zenon DEF UsbInv, UsbCalling, IsRest
  <2>2. \A k, m \in Nat : k \in 0..m => k <= m
    OBVIOUS
  <2>3. Len(usbTodo) \in Nat /\ Len(DeviceEnumerate) \in Nat
    BY <2>1, LenProperties, UsbPlan DEF UsbInv, UsbTyped
  <2>. QED  BY <2>1, <2>2, <2>3, Zenon
<1>. QED
  BY <1>1 DEF UsbInv, UsbTyped, UsbTypeOK

\* Whenever the host resets and enumerates, and whatever an earlier connection left: the
\* speed that device_enumerate returns is one negotiated since its own reset (usb.rs).
THEOREM SpeedOfThisCall == UsbSpec => [](SpeedNegotiated /\ UsbTypeOK)
BY UsbStarts, UsbStepKeeps, UsbInvTyped, PTL DEF UsbSpec

-----------------------------------------------------------------------------
(* The general-purpose ADC.                                                 *)

GdUpOps == {"afe power", "afe clock", "afe regulator", "adc regulator", "reference",
            "resets released", "cfg mux iso", "cfg mux", "cfg mux en"}

GdReadOps == {"amux", "cfg +mux", "cfg -iso", "cfg +en", "poll", "cfg -en", "cfg iso", "read",
              "first done"}

\* A read with the discarded conversion is of 16 accesses, one without it of 8.
GdPlan(m) == ReadOps(m = 16)

GdTyped ==
    /\ gdLive \in BOOLEAN /\ gdFirst \in BOOLEAN
    /\ gdInput \in GadcInputs \cup {NoInput} /\ gdAsked \in GadcInputs \cup {NoInput}
    /\ gdAfe \subseteq AfeParts
    /\ gdCfg \in [en : BOOLEAN, mux : BOOLEAN, iso : BOOLEAN]
    /\ gdDone \in BOOLEAN /\ gdRaw \in Raws /\ gdOf \in GadcInputs \cup {NoInput}
    /\ gdSettled \in BOOLEAN /\ gdOld \in BOOLEAN /\ gdFromOld \in BOOLEAN
    /\ gdResult \in {"none", "timeout", "ok"} /\ gdValue \in (-SignBit)..(SignBit - 1)
    /\ gdFrom \in GadcInputs \cup {NoInput}
    /\ gdFaulty \in BOOLEAN /\ gdCount \in 0..GadcMaxConversions

\* What is done was converted, and the first sample is past only where one was.
GdSettles ==
    /\ gdDone => gdSettled
    /\ ~ gdFirst => gdSettled
    /\ ~ gdLive => gdTodo = <<>> /\ gdResult = "none"

\* n of the m accesses are left: the input is the one asked for once it is selected, a
\* conversion has ended before the one that counts, and that one is of this input.
GdAt(m, n) ==
    /\ n >= 1 => gdResult = "none"
    /\ n >= 1 /\ n < m => gdInput = gdAsked
    /\ n >= 1 /\ (n <= 11 \/ m = 8) => gdSettled
    /\ n >= 1 /\ n <= 4 /\ gdDone => gdOf = gdAsked /\ ~ gdOld
    /\ n >= 1 /\ n <= 3 => gdDone
    /\ n = 2 => ~ gdCfg.en
    /\ n = 1 => gdCfg = Isolated

GdPowersUp == gdTodo \in Seq(GdUpOps) /\ gdResult = "none"

GdReads ==
    /\ gdTodo \in Seq(GdReadOps)
    /\ \E m \in {8, 16} : IsRest(gdTodo, GdPlan(m)) /\ GdAt(m, Len(gdTodo))

GdGivesUp ==
    /\ gdResult = "timeout"
    /\ \/ gdTodo = <<"cfg -en", "cfg iso">>
       \/ gdTodo = <<"cfg iso">> /\ ~ gdCfg.en

GdCalling == gdTodo = <<>> \/ GdPowersUp \/ GdReads \/ GdGivesUp

GdInv == GdTyped /\ GdSettles /\ GdCalling /\ GadcAsAsked /\ GadcIsolated

\* The accesses of one conversion.
LEMMA GadcOnce ==
    /\ ConvertOnce \in Seq(GdReadOps) /\ Len(ConvertOnce) = 7
    /\ ConvertOnce[1] = "cfg +mux" /\ ConvertOnce[2] = "cfg -iso" /\ ConvertOnce[3] = "cfg +en"
    /\ ConvertOnce[4] = "poll" /\ ConvertOnce[5] = "cfg -en" /\ ConvertOnce[6] = "cfg iso"
    /\ ConvertOnce[7] = "read"
BY DEF ConvertOnce, GdReadOps

LEMMA GadcUp == PowerUp \in Seq(GdUpOps)
BY DEF PowerUp, GdUpOps

LEMMA GadcOneOp ==
    /\ <<"amux">> \in Seq(GdReadOps) /\ Len(<<"amux">>) = 1 /\ <<"amux">>[1] = "amux"
    /\ "amux" \in GdReadOps /\ "first done" \in GdReadOps
    /\ <<"first done">> \in Seq(GdReadOps) /\ Len(<<"first done">>) = 1
    /\ <<"first done">>[1] = "first done"
BY DEF GdReadOps

\* The shorter read.
LEMMA GadcShortPlan ==
    /\ GdPlan(8) \in Seq(GdReadOps) /\ Len(GdPlan(8)) = 8 /\ GdPlan(8)[1] = "amux"
    /\ GdPlan(8)[4] = "cfg +en" /\ GdPlan(8)[5] = "poll" /\ GdPlan(8)[6] = "cfg -en"
    /\ GdPlan(8)[7] = "cfg iso" /\ GdPlan(8)[8] = "read"
<1>1. GdPlan(8) = (<<"amux">> \o <<>>) \o ConvertOnce
  <2>1. 8 # 16
    OBVIOUS
  <2>. QED  BY <2>1, Zenon DEF GdPlan, ReadOps
<1>2. <<"amux">> \o <<>> = <<"amux">>
  BY GadcOneOp, ConcatEmptySeq, Zenon
<1>3. PICK T, u, s, w : T = GdReadOps /\ u = "amux" /\ s = ConvertOnce /\ w = <<u>> \o s
  OBVIOUS
<1>4. u \in T /\ s \in Seq(T)
  BY <1>3, GadcOnce, GadcOneOp, Zenon
<1>5. w = <<u>> \o s /\ Len(s) = 7
  BY <1>3, GadcOnce, Zenon
<1>6. /\ <<u>> \o s \in Seq(T) /\ Len(<<u>> \o s) = Len(s) + 1 /\ (<<u>> \o s)[1] = u
      /\ \A i \in 1..Len(s) : (<<u>> \o s)[i + 1] = s[i]
  BY <1>4, OneBefore
<1>7. w \in Seq(T) /\ Len(w) = 7 + 1 /\ w[1] = u /\ \A i \in 1..7 : w[i + 1] = s[i]
  BY <1>5, <1>6, Zenon
<1>8. \A i \in 1..7 : w[i + 1] = s[i]
  BY <1>7, Zenon
<1>9. w[4] = s[3] /\ w[5] = s[4] /\ w[6] = s[5] /\ w[7] = s[6] /\ w[8] = s[7]
  BY <1>8
<1>10. 7 + 1 = 8
  OBVIOUS
<1>11. w = GdPlan(8)
  BY <1>1, <1>2, <1>3, Zenon
<1>. QED
  BY <1>3, <1>7, <1>9, <1>10, <1>11, GadcOnce, Zenon

\* And the longer one.
LEMMA GadcLongPlan ==
    /\ GdPlan(16) \in Seq(GdReadOps) /\ Len(GdPlan(16)) = 16
    /\ GdPlan(16)[1] = "amux" /\ GdPlan(16)[2] = "cfg +mux" /\ GdPlan(16)[3] = "cfg -iso"
    /\ GdPlan(16)[4] = "cfg +en" /\ GdPlan(16)[5] = "poll"
    /\ GdPlan(16)[12] = "cfg +en" /\ GdPlan(16)[13] = "poll" /\ GdPlan(16)[14] = "cfg -en"
    /\ GdPlan(16)[15] = "cfg iso" /\ GdPlan(16)[16] = "read"
<1>1. GdPlan(16) = (<<"amux">> \o (ConvertOnce \o <<"first done">>)) \o ConvertOnce
  BY Zenon DEF GdPlan, ReadOps
<1>2. PICK T, u, e, s, a, b, w :
        /\ T = GdReadOps /\ u = "amux" /\ e = <<"first done">> /\ s = ConvertOnce
        /\ a = s \o e /\ b = <<u>> \o a /\ w = b \o s
  OBVIOUS
<1>3. u \in T /\ e \in Seq(T) /\ s \in Seq(T)
  BY <1>2, GadcOnce, GadcOneOp, Zenon
<1>4. Len(e) = 1 /\ Len(s) = 7
  BY <1>2, GadcOnce, GadcOneOp, Zenon
<1>5. a = s \o e /\ b = <<u>> \o a /\ w = b \o s
  BY <1>2, Zenon
<1>6. a \in Seq(T) /\ Len(a) = Len(s) + Len(e) /\ \A i \in 1..Len(s) : a[i] = s[i]
  <2>1. s \o e \in Seq(T) /\ Len(s \o e) = Len(s) + Len(e) /\ \A i \in 1..Len(s) : (s \o e)[i] = s[i]
    BY <1>3, Joined
  <2>. QED  BY <1>5, <2>1, Zenon
<1>7. b \in Seq(T) /\ Len(b) = Len(a) + 1 /\ b[1] = u /\ \A i \in 1..Len(a) : b[i + 1] = a[i]
  <2>1. /\ <<u>> \o a \in Seq(T) /\ Len(<<u>> \o a) = Len(a) + 1 /\ (<<u>> \o a)[1] = u
        /\ \A i \in 1..Len(a) : (<<u>> \o a)[i + 1] = a[i]
    <3>1. u \in T /\ a \in Seq(T)
      BY <1>3, <1>6, Zenon
    <3>. QED  BY <3>1, OneBefore
  <2>. QED  BY <1>5, <2>1, Zenon
<1>8. /\ w \in Seq(T) /\ Len(w) = Len(b) + Len(s)
      /\ \A i \in 1..Len(b) : w[i] = b[i]
      /\ \A i \in 1..Len(s) : w[Len(b) + i] = s[i]
  <2>1. b \in Seq(T) /\ s \in Seq(T)
    BY <1>3, <1>7, Zenon
  <2>2. /\ b \o s \in Seq(T) /\ Len(b \o s) = Len(b) + Len(s)
        /\ \A i \in 1..Len(b) : (b \o s)[i] = b[i]
        /\ \A i \in 1..Len(s) : (b \o s)[Len(b) + i] = s[i]
    BY <2>1, Joined
  <2>. QED  BY <1>5, <2>2, Zenon
<1>9. Len(a) = 8 /\ Len(b) = 9 /\ Len(w) = 16
  <2>1. 7 + 1 = 8 /\ 8 + 1 = 9 /\ 9 + 7 = 16
    OBVIOUS
  <2>2. Len(a) = 7 + 1
    BY <1>4, <1>6, Zenon
  <2>3. Len(a) = 8
    BY <2>1, <2>2, Zenon
  <2>4. Len(b) = 8 + 1
    BY <1>7, <2>3, Zenon
  <2>5. Len(b) = 9
    BY <2>1, <2>4, Zenon
  <2>6. Len(w) = 9 + 7
    BY <1>4, <1>8, <2>5, Zenon
  <2>. QED  BY <2>1, <2>3, <2>5, <2>6, Zenon
<1>10. \A i \in 1..7 : a[i] = s[i]
  BY <1>4, <1>6, Zenon
<1>11. \A i \in 1..8 : b[i + 1] = a[i]
  BY <1>7, <1>9, Zenon
<1>12. \A i \in 1..9 : w[i] = b[i]
  BY <1>8, <1>9, Zenon
<1>13. \A i \in 1..7 : w[9 + i] = s[i]
  BY <1>4, <1>8, <1>9, Zenon
<1>14. w[2] = s[1] /\ w[3] = s[2] /\ w[4] = s[3] /\ w[5] = s[4] /\ w[1] = b[1]
  <2>1. b[2] = s[1] /\ b[3] = s[2] /\ b[4] = s[3] /\ b[5] = s[4]
    BY <1>10, <1>11
  <2>. QED  BY <1>12, <2>1
<1>15. w[12] = s[3] /\ w[13] = s[4] /\ w[14] = s[5] /\ w[15] = s[6] /\ w[16] = s[7]
  BY <1>13
<1>16. w = GdPlan(16)
  BY <1>1, <1>2, Zenon
<1>. QED
  BY <1>2, <1>7, <1>8, <1>9, <1>14, <1>15, <1>16, GadcOnce, Zenon

\* Counting a plan from its end.
LEMMA FromItsEnd ==
    ASSUME NEW plan, NEW h, NEW n \in Nat, h = plan[(16 + 1) - n]
    PROVE  /\ n = 16 => h = plan[1]
           /\ n = 15 => h = plan[2]
           /\ n = 14 => h = plan[3]
           /\ n = 13 => h = plan[4]
           /\ n = 12 => h = plan[5]
           /\ n = 5 => h = plan[12]
           /\ n = 4 => h = plan[13]
           /\ n = 3 => h = plan[14]
           /\ n = 2 => h = plan[15]
           /\ n = 1 => h = plan[16]
OBVIOUS

LEMMA FromItsEndShort ==
    ASSUME NEW plan, NEW h, NEW n \in Nat, n <= 8, h = plan[(8 + 1) - n]
    PROVE  /\ n # 15 /\ n # 14 /\ n # 13 /\ n # 12
           /\ n = 8 => h = plan[1]
           /\ n = 5 => h = plan[4]
           /\ n = 4 => h = plan[5]
           /\ n = 3 => h = plan[6]
           /\ n = 2 => h = plan[7]
           /\ n = 1 => h = plan[8]
OBVIOUS

\* The n-th access from the end of a read.
LEMMA GadcOpFromEnd ==
    ASSUME NEW m \in {8, 16}, NEW n \in Nat, n <= m, NEW h, h = GdPlan(m)[(m + 1) - n]
    PROVE  /\ n = m => h = "amux"
           /\ n = 15 => h = "cfg +mux"
           /\ n = 14 => h = "cfg -iso"
           /\ n = 13 => h = "cfg +en"
           /\ n = 12 => h = "poll"
           /\ n = 5 => h = "cfg +en"
           /\ n = 4 => h = "poll"
           /\ n = 3 => h = "cfg -en"
           /\ n = 2 => h = "cfg iso"
           /\ n = 1 => h = "read"
<1>1. CASE m = 8
  <2>1. n <= 8 /\ h = GdPlan(8)[(8 + 1) - n]
    BY <1>1
  <2>2. /\ n # 15 /\ n # 14 /\ n # 13 /\ n # 12
        /\ n = 8 => h = GdPlan(8)[1]
        /\ n = 5 => h = GdPlan(8)[4]
        /\ n = 4 => h = GdPlan(8)[5]
        /\ n = 3 => h = GdPlan(8)[6]
        /\ n = 2 => h = GdPlan(8)[7]
        /\ n = 1 => h = GdPlan(8)[8]
    BY <2>1, FromItsEndShort
  <2>. QED  BY <1>1, <2>2, GadcShortPlan, Zenon
<1>2. CASE m = 16
  <2>1. h = GdPlan(16)[(16 + 1) - n]
    BY <1>2
  <2>2. /\ n = 16 => h = GdPlan(16)[1]
        /\ n = 15 => h = GdPlan(16)[2]
        /\ n = 14 => h = GdPlan(16)[3]
        /\ n = 13 => h = GdPlan(16)[4]
        /\ n = 12 => h = GdPlan(16)[5]
        /\ n = 5 => h = GdPlan(16)[12]
        /\ n = 4 => h = GdPlan(16)[13]
        /\ n = 3 => h = GdPlan(16)[14]
        /\ n = 2 => h = GdPlan(16)[15]
        /\ n = 1 => h = GdPlan(16)[16]
    BY <2>1, FromItsEnd
  <2>. QED  BY <1>2, <2>2, GadcLongPlan, Zenon
<1>3. m = 8 \/ m = 16
  OBVIOUS
<1>. QED
  BY <1>1, <1>2, <1>3, Zenon

\* Which access is next, by how many are left.
LEMMA GadcOp ==
    ASSUME gdTodo \in Seq(GdReadOps), gdTodo # <<>>, NEW m \in {8, 16},
           IsRest(gdTodo, GdPlan(m)), NEW n, n = Len(gdTodo)
    PROVE  /\ n \in Nat /\ n >= 1 /\ n <= m
           /\ Tail(gdTodo) \in Seq(GdReadOps) /\ Len(Tail(gdTodo)) = n - 1
           /\ IsRest(Tail(gdTodo), GdPlan(m))
           /\ Head(gdTodo) \in GdReadOps
           /\ n = m => Head(gdTodo) = "amux"
           /\ n = 15 => Head(gdTodo) = "cfg +mux"
           /\ n = 14 => Head(gdTodo) = "cfg -iso"
           /\ n = 13 => Head(gdTodo) = "cfg +en"
           /\ n = 12 => Head(gdTodo) = "poll"
           /\ n = 5 => Head(gdTodo) = "cfg +en"
           /\ n = 4 => Head(gdTodo) = "poll"
           /\ n = 3 => Head(gdTodo) = "cfg -en"
           /\ n = 2 => Head(gdTodo) = "cfg iso"
           /\ n = 1 => Head(gdTodo) = "read"
<1>1. GdPlan(m) \in Seq(GdReadOps) /\ Len(GdPlan(m)) = m
  <2>1. m = 8 \/ m = 16
    OBVIOUS
  <2>. QED  BY <2>1, GadcShortPlan, GadcLongPlan, Zenon
<1>2. PICK plan, len : plan = GdPlan(m) /\ len = Len(plan)
  OBVIOUS
<1>3. plan \in Seq(GdReadOps) /\ IsRest(gdTodo, plan) /\ len = m
  BY <1>1, <1>2, Zenon
<1>4. /\ IsRest(Tail(gdTodo), plan) /\ Tail(gdTodo) \in Seq(GdReadOps)
      /\ Len(gdTodo) \in 1..Len(plan) /\ Len(Tail(gdTodo)) = Len(gdTodo) - 1
      /\ Head(gdTodo) = plan[(Len(plan) + 1) - Len(gdTodo)]
  BY <1>3, RestShrinks
<1>5. n \in 1..m /\ Head(gdTodo) = plan[(m + 1) - n]
  BY <1>2, <1>3, <1>4, Zenon
<1>6. n \in Nat /\ n >= 1 /\ n <= m /\ (m + 1) - n \in 1..m
  BY <1>5
<1>7. Head(gdTodo) \in GdReadOps
  <2>1. (m + 1) - n \in 1..Len(plan)
    BY <1>2, <1>3, <1>6, Zenon
  <2>2. plan[(m + 1) - n] \in GdReadOps
    BY <1>3, <2>1, ElementOfSeq
  <2>. QED  BY <1>5, <2>2, Zenon
<1>8. /\ Tail(gdTodo) \in Seq(GdReadOps) /\ Len(Tail(gdTodo)) = n - 1
      /\ IsRest(Tail(gdTodo), GdPlan(m))
  BY <1>2, <1>4, Zenon
<1>9. Head(gdTodo) = GdPlan(m)[(m + 1) - n]
  BY <1>2, <1>5, Zenon
<1>. QED
  BY <1>6, <1>7, <1>8, <1>9, GadcOpFromEnd, Zenon

LEMMA GdStarts == GadcInit => GdInv
<1>. SUFFICES ASSUME GadcInit PROVE GdInv
  OBVIOUS
<1>1. SignBit \in Nat /\ SignBit # 0 /\ GadcMaxConversions \in Nat
  BY GadcAssumption
<1>2. 0 \in Raws /\ 0 \in (-SignBit)..(SignBit - 1) /\ 0 \in 0..GadcMaxConversions
  BY <1>1 DEF Raws
<1>3. Off \in [en : BOOLEAN, mux : BOOLEAN, iso : BOOLEAN]
  BY DEF Off
<1>4. GdTyped
  BY <1>2, <1>3, Zenon DEF GadcInit, GdTyped
<1>5. GdSettles /\ GdCalling /\ GadcAsAsked /\ GadcIsolated
  BY DEF GadcInit, GdSettles, GdCalling, GadcAsAsked, GadcIsolated
<1>. QED
  BY <1>4, <1>5 DEF GdInv

\* The sign of an 18-bit sample, whatever its width.
LEMMA SignExtended == \A raw \in Raws : sign_extend18(raw) \in (-SignBit)..(SignBit - 1)
BY GadcAssumption DEF Raws, sign_extend18

\* The driver is made, and a read begins.
LEMMA GdCallKeeps ==
    ASSUME GdInv, GadcNew \/ \E input \in GadcInputs : GadcRead(input)
    PROVE  GdInv'
<1>t. GdTyped /\ GdSettles /\ GdCalling
  BY DEF GdInv
<1>1. CASE GadcNew
  <2>1. /\ ~ gdLive /\ gdLive' = TRUE /\ gdTodo' = PowerUp
        /\ UNCHANGED <<gdFirst, gdInput, gdAsked, gdAfe, gdCfg, gdDone, gdRaw, gdOf, gdSettled,
                       gdOld, gdCount, gdResult, gdValue, gdFrom, gdFromOld, gdFaulty>>
    BY <1>1 DEF GadcNew, gadcReport, gadcReturns
  <2>2. gdResult' = "none"
    BY <1>t, <2>1 DEF GdSettles
  <2>3. GdTyped'
    BY <1>t, <2>1 DEF GdTyped
  <2>4. GdSettles'
    BY <1>t, <2>1 DEF GdSettles
  <2>5. GdCalling'
    BY <2>1, <2>2, GadcUp, Zenon DEF GdCalling, GdPowersUp
  <2>6. GadcAsAsked' /\ GadcIsolated'
    BY <2>2 DEF GadcAsAsked, GadcIsolated
  <2>. QED  BY <2>3, <2>4, <2>5, <2>6 DEF GdInv
<1>2. ASSUME NEW input \in GadcInputs, GadcRead(input)
      PROVE  GdInv'
  <2>1. /\ gdLive /\ gdTodo' = ReadOps(gdFirst) /\ gdAsked' = input
        /\ gdResult' = "none" /\ gdValue' = 0 /\ gdFrom' = NoInput /\ gdFromOld' = FALSE
        /\ UNCHANGED <<gdLive, gdFirst, gdInput, gdAfe, gdCfg, gdDone, gdRaw, gdOf, gdSettled,
                       gdOld, gdCount, gdFaulty>>
    BY <1>2 DEF GadcRead, gadcReport
  <2>2. 0 \in (-SignBit)..(SignBit - 1)
    BY GadcAssumption
  <2>3. GdTyped'
    BY <1>t, <2>1, <2>2, Zenon DEF GdTyped
  <2>4. GdSettles'
    BY <1>t, <2>1 DEF GdSettles
  <2>5. GadcAsAsked' /\ GadcIsolated'
    BY <2>1 DEF GadcAsAsked, GadcIsolated
  <2>6. PICK m \in {8, 16} : gdFirst = (m = 16)
    <3>1. CASE gdFirst = TRUE
      BY <3>1
    <3>2. CASE gdFirst = FALSE
      <4>1. 8 \in {8, 16} /\ (8 = 16) = FALSE
        OBVIOUS
      <4>. QED  BY <3>2, <4>1
    <3>. QED  BY <1>t, <3>1, <3>2 DEF GdTyped
  <2>7. gdTodo' = GdPlan(m)
    BY <2>1, <2>6, Zenon DEF GdPlan
  <2>8. gdTodo' \in Seq(GdReadOps) /\ Len(gdTodo') = m
    <3>1. m = 8 \/ m = 16
      OBVIOUS
    <3>. QED  BY <2>7, <3>1, GadcShortPlan, GadcLongPlan, Zenon
  <2>9. IsRest(gdTodo', GdPlan(m))
    BY <2>7, <2>8, RestStarts
  <2>10. m = 8 => gdSettled
    <3>1. 8 # 16
      OBVIOUS
    <3>2. m = 8 => gdFirst = FALSE
      BY <2>6, <3>1, Zenon
    <3>. QED  BY <1>t, <3>2, Zenon DEF GdSettles
  <2>11. GdAt(m, m)'
    BY <2>1, <2>10 DEF GdAt
  <2>12. GdCalling'
    <3>1. IsRest(gdTodo, GdPlan(m))'
      BY <2>9, Zenon DEF IsRest, GdPlan, ReadOps, ConvertOnce
    <3>2. GdAt(m, Len(gdTodo))'
      BY <2>8, <2>11
    <3>. QED  BY <2>8, <3>1, <3>2 DEF GdCalling, GdReads
  <2>. QED  BY <2>3, <2>4, <2>5, <2>12 DEF GdInv
<1>. QED
  BY <1>1, <1>2

\* What a call returns is not touched before its end.
LEMMA GdReturnsLeft ==
    ASSUME GadcAsAsked, GadcIsolated,
           gdResult' = "none" \/ gdTodo' # <<>>
                              \/ UNCHANGED <<gdTodo, gdResult, gdFrom, gdAsked, gdFromOld, gdCfg>>
    PROVE  GadcAsAsked' /\ GadcIsolated'
BY DEF GadcAsAsked, GadcIsolated

\* The converter and the supply do what they do between the accesses.
LEMMA GdOutsideKeeps == GdInv /\ (GadcConvert \/ GadcSupply) => GdInv'
<1>. SUFFICES ASSUME GdInv, GadcConvert \/ GadcSupply PROVE GdInv'
  OBVIOUS
<1>t. GdTyped /\ GdSettles /\ GdCalling /\ GadcAsAsked /\ GadcIsolated
  BY DEF GdInv
<1>0. UNCHANGED <<gdTodo, gdLive, gdFirst, gdInput, gdAsked, gdAfe, gdCfg, gdResult, gdValue,
                  gdFrom, gdFromOld>>
  BY DEF GadcConvert, GadcSupply, gadcReport, gadcReturns
<1>1. \/ UNCHANGED <<gdDone, gdOf, gdOld, gdSettled>>
      \/ /\ ~ gdDone /\ gdDone' = TRUE /\ gdOf' = gdInput /\ gdOld' = ~ gdSettled
         /\ gdSettled' = TRUE
  BY DEF GadcConvert, GadcSupply, gadcReport
<1>2. GdTyped'
  <2>1. CASE GadcConvert
    <3>1. /\ gdDone' = TRUE /\ gdRaw' \in Raws /\ gdOf' = gdInput /\ gdOld' = ~ gdSettled
          /\ gdSettled' = TRUE /\ gdCount' = gdCount + 1 /\ gdCount < GadcMaxConversions
          /\ UNCHANGED gdFaulty
      BY <2>1 DEF GadcConvert
    <3>2. gdCount' \in 0..GadcMaxConversions
      <4>1. gdCount \in 0..GadcMaxConversions
        BY <1>t, Zenon DEF GdTyped
      <4>. QED  BY <3>1, <4>1, GadcAssumption
    <3>3. gdOld' \in BOOLEAN
      BY <3>1, Zenon
    <3>. QED  BY <1>t, <1>0, <3>1, <3>2, <3>3, Zenon DEF GdTyped
  <2>2. CASE GadcSupply
    BY <1>t, <1>0, <2>2, Zenon DEF GadcSupply, gadcReport, GdTyped
  <2>. QED  BY <2>1, <2>2
<1>3. GdSettles'
  BY <1>t, <1>0, <1>1 DEF GdSettles
<1>4. GadcAsAsked' /\ GadcIsolated'
  BY <1>t, <1>0, GdReturnsLeft
<1>5. GdCalling'
  <2>1. CASE gdTodo = <<>>
    BY <1>0, <2>1 DEF GdCalling
  <2>2. CASE GdPowersUp
    BY <1>0, <2>2, Zenon DEF GdCalling, GdPowersUp
  <2>3. CASE GdGivesUp
    BY <1>0, <2>3, Zenon DEF GdCalling, GdGivesUp
  <2>4. CASE GdReads
    <3>1. PICK m \in {8, 16} : IsRest(gdTodo, GdPlan(m)) /\ GdAt(m, Len(gdTodo))
      BY <2>4 DEF GdReads
    <3>2. PICK n : n = Len(gdTodo)
      OBVIOUS
    <3>3. n \in Nat
      BY <2>4, <3>2, LenProperties DEF GdReads
    <3>4. GdAt(m, n)
      BY <3>1, <3>2
    <3>5. GdAt(m, n)'
      <4>0. UNCHANGED <<gdResult, gdInput, gdAsked, gdCfg>>
        BY <1>0, Zenon
      <4>1. CASE UNCHANGED <<gdDone, gdOf, gdOld, gdSettled>>
        BY <3>4, <4>0, <4>1, Zenon DEF GdAt
      <4>2. CASE /\ gdDone' = TRUE /\ gdOf' = gdInput /\ gdOld' = ~ gdSettled
                 /\ gdSettled' = TRUE
        <5>1. n >= 1 /\ n <= 4 => n < m /\ n <= 11
          BY <3>3
        <5>2. n >= 1 /\ n <= 4 => gdOf' = gdAsked' /\ ~ gdOld'
          BY <3>4, <4>0, <4>2, <5>1, Zenon DEF GdAt
        <5>. QED  BY <3>4, <4>0, <4>2, <5>2, Zenon DEF GdAt
      <4>. QED  BY <1>1, <4>1, <4>2, Zenon
    <3>6. IsRest(gdTodo, GdPlan(m))'
      BY <1>0, <3>1, Zenon DEF IsRest, GdPlan, ReadOps, ConvertOnce
    <3>7. GdAt(m, Len(gdTodo))' /\ gdTodo' \in Seq(GdReadOps)
      BY <1>0, <2>4, <3>2, <3>5 DEF GdReads
    <3>. QED  BY <3>6, <3>7 DEF GdCalling, GdReads
  <2>. QED  BY <1>t, <2>1, <2>2, <2>3, <2>4 DEF GdCalling
<1>. QED
  BY <1>2, <1>3, <1>4, <1>5 DEF GdInv

\* A poll sees its conversion done, or gives up.
LEMMA GdPollKeeps == GdInv /\ GadcPoll => GdInv'
<1>. SUFFICES ASSUME GdInv, GadcPoll PROVE GdInv'
  OBVIOUS
<1>t. GdTyped /\ GdSettles /\ GdCalling /\ GadcAsAsked /\ GadcIsolated
  BY DEF GdInv
<1>0. /\ gdTodo # <<>> /\ Head(gdTodo) = "poll"
      /\ UNCHANGED <<gdLive, gdFirst, gdInput, gdAsked, gdAfe, gdCfg, gdDone, gdRaw, gdOf,
                     gdSettled, gdOld, gdCount, gdValue, gdFrom, gdFromOld, gdFaulty>>
  BY Zenon DEF GadcPoll, gadcReport
<1>1. \/ gdDone /\ gdTodo' = Tail(gdTodo) /\ UNCHANGED gdResult
      \/ gdTodo' = <<"cfg -en", "cfg iso">> /\ gdResult' = "timeout"
  BY Zenon DEF GadcPoll
<1>2. GdTyped'
  <2>1. gdResult' \in {"none", "timeout", "ok"}
    <3>1. gdResult \in {"none", "timeout", "ok"}
      BY <1>t, Zenon DEF GdTyped
    <3>2. gdResult' = gdResult \/ gdResult' = "timeout"
      BY <1>1, Zenon
    <3>. QED  BY <3>1, <3>2
  <2>2. UNCHANGED <<gdLive, gdFirst, gdInput, gdAsked, gdAfe, gdCfg, gdDone, gdRaw, gdOf,
                    gdSettled, gdOld, gdCount, gdValue, gdFrom, gdFromOld, gdFaulty>>
    BY <1>0, Zenon
  <2>. QED  BY <1>t, <2>1, <2>2 DEF GdTyped
<1>3. GdReads
  <2>1. ~ GdPowersUp
    <3>. SUFFICES ASSUME gdTodo \in Seq(GdUpOps) PROVE FALSE
      BY DEF GdPowersUp
    <3>0. gdTodo # <<>>
      BY <1>0, Zenon
    <3>1. Head(gdTodo) \in GdUpOps
      <4>1. Head(gdTodo) = gdTodo[1] /\ gdTodo[1] \in GdUpOps
        BY <3>0, OneLess
      <4>. QED  BY <4>1
    <3>. QED  BY <1>0, <3>1, Zenon DEF GdUpOps
  <2>2. ~ GdGivesUp
    <3>1. Head(<<"cfg -en", "cfg iso">>) = "cfg -en" /\ Head(<<"cfg iso">>) = "cfg iso"
      OBVIOUS
    <3>. QED  BY <1>0, <3>1, Zenon DEF GdGivesUp
  <2>. QED  BY <1>t, <1>0, <2>1, <2>2, Zenon DEF GdCalling
<1>4. PICK m \in {8, 16} : IsRest(gdTodo, GdPlan(m)) /\ GdAt(m, Len(gdTodo))
  BY <1>3 DEF GdReads
<1>5. PICK n : n = Len(gdTodo)
  OBVIOUS
<1>6. /\ n \in Nat /\ n >= 1 /\ n <= m
      /\ Tail(gdTodo) \in Seq(GdReadOps) /\ Len(Tail(gdTodo)) = n - 1
      /\ IsRest(Tail(gdTodo), GdPlan(m))
      /\ n = m => Head(gdTodo) = "amux"
      /\ n = 5 => Head(gdTodo) = "cfg +en"
      /\ n = 3 => Head(gdTodo) = "cfg -en"
      /\ n = 2 => Head(gdTodo) = "cfg iso"
      /\ n = 1 => Head(gdTodo) = "read"
  BY <1>0, <1>3, <1>4, <1>5, GadcOp, Zenon DEF GdReads
<1>7. n \in Nat /\ n >= 1 /\ n <= m /\ n # m /\ n # 5 /\ n # 3 /\ n # 2 /\ n # 1 /\ GdAt(m, n)
  BY <1>0, <1>4, <1>5, <1>6, Zenon
<1>8. CASE gdDone /\ gdTodo' = Tail(gdTodo) /\ UNCHANGED gdResult
  <2>1. /\ UNCHANGED <<gdInput, gdAsked, gdCfg, gdDone, gdOf, gdSettled, gdOld, gdResult>>
        /\ gdSettled
    BY <1>t, <1>0, <1>8, Zenon DEF GdSettles
  <2>2. GdAt(m, n - 1)'
    BY <1>7, <1>8, <2>1 DEF GdAt
  <2>3. GdCalling'
    <3>1. IsRest(gdTodo, GdPlan(m))'
      BY <1>6, <1>8, Zenon DEF IsRest, GdPlan, ReadOps, ConvertOnce
    <3>2. GdAt(m, Len(gdTodo))' /\ gdTodo' \in Seq(GdReadOps)
      BY <1>6, <1>8, <2>2, Zenon
    <3>. QED  BY <3>1, <3>2, Zenon DEF GdCalling, GdReads
  <2>4. GadcAsAsked' /\ GadcIsolated'
    <3>1. gdResult' = "none"
      BY <1>7, <2>1 DEF GdAt
    <3>. QED  BY <1>t, <3>1, GdReturnsLeft
  <2>5. GdSettles'
    <3>1. gdLive'
      BY <1>t, <1>0, Zenon DEF GdSettles
    <3>2. gdDone' = gdDone /\ gdSettled' = gdSettled /\ gdFirst' = gdFirst
      BY <1>0, Zenon
    <3>. QED  BY <1>t, <3>1, <3>2, Zenon DEF GdSettles
  <2>. QED  BY <1>2, <2>3, <2>4, <2>5 DEF GdInv
<1>9. CASE gdTodo' = <<"cfg -en", "cfg iso">> /\ gdResult' = "timeout"
  <2>1. GdCalling'
    BY <1>9, Zenon DEF GdCalling, GdGivesUp
  <2>2. gdTodo' # <<>>
    <3>1. <<"cfg -en", "cfg iso">> # <<>>
      OBVIOUS
    <3>. QED  BY <1>9, <3>1, Zenon
  <2>3. GadcAsAsked' /\ GadcIsolated'
    BY <1>t, <2>2, GdReturnsLeft
  <2>4. GdSettles'
    <3>1. gdLive'
      BY <1>t, <1>0, Zenon DEF GdSettles
    <3>2. gdDone' = gdDone /\ gdSettled' = gdSettled /\ gdFirst' = gdFirst
      BY <1>0, Zenon
    <3>. QED  BY <1>t, <3>1, <3>2, Zenon DEF GdSettles
  <2>. QED  BY <1>2, <2>1, <2>3, <2>4, Zenon DEF GdInv
<1>. QED
  BY <1>1, <1>8, <1>9, Zenon

\* Two things to do, and one.
LEMMA TwoInOrder ==
    ASSUME NEW a, NEW b
    PROVE  /\ Head(<<a, b>>) = a /\ Tail(<<a, b>>) = <<b>> /\ Head(<<b>>) = b
           /\ Tail(<<b>>) = <<>> /\ <<b>> # <<>> /\ <<a, b>> # <<>>
OBVIOUS

\* What the accesses do to the configuration.
LEMMA GadcCfg ==
    ASSUME NEW op, gdCfg \in [en : BOOLEAN, mux : BOOLEAN, iso : BOOLEAN]
    PROVE  /\ CfgAfter(op) \in [en : BOOLEAN, mux : BOOLEAN, iso : BOOLEAN]
           /\ op = "read" => CfgAfter(op) = gdCfg
           /\ op = "cfg -en" => ~ CfgAfter(op).en
           /\ op = "cfg iso" /\ ~ gdCfg.en => CfgAfter(op) = Isolated
<1>1. /\ [en |-> FALSE, mux |-> TRUE, iso |-> TRUE] \in [en : BOOLEAN, mux : BOOLEAN, iso : BOOLEAN]
      /\ [en |-> FALSE, mux |-> TRUE, iso |-> FALSE] \in [en : BOOLEAN, mux : BOOLEAN, iso : BOOLEAN]
      /\ [en |-> TRUE, mux |-> TRUE, iso |-> FALSE] \in [en : BOOLEAN, mux : BOOLEAN, iso : BOOLEAN]
      /\ [gdCfg EXCEPT !.mux = TRUE] \in [en : BOOLEAN, mux : BOOLEAN, iso : BOOLEAN]
      /\ [gdCfg EXCEPT !.iso = FALSE] \in [en : BOOLEAN, mux : BOOLEAN, iso : BOOLEAN]
      /\ [gdCfg EXCEPT !.en = TRUE] \in [en : BOOLEAN, mux : BOOLEAN, iso : BOOLEAN]
      /\ [gdCfg EXCEPT !.en = FALSE] \in [en : BOOLEAN, mux : BOOLEAN, iso : BOOLEAN]
      /\ [gdCfg EXCEPT !.mux = FALSE, !.iso = TRUE] \in [en : BOOLEAN, mux : BOOLEAN, iso : BOOLEAN]
  OBVIOUS
<1>2. CfgAfter(op) \in [en : BOOLEAN, mux : BOOLEAN, iso : BOOLEAN]
  BY <1>1, Zenon DEF CfgAfter
<1>7. op = "read" => CfgAfter(op) = gdCfg
  BY Zenon DEF CfgAfter
<1>3. op = "cfg -en" => CfgAfter(op) = [gdCfg EXCEPT !.en = FALSE]
  BY Zenon DEF CfgAfter
<1>4. op = "cfg iso" => CfgAfter(op) = [gdCfg EXCEPT !.mux = FALSE, !.iso = TRUE]
  BY Zenon DEF CfgAfter
<1>5. ~ [gdCfg EXCEPT !.en = FALSE].en
  OBVIOUS
<1>6. ~ gdCfg.en => [gdCfg EXCEPT !.mux = FALSE, !.iso = TRUE] = Isolated
  <2>. SUFFICES ASSUME ~ gdCfg.en
                PROVE  [gdCfg EXCEPT !.mux = FALSE, !.iso = TRUE] = Isolated
    OBVIOUS
  <2>1. gdCfg.en = FALSE
    <3>1. gdCfg.en \in BOOLEAN
      OBVIOUS
    <3>. QED  BY <3>1
  <2>2. PICK f : f = [gdCfg EXCEPT !.mux = FALSE, !.iso = TRUE]
    OBVIOUS
  <2>3. f \in [en : BOOLEAN, mux : BOOLEAN, iso : BOOLEAN]
    BY <1>1, <2>2, Zenon
  <2>4. f.en = FALSE /\ f.mux = FALSE /\ f.iso = TRUE
    BY <2>1, <2>2
  <2>5. f = [en |-> f.en, mux |-> f.mux, iso |-> f.iso]
    BY <2>3
  <2>. QED  BY <2>2, <2>4, <2>5, Zenon DEF Isolated
<1>. QED
  BY <1>2, <1>3, <1>4, <1>5, <1>6, <1>7, Zenon

\* What an access leaves alone, and what it may change.
LEMMA GdAccessSteps ==
    ASSUME GdInv, GadcAccess
    PROVE  /\ gdTodo # <<>> /\ Head(gdTodo) # "poll" /\ gdTodo' = Tail(gdTodo)
           /\ gdCfg' = CfgAfter(Head(gdTodo))
           /\ gdDone' = (gdDone /\ Head(gdTodo) # "cfg +en")
           /\ gdInput' = (IF Head(gdTodo) = "amux" THEN gdAsked ELSE gdInput)
           /\ gdFirst' = (gdFirst /\ Head(gdTodo) # "first done")
           /\ \/ /\ Head(gdTodo) = "read" /\ Len(gdTodo) = 1 /\ gdResult' = "ok"
                 /\ gdFrom' = gdOf /\ gdFromOld' = gdOld
              \/ /\ ~ (Head(gdTodo) = "read" /\ Len(gdTodo) = 1)
                 /\ gdResult' = gdResult
           /\ gdLive' = gdLive /\ gdAsked' = gdAsked /\ gdOf' = gdOf
           /\ gdSettled' = gdSettled /\ gdOld' = gdOld
           /\ gdLive
           /\ GdTyped'
<1>t. GdTyped /\ GdSettles
  BY DEF GdInv
<1>1. /\ gdTodo # <<>> /\ Head(gdTodo) # "poll" /\ gdTodo' = Tail(gdTodo)
      /\ gdAfe' = gdAfe \cup ({Head(gdTodo)} \cap AfeParts)
      /\ gdCfg' = CfgAfter(Head(gdTodo))
      /\ gdDone' = (gdDone /\ Head(gdTodo) # "cfg +en")
      /\ gdInput' = (IF Head(gdTodo) = "amux" THEN gdAsked ELSE gdInput)
      /\ gdFirst' = (gdFirst /\ Head(gdTodo) # "first done")
      /\ gdLive' = gdLive /\ gdAsked' = gdAsked /\ gdRaw' = gdRaw /\ gdOf' = gdOf
      /\ gdSettled' = gdSettled /\ gdOld' = gdOld /\ gdFaulty' = gdFaulty /\ gdCount' = gdCount
  BY Zenon DEF GadcAccess
<1>2. \/ /\ Head(gdTodo) = "read" /\ Len(gdTodo) = 1 /\ gdResult' = "ok"
         /\ gdValue' = sign_extend18(gdRaw) /\ gdFrom' = gdOf /\ gdFromOld' = gdOld
      \/ /\ ~ (Head(gdTodo) = "read" /\ Len(gdTodo) = 1) /\ gdResult' = gdResult
         /\ gdValue' = gdValue /\ gdFrom' = gdFrom /\ gdFromOld' = gdFromOld
  BY Zenon DEF GadcAccess, gadcReturns
<1>3. gdLive
  BY <1>t, <1>1, Zenon DEF GdSettles
<1>4. sign_extend18(gdRaw) \in (-SignBit)..(SignBit - 1)
  BY <1>t, SignExtended, Zenon DEF GdTyped
<1>5. gdAfe' \subseteq AfeParts
  BY <1>t, <1>1, Zenon DEF GdTyped
<1>6. gdCfg' \in [en : BOOLEAN, mux : BOOLEAN, iso : BOOLEAN]
  BY <1>t, <1>1, GadcCfg, Zenon DEF GdTyped
<1>7. gdDone' \in BOOLEAN /\ gdFirst' \in BOOLEAN
  BY <1>1, Zenon
<1>8. gdInput' \in GadcInputs \cup {NoInput}
  BY <1>t, <1>1, Zenon DEF GdTyped
<1>9. /\ gdResult' \in {"none", "timeout", "ok"} /\ gdValue' \in (-SignBit)..(SignBit - 1)
      /\ gdFrom' \in GadcInputs \cup {NoInput} /\ gdFromOld' \in BOOLEAN
  BY <1>t, <1>2, <1>4, Zenon DEF GdTyped
<1>10. GdTyped'
  BY <1>t, <1>1, <1>5, <1>6, <1>7, <1>8, <1>9, Zenon DEF GdTyped
<1>. QED
  BY <1>1, <1>2, <1>3, <1>10, Zenon

\* The power-up.
LEMMA GdUpKeeps == GdInv /\ GadcAccess /\ GdPowersUp => GdInv'
<1>. SUFFICES ASSUME GdInv, GadcAccess, GdPowersUp PROVE GdInv'
  OBVIOUS
<1>t. GdSettles /\ GadcAsAsked /\ GadcIsolated
  BY DEF GdInv
<1>a. PICK h : h = Head(gdTodo)
  OBVIOUS
<1>1. /\ gdTodo # <<>> /\ gdTodo' = Tail(gdTodo)
      /\ gdDone' = (gdDone /\ h # "cfg +en")
      /\ gdFirst' = (gdFirst /\ h # "first done")
      /\ (h = "read" \/ gdResult' = gdResult)
      /\ gdSettled' = gdSettled /\ gdLive' = gdLive /\ gdLive /\ GdTyped'
  BY <1>a, GdAccessSteps, Zenon
<1>2. gdTodo \in Seq(GdUpOps) /\ gdResult = "none"
  BY Zenon DEF GdPowersUp
<1>3. h \in GdUpOps /\ Tail(gdTodo) \in Seq(GdUpOps)
  <2>0. gdTodo # <<>>
    BY <1>1, Zenon
  <2>1. Head(gdTodo) = gdTodo[1] /\ gdTodo[1] \in GdUpOps /\ Tail(gdTodo) \in Seq(GdUpOps)
    BY <1>2, <2>0, OneLess
  <2>. QED  BY <1>a, <2>1, Zenon
<1>4. h # "read" /\ h # "first done"
  BY <1>3, Zenon DEF GdUpOps
<1>5. GdPowersUp'
  BY <1>1, <1>2, <1>3, <1>4, Zenon DEF GdPowersUp
<1>6. GdSettles'
  BY <1>t, <1>1, <1>4, Zenon DEF GdSettles
<1>7. GadcAsAsked' /\ GadcIsolated'
  BY <1>t, <1>5, GdReturnsLeft DEF GdPowersUp
<1>. QED
  BY <1>1, <1>5, <1>6, <1>7, Zenon DEF GdInv, GdCalling

\* Giving up: the trigger is taken back, then the converter is isolated.
LEMMA GdGivesUpKeeps == GdInv /\ GadcAccess /\ GdGivesUp => GdInv'
<1>. SUFFICES ASSUME GdInv, GadcAccess, GdGivesUp PROVE GdInv'
  OBVIOUS
<1>t. GdTyped /\ GdSettles /\ GadcAsAsked /\ GadcIsolated
  BY DEF GdInv
<1>a. PICK h : h = Head(gdTodo)
  OBVIOUS
<1>1. /\ gdTodo # <<>> /\ gdTodo' = Tail(gdTodo)
      /\ gdCfg' = CfgAfter(h)
      /\ gdDone' = (gdDone /\ h # "cfg +en")
      /\ gdFirst' = (gdFirst /\ h # "first done")
      /\ (h = "read" \/ gdResult' = gdResult)
      /\ gdSettled' = gdSettled /\ gdLive' = gdLive /\ gdLive /\ GdTyped'
  BY <1>a, GdAccessSteps, Zenon
<1>2. /\ Head(<<"cfg -en", "cfg iso">>) = "cfg -en" /\ Head(<<"cfg iso">>) = "cfg iso"
      /\ Tail(<<"cfg -en", "cfg iso">>) = <<"cfg iso">> /\ Tail(<<"cfg iso">>) = <<>>
      /\ <<"cfg iso">> # <<>>
  BY TwoInOrder, Zenon
<1>3. gdResult = "timeout"
  BY Zenon DEF GdGivesUp
<1>4. \/ gdTodo = <<"cfg -en", "cfg iso">>
      \/ gdTodo = <<"cfg iso">> /\ ~ gdCfg.en
  BY Zenon DEF GdGivesUp
<1>5. \/ h = "cfg -en" /\ gdTodo' = <<"cfg iso">>
      \/ h = "cfg iso" /\ ~ gdCfg.en /\ gdTodo' = <<>>
  BY <1>a, <1>1, <1>2, <1>4, Zenon
<1>6. h # "read" /\ h # "first done" /\ gdResult' = "timeout"
  BY <1>1, <1>3, <1>5, Zenon
<1>7. GdSettles'
  BY <1>t, <1>1, <1>6, Zenon DEF GdSettles
<1>8. /\ h = "cfg -en" => ~ CfgAfter(h).en
      /\ h = "cfg iso" /\ ~ gdCfg.en => CfgAfter(h) = Isolated
  BY <1>t, GadcCfg, Zenon DEF GdTyped
<1>9. \/ gdTodo' = <<"cfg iso">> /\ ~ gdCfg'.en
      \/ gdTodo' = <<>> /\ gdCfg' = Isolated
  BY <1>1, <1>5, <1>8, Zenon
<1>10. GdCalling'
  BY <1>6, <1>9, Zenon DEF GdCalling, GdGivesUp
<1>11. GadcAsAsked' /\ GadcIsolated'
  BY <1>2, <1>6, <1>9, Zenon DEF GadcAsAsked, GadcIsolated
<1>. QED
  BY <1>1, <1>7, <1>10, <1>11, Zenon DEF GdInv

\* A step of a read.
LEMMA GdReadKeeps == GdInv /\ GadcAccess /\ GdReads => GdInv'
<1>. SUFFICES ASSUME GdInv, GadcAccess, GdReads PROVE GdInv'
  OBVIOUS
<1>t. GdTyped /\ GdSettles /\ GadcAsAsked /\ GadcIsolated
  BY DEF GdInv
<1>a. PICK h, n : h = Head(gdTodo) /\ n = Len(gdTodo)
  OBVIOUS
<1>b. PICK m \in {8, 16} : IsRest(gdTodo, GdPlan(m)) /\ GdAt(m, Len(gdTodo))
  BY DEF GdReads
<1>c. m = 8 \/ m = 16
  OBVIOUS
<1>1. /\ gdTodo # <<>> /\ h # "poll" /\ gdTodo' = Tail(gdTodo)
      /\ gdCfg' = CfgAfter(h)
      /\ gdDone' = (gdDone /\ h # "cfg +en")
      /\ gdInput' = (IF h = "amux" THEN gdAsked ELSE gdInput)
      /\ gdFirst' = (gdFirst /\ h # "first done")
      /\ \/ h = "read" /\ n = 1 /\ gdResult' = "ok" /\ gdFrom' = gdOf /\ gdFromOld' = gdOld
         \/ ~ (h = "read" /\ n = 1) /\ gdResult' = gdResult
      /\ gdLive' = gdLive /\ gdAsked' = gdAsked /\ gdOf' = gdOf
      /\ gdSettled' = gdSettled /\ gdOld' = gdOld /\ gdLive /\ GdTyped'
  BY <1>a, GdAccessSteps, Zenon
<1>2. /\ n \in Nat /\ n >= 1 /\ n <= m
      /\ Tail(gdTodo) \in Seq(GdReadOps) /\ Len(Tail(gdTodo)) = n - 1
      /\ IsRest(Tail(gdTodo), GdPlan(m))
      /\ n = m => h = "amux"
      /\ n = 15 => h = "cfg +mux"
      /\ n = 14 => h = "cfg -iso"
      /\ n = 13 => h = "cfg +en"
      /\ n = 12 => h = "poll"
      /\ n = 5 => h = "cfg +en"
      /\ n = 4 => h = "poll"
      /\ n = 3 => h = "cfg -en"
      /\ n = 2 => h = "cfg iso"
      /\ n = 1 => h = "read"
  <2>1. gdTodo \in Seq(GdReadOps)
    BY DEF GdReads
  <2>. QED  BY <1>1, <1>a, <1>b, <2>1, GadcOp, Zenon
<1>3. n \in Nat /\ n >= 1 /\ n <= m /\ n # 12 /\ n # 4 /\ GdAt(m, n)
  BY <1>1, <1>2, <1>a, <1>b, Zenon
<1>4. n = 5 => ~ gdDone'
  BY <1>1, <1>2, Zenon
<1>5. n = 2 \/ n = 3 => gdDone' = gdDone
  <2>1. CASE n = 2
    <3>1. h = "cfg iso"
      BY <1>2, <2>1, Zenon
    <3>2. h # "cfg +en"
      BY <3>1, Zenon
    <3>3. gdDone \in BOOLEAN
      BY <1>t, Zenon DEF GdTyped
    <3>4. gdDone' = (gdDone /\ TRUE)
      BY <1>1, <3>2, Zenon
    <3>. QED  BY <3>3, <3>4
  <2>2. CASE n = 3
    <3>1. h = "cfg -en"
      BY <1>2, <2>2, Zenon
    <3>2. h # "cfg +en"
      BY <3>1, Zenon
    <3>3. gdDone \in BOOLEAN
      BY <1>t, Zenon DEF GdTyped
    <3>4. gdDone' = (gdDone /\ TRUE)
      BY <1>1, <3>2, Zenon
    <3>. QED  BY <3>3, <3>4
  <2>. QED  BY <2>1, <2>2, Zenon
<1>6. gdDone' => gdDone
  BY <1>1, Zenon
<1>7. /\ n = 3 => ~ gdCfg'.en
      /\ n = 2 /\ ~ gdCfg.en => gdCfg' = Isolated
      /\ n = 1 => gdCfg' = gdCfg
  <2>1. gdCfg \in [en : BOOLEAN, mux : BOOLEAN, iso : BOOLEAN]
    BY <1>t, Zenon DEF GdTyped
  <2>. QED  BY <1>1, <1>2, <2>1, GadcCfg, Zenon
<1>8. n = m => gdInput' = gdAsked
  BY <1>1, <1>2, Zenon
<1>9. gdInput' = gdAsked \/ gdInput' = gdInput
  BY <1>1, Zenon
<1>10. n # 1 => gdResult' = gdResult
  BY <1>1, Zenon
<1>11. GdSettles'
  <2>1. h = "first done" => n # m /\ n # 15 /\ n # 14 /\ n # 13
    BY <1>2, Zenon
  <2>2. n # m /\ n # 15 /\ n # 14 /\ n # 13 => n <= 11 \/ m = 8
    BY <1>3, <1>c
  <2>3. h = "first done" => gdSettled
    BY <1>3, <2>1, <2>2, Zenon DEF GdAt
  <2>4. gdDone' => gdSettled'
    BY <1>t, <1>1, <1>6, Zenon DEF GdSettles
  <2>5. ~ gdFirst' => gdSettled'
    BY <1>t, <1>1, <2>3, Zenon DEF GdSettles
  <2>6. gdLive'
    BY <1>1, Zenon
  <2>. QED  BY <2>4, <2>5, <2>6, Zenon DEF GdSettles
<1>12. CASE n = 1
  <2>1. gdTodo' = <<>>
    <3>1. 1 - 1 = 0
      OBVIOUS
    <3>2. gdTodo' \in Seq(GdReadOps) /\ Len(gdTodo') = 0
      BY <1>1, <1>2, <1>12, <3>1, Zenon
    <3>. QED  BY <3>2, EmptySeq
  <2>2. gdResult' = "ok" /\ gdFrom' = gdOf /\ gdFromOld' = gdOld
    BY <1>1, <1>2, <1>12, Zenon
  <2>3. gdDone /\ gdCfg = Isolated /\ gdOf = gdAsked /\ ~ gdOld
    <3>1. n >= 1 /\ n <= 4 /\ n <= 3
      BY <1>12
    <3>. QED  BY <1>3, <1>12, <3>1, Zenon DEF GdAt
  <2>4. GadcAsAsked' /\ GadcIsolated'
    BY <1>1, <1>7, <1>12, <2>2, <2>3, Zenon DEF GadcAsAsked, GadcIsolated
  <2>. QED  BY <1>1, <1>11, <2>1, <2>4, Zenon DEF GdInv, GdCalling
<1>13. CASE n # 1
  <2>0. n \in Nat /\ n >= 2 /\ n <= m /\ n # 12 /\ n # 4 /\ n - 1 \in Nat /\ n - 1 >= 1
    BY <1>3, <1>13
  <2>1. gdResult' = "none"
    BY <1>3, <1>10, <1>13, Zenon DEF GdAt
  <2>2. gdInput' = gdAsked'
    <3>1. n = m \/ n < m
      BY <2>0, <1>c
    <3>. QED  BY <1>1, <1>3, <1>8, <1>9, <3>1, Zenon DEF GdAt
  <2>3. n - 1 <= 11 \/ m = 8 => gdSettled'
    <3>1. n - 1 <= 11 \/ m = 8 => n <= 11 \/ m = 8
      BY <2>0
    <3>. QED  BY <1>1, <1>3, <3>1, Zenon DEF GdAt
  <2>4. n - 1 <= 4 /\ gdDone' => gdOf' = gdAsked' /\ ~ gdOld'
    <3>1. n - 1 <= 4 => n = 5 \/ n <= 4
      BY <2>0
    <3>. QED  BY <1>1, <1>3, <1>4, <1>6, <3>1, Zenon DEF GdAt
  <2>5. n - 1 <= 3 => gdDone'
    <3>1. n - 1 <= 3 => (n = 2 \/ n = 3) /\ n <= 3
      BY <2>0
    <3>. QED  BY <1>3, <1>5, <3>1, Zenon DEF GdAt
  <2>6. n - 1 = 2 => ~ gdCfg'.en
    <3>1. n - 1 = 2 => n = 3
      BY <2>0
    <3>. QED  BY <1>7, <3>1, Zenon
  <2>7. n - 1 = 1 => gdCfg' = Isolated
    <3>1. n - 1 = 1 => n = 2
      BY <2>0
    <3>. QED  BY <1>3, <1>7, <3>1, Zenon DEF GdAt
  <2>8. GdAt(m, n - 1)'
    BY <2>1, <2>2, <2>3, <2>4, <2>5, <2>6, <2>7, Zenon DEF GdAt, Isolated
  <2>9. GdReads'
    <3>1. IsRest(gdTodo, GdPlan(m))'
      BY <1>1, <1>2, Zenon DEF IsRest, GdPlan, ReadOps, ConvertOnce
    <3>2. GdAt(m, Len(gdTodo))' /\ gdTodo' \in Seq(GdReadOps)
      BY <1>1, <1>2, <2>8, Zenon
    <3>. QED  BY <3>1, <3>2, Zenon DEF GdReads
  <2>10. GadcAsAsked' /\ GadcIsolated'
    BY <1>t, <2>1, GdReturnsLeft
  <2>. QED  BY <1>1, <1>11, <2>9, <2>10, Zenon DEF GdInv, GdCalling
<1>. QED
  BY <1>12, <1>13, Zenon

LEMMA GdStepKeeps == GdInv /\ [GadcNext]_gadcVars => GdInv'
<1>. SUFFICES ASSUME GdInv, [GadcNext]_gadcVars PROVE GdInv'
  OBVIOUS
<1>1. CASE GadcNew \/ \E input \in GadcInputs : GadcRead(input)
  BY <1>1, GdCallKeeps
<1>2. CASE GadcAccess
  <2>1. ~ (gdTodo = <<>>)
    BY <1>2, Zenon DEF GadcAccess
  <2>2. GdPowersUp \/ GdReads \/ GdGivesUp
    BY <2>1, Zenon DEF GdInv, GdCalling
  <2>. QED  BY <1>2, <2>2, GdUpKeeps, GdReadKeeps, GdGivesUpKeeps, Zenon
<1>3. CASE GadcPoll
  BY <1>3, GdPollKeeps
<1>4. CASE GadcConvert \/ GadcSupply
  BY <1>4, GdOutsideKeeps
<1>5. CASE UNCHANGED gadcVars
  <2>1. /\ UNCHANGED <<gdTodo, gdLive, gdFirst, gdInput, gdAsked, gdAfe, gdCfg, gdDone, gdRaw,
                       gdOf, gdSettled, gdOld, gdResult, gdValue, gdFrom, gdFromOld, gdFaulty>>
        /\ gdCount' = gdCount
    BY <1>5 DEF gadcVars
  <2>2. GdTyped' /\ GdSettles'
    <3>0. GdTyped /\ GdSettles
      BY DEF GdInv
    <3>1. GdTyped'
      BY <2>1, <3>0 DEF GdTyped
    <3>2. GdSettles'
      BY <2>1, <3>0 DEF GdSettles
    <3>. QED  BY <3>1, <3>2
  <2>3. GadcAsAsked' /\ GadcIsolated'
    BY <2>1, Zenon DEF GdInv, GadcAsAsked, GadcIsolated
  <2>4. GdCalling'
    BY <2>1, Zenon DEF GdInv, GdCalling, GdPowersUp, GdGivesUp, GdReads, GdAt, IsRest, GdPlan,
       ReadOps, ConvertOnce
  <2>. QED  BY <2>2, <2>3, <2>4 DEF GdInv
<1>. QED
  BY <1>1, <1>2, <1>3, <1>4, <1>5 DEF GadcNext

LEMMA GdTypes == GdInv => GadcTypeOK
BY Zenon DEF GdInv, GdTyped, GadcTypeOK

\* The input is selected before the trigger, the sample discarded is the first one since the
\* supplies came up, whatever became of the calls before, and the converter is isolated behind
\* every result, the timeout too.
THEOREM ConversionsAsAsked == GadcSpec => [](GadcAsAsked /\ GadcIsolated /\ GadcTypeOK)
<1>1. GdInv => GadcAsAsked /\ GadcIsolated /\ GadcTypeOK
  BY GdTypes DEF GdInv
<1>. QED
  BY <1>1, GdStarts, GdStepKeeps, PTL DEF GadcSpec

-----------------------------------------------------------------------------
(* The blocking timers.                                                     *)

\* The count that the time asked for is.
TmTarget == ticks_for_us_saturating(tmAsked)

\* Types, of what the steps tell apart; and nothing that an alarm has pending is old.
TmTyped ==
    /\ tmUser \in {"oneshot", "periodic", "alarm"}
    /\ tmCtl \in [en : BOOLEAN, req : BOOLEAN]
    /\ tmLoad \in 0..TmMax /\ tmCount \in 0..TmMax
    /\ tmRaw \in BOOLEAN /\ tmOwed \in BOOLEAN
    /\ tmSnap \in [value : 0..TmMax, locked : BOOLEAN]
    /\ tmAsked \in TmInputs \cup {0}
    /\ tmSince \in 0..(2 * TmMax)
    /\ tmSeen \in [value : -1..TmMax, from : -1..TmMax, gaveUp : BOOLEAN]
    /\ tmUser = "alarm" => tmOwed = FALSE

\* What is pending came in time, unless it is old, and what will come does.
TmOnTime ==
    /\ tmRaw /\ ~ tmOwed => tmSince >= TmTarget
    /\ tmCtl.en => tmSince + tmCount >= TmTarget

\* Nothing is pending or can come before an alarm is enabled.
TmQuiet == tmUser = "alarm" => ~ tmRaw /\ ~ tmCtl.en

\* The latest current returned nothing, or a value between the counts then and now, or gave up.
TmUnread == tmSeen.value = -1
TmFresh(value) == tmUser # "periodic" => value >= tmCount /\ value <= tmSeen.from
TmLocked == tmSnap.locked => TmFresh(tmSnap.value)
TmReading == tmCtl.en /\ TmOnTime /\ TmUnread /\ TmFresh(tmCount)

\* Where a call is, and what holds there.
TmAt ==
    \/ tmTodo = <<>> /\ TmOnTime /\ (TmUnread \/ tmSeen.gaveUp \/ TmFresh(tmSeen.value))
    \/ /\ \/ tmTodo = <<A("load", TmTarget), A("ctl", 0), A("enable", 0)>>
          \/ tmTodo = <<A("load", TmTarget), A("ctl", 0), A("enable", 0), A("poll", 0), A("eoi", 0)>>
       /\ TmQuiet /\ TmUnread
    \/ /\ \/ tmTodo = <<A("ctl", 0), A("enable", 0)>>
          \/ tmTodo = <<A("ctl", 0), A("enable", 0), A("poll", 0), A("eoi", 0)>>
       /\ TmQuiet /\ TmUnread /\ tmLoad = TmTarget
    \/ /\ \/ tmTodo = <<A("enable", 0)>>
          \/ tmTodo = <<A("enable", 0), A("poll", 0), A("eoi", 0)>>
       /\ TmQuiet /\ TmUnread /\ tmLoad = TmTarget
    \/ /\ tmTodo = <<A("poll", 0), A("eoi", 0)>>
       /\ TmOnTime /\ TmUnread
    \/ tmTodo = <<A("eoi", 0)>> /\ TmOnTime /\ TmUnread
    \/ /\ \/ tmTodo = <<A("disable", 0)>>
          \/ tmTodo = <<A("disable", 0), A("eoi", 0)>>
       /\ TmOnTime /\ TmUnread
    \/ tmTodo = <<A("ctl", 0), A("eoi", 0), A("load", TmTarget), A("enable", 0)>> /\ TmUnread
    \/ /\ tmTodo = <<A("eoi", 0), A("load", TmTarget), A("enable", 0)>>
       /\ ~ tmCtl.en /\ TmUnread
    \/ tmTodo = <<A("load", TmTarget), A("enable", 0)>> /\ TmQuiet /\ TmUnread
    \/ tmTodo = <<A("request", 0), A("locked?", 0), A("read", 0)>> /\ TmReading
    \/ tmTodo = <<A("locked?", 0), A("read", 0)>> /\ TmReading /\ TmLocked
    \/ tmTodo = <<A("read", 0)>> /\ TmReading /\ TmLocked /\ (tmSnap.locked \/ tmSeen.gaveUp)

TmInv == TmTyped /\ TmAt

\* The count of a time.
LEMMA TmCounts ==
    ASSUME NEW us \in Nat
    PROVE  /\ TmCountOf(us) \in Nat
           /\ TmUnits * TmCountOf(us) <= TmTicks * us
           /\ TmTicks * us < TmUnits * TmCountOf(us) + TmUnits
<1>1. TmTicks * us \in Nat /\ TmUnits \in Nat \ {0}
  BY TmAssumption
<1>. QED
  BY <1>1, DivRoundsDown DEF TmCountOf

LEMMA TmTargets ==
    ASSUME NEW us \in TmInputs \cup {0}
    PROVE  ticks_for_us_saturating(us) \in 0..TmMax
<1>1. us \in Nat
  BY TmAssumption
<1>. QED
  BY <1>1, TmCounts, TmAssumption DEF ticks_for_us_saturating

\* A try that succeeds gives the same count as the conversion that never fails.
LEMMA TmFits ==
    ASSUME NEW us \in TmInputs, try_ticks_for_us(us)
    PROVE  TmCountOf(us) = ticks_for_us_saturating(us)
<1>1. us \in Nat
  BY TmAssumption
<1>. QED
  BY <1>1, TmCounts, TmAssumption DEF ticks_for_us_saturating, try_ticks_for_us

\* So many ticks are the time asked for, up to a tick and the largest count.
LEMMA TmLongEnough ==
    ASSUME NEW us \in TmInputs \cup {0}, NEW s \in Nat, s >= ticks_for_us_saturating(us)
    PROVE  s * TmUnits > TmTicks * us - TmUnits \/ s >= TmMax
<1>1. us \in Nat
  BY TmAssumption
<1>2. PICK q : q = TmCountOf(us)
  OBVIOUS
<1>3. q \in Nat /\ TmUnits * q <= TmTicks * us /\ TmTicks * us < TmUnits * q + TmUnits
  BY <1>1, <1>2, TmCounts
<1>4. s >= TmMax \/ s >= q
  BY <1>2, <1>3, TmAssumption DEF ticks_for_us_saturating
<1>5. CASE s >= q
  <2>1. s * TmUnits >= TmUnits * q
    <3>1. PICK d \in Nat : s = q + d
      <4>1. s - q \in Nat /\ s = q + (s - q)
        BY <1>3, <1>5
      <4>. QED  BY <4>1
    <3>2. s * TmUnits = TmUnits * q + d * TmUnits
      BY <1>3, <3>1, TmAssumption
    <3>3. d * TmUnits \in Nat /\ TmUnits * q \in Nat
      BY <1>3, TmAssumption
    <3>. QED  BY <3>2, <3>3
  <2>2. TmTicks * us \in Nat /\ TmUnits * q \in Nat /\ s * TmUnits \in Nat
    BY <1>1, <1>3, TmAssumption
  <2>. QED  BY <1>3, <2>1, <2>2, TmAssumption
<1>. QED
  BY <1>4, <1>5

\* A call, and the wait after it.
LEMMA ThreeAndTwo ==
    ASSUME NEW a, NEW b, NEW c, NEW d, NEW e
    PROVE  (<<a, b>> \o <<c>>) = <<a, b, c>> /\ <<a, b, c>> \o <<d, e>> = <<a, b, c, d, e>>
BY JoinTwoOne, JoinThreeTwo, Zenon

LEMMA TmStartOps ==
    ASSUME NEW n
    PROVE  /\ StartOps(n) = <<A("load", n), A("ctl", 0), A("enable", 0)>>
           /\ StartOps(n) \o WaitOps
                = <<A("load", n), A("ctl", 0), A("enable", 0), A("poll", 0), A("eoi", 0)>>
<1>1. StartOps(n) = <<A("load", n), A("ctl", 0), A("enable", 0)>>
  BY ThreeAndTwo, Zenon DEF StartOps, ConfigureOps
<1>. QED
  BY <1>1, ThreeAndTwo, Zenon DEF WaitOps

\* What an access does, by its register.
LEMMA TmAccessOf ==
    ASSUME TmAccess, TmTyped
    PROVE  /\ tmTodo # <<>> /\ tmTodo' = Tail(tmTodo)
           /\ UNCHANGED <<tmUser, tmAsked>>
           /\ tmTodo[1].reg = "enable" => tmOwed' = tmRaw
           /\ tmTodo[1].reg = "eoi" => tmOwed' = FALSE
           /\ tmTodo[1].reg \notin {"enable", "eoi"} => tmOwed' = tmOwed
           /\ tmTodo[1].reg = "load" =>
                  /\ tmLoad' = tmTodo[1].val
                  /\ UNCHANGED <<tmCtl, tmCount, tmSince, tmRaw, tmSnap, tmSeen>>
           /\ tmTodo[1].reg = "ctl" =>
                  /\ tmCtl' = [en |-> FALSE, req |-> FALSE]
                  /\ UNCHANGED <<tmLoad, tmCount, tmSince, tmRaw, tmSnap, tmSeen>>
           /\ tmTodo[1].reg = "disable" =>
                  /\ tmCtl' = [tmCtl EXCEPT !.en = FALSE]
                  /\ UNCHANGED <<tmLoad, tmCount, tmSince, tmRaw, tmSnap, tmSeen>>
           /\ tmTodo[1].reg = "enable" =>
                  /\ tmCtl' = [tmCtl EXCEPT !.en = TRUE] /\ tmCount' = tmLoad /\ tmSince' = 0
                  /\ UNCHANGED <<tmLoad, tmRaw, tmSnap, tmSeen>>
           /\ tmTodo[1].reg = "poll" =>
                  /\ tmRaw
                  /\ UNCHANGED <<tmLoad, tmCtl, tmCount, tmSince, tmRaw, tmSnap, tmSeen>>
           /\ tmTodo[1].reg = "eoi" =>
                  /\ tmRaw' = FALSE
                  /\ UNCHANGED <<tmLoad, tmCtl, tmCount, tmSince, tmSnap, tmSeen>>
           /\ tmTodo[1].reg = "request" =>
                  /\ tmCtl' = [tmCtl EXCEPT !.req = TRUE]
                  /\ tmSnap' = [tmSnap EXCEPT !.locked = FALSE]
                  /\ UNCHANGED <<tmLoad, tmCount, tmSince, tmRaw, tmSeen>>
           /\ tmTodo[1].reg = "locked?" =>
                  /\ tmSeen' = [tmSeen EXCEPT !.gaveUp = ~ tmSnap.locked]
                  /\ UNCHANGED <<tmLoad, tmCtl, tmCount, tmSince, tmRaw, tmSnap>>
           /\ tmTodo[1].reg = "read" =>
                  /\ tmSeen' = [tmSeen EXCEPT !.value = tmSnap.value]
                  /\ UNCHANGED <<tmLoad, tmCtl, tmCount, tmSince, tmRaw, tmSnap>>
<1>1. tmTodo # <<>> /\ tmTodo' = Tail(tmTodo) /\ UNCHANGED <<tmUser, tmAsked>>
  BY Zenon DEF TmAccess
<1>2. PICK r : r = tmTodo[1].reg
  OBVIOUS
<1>3. \A x : At(x) <=> (r = x)
  BY <1>1, <1>2, Zenon DEF At
<1>4. /\ tmLoad' = IF r = "load" THEN tmTodo[1].val ELSE tmLoad
      /\ tmCount' = IF r = "enable" THEN tmLoad ELSE tmCount
      /\ tmSince' = IF r = "enable" THEN 0 ELSE tmSince
      /\ tmSnap' = IF r = "request" THEN [tmSnap EXCEPT !.locked = FALSE] ELSE tmSnap
  BY <1>3 DEF TmAccess
<1>5. tmCtl' = CASE r = "ctl" -> [en |-> FALSE, req |-> FALSE]
                 [] r = "disable" -> [tmCtl EXCEPT !.en = FALSE]
                 [] r = "enable" -> [tmCtl EXCEPT !.en = TRUE]
                 [] r = "request" -> [tmCtl EXCEPT !.req = TRUE]
                 [] OTHER -> tmCtl
  BY <1>3 DEF TmAccess
<1>6. tmRaw' = (tmRaw /\ r # "eoi")
  BY <1>3, Zenon DEF TmAccess
<1>7. /\ r = "eoi" => tmRaw' = FALSE
      /\ r # "eoi" => tmRaw' = tmRaw
  <2>1. tmRaw \in BOOLEAN
    BY DEF TmTyped
  <2>2. r = "eoi" => tmRaw' = FALSE
    BY <1>6, Zenon
  <2>3. r # "eoi" => tmRaw' = tmRaw
    <3>1. r # "eoi" => tmRaw' = (tmRaw /\ TRUE)
      BY <1>6, Zenon
    <3>. QED  BY <2>1, <3>1
  <2>. QED  BY <2>2, <2>3
<1>8. ~ TmBlocked
  BY Zenon DEF TmAccess
<1>9. r = "poll" => tmRaw
  BY <1>3, <1>8, Zenon DEF TmBlocked
<1>10. /\ r = "ctl" => tmCtl' = [en |-> FALSE, req |-> FALSE]
       /\ r = "disable" => tmCtl' = [tmCtl EXCEPT !.en = FALSE]
       /\ r = "enable" => tmCtl' = [tmCtl EXCEPT !.en = TRUE]
       /\ r = "request" => tmCtl' = [tmCtl EXCEPT !.req = TRUE]
       /\ r \notin {"ctl", "disable", "enable", "request"} => tmCtl' = tmCtl
  BY <1>5
<1>11. /\ r = "enable" => tmOwed' = tmRaw
       /\ r = "eoi" => tmOwed' = FALSE
       /\ r \notin {"enable", "eoi"} => tmOwed' = tmOwed
  <2>1. tmOwed' = IF r = "enable" THEN tmRaw ELSE tmOwed /\ r # "eoi"
    BY <1>3, Zenon DEF TmAccess
  <2>2. tmOwed \in BOOLEAN
    BY DEF TmTyped
  <2>3. r = "enable" => tmOwed' = tmRaw
    BY <2>1
  <2>4. r = "eoi" => tmOwed' = FALSE
    BY <2>1
  <2>5. r \notin {"enable", "eoi"} => tmOwed' = tmOwed
    BY <2>1, <2>2
  <2>. QED  BY <2>3, <2>4, <2>5
<1>12. tmSeen' = CASE r = "locked?" -> [tmSeen EXCEPT !.gaveUp = ~ tmSnap.locked]
                   [] r = "read" -> [tmSeen EXCEPT !.value = tmSnap.value]
                   [] OTHER -> tmSeen
  BY <1>3 DEF TmAccess
<1>13. /\ r = "locked?" => tmSeen' = [tmSeen EXCEPT !.gaveUp = ~ tmSnap.locked]
       /\ r = "read" => tmSeen' = [tmSeen EXCEPT !.value = tmSnap.value]
       /\ r \notin {"locked?", "read"} => tmSeen' = tmSeen
  BY <1>12
<1>. QED
  BY <1>1, <1>2, <1>4, <1>7, <1>9, <1>10, <1>11, <1>13

\* The first of a few accesses, and the others.
LEMMA FirstOfFew ==
    ASSUME NEW a, NEW b, NEW c, NEW d, NEW e
    PROVE  /\ <<a>> # <<>> /\ <<a>>[1] = a /\ Tail(<<a>>) = <<>>
           /\ <<a, b>>[1] = a /\ Tail(<<a, b>>) = <<b>>
           /\ <<a, b, c>>[1] = a /\ Tail(<<a, b, c>>) = <<b, c>>
           /\ <<a, b, c, d>>[1] = a /\ Tail(<<a, b, c, d>>) = <<b, c, d>>
           /\ <<a, b, c, d, e>>[1] = a /\ Tail(<<a, b, c, d, e>>) = <<b, c, d, e>>
OBVIOUS

LEMMA TmStarts == TmInit => TmInv
<1>. SUFFICES ASSUME TmInit PROVE TmInv
  OBVIOUS
<1>1. TmMax \in Nat
  BY TmAssumption
<1>2. TmTyped
  <2>1. 0 \in 0..TmMax /\ -1 \in -1..TmMax
    BY <1>1
  <2>2. 0 \in 0..(2 * TmMax)
    BY <1>1
  <2>3. TmNone \in [value : -1..TmMax, from : -1..TmMax, gaveUp : BOOLEAN]
    BY <2>1 DEF TmNone
  <2>4. [value |-> 0, locked |-> FALSE] \in [value : 0..TmMax, locked : BOOLEAN]
    BY <2>1
  <2>. QED  BY <2>1, <2>2, <2>3, <2>4 DEF TmInit, TmTyped
<1>3. TmOnTime
  BY DEF TmInit, TmOnTime
<1>4. TmUnread
  BY DEF TmInit, TmUnread, TmNone
<1>. QED
  BY <1>2, <1>3, <1>4 DEF TmInv, TmAt, TmInit

\* A call begins where no other is under way.
LEMMA TmCallKeeps ==
    ASSUME TmInv, NEW ops, TmCall(ops), tmAsked' \in TmInputs \cup {0},
           \/ /\ \/ ops = StartOps(TmTarget')
                 \/ ops = StartOps(TmTarget') \o WaitOps
              /\ tmUser # "alarm"
           \/ ops = ArmOps(TmTarget')
           \/ /\ ops \in {WaitOps, <<A("disable", 0)>>, <<A("disable", 0), A("eoi", 0)>>,
                          <<A("eoi", 0)>>}
              /\ UNCHANGED tmAsked
    PROVE  TmInv'
<1>t. TmTyped /\ TmAt
  BY DEF TmInv
<1>1. /\ tmTodo = <<>> /\ tmTodo' = ops /\ tmSeen' = TmNone
      /\ UNCHANGED <<tmUser, tmCtl, tmLoad, tmCount, tmRaw, tmSnap, tmOwed, tmSince>>
  BY DEF TmCall
<1>2. TmTyped'
  <2>1. TmNone \in [value : -1..TmMax, from : -1..TmMax, gaveUp : BOOLEAN]
    BY TmAssumption DEF TmNone
  <2>. QED  BY <1>t, <1>1, <2>1 DEF TmTyped
<1>3. TmUnread'
  BY <1>1 DEF TmUnread, TmNone
<1>4. TmOnTime
  BY <1>t, <1>1, FirstOfFew DEF TmAt
<1>5. CASE /\ \/ ops = StartOps(TmTarget')
              \/ ops = StartOps(TmTarget') \o WaitOps
           /\ tmUser # "alarm"
  <2>1. TmQuiet'
    BY <1>1, <1>5 DEF TmQuiet
  <2>2. \/ tmTodo' = <<A("load", TmTarget'), A("ctl", 0), A("enable", 0)>>
        \/ tmTodo' = <<A("load", TmTarget'), A("ctl", 0), A("enable", 0), A("poll", 0), A("eoi", 0)>>
    BY <1>1, <1>5, TmStartOps, Zenon
  <2>3. TmAt'
    BY <1>3, <2>1, <2>2, Zenon DEF TmAt
  <2>. QED  BY <1>2, <2>3 DEF TmInv
<1>6. CASE ops = ArmOps(TmTarget')
  <2>1. tmTodo' = <<A("ctl", 0), A("eoi", 0), A("load", TmTarget'), A("enable", 0)>>
    BY <1>1, <1>6, Zenon DEF ArmOps
  <2>2. TmAt'
    BY <1>3, <2>1, Zenon DEF TmAt
  <2>. QED  BY <1>2, <2>2 DEF TmInv
<1>7. CASE /\ ops \in {WaitOps, <<A("disable", 0)>>, <<A("disable", 0), A("eoi", 0)>>,
                       <<A("eoi", 0)>>}
           /\ UNCHANGED tmAsked
  <2>1. TmOnTime'
    BY <1>1, <1>4, <1>7 DEF TmOnTime, TmTarget
  <2>2. TmAt'
    BY <1>1, <1>3, <1>7, <2>1, Zenon DEF TmAt, WaitOps
  <2>. QED  BY <1>2, <2>2 DEF TmInv
<1>. QED
  BY <1>5, <1>6, <1>7

LEMMA TmCallsKeep ==
    ASSUME TmInv,
           \/ \E us \in TmInputs : TmStart(us) \/ TmDelay(us) \/ arm_millis(us)
           \/ TmWait \/ TmStop \/ TmClear \/ TmAlarmReset \/ current_value
    PROVE  TmInv'
<1>t. TmTyped /\ TmAt
  BY DEF TmInv
<1>a. tmAsked \in TmInputs \cup {0}
  BY <1>t, Zenon DEF TmTyped
<1>1. ASSUME NEW us \in TmInputs, TmStart(us)
      PROVE  TmInv'
  <2>1. /\ try_ticks_for_us(us) /\ TmCall(StartOps(TmCountOf(us))) /\ tmAsked' = us
        /\ tmUser # "alarm"
    BY <1>1 DEF TmStart
  <2>2. TmCountOf(us) = TmTarget'
    BY <2>1, TmFits DEF TmTarget
  <2>. QED  BY <2>1, <2>2, TmCallKeeps
<1>2. ASSUME NEW us \in TmInputs, TmDelay(us)
      PROVE  TmInv'
  <2>1. /\ TmCall(StartOps(ticks_for_us_saturating(us)) \o WaitOps) /\ tmAsked' = us
        /\ tmUser # "alarm"
    BY <1>2 DEF TmDelay
  <2>2. ticks_for_us_saturating(us) = TmTarget'
    BY <2>1 DEF TmTarget
  <2>. QED  BY <2>1, <2>2, TmCallKeeps
<1>3. ASSUME NEW us \in TmInputs, arm_millis(us)
      PROVE  TmInv'
  <2>1. /\ try_ticks_for_us(us) /\ TmCall(ArmOps(TmCountOf(us))) /\ tmAsked' = us
    BY <1>3 DEF arm_millis
  <2>2. TmCountOf(us) = TmTarget'
    BY <2>1, TmFits DEF TmTarget
  <2>. QED  BY <2>1, <2>2, TmCallKeeps
<1>4. CASE TmWait
  <2>1. TmCall(WaitOps) /\ UNCHANGED tmAsked
    BY <1>4 DEF TmWait
  <2>. QED  BY <1>a, <2>1, TmCallKeeps
<1>5. CASE TmStop
  <2>1. TmCall(<<A("disable", 0)>>) /\ UNCHANGED tmAsked
    BY <1>5 DEF TmStop
  <2>. QED  BY <1>a, <2>1, TmCallKeeps
<1>6. CASE TmClear
  <2>1. TmCall(<<A("eoi", 0)>>) /\ UNCHANGED tmAsked
    BY <1>6 DEF TmClear
  <2>. QED  BY <1>a, <2>1, TmCallKeeps
<1>7. CASE TmAlarmReset
  <2>1. TmCall(<<A("disable", 0), A("eoi", 0)>>) /\ UNCHANGED tmAsked
    BY <1>7 DEF TmAlarmReset
  <2>. QED  BY <1>a, <2>1, TmCallKeeps
<1>8. CASE current_value
  <2>1. /\ tmTodo = <<>>
        /\ tmTodo' = IF tmCtl.en THEN CurrentOps ELSE <<>>
        /\ tmSeen' = IF tmCtl.en THEN [value |-> -1, from |-> tmCount, gaveUp |-> FALSE] ELSE TmNone
        /\ UNCHANGED <<tmUser, tmCtl, tmLoad, tmCount, tmRaw, tmSnap, tmAsked, tmOwed, tmSince>>
    BY <1>8 DEF current_value
  <2>2. TmOnTime'
    <3>1. TmOnTime
      BY <1>t, <2>1, FirstOfFew DEF TmAt
    <3>. QED  BY <2>1, <3>1 DEF TmOnTime, TmTarget
  <2>3. TmUnread'
    BY <2>1 DEF TmUnread, TmNone
  <2>4. tmCount \in 0..TmMax /\ TmMax \in Nat
    BY <1>t, TmAssumption DEF TmTyped
  <2>5. TmTyped'
    <3>1. tmSeen' \in [value : -1..TmMax, from : -1..TmMax, gaveUp : BOOLEAN]
      BY <2>1, <2>4 DEF TmNone
    <3>. QED  BY <1>t, <2>1, <3>1 DEF TmTyped
  <2>6. CASE tmCtl.en
    <3>1. TmReading'
      BY <2>1, <2>2, <2>3, <2>4, <2>6 DEF TmReading, TmFresh
    <3>. QED  BY <2>1, <2>5, <2>6, <3>1, Zenon DEF TmInv, TmAt, CurrentOps
  <2>7. CASE ~ tmCtl.en
    BY <2>1, <2>2, <2>3, <2>5, <2>7, Zenon DEF TmInv, TmAt
  <2>. QED  BY <2>6, <2>7
<1>. QED
  BY <1>1, <1>2, <1>3, <1>4, <1>5, <1>6, <1>7, <1>8

\* What changes nothing that a place in a call depends on stays there.
LEMMA TmStays ==
    ASSUME TmAt, UNCHANGED <<tmTodo, tmLoad, tmAsked>>,
           TmOnTime => TmOnTime', TmQuiet => TmQuiet', TmUnread => TmUnread',
           TmFresh(tmSeen.value) => TmFresh(tmSeen.value)',
           ~ tmCtl.en => ~ tmCtl'.en,
           TmReading => TmReading', TmReading /\ TmLocked => TmLocked',
           tmSnap.locked => tmSnap'.locked, tmSeen.gaveUp => tmSeen'.gaveUp
    PROVE  TmAt'
<1>1. TmTarget' = TmTarget
  BY DEF TmTarget
<1>. QED
  BY <1>1 DEF TmAt

\* A tick more waited, and one less to wait for.
LEMMA OneTick ==
    ASSUME NEW s \in Nat, NEW u \in Nat, NEW c \in Nat, NEW d \in Nat, NEW t \in Nat,
           s + c >= t, u >= s, u = s + 1 \/ u >= t, d = c - 1 \/ c <= 1 \/ d = c
    PROVE  u + d >= t
OBVIOUS

LEMMA TmChannelKeeps == TmInv /\ (TmTick \/ TmLatch) => TmInv'
<1>. SUFFICES ASSUME TmInv, TmTick \/ TmLatch PROVE TmInv'
  OBVIOUS
<1>t. TmTyped /\ TmAt
  BY DEF TmInv
<1>0. TmMax \in Nat /\ TmTarget \in 0..TmMax
  BY <1>t, TmAssumption, TmTargets DEF TmTyped, TmTarget
<1>1. CASE TmTick
  <2>1. /\ tmCtl.en
        /\ tmSince' = IF tmSince < 2 * TmMax THEN tmSince + 1 ELSE tmSince
        /\ UNCHANGED <<tmUser, tmTodo, tmLoad, tmSnap, tmAsked, tmOwed, tmSeen, tmCtl>>
    BY <1>1 DEF TmTick
  <2>2. \/ tmCount > 1 /\ tmCount' = tmCount - 1 /\ tmRaw' = tmRaw
        \/ /\ tmCount = 1 \/ (tmCount = 0 /\ tmSince = 0)
           /\ tmRaw' = TRUE
           /\ tmCount' = IF tmUser = "periodic" THEN tmLoad ELSE 0
        \/ ~ (tmCount > 1) /\ tmCount # 1 /\ tmCount' = tmCount /\ tmRaw' = tmRaw
    BY <1>1 DEF TmTick, TmZeroLeft
  <2>3. tmCount \in 0..TmMax /\ tmLoad \in 0..TmMax /\ tmSince \in 0..(2 * TmMax)
    BY <1>t DEF TmTyped
  <2>4. tmCount' \in 0..TmMax /\ tmSince' \in 0..(2 * TmMax) /\ tmRaw' \in BOOLEAN
    <3>1. tmRaw \in BOOLEAN
      BY <1>t DEF TmTyped
    <3>2. tmRaw' \in BOOLEAN
      BY <2>2, <3>1
    <3>3. tmSince' \in 0..(2 * TmMax)
      BY <1>0, <2>1, <2>3
    <3>4. tmCount' \in 0..TmMax
      <4>1. \/ tmCount' = tmCount - 1 /\ tmCount > 1
            \/ tmCount' = tmLoad \/ tmCount' = 0 \/ tmCount' = tmCount
        BY <2>2
      <4>. QED  BY <1>0, <2>3, <4>1
    <3>. QED  BY <3>2, <3>3, <3>4
  <2>5. TmTyped'
    BY <1>t, <2>1, <2>4 DEF TmTyped
  <2>6. TmOnTime => TmOnTime'
    <3>1. TmTarget' = TmTarget
      BY <2>1 DEF TmTarget
    <3>2. tmSince' >= tmSince /\ (tmSince' = tmSince + 1 \/ tmSince' >= TmTarget)
      BY <1>0, <2>1, <2>3
    <3>3. TmTarget \in Nat /\ tmSince \in Nat /\ tmSince' \in Nat /\ tmCount \in Nat /\ tmCount' \in Nat
      BY <1>0, <2>3, <2>4
    <3>. SUFFICES ASSUME TmOnTime
                  PROVE  /\ tmRaw' /\ ~ tmOwed => tmSince' >= TmTarget
                         /\ tmSince' + tmCount' >= TmTarget
      BY <2>1, <3>1 DEF TmOnTime
    <3>4. tmSince + tmCount >= TmTarget /\ (tmRaw /\ ~ tmOwed => tmSince >= TmTarget)
      BY <2>1 DEF TmOnTime
    <3>5. tmSince' + tmCount' >= TmTarget
      <4>1. tmCount' = tmCount - 1 \/ tmCount <= 1 \/ tmCount' = tmCount
        BY <2>2
      <4>. QED  BY <3>2, <3>3, <3>4, <4>1, OneTick
    <3>6. tmRaw' /\ ~ tmOwed => tmSince' >= TmTarget
      <4>1. tmCount = 1 \/ (tmCount = 0 /\ tmSince = 0) => tmSince' >= TmTarget
        BY <3>2, <3>3, <3>4
      <4>2. tmRaw /\ ~ tmOwed => tmSince' >= TmTarget
        BY <1>0, <3>2, <3>3, <3>4
      <4>. QED  BY <2>2, <4>1, <4>2
    <3>. QED  BY <3>5, <3>6
  <2>7. \A v \in -1..TmMax : TmFresh(v) => (tmUser # "periodic" => v >= tmCount' /\ v <= tmSeen'.from)
    BY <1>0, <2>1, <2>2, <2>3 DEF TmFresh
  <2>8. /\ tmSeen.value \in -1..TmMax /\ tmSnap.value \in -1..TmMax
    BY <1>t, <1>0 DEF TmTyped
  <2>9. /\ TmFresh(tmSeen.value) => TmFresh(tmSeen.value)'
        /\ TmFresh(tmSnap.value) => TmFresh(tmSnap.value)'
    BY <2>1, <2>7, <2>8 DEF TmFresh
  <2>10. TmFresh(tmCount) => TmFresh(tmCount)'
    <3>1. tmUser # "periodic" /\ TmFresh(tmCount) => tmCount' >= tmCount' /\ tmCount' <= tmSeen.from
      <4>1. tmSeen.from \in -1..TmMax
        BY <1>t DEF TmTyped
      <4>2. tmUser # "periodic" => tmCount' <= tmCount
        BY <1>0, <2>2, <2>3
      <4>3. tmUser # "periodic" /\ TmFresh(tmCount) => tmCount <= tmSeen.from
        BY DEF TmFresh
      <4>. QED  BY <1>0, <2>3, <2>4, <4>1, <4>2, <4>3
    <3>. QED  BY <2>1, <3>1 DEF TmFresh
  <2>11. TmQuiet => TmQuiet'
    BY <2>1 DEF TmQuiet
  <2>12. TmReading => TmReading'
    BY <2>1, <2>6, <2>10 DEF TmReading, TmUnread
  <2>13. TmLocked => TmLocked'
    BY <2>1, <2>9 DEF TmLocked
  <2>14. TmUnread => TmUnread'
    BY <2>1 DEF TmUnread
  <2>15. TmAt'
    BY <1>t, <2>1, <2>6, <2>9, <2>11, <2>12, <2>13, <2>14, TmStays
  <2>. QED  BY <2>5, <2>15 DEF TmInv
<1>2. CASE TmLatch
  <2>1. /\ tmCtl' = [tmCtl EXCEPT !.req = FALSE]
        /\ tmSnap' = [value |-> tmCount, locked |-> TRUE]
        /\ UNCHANGED <<tmUser, tmTodo, tmLoad, tmCount, tmRaw, tmAsked, tmOwed, tmSince, tmSeen>>
    BY <1>2 DEF TmLatch
  <2>2. tmCtl'.en = tmCtl.en
    BY <1>t, <2>1 DEF TmTyped
  <2>3. TmTyped'
    BY <1>t, <2>1 DEF TmTyped
  <2>4. /\ TmOnTime => TmOnTime'
        /\ TmQuiet => TmQuiet'
        /\ TmUnread => TmUnread'
        /\ TmFresh(tmSeen.value) => TmFresh(tmSeen.value)'
    BY <2>1, <2>2 DEF TmOnTime, TmQuiet, TmUnread, TmFresh, TmTarget
  <2>5. TmReading => TmReading'
    BY <2>1, <2>2, <2>4 DEF TmReading, TmFresh
  <2>6. TmReading => TmLocked'
    BY <2>1 DEF TmReading, TmLocked, TmFresh
  <2>7. TmAt'
    BY <1>t, <2>1, <2>2, <2>4, <2>5, <2>6, TmStays
  <2>. QED  BY <2>3, <2>7 DEF TmInv
<1>. QED
  BY <1>1, <1>2

LEMMA TmAccessTyped ==
    ASSUME TmTyped, TmAccess,
           tmTodo[1].reg \in {"load", "ctl", "enable", "disable", "poll", "eoi", "request",
                              "locked?", "read"},
           tmTodo[1].reg = "load" => tmTodo[1].val = TmTarget,
           tmTodo[1].reg = "enable" => TmQuiet
    PROVE  TmTyped'
<1>1. TmTarget \in 0..TmMax
  BY TmTargets DEF TmTyped, TmTarget
<1>2. tmTodo[1].reg = "load" => TmTyped'
  BY <1>1, TmAccessOf DEF TmTyped
<1>3. tmTodo[1].reg \in {"ctl", "disable"} => TmTyped'
  <2>1. ASSUME tmTodo[1].reg = "ctl"
        PROVE  TmTyped'
    <3>1. tmCtl' = [en |-> FALSE, req |-> FALSE]
      BY <2>1, TmAccessOf, Zenon
    <3>2. UNCHANGED <<tmUser, tmAsked, tmLoad, tmCount, tmSince, tmRaw, tmSnap, tmSeen>>
      BY <2>1, TmAccessOf, Zenon
    <3>3. tmTodo[1].reg \notin {"enable", "eoi"}
      BY <2>1
    <3>4. tmOwed' = tmOwed
      BY <3>3, TmAccessOf, Zenon
    <3>5. tmCtl' \in [en : BOOLEAN, req : BOOLEAN]
      BY <3>1
    <3>. QED  BY <3>2, <3>4, <3>5, Zenon DEF TmTyped
  <2>2. tmTodo[1].reg = "disable" => TmTyped'
    BY TmAccessOf DEF TmTyped
  <2>. QED  BY <2>1, <2>2
<1>4. tmTodo[1].reg = "enable" => TmTyped'
  <2>1. 0 \in 0..(2 * TmMax)
    BY TmAssumption
  <2>. QED  BY <2>1, TmAccessOf DEF TmTyped, TmQuiet
<1>5. tmTodo[1].reg \in {"poll", "eoi"} => TmTyped'
  BY TmAccessOf DEF TmTyped
<1>8. tmTodo[1].reg = "locked?" => TmTyped'
  BY TmAccessOf DEF TmTyped
<1>6. tmTodo[1].reg = "request" => TmTyped'
  BY TmAccessOf DEF TmTyped
<1>7. tmTodo[1].reg = "read" => TmTyped'
  <2>1. tmSnap \in [value : 0..TmMax, locked : BOOLEAN] /\ tmSeen \in [value : -1..TmMax, from : -1..TmMax, gaveUp : BOOLEAN]
    BY DEF TmTyped
  <2>2. \A v \in 0..TmMax : v \in -1..TmMax
    BY TmAssumption
  <2>3. [tmSeen EXCEPT !.value = tmSnap.value] \in [value : -1..TmMax, from : -1..TmMax, gaveUp : BOOLEAN]
    BY <2>1, <2>2
  <2>. QED  BY <2>3, TmAccessOf DEF TmTyped
<1>. QED
  BY <1>2, <1>3, <1>4, <1>5, <1>6, <1>7, <1>8

\* What is left of each call after its next access.
LEMMA TmTails ==
    ASSUME NEW n
    PROVE  /\ Tail(<<A("load", n), A("ctl", 0), A("enable", 0)>>) = <<A("ctl", 0), A("enable", 0)>>
           /\ Tail(<<A("load", n), A("ctl", 0), A("enable", 0), A("poll", 0), A("eoi", 0)>>)
                = <<A("ctl", 0), A("enable", 0), A("poll", 0), A("eoi", 0)>>
           /\ Tail(<<A("ctl", 0), A("enable", 0)>>) = <<A("enable", 0)>>
           /\ Tail(<<A("ctl", 0), A("enable", 0), A("poll", 0), A("eoi", 0)>>)
                = <<A("enable", 0), A("poll", 0), A("eoi", 0)>>
           /\ Tail(<<A("enable", 0)>>) = <<>>
           /\ Tail(<<A("enable", 0), A("poll", 0), A("eoi", 0)>>) = <<A("poll", 0), A("eoi", 0)>>
           /\ Tail(<<A("poll", 0), A("eoi", 0)>>) = <<A("eoi", 0)>>
           /\ Tail(<<A("eoi", 0)>>) = <<>>
           /\ Tail(<<A("disable", 0)>>) = <<>>
           /\ Tail(<<A("disable", 0), A("eoi", 0)>>) = <<A("eoi", 0)>>
           /\ Tail(<<A("ctl", 0), A("eoi", 0), A("load", n), A("enable", 0)>>)
                = <<A("eoi", 0), A("load", n), A("enable", 0)>>
           /\ Tail(<<A("eoi", 0), A("load", n), A("enable", 0)>>) = <<A("load", n), A("enable", 0)>>
           /\ Tail(<<A("load", n), A("enable", 0)>>) = <<A("enable", 0)>>
           /\ Tail(<<A("request", 0), A("locked?", 0), A("read", 0)>>)
                = <<A("locked?", 0), A("read", 0)>>
           /\ Tail(<<A("locked?", 0), A("read", 0)>>) = <<A("read", 0)>>
           /\ Tail(<<A("read", 0)>>) = <<>>
BY FirstOfFew

\* The registers of a start, of a wait, and of the calls that set nothing up.
LEMMA TmSettingUp ==
    ASSUME TmTyped, TmAccess,
           \/ /\ \/ tmTodo = <<A("load", TmTarget), A("ctl", 0), A("enable", 0)>>
                 \/ tmTodo = <<A("load", TmTarget), A("ctl", 0), A("enable", 0), A("poll", 0),
                               A("eoi", 0)>>
              /\ TmQuiet /\ TmUnread
           \/ /\ \/ tmTodo = <<A("ctl", 0), A("enable", 0)>>
                 \/ tmTodo = <<A("ctl", 0), A("enable", 0), A("poll", 0), A("eoi", 0)>>
              /\ TmQuiet /\ TmUnread /\ tmLoad = TmTarget
           \/ /\ \/ tmTodo = <<A("enable", 0)>>
                 \/ tmTodo = <<A("enable", 0), A("poll", 0), A("eoi", 0)>>
              /\ TmQuiet /\ TmUnread /\ tmLoad = TmTarget
           \/ tmTodo = <<A("ctl", 0), A("eoi", 0), A("load", TmTarget), A("enable", 0)>> /\ TmUnread
           \/ /\ tmTodo = <<A("eoi", 0), A("load", TmTarget), A("enable", 0)>>
              /\ ~ tmCtl.en /\ TmUnread
           \/ tmTodo = <<A("load", TmTarget), A("enable", 0)>> /\ TmQuiet /\ TmUnread
    PROVE  TmInv'
<1>0. /\ TmTarget' = TmTarget /\ TmTarget \in 0..TmMax /\ TmMax \in Nat
      /\ tmTodo' = Tail(tmTodo) /\ UNCHANGED tmUser
  <2>1. UNCHANGED <<tmUser, tmAsked>> /\ tmTodo' = Tail(tmTodo)
    BY TmAccessOf
  <2>. QED  BY <2>1, TmTargets, TmAssumption DEF TmTarget, TmTyped
<1>c. tmCtl \in [en : BOOLEAN, req : BOOLEAN]
  BY DEF TmTyped
<1>1. CASE tmTodo[1].reg = "load" /\ tmTodo[1].val = TmTarget
  <2>1. tmLoad' = TmTarget /\ UNCHANGED <<tmCtl, tmRaw, tmSeen>>
    BY <1>1, TmAccessOf
  <2>2. (TmQuiet => TmQuiet') /\ (TmUnread => TmUnread')
    BY <1>0, <2>1 DEF TmQuiet, TmUnread
  <2>3. TmTyped'
    BY <1>1, TmAccessTyped
  <2>4. TmAt'
    <3>1. \/ tmTodo = <<A("load", TmTarget), A("ctl", 0), A("enable", 0)>> /\ TmQuiet /\ TmUnread
          \/ /\ tmTodo = <<A("load", TmTarget), A("ctl", 0), A("enable", 0), A("poll", 0), A("eoi", 0)>>
             /\ TmQuiet /\ TmUnread
          \/ tmTodo = <<A("load", TmTarget), A("enable", 0)>> /\ TmQuiet /\ TmUnread
      BY <1>1, FirstOfFew DEF A
    <3>2. /\ TmQuiet /\ TmUnread
          /\ \/ tmTodo' = <<A("ctl", 0), A("enable", 0)>>
             \/ tmTodo' = <<A("ctl", 0), A("enable", 0), A("poll", 0), A("eoi", 0)>>
             \/ tmTodo' = <<A("enable", 0)>>
      BY <1>0, <3>1, TmTails, Zenon
    <3>. QED  BY <1>0, <2>1, <2>2, <3>2, Zenon DEF TmAt
  <2>. QED  BY <2>3, <2>4 DEF TmInv
<1>2. CASE tmTodo[1].reg = "ctl"
  <2>1. tmCtl' = [en |-> FALSE, req |-> FALSE] /\ UNCHANGED <<tmLoad, tmRaw, tmSeen>>
    BY <1>2, TmAccessOf
  <2>2. ~ tmCtl'.en
    BY <2>1
  <2>3. (TmQuiet => TmQuiet') /\ (TmUnread => TmUnread')
    BY <1>0, <2>1, <2>2 DEF TmQuiet, TmUnread
  <2>4. TmTyped'
    BY <1>2, TmAccessTyped
  <2>5. TmAt'
    <3>1. \/ /\ tmTodo = <<A("ctl", 0), A("enable", 0)>>
             /\ TmQuiet /\ TmUnread /\ tmLoad = TmTarget
          \/ /\ tmTodo = <<A("ctl", 0), A("enable", 0), A("poll", 0), A("eoi", 0)>>
             /\ TmQuiet /\ TmUnread /\ tmLoad = TmTarget
          \/ tmTodo = <<A("ctl", 0), A("eoi", 0), A("load", TmTarget), A("enable", 0)>> /\ TmUnread
      BY <1>2, FirstOfFew DEF A
    <3>2. /\ TmUnread
          /\ \/ tmTodo' = <<A("enable", 0)>> /\ TmQuiet /\ tmLoad = TmTarget
             \/ tmTodo' = <<A("enable", 0), A("poll", 0), A("eoi", 0)>> /\ TmQuiet /\ tmLoad = TmTarget
             \/ tmTodo' = <<A("eoi", 0), A("load", TmTarget), A("enable", 0)>>
      BY <1>0, <3>1, TmTails, Zenon
    <3>. QED  BY <1>0, <2>1, <2>2, <2>3, <3>2, Zenon DEF TmAt
  <2>. QED  BY <2>4, <2>5 DEF TmInv
<1>3. CASE tmTodo[1].reg = "enable"
  <2>1. /\ tmCtl' = [tmCtl EXCEPT !.en = TRUE] /\ tmCount' = tmLoad /\ tmSince' = 0
        /\ tmOwed' = tmRaw
        /\ UNCHANGED <<tmLoad, tmRaw, tmSeen>>
    BY <1>3, TmAccessOf
  <2>2. TmTyped'
    <3>1. TmQuiet
      BY <1>3, FirstOfFew DEF A
    <3>. QED  BY <1>3, <3>1, TmAccessTyped
  <2>3. TmUnread => TmUnread'
    BY <2>1 DEF TmUnread
  <2>4. tmLoad = TmTarget => TmOnTime'
    BY <1>0, <2>1 DEF TmOnTime
  <2>5. TmAt'
    <3>1. /\ TmQuiet /\ TmUnread /\ tmLoad = TmTarget
          /\ \/ tmTodo = <<A("enable", 0)>>
             \/ tmTodo = <<A("enable", 0), A("poll", 0), A("eoi", 0)>>
      BY <1>3, FirstOfFew DEF A
    <3>2. /\ TmQuiet /\ TmUnread /\ tmLoad = TmTarget
          /\ \/ tmTodo' = <<>>
             \/ tmTodo' = <<A("poll", 0), A("eoi", 0)>>
      BY <1>0, <3>1, TmTails, Zenon
    <3>. QED  BY <2>3, <2>4, <3>2, Zenon DEF TmAt
  <2>. QED  BY <2>2, <2>5 DEF TmInv
<1>4. CASE tmTodo[1].reg = "eoi"
  <2>1. tmRaw' = FALSE /\ UNCHANGED <<tmCtl, tmLoad, tmSeen>>
    BY <1>4, TmAccessOf
  <2>2. TmTyped'
    BY <1>4, TmAccessTyped
  <2>3. tmTodo = <<A("eoi", 0), A("load", TmTarget), A("enable", 0)>> /\ ~ tmCtl.en /\ TmUnread
    BY <1>4, FirstOfFew DEF A
  <2>4. tmTodo' = <<A("load", TmTarget), A("enable", 0)>>
    BY <1>0, <2>3, TmTails, Zenon
  <2>5. TmQuiet' /\ TmUnread'
    BY <2>1, <2>3 DEF TmQuiet, TmUnread
  <2>6. TmAt'
    BY <1>0, <2>4, <2>5, Zenon DEF TmAt
  <2>. QED  BY <2>2, <2>6 DEF TmInv
<1>. QED
  <2>1. \/ tmTodo[1].reg = "load" /\ tmTodo[1].val = TmTarget
        \/ tmTodo[1].reg = "ctl" \/ tmTodo[1].reg = "enable" \/ tmTodo[1].reg = "eoi"
    BY FirstOfFew DEF A
  <2>. QED  BY <1>1, <1>2, <1>3, <1>4, <2>1, Zenon

LEMMA TmWindingUp ==
    ASSUME TmTyped, TmAccess,
           \/ tmTodo = <<A("poll", 0), A("eoi", 0)>> /\ TmOnTime /\ TmUnread
           \/ tmTodo = <<A("eoi", 0)>> /\ TmOnTime /\ TmUnread
           \/ /\ \/ tmTodo = <<A("disable", 0)>>
                 \/ tmTodo = <<A("disable", 0), A("eoi", 0)>>
              /\ TmOnTime /\ TmUnread
    PROVE  TmInv'
<1>0. TmTarget' = TmTarget /\ tmTodo' = Tail(tmTodo)
  <2>1. UNCHANGED tmAsked /\ tmTodo' = Tail(tmTodo)
    BY TmAccessOf
  <2>. QED  BY <2>1 DEF TmTarget
<1>c. tmCtl \in [en : BOOLEAN, req : BOOLEAN]
  BY DEF TmTyped
<1>1. CASE tmTodo[1].reg = "poll"
  <2>1. UNCHANGED <<tmCtl, tmRaw, tmCount, tmSince, tmSeen, tmOwed>>
    BY <1>1, TmAccessOf
  <2>2. TmTyped'
    BY <1>1, TmAccessTyped
  <2>3. tmTodo = <<A("poll", 0), A("eoi", 0)>> /\ TmOnTime /\ TmUnread
    BY <1>1, FirstOfFew DEF A
  <2>4. tmTodo' = <<A("eoi", 0)>>
    BY <1>0, <2>3, TmTails, Zenon
  <2>5. TmOnTime' /\ TmUnread'
    BY <1>0, <2>1, <2>3 DEF TmOnTime, TmUnread
  <2>6. TmAt'
    BY <2>4, <2>5, Zenon DEF TmAt
  <2>. QED  BY <2>2, <2>6 DEF TmInv
<1>2. CASE tmTodo[1].reg = "eoi"
  <2>1. tmRaw' = FALSE /\ UNCHANGED <<tmCtl, tmCount, tmSince, tmSeen>>
    BY <1>2, TmAccessOf
  <2>2. TmTyped'
    BY <1>2, TmAccessTyped
  <2>3. tmTodo = <<A("eoi", 0)>> /\ TmOnTime /\ TmUnread
    BY <1>2, FirstOfFew DEF A
  <2>4. tmTodo' = <<>>
    BY <1>0, <2>3, TmTails, Zenon
  <2>5. TmOnTime' /\ TmUnread'
    BY <1>0, <2>1, <2>3 DEF TmOnTime, TmUnread
  <2>6. TmAt'
    BY <2>4, <2>5, Zenon DEF TmAt
  <2>. QED  BY <2>2, <2>6 DEF TmInv
<1>3. CASE tmTodo[1].reg = "disable"
  <2>1. /\ tmCtl' = [tmCtl EXCEPT !.en = FALSE]
        /\ UNCHANGED <<tmRaw, tmCount, tmSince, tmSeen, tmOwed>>
    BY <1>3, TmAccessOf
  <2>2. TmTyped'
    BY <1>3, TmAccessTyped
  <2>3. /\ \/ tmTodo = <<A("disable", 0)>>
           \/ tmTodo = <<A("disable", 0), A("eoi", 0)>>
        /\ TmOnTime /\ TmUnread
    BY <1>3, FirstOfFew DEF A
  <2>4. tmTodo' = <<>> \/ tmTodo' = <<A("eoi", 0)>>
    BY <1>0, <2>3, TmTails, Zenon
  <2>5. ~ tmCtl'.en
    BY <1>c, <2>1
  <2>6. TmOnTime' /\ TmUnread'
    BY <1>0, <2>1, <2>3, <2>5 DEF TmOnTime, TmUnread
  <2>7. TmAt'
    BY <2>4, <2>6, Zenon DEF TmAt
  <2>. QED  BY <2>2, <2>7 DEF TmInv
<1>. QED
  <2>1. tmTodo[1].reg = "poll" \/ tmTodo[1].reg = "eoi" \/ tmTodo[1].reg = "disable"
    BY FirstOfFew DEF A
  <2>. QED  BY <1>1, <1>2, <1>3, <2>1, Zenon

\* The current value: the request drops what was locked, and the read is of what the request
\* locked.
LEMMA TmReadingBack ==
    ASSUME TmTyped, TmAccess,
           \/ tmTodo = <<A("request", 0), A("locked?", 0), A("read", 0)>> /\ TmReading
           \/ tmTodo = <<A("locked?", 0), A("read", 0)>> /\ TmReading /\ TmLocked
           \/ tmTodo = <<A("read", 0)>> /\ TmReading /\ TmLocked /\ (tmSnap.locked \/ tmSeen.gaveUp)
    PROVE  TmInv'
<1>0. TmTarget' = TmTarget /\ tmTodo' = Tail(tmTodo) /\ tmUser' = tmUser /\ TmReading
  <2>1. UNCHANGED <<tmAsked, tmUser>> /\ tmTodo' = Tail(tmTodo)
    BY TmAccessOf
  <2>. QED  BY <2>1 DEF TmTarget
<1>c. /\ tmCtl \in [en : BOOLEAN, req : BOOLEAN] /\ tmSnap \in [value : 0..TmMax, locked : BOOLEAN]
      /\ tmSeen \in [value : -1..TmMax, from : -1..TmMax, gaveUp : BOOLEAN]
  BY DEF TmTyped
<1>1. CASE tmTodo[1].reg = "request"
  <2>1. /\ tmCtl' = [tmCtl EXCEPT !.req = TRUE] /\ tmSnap' = [tmSnap EXCEPT !.locked = FALSE]
        /\ UNCHANGED <<tmCount, tmSince, tmRaw, tmSeen, tmOwed>>
    BY <1>1, TmAccessOf
  <2>2. TmTyped'
    BY <1>1, TmAccessTyped
  <2>3. tmTodo' = <<A("locked?", 0), A("read", 0)>>
    <3>1. tmTodo = <<A("request", 0), A("locked?", 0), A("read", 0)>>
      BY <1>1, FirstOfFew DEF A
    <3>. QED  BY <1>0, <3>1, TmTails, Zenon
  <2>4. tmCtl'.en = tmCtl.en /\ ~ tmSnap'.locked
    BY <1>c, <2>1
  <2>5. TmReading' /\ TmLocked'
    BY <1>0, <2>1, <2>4 DEF TmReading, TmLocked, TmOnTime, TmUnread, TmFresh
  <2>6. TmAt'
    BY <2>3, <2>5, Zenon DEF TmAt
  <2>. QED  BY <2>2, <2>6 DEF TmInv
<1>2. CASE tmTodo[1].reg = "locked?"
  <2>1. /\ tmSeen' = [tmSeen EXCEPT !.gaveUp = ~ tmSnap.locked]
        /\ UNCHANGED <<tmCtl, tmCount, tmSince, tmRaw, tmSnap, tmOwed>>
    BY <1>2, TmAccessOf
  <2>2. TmTyped'
    BY <1>2, TmAccessTyped
  <2>3. tmTodo = <<A("locked?", 0), A("read", 0)>> /\ TmReading /\ TmLocked
    BY <1>2, FirstOfFew DEF A
  <2>4. tmTodo' = <<A("read", 0)>>
    BY <1>0, <2>3, TmTails, Zenon
  <2>5. /\ tmSeen'.value = tmSeen.value /\ tmSeen'.from = tmSeen.from
        /\ tmSeen'.gaveUp = ~ tmSnap.locked
    BY <1>c, <2>1
  <2>6. TmReading' /\ TmLocked' /\ (tmSnap'.locked \/ tmSeen'.gaveUp)
    BY <1>0, <2>1, <2>3, <2>5 DEF TmReading, TmLocked, TmOnTime, TmUnread, TmFresh
  <2>7. TmAt'
    BY <2>4, <2>6, Zenon DEF TmAt
  <2>. QED  BY <2>2, <2>7 DEF TmInv
<1>3. CASE tmTodo[1].reg = "read"
  <2>1. /\ tmSeen' = [tmSeen EXCEPT !.value = tmSnap.value]
        /\ UNCHANGED <<tmCtl, tmCount, tmSince, tmRaw, tmSnap, tmOwed>>
    BY <1>3, TmAccessOf
  <2>2. TmTyped'
    BY <1>3, TmAccessTyped
  <2>3. tmTodo = <<A("read", 0)>> /\ TmReading /\ TmLocked /\ (tmSnap.locked \/ tmSeen.gaveUp)
    BY <1>3, FirstOfFew DEF A
  <2>4. tmTodo' = <<>>
    BY <1>0, <2>3, TmTails, Zenon
  <2>5. /\ tmSeen'.value = tmSnap.value /\ tmSeen'.from = tmSeen.from
        /\ tmSeen'.gaveUp = tmSeen.gaveUp
    BY <1>c, <2>1
  <2>6. tmSeen'.gaveUp \/ TmFresh(tmSeen.value)'
    BY <1>0, <2>1, <2>3, <2>5 DEF TmLocked, TmFresh
  <2>7. TmOnTime'
    BY <1>0, <2>1 DEF TmReading, TmOnTime
  <2>8. TmAt'
    BY <2>4, <2>6, <2>7, Zenon DEF TmAt
  <2>. QED  BY <2>2, <2>8 DEF TmInv
<1>. QED
  <2>1. tmTodo[1].reg = "request" \/ tmTodo[1].reg = "locked?" \/ tmTodo[1].reg = "read"
    BY FirstOfFew DEF A
  <2>. QED  BY <1>1, <1>2, <1>3, <2>1, Zenon

LEMMA TmStepKeeps == TmInv /\ [TmNext]_tmVars => TmInv'
<1>. SUFFICES ASSUME TmInv, [TmNext]_tmVars PROVE TmInv'
  OBVIOUS
<1>t. TmTyped /\ TmAt
  BY DEF TmInv
<1>1. CASE \/ \E us \in TmInputs : TmStart(us) \/ TmDelay(us) \/ arm_millis(us)
           \/ TmWait \/ TmStop \/ TmClear \/ TmAlarmReset \/ current_value
  BY <1>1, TmCallsKeep
<1>2. CASE TmAccess
  <2>1. tmTodo # <<>>
    BY <1>2, TmAccessOf, <1>t
  <2>. QED  BY <1>2, <1>t, <2>1, TmSettingUp, TmWindingUp, TmReadingBack, Zenon DEF TmAt
<1>3. CASE TmTick \/ TmLatch
  BY <1>3, TmChannelKeeps
<1>4. CASE UNCHANGED tmVars
  <2>1. UNCHANGED <<tmUser, tmTodo, tmCtl, tmLoad, tmCount, tmRaw, tmSnap, tmAsked, tmOwed,
                    tmSince, tmSeen>>
    BY <1>4 DEF tmVars
  <2>2. TmTyped'
    BY <1>t, <2>1 DEF TmTyped
  <2>3. TmAt'
    BY <1>t, <2>1, TmStays DEF TmOnTime, TmQuiet, TmUnread, TmFresh, TmReading, TmLocked, TmTarget
  <2>. QED  BY <2>2, <2>3 DEF TmInv
<1>. QED
  BY <1>1, <1>2, <1>3, <1>4 DEF TmNext

\* Where nothing is left to do, or the expiry is polled for.
LEMMA TmInvSafe == TmInv => ExpiryNotEarly /\ CurrentIsFresh
<1>. SUFFICES ASSUME TmInv PROVE ExpiryNotEarly /\ CurrentIsFresh
  OBVIOUS
<1>t. TmTyped /\ TmAt
  BY DEF TmInv
<1>0. /\ tmAsked \in TmInputs \cup {0} /\ tmSince \in Nat
      /\ tmSeen.value \in -1..TmMax /\ tmSeen.from \in -1..TmMax
      /\ tmCount \in 0..TmMax /\ TmMax \in Nat
  BY <1>t, TmAssumption DEF TmTyped
<1>1. ExpiryNotEarly
  <2>. SUFFICES ASSUME tmTodo = <<>> \/ At("poll"), tmRaw, tmOwed => tmUser = "alarm"
                PROVE  tmSince * TmUnits > TmTicks * tmAsked - TmUnits \/ tmSince >= TmMax
    BY DEF ExpiryNotEarly
  <2>0. ~ tmOwed
    BY <1>t DEF TmTyped
  <2>1. TmOnTime
    <3>1. CASE tmTodo = <<>>
      BY <1>t, <3>1, FirstOfFew DEF TmAt
    <3>2. CASE At("poll")
      <4>1. tmTodo # <<>> /\ tmTodo[1].reg = "poll"
        BY <3>2 DEF At
      <4>. QED  BY <1>t, <4>1, FirstOfFew DEF TmAt, A
    <3>. QED  BY <3>1, <3>2
  <2>2. tmSince >= ticks_for_us_saturating(tmAsked)
    BY <2>0, <2>1 DEF TmOnTime, TmTarget
  <2>. QED  BY <1>0, <2>2, TmLongEnough
<1>2. CurrentIsFresh
  <2>. SUFFICES ASSUME tmTodo = <<>>, tmSeen.value # -1, ~ tmSeen.gaveUp, tmUser # "periodic"
                PROVE  tmSeen.value \in tmCount..tmSeen.from
    BY DEF CurrentIsFresh
  <2>1. TmFresh(tmSeen.value)
    BY <1>t, FirstOfFew DEF TmAt, TmUnread
  <2>2. tmSeen.value >= tmCount /\ tmSeen.value <= tmSeen.from
    BY <2>1 DEF TmFresh
  <2>. QED  BY <1>0, <2>2
<1>. QED
  BY <1>1, <1>2

\* Every access of a call is one of the nine.
LEMMA TmTypes == TmInv => TmTypeOK
<1>. SUFFICES ASSUME TmInv PROVE TmTypeOK
  OBVIOUS
<1>. DEFINE Regs == {"load", "ctl", "enable", "disable", "poll", "eoi", "request", "locked?",
                     "read"}
            Ops == [reg : Regs, val : 0..TmMax]
<1>0. TmMax \in Nat /\ TmTarget \in 0..TmMax
  BY TmAssumption, TmTargets DEF TmInv, TmTyped, TmTarget
<1>1. \A r \in Regs : \A v \in 0..TmMax : A(r, v) \in Ops
  BY DEF A
<1>2. 0 \in 0..TmMax
  BY <1>0
<1>3. /\ A("load", TmTarget) \in Ops /\ A("ctl", 0) \in Ops /\ A("enable", 0) \in Ops
      /\ A("disable", 0) \in Ops /\ A("poll", 0) \in Ops /\ A("eoi", 0) \in Ops
      /\ A("request", 0) \in Ops /\ A("locked?", 0) \in Ops /\ A("read", 0) \in Ops
  BY <1>0, <1>1, <1>2
<1>. HIDE DEF Ops
<1>4. PICK T : T = Ops
  OBVIOUS
<1>5. /\ \A a \in T : <<a>> \in Seq(T)
      /\ \A a, b \in T : <<a, b>> \in Seq(T)
      /\ \A a, b, c \in T : <<a, b, c>> \in Seq(T)
      /\ \A a, b, c, d \in T : <<a, b, c, d>> \in Seq(T)
      /\ \A a, b, c, d, e \in T : <<a, b, c, d, e>> \in Seq(T)
      /\ <<>> \in Seq(T)
  OBVIOUS
<1>6. tmTodo \in Seq(Ops)
  <2>1. /\ <<A("load", TmTarget), A("ctl", 0), A("enable", 0)>> \in Seq(T)
        /\ <<A("load", TmTarget), A("ctl", 0), A("enable", 0), A("poll", 0), A("eoi", 0)>> \in Seq(T)
        /\ <<A("ctl", 0), A("enable", 0)>> \in Seq(T)
        /\ <<A("ctl", 0), A("enable", 0), A("poll", 0), A("eoi", 0)>> \in Seq(T)
        /\ <<A("enable", 0)>> \in Seq(T)
        /\ <<A("enable", 0), A("poll", 0), A("eoi", 0)>> \in Seq(T)
        /\ <<A("poll", 0), A("eoi", 0)>> \in Seq(T)
        /\ <<A("eoi", 0)>> \in Seq(T)
        /\ <<A("disable", 0)>> \in Seq(T)
        /\ <<A("disable", 0), A("eoi", 0)>> \in Seq(T)
        /\ <<A("ctl", 0), A("eoi", 0), A("load", TmTarget), A("enable", 0)>> \in Seq(T)
        /\ <<A("eoi", 0), A("load", TmTarget), A("enable", 0)>> \in Seq(T)
        /\ <<A("load", TmTarget), A("enable", 0)>> \in Seq(T)
        /\ <<A("request", 0), A("locked?", 0), A("read", 0)>> \in Seq(T)
        /\ <<A("locked?", 0), A("read", 0)>> \in Seq(T)
        /\ <<A("read", 0)>> \in Seq(T)
    BY <1>3, <1>4, <1>5
  <2>2. TmAt
    BY DEF TmInv
  <2>. QED  BY <1>4, <1>5, <2>1, <2>2, Zenon DEF TmAt
<1>7. \A i \in DOMAIN tmTodo : tmTodo[i].reg \in Regs
  <2>1. \A i \in DOMAIN tmTodo : tmTodo[i] \in Ops
    BY <1>6
  <2>. QED  BY <2>1 DEF Ops
<1>. QED
  BY <1>7, Zenon DEF TmInv, TmTyped, TmTypeOK

\* An expiry is not before its time, unless it was pending when its channel was enabled; and
\* a current value that was locked is one the channel has had since it was asked for.
THEOREM TimerTellsTime == TmSpec => [](ExpiryNotEarly /\ CurrentIsFresh /\ TmTypeOK)
BY TmStarts, TmStepKeeps, TmInvSafe, TmTypes, PTL DEF TmSpec

-----------------------------------------------------------------------------
(* The blocking UART.                                                       *)

UpRegisters == {"div en", "low", "high", "frac"}
UpNumbers == 1..UartBytes
UpOps == {"none", "write", "read", "flush"}

UpTyped ==
    /\ upAsked \in [clock : {"none", "pll", "boot"}, baud : UartBauds \cup {0}]
    /\ upRegs \in [UpRegisters -> Nat]
    /\ upTx \in Seq(UpNumbers) /\ upShift \in Seq(UpNumbers)
    /\ upLine \in Seq(UpNumbers) /\ upWritten \in Seq(UpNumbers)
    /\ upRx \in Seq(Nat) /\ upSeen \in BOOLEAN /\ upArrived \in 0..UartBytes
    /\ upCall \in [UartContexts -> [op : UpOps, len : Nat]]
    /\ upAt \in [UartContexts -> {"look", "data"}] /\ upGot \in [UartContexts -> Seq(Nat)]

\* The rate that is being set, and the values of the registers for it.
UpChosen == upAsked.clock # "none" /\ upAsked.baud \in UartBauds /\ try_new(upAsked.baud)
UpDiv64 == Div64(clock_hz(upAsked.clock), upAsked.baud)
UpDiv == UpDiv64 \div UartFraction
UpLow == UpDiv % UartHalf
UpHigh == (UpDiv \div UartHalf) % UartHalf
UpFrac == UpDiv64 % UartFraction

DivOn == <<"div en", 1>>
DivOff == <<"div en", 0>>
LowSet == <<"low", UpLow>>
HighSet == <<"high", UpHigh>>
FracSet == <<"frac", UpFrac>>
FifoReset == <<"fifo", 0>>

UpLatch == upRegs["div en"]

\* What is set when so much of the constructor is left.
UpBuilding ==
    \/ /\ upTodo = <<>>
       /\ upAsked.clock # "none" =>
            /\ UpChosen /\ upRegs["low"] = UpLow /\ upRegs["high"] = UpHigh
            /\ upRegs["frac"] = UpFrac /\ UpLatch = 0
    \/ UpChosen /\ upTodo = <<DivOn, LowSet, HighSet, FracSet, DivOff, FifoReset>>
    \/ UpChosen /\ upTodo = <<LowSet, HighSet, FracSet, DivOff, FifoReset>>
    \/ /\ UpChosen /\ upTodo = <<HighSet, FracSet, DivOff, FifoReset>>
       /\ upRegs["low"] = UpLow
    \/ /\ UpChosen /\ upTodo = <<FracSet, DivOff, FifoReset>>
       /\ upRegs["low"] = UpLow /\ upRegs["high"] = UpHigh
    \/ /\ UpChosen /\ upTodo = <<DivOff, FifoReset>>
       /\ upRegs["low"] = UpLow /\ upRegs["high"] = UpHigh /\ upRegs["frac"] = UpFrac
    \/ /\ UpChosen /\ upTodo = <<FifoReset>>
       /\ upRegs["low"] = UpLow /\ upRegs["high"] = UpHigh /\ upRegs["frac"] = UpFrac
       /\ UpLatch = 0

\* The width of a register.
LEMMA UartHalves == UartHalf \in Nat \ {0} /\ UartHalf * UartHalf = UartDivMax + 1
<1>1. \E h \in 1..UartDivMax : h * h = UartDivMax + 1
  BY UpAssumption
<1>2. UartHalf \in 1..UartDivMax /\ UartHalf * UartHalf = UartDivMax + 1
  BY <1>1 DEF UartHalf
<1>. QED
  BY <1>2, UpAssumption

\* A remainder is what is left over.
LEMMA Leftover ==
    \A x \in Nat, d \in Nat \ {0} :
        /\ x % d \in Nat /\ x % d < d /\ x \div d \in Nat
        /\ x = (x % d) + d * (x \div d)
BY Z3

\* More of it is divided at least as often.
LEMMA DivGrows ==
    ASSUME NEW x \in Nat, NEW y \in Nat, x <= y, NEW d \in Nat \ {0}
    PROVE  x \div d <= y \div d
<1>. DEFINE p == x \div d
            q == y \div d
<1>1. /\ p \in Nat /\ q \in Nat /\ d * p <= x /\ y < d * q + d
  BY DivRoundsDown
<1>. HIDE DEF p, q
<1>. SUFFICES ASSUME q < p PROVE FALSE
  <2>1. p <= q \/ q < p
    BY <1>1
  <2>. QED  BY <2>1 DEF p, q
<1>2. PICK e \in Nat : p = q + 1 + e
  <2>1. p - q - 1 \in Nat /\ p = q + 1 + (p - q - 1)
    BY <1>1
  <2>. QED  BY <2>1
<1>3. d * p = d * q + d + d * e
  BY <1>1, <1>2
<1>4. d * p \in Nat /\ d * q \in Nat /\ d * e \in Nat
  BY <1>1, <1>2
<1>. QED
  BY <1>1, <1>3, <1>4

\* What fits in two registers is put together again from its halves.
LEMMA TwoHalvesOfIt ==
    ASSUME NEW v \in Nat, v <= UartDivMax
    PROVE  (v % UartHalf) + UartHalf * ((v \div UartHalf) % UartHalf) = v
<1>1. PICK h \in Nat \ {0} : h = UartHalf
  BY UartHalves
<1>2. PICK q : q = v \div h
  OBVIOUS
<1>3. q \in Nat /\ v = (v % h) + h * q /\ h * q <= v
  BY <1>1, <1>2, Leftover, DivRoundsDown
<1>4. h * h = UartDivMax + 1 /\ UartDivMax \in Nat
  BY <1>1, UartHalves, UpAssumption
<1>5. q < h
  <2>. SUFFICES ASSUME h <= q PROVE FALSE
    BY <1>1, <1>3
  <2>1. PICK e \in Nat : q = h + e
    <3>1. q - h \in Nat /\ q = h + (q - h)
      BY <1>1, <1>3
    <3>. QED  BY <3>1
  <2>2. h * q = h * h + h * e
    BY <1>1, <2>1
  <2>3. h * e \in Nat /\ h * q \in Nat
    BY <1>1, <1>3, <2>1
  <2>. QED  BY <1>3, <1>4, <2>2, <2>3
<1>6. q % h = q
  <2>1. q = (q % h) + h * (q \div h) /\ q \div h \in Nat /\ q % h \in Nat
    BY <1>1, <1>3, Leftover
  <2>2. q \div h = 0
    <3>1. PICK e : e = q \div h
      OBVIOUS
    <3>2. e \in Nat /\ h * e <= q
      BY <1>1, <1>3, <3>1, DivRoundsDown
    <3>3. e # 0 => h * e >= h
      <4>. SUFFICES ASSUME e # 0 PROVE h * e >= h
        OBVIOUS
      <4>1. PICK k \in Nat : e = k + 1
        <5>1. e - 1 \in Nat /\ e = (e - 1) + 1
          BY <3>2
        <5>. QED  BY <5>1
      <4>2. h * e = h * k + h /\ h * k \in Nat
        BY <1>1, <4>1
      <4>. QED  BY <1>1, <4>2
    <3>4. h * e \in Nat
      BY <1>1, <3>2
    <3>. QED  BY <1>1, <1>3, <1>5, <3>1, <3>2, <3>3, <3>4
  <2>. QED  BY <1>1, <2>1, <2>2
<1>7. v = (v % h) + h * q
  BY <1>3
<1>. QED
  BY <1>1, <1>2, <1>6, <1>7, Zenon

\* The divider of a rate that was checked fits, from either clock.
LEMMA UpDivFits ==
    ASSUME UpTyped, UpChosen
    PROVE  /\ UpDiv64 \in Nat /\ UpDiv \in Nat /\ UpDiv <= UartDivMax
           /\ UpLow \in Nat /\ UpHigh \in Nat /\ UpFrac \in Nat
           /\ UpDiv64 * upAsked.baud <= UartFraction * clock_hz(upAsked.clock)
           /\ UartFraction * clock_hz(upAsked.clock) < (UpDiv64 + 1) * upAsked.baud
           /\ UpFrac + UartFraction * (UpLow + UartHalf * UpHigh) = UpDiv64
<1>0. /\ UART_CLOCK_HZ \in Nat /\ UartFraction \in Nat \ {0} /\ UartDivMax \in Nat
      /\ UartBootHz \in Nat /\ UartBootHz <= UART_CLOCK_HZ
  BY UpAssumption
<1>1. PICK b \in Nat \ {0} : b = upAsked.baud
  <2>1. upAsked.baud \in Nat
    BY UpAssumption DEF UpChosen
  <2>. QED  BY <2>1 DEF UpChosen, try_new
<1>2. PICK hz \in Nat : hz = clock_hz(upAsked.clock) /\ hz <= UART_CLOCK_HZ
  BY <1>0 DEF clock_hz
<1>3. PICK f \in Nat \ {0} : f = UartFraction
  BY <1>0
<1>4. hz * f \in Nat /\ UART_CLOCK_HZ * f \in Nat /\ hz * f <= UART_CLOCK_HZ * f
  <2>1. PICK d \in Nat : UART_CLOCK_HZ = hz + d
    <3>1. UART_CLOCK_HZ - hz \in Nat /\ UART_CLOCK_HZ = hz + (UART_CLOCK_HZ - hz)
      BY <1>0, <1>2
    <3>. QED  BY <3>1
  <2>2. UART_CLOCK_HZ * f = hz * f + d * f /\ hz * f \in Nat /\ d * f \in Nat
    BY <2>1
  <2>. QED  BY <2>2
<1>5. PICK q, top : q = (hz * f) \div b /\ top = (UART_CLOCK_HZ * f) \div b
  OBVIOUS
<1>6. /\ q \in Nat /\ top \in Nat /\ q <= top
      /\ b * q <= hz * f /\ hz * f < b * q + b
  BY <1>4, <1>5, DivRoundsDown, DivGrows
<1>7. UpDiv64 = q
  BY <1>1, <1>2, <1>3, <1>5 DEF UpDiv64, Div64
<1>8. top \div f \in 1..UartDivMax
  BY <1>1, <1>3, <1>5 DEF UpChosen, try_new, Div64
<1>9. UpDiv \in Nat /\ UpDiv <= UartDivMax
  <2>1. q \div f <= top \div f /\ q \div f \in Nat
    BY <1>6, DivGrows, DivRoundsDown
  <2>2. UpDiv = q \div f
    BY <1>3, <1>7 DEF UpDiv
  <2>. QED  BY <1>0, <1>8, <2>1, <2>2
<1>10. UpLow \in Nat /\ UpHigh \in Nat
  <2>1. \A x \in Nat : x % UartHalf \in Nat /\ x \div UartHalf \in Nat
    BY UartHalves, Leftover
  <2>. QED  BY <1>9, <2>1 DEF UpLow, UpHigh
<1>11. UpFrac \in Nat /\ q = UpFrac + f * UpDiv
  <2>1. q % f \in Nat /\ q = (q % f) + f * (q \div f)
    BY <1>6, Leftover
  <2>. QED  BY <1>3, <1>7, <2>1 DEF UpFrac, UpDiv
<1>12. UpLow + UartHalf * UpHigh = UpDiv
  BY <1>9, TwoHalvesOfIt DEF UpLow, UpHigh
<1>13. UpFrac + UartFraction * (UpLow + UartHalf * UpHigh) = UpDiv64
  BY <1>3, <1>7, <1>11, <1>12, Zenon
<1>14. q * b <= f * hz /\ f * hz < (q + 1) * b
  <2>1. q * b = b * q /\ f * hz = hz * f /\ (q + 1) * b = b * q + b
    BY <1>6
  <2>. QED  BY <1>6, <2>1, Zenon
<1>. QED
  BY <1>1, <1>2, <1>3, <1>6, <1>7, <1>9, <1>10, <1>11, <1>13, <1>14, Zenon

\* One register is written, and no other.
LEMMA OneSet ==
    ASSUME NEW S, NEW f \in [S -> Nat], NEW x \in S, NEW v \in Nat, NEW g, g = [f EXCEPT ![x] = v]
    PROVE  g \in [S -> Nat] /\ g[x] = v /\ \A y \in S : y # x => g[y] = f[y]
OBVIOUS

LEMMA FirstOfSix ==
    ASSUME NEW a, NEW b, NEW c, NEW d, NEW e, NEW f
    PROVE  /\ <<a, b, c, d, e, f>>[1] = a /\ Tail(<<a, b, c, d, e, f>>) = <<b, c, d, e, f>>
           /\ <<b, c, d, e, f>>[1] = b /\ Tail(<<b, c, d, e, f>>) = <<c, d, e, f>>
           /\ <<c, d, e, f>>[1] = c /\ Tail(<<c, d, e, f>>) = <<d, e, f>>
           /\ <<d, e, f>>[1] = d /\ Tail(<<d, e, f>>) = <<e, f>>
           /\ <<e, f>>[1] = e /\ Tail(<<e, f>>) = <<f>>
           /\ <<f>>[1] = f /\ Tail(<<f>>) = <<>> /\ <<f>> # <<>>
OBVIOUS

\* The register of each of the constructor's writes, and its value.
LEMMA UpWrites ==
    /\ DivOn[1] = "div en" /\ DivOn[2] = 1 /\ DivOff[1] = "div en" /\ DivOff[2] = 0
    /\ LowSet[1] = "low" /\ LowSet[2] = UpLow /\ HighSet[1] = "high" /\ HighSet[2] = UpHigh
    /\ FracSet[1] = "frac" /\ FracSet[2] = UpFrac /\ FifoReset[1] = "fifo"
<1>1. PICK s : s = "div en"
  OBVIOUS
<1>2. <<s, 1>>[1] = s /\ <<s, 1>>[2] = 1 /\ <<s, 0>>[1] = s /\ <<s, 0>>[2] = 0
  OBVIOUS
<1>3. DivOn = <<s, 1>> /\ DivOff = <<s, 0>>
  BY <1>1, Zenon DEF DivOn, DivOff
<1>4. DivOn[1] = s /\ DivOn[2] = 1 /\ DivOff[1] = s /\ DivOff[2] = 0
  BY <1>2, <1>3
<1>5. /\ LowSet[1] = "low" /\ LowSet[2] = UpLow /\ HighSet[1] = "high" /\ HighSet[2] = UpHigh
      /\ FracSet[1] = "frac" /\ FracSet[2] = UpFrac /\ FifoReset[1] = "fifo"
  BY DEF LowSet, HighSet, FracSet, FifoReset
<1>. QED
  BY <1>1, <1>4, <1>5, Zenon

\* The constructor's writes in order.
LEMMA UpPlan ==
    /\ configure_uart(upAsked) = <<DivOn, LowSet, HighSet, FracSet, DivOff, FifoReset>>
BY Zenon DEF configure_uart, DivOn, LowSet, HighSet, FracSet, DivOff, FifoReset, UpLow, UpHigh,
     UpFrac, UpDiv, UpDiv64

\* A write of the constructor.
LEMMA UpWriteOf ==
    ASSUME UpTyped, UpChosen, UartWrite
    PROVE  /\ upTodo # <<>> /\ upTodo' = Tail(upTodo) /\ upAsked' = upAsked
           /\ upTodo[1] = DivOn => upRegs' \in [UpRegisters -> Nat]
           /\ upTodo[1] = LowSet =>
                upRegs' \in [UpRegisters -> Nat] /\ upRegs'["low"] = UpLow
           /\ upTodo[1] = HighSet =>
                /\ upRegs' \in [UpRegisters -> Nat] /\ upRegs'["high"] = UpHigh
                /\ upRegs'["low"] = upRegs["low"]
           /\ upTodo[1] = FracSet =>
                /\ upRegs' \in [UpRegisters -> Nat] /\ upRegs'["frac"] = UpFrac
                /\ upRegs'["low"] = upRegs["low"] /\ upRegs'["high"] = upRegs["high"]
           /\ upTodo[1] = DivOff =>
                /\ upRegs' \in [UpRegisters -> Nat] /\ UpLatch' = 0
                /\ upRegs'["low"] = upRegs["low"] /\ upRegs'["high"] = upRegs["high"]
                /\ upRegs'["frac"] = upRegs["frac"]
           /\ upTodo[1] = FifoReset => upRegs' = upRegs
<1>1. upTodo # <<>> /\ upTodo' = Tail(upTodo) /\ upAsked' = upAsked
  BY Zenon DEF UartWrite
<1>2. PICK r, v : r = upTodo[1][1] /\ v = upTodo[1][2]
  OBVIOUS
<1>3. /\ r = "fifo" => upRegs' = upRegs
      /\ r # "fifo" => upRegs' = [upRegs EXCEPT ![r] = v]
  BY <1>2, Zenon DEF UartWrite
<1>4. upRegs \in [UpRegisters -> Nat]
  BY Zenon DEF UpTyped
<1>5. r \in UpRegisters /\ r # "fifo" /\ v \in Nat =>
        /\ upRegs' \in [UpRegisters -> Nat] /\ upRegs'[r] = v
        /\ \A y \in UpRegisters : y # r => upRegs'[y] = upRegs[y]
  <2>. SUFFICES ASSUME r \in UpRegisters, r # "fifo", v \in Nat
                PROVE  /\ upRegs' \in [UpRegisters -> Nat] /\ upRegs'[r] = v
                       /\ \A y \in UpRegisters : y # r => upRegs'[y] = upRegs[y]
    OBVIOUS
  <2>1. PICK S, f, g : S = UpRegisters /\ f = upRegs /\ g = upRegs'
    OBVIOUS
  <2>2. f \in [S -> Nat] /\ r \in S /\ v \in Nat /\ g = [f EXCEPT ![r] = v]
    BY <1>3, <1>4, <2>1, Zenon
  <2>3. g \in [S -> Nat] /\ g[r] = v /\ \A y \in S : y # r => g[y] = f[y]
    BY <2>2, OneSet
  <2>. QED  BY <2>1, <2>3, Zenon
<1>6. /\ "div en" \in UpRegisters /\ "low" \in UpRegisters /\ "high" \in UpRegisters
      /\ "frac" \in UpRegisters
  BY Zenon DEF UpRegisters
<1>7. 0 \in Nat /\ 1 \in Nat /\ UpLow \in Nat /\ UpHigh \in Nat /\ UpFrac \in Nat
  <2>1. 0 \in Nat /\ 1 \in Nat
    OBVIOUS
  <2>. QED  BY <2>1, UpDivFits
<1>8. upTodo[1] = DivOn => r = "div en" /\ v = 1
  BY <1>2, UpWrites, Zenon
<1>9. upTodo[1] = LowSet => r = "low" /\ v = UpLow
  BY <1>2, UpWrites, Zenon
<1>10. upTodo[1] = HighSet => r = "high" /\ v = UpHigh
  BY <1>2, UpWrites, Zenon
<1>11. upTodo[1] = FracSet => r = "frac" /\ v = UpFrac
  BY <1>2, UpWrites, Zenon
<1>12. upTodo[1] = DivOff => r = "div en" /\ v = 0
  BY <1>2, UpWrites, Zenon
<1>13. upTodo[1] = FifoReset => r = "fifo"
  BY <1>2, UpWrites, Zenon
<1>14. upTodo[1] = DivOn => upRegs' \in [UpRegisters -> Nat]
  BY <1>5, <1>6, <1>7, <1>8, Zenon
<1>15. upTodo[1] = LowSet => upRegs' \in [UpRegisters -> Nat] /\ upRegs'["low"] = UpLow
  BY <1>5, <1>6, <1>7, <1>9, Zenon
<1>16. upTodo[1] = HighSet =>
         /\ upRegs' \in [UpRegisters -> Nat] /\ upRegs'["high"] = UpHigh
         /\ upRegs'["low"] = upRegs["low"]
  BY <1>5, <1>6, <1>7, <1>10, Zenon
<1>17. upTodo[1] = FracSet =>
         /\ upRegs' \in [UpRegisters -> Nat] /\ upRegs'["frac"] = UpFrac
         /\ upRegs'["low"] = upRegs["low"] /\ upRegs'["high"] = upRegs["high"]
  BY <1>5, <1>6, <1>7, <1>11, Zenon
<1>18. upTodo[1] = DivOff =>
         /\ upRegs' \in [UpRegisters -> Nat] /\ UpLatch' = 0
         /\ upRegs'["low"] = upRegs["low"] /\ upRegs'["high"] = upRegs["high"]
         /\ upRegs'["frac"] = upRegs["frac"]
  BY <1>5, <1>6, <1>7, <1>12, Zenon DEF UpLatch
<1>. QED
  BY <1>1, <1>3, <1>13, <1>14, <1>15, <1>16, <1>17, <1>18, Zenon

\* What a rate's registers are does not depend on the registers.
LEMMA UpSameRate ==
    ASSUME upAsked' = upAsked
    PROVE  /\ UpChosen' = UpChosen /\ UpLow' = UpLow /\ UpHigh' = UpHigh /\ UpFrac' = UpFrac
           /\ LowSet' = LowSet /\ HighSet' = HighSet /\ FracSet' = FracSet
           /\ DivOn' = DivOn /\ DivOff' = DivOff /\ FifoReset' = FifoReset
           /\ UpDiv64' = UpDiv64
BY Zenon DEF UpChosen, UpLow, UpHigh, UpFrac, UpDiv, UpDiv64, LowSet, HighSet, FracSet,
   DivOn, DivOff,
     FifoReset

LEMMA UpBuildKeeps ==
    ASSUME UpTyped, UpBuilding, UartWrite
    PROVE  UpBuilding' /\ upRegs' \in [UpRegisters -> Nat] /\ upAsked' = upAsked
<1>0. UpChosen /\ upTodo # <<>>
  <2>1. upTodo # <<>>
    BY Zenon DEF UartWrite
  <2>. QED  BY <2>1 DEF UpBuilding
<1>1. /\ upTodo' = Tail(upTodo) /\ upAsked' = upAsked
      /\ upTodo[1] = DivOn => upRegs' \in [UpRegisters -> Nat]
      /\ upTodo[1] = LowSet => upRegs' \in [UpRegisters -> Nat] /\ upRegs'["low"] = UpLow
      /\ upTodo[1] = HighSet =>
           /\ upRegs' \in [UpRegisters -> Nat] /\ upRegs'["high"] = UpHigh
           /\ upRegs'["low"] = upRegs["low"]
      /\ upTodo[1] = FracSet =>
           /\ upRegs' \in [UpRegisters -> Nat] /\ upRegs'["frac"] = UpFrac
           /\ upRegs'["low"] = upRegs["low"] /\ upRegs'["high"] = upRegs["high"]
      /\ upTodo[1] = DivOff =>
           /\ upRegs' \in [UpRegisters -> Nat] /\ UpLatch' = 0
           /\ upRegs'["low"] = upRegs["low"] /\ upRegs'["high"] = upRegs["high"]
           /\ upRegs'["frac"] = upRegs["frac"]
      /\ upTodo[1] = FifoReset => upRegs' = upRegs
  BY <1>0, UpWriteOf
<1>2. upRegs \in [UpRegisters -> Nat]
  BY Zenon DEF UpTyped
<1>3. /\ UpChosen' = UpChosen /\ UpLow' = UpLow /\ UpHigh' = UpHigh /\ UpFrac' = UpFrac
      /\ LowSet' = LowSet /\ HighSet' = HighSet /\ FracSet' = FracSet
      /\ DivOn' = DivOn /\ DivOff' = DivOff /\ FifoReset' = FifoReset
  BY <1>1, UpSameRate
<1>4. CASE upTodo = <<DivOn, LowSet, HighSet, FracSet, DivOff, FifoReset>>
  <2>1. upTodo[1] = DivOn /\ upTodo' = <<LowSet, HighSet, FracSet, DivOff, FifoReset>>
    BY <1>1, <1>4, FirstOfSix
  <2>. QED  BY <1>0, <1>1, <1>3, <2>1, Zenon DEF UpBuilding
<1>5. CASE upTodo = <<LowSet, HighSet, FracSet, DivOff, FifoReset>>
  <2>1. upTodo[1] = LowSet /\ upTodo' = <<HighSet, FracSet, DivOff, FifoReset>>
    BY <1>1, <1>5, FirstOfSix
  <2>. QED  BY <1>0, <1>1, <1>3, <2>1, Zenon DEF UpBuilding
<1>6. CASE upTodo = <<HighSet, FracSet, DivOff, FifoReset>> /\ upRegs["low"] = UpLow
  <2>1. upTodo[1] = HighSet /\ upTodo' = <<FracSet, DivOff, FifoReset>>
    BY <1>1, <1>6, FirstOfSix
  <2>. QED  BY <1>0, <1>1, <1>3, <1>6, <2>1, Zenon DEF UpBuilding
<1>7. CASE /\ upTodo = <<FracSet, DivOff, FifoReset>>
           /\ upRegs["low"] = UpLow /\ upRegs["high"] = UpHigh
  <2>1. upTodo[1] = FracSet /\ upTodo' = <<DivOff, FifoReset>>
    BY <1>1, <1>7, FirstOfSix
  <2>. QED  BY <1>0, <1>1, <1>3, <1>7, <2>1, Zenon DEF UpBuilding
<1>8. CASE /\ upTodo = <<DivOff, FifoReset>>
           /\ upRegs["low"] = UpLow /\ upRegs["high"] = UpHigh /\ upRegs["frac"] = UpFrac
  <2>1. upTodo[1] = DivOff /\ upTodo' = <<FifoReset>>
    BY <1>1, <1>8, FirstOfSix
  <2>. QED  BY <1>0, <1>1, <1>3, <1>8, <2>1, Zenon DEF UpBuilding
<1>9. CASE /\ upTodo = <<FifoReset>>
           /\ upRegs["low"] = UpLow /\ upRegs["high"] = UpHigh /\ upRegs["frac"] = UpFrac
           /\ UpLatch = 0
  <2>1. upTodo[1] = FifoReset /\ upTodo' = <<>>
    BY <1>1, <1>9, FirstOfSix
  <2>2. UpLatch' = 0
    BY <1>1, <1>9, <2>1, Zenon DEF UpLatch
  <2>. QED  BY <1>0, <1>1, <1>2, <1>3, <1>9, <2>1, <2>2, Zenon DEF UpBuilding
<1>. QED
  BY <1>0, <1>4, <1>5, <1>6, <1>7, <1>8, <1>9, Zenon DEF UpBuilding

\* With the constructor done, the registers are those of the rate.
LEMMA UpBuiltRight == UpTyped /\ UpBuilding => UartAsAsked
<1>. SUFFICES ASSUME UpTyped, UpBuilding, UartBuilt PROVE UartAsAsked
  BY DEF UartAsAsked
<1>1. upTodo = <<>> /\ upAsked.clock # "none"
  BY DEF UartBuilt
<1>2. /\ UpChosen /\ upRegs["low"] = UpLow /\ upRegs["high"] = UpHigh
      /\ upRegs["frac"] = UpFrac /\ UpLatch = 0
  BY <1>1, FirstOfSix DEF UpBuilding
<1>3. /\ UpDiv64 * upAsked.baud <= UartFraction * clock_hz(upAsked.clock)
      /\ UartFraction * clock_hz(upAsked.clock) < (UpDiv64 + 1) * upAsked.baud
      /\ UpFrac + UartFraction * (UpLow + UartHalf * UpHigh) = UpDiv64
  BY <1>2, UpDivFits
<1>4. upRegs["frac"] + UartFraction * (upRegs["low"] + UartHalf * upRegs["high"]) = UpDiv64
  BY <1>2, <1>3, Zenon
<1>. QED
  BY <1>2, <1>3, <1>4, Zenon DEF UartAsAsked, UpLatch

\* Bytes on their way out: in order, numbered from 1 on, and no more than there is room for.
UpBytes ==
    /\ UartInOrder
    /\ Len(upTx) <= UartDepth /\ Len(upShift) <= 1
    /\ \A k \in 1..Len(upWritten) : upWritten[k] >= k

\* got was read before what is in rx came in, and the latest byte is no earlier than either.
InTurn(got, rx, latest) ==
    /\ \A i \in 1..Len(rx) : rx[i] <= latest
    /\ \A i, j \in 1..Len(rx) : i < j => rx[i] < rx[j]
    /\ \A k \in 1..Len(got) : got[k] <= latest
    /\ \A k \in 1..Len(got), i \in 1..Len(rx) : got[k] < rx[i]
    /\ \A k \in 2..Len(got) : got[k - 1] < got[k]

UpRead == Len(upRx) <= UartDepth /\ InTurn(upGot["main"], upRx, upArrived)

\* Between the look at a status and the access that relies on it nothing takes its place.
UpCalls ==
    /\ Len(upGot["main"]) + upCall["main"].len <= 2
    /\ upCall["main"].op # "none" => upCall["main"].len >= 1 /\ upTodo = <<>>
    /\ upCall["main"].op = "write" => UartLast + upCall["main"].len <= UartBytes
    /\ upCall["main"].op \in {"none", "flush"} => upAt["main"] = "look"
    /\ upCall["main"].op = "write" /\ upAt["main"] = "data" => Len(upTx) < UartDepth
    /\ upCall["main"].op = "read" /\ upAt["main"] = "data" => upRx # <<>>

UpInv == UpTyped /\ UpBuilding /\ UpBytes /\ UpRead /\ UpCalls

LEMMA OnlyMain == ~ UartShared => UartContexts = {"main"}
BY DEF UartContexts

LEMMA UpLimits == UartDepth \in Nat /\ UartDepth >= 1 /\ UartBytes \in Nat /\ UartBytes >= 2
BY UpAssumption

\* A byte is read.
LEMMA NextInTurn ==
    ASSUME NEW got \in Seq(Nat), NEW rx \in Seq(Nat), NEW latest \in Nat, rx # <<>>,
           InTurn(got, rx, latest)
    PROVE  /\ Append(got, Head(rx)) \in Seq(Nat) /\ Tail(rx) \in Seq(Nat)
           /\ Len(Tail(rx)) = Len(rx) - 1 /\ Len(Append(got, Head(rx))) = Len(got) + 1
           /\ InTurn(Append(got, Head(rx)), Tail(rx), latest)
<1>1. PICK m \in Nat, n \in Nat : m = Len(got) /\ n = Len(rx) /\ n >= 1
  <2>1. Len(got) \in Nat /\ Len(rx) \in Nat /\ Len(rx) # 0
    BY LenProperties, EmptySeq
  <2>. QED  BY <2>1
<1>2. PICK more, rest : more = Append(got, Head(rx)) /\ rest = Tail(rx)
  OBVIOUS
<1>3. /\ Head(rx) = rx[1] /\ rx[1] \in Nat
      /\ rest \in Seq(Nat) /\ Len(rest) = n - 1
      /\ \A i \in 1..(n - 1) : i + 1 \in 1..n /\ rest[i] = rx[i + 1]
  <2>1. /\ Head(rx) = rx[1] /\ rx[1] \in Nat
        /\ Tail(rx) \in Seq(Nat) /\ Len(Tail(rx)) = Len(rx) - 1
        /\ \A i \in 1..Len(Tail(rx)) : i + 1 \in 1..Len(rx) /\ Tail(rx)[i] = rx[i + 1]
    BY OneLess
  <2>. QED  BY <1>1, <1>2, <2>1
<1>4. /\ more \in Seq(Nat) /\ Len(more) = m + 1
      /\ \A k \in 1..m : more[k] = got[k]
      /\ more[m + 1] = rx[1]
  <2>1. /\ Append(got, Head(rx)) \in Seq(Nat) /\ Len(Append(got, Head(rx))) = Len(got) + 1
        /\ \A i \in 1..Len(got) : Append(got, Head(rx))[i] = got[i]
        /\ Append(got, Head(rx))[Len(got) + 1] = Head(rx)
    BY <1>3, OneAfter
  <2>. QED  BY <1>1, <1>2, <1>3, <2>1
<1>5. /\ \A i \in 1..n : rx[i] <= latest
      /\ \A i, j \in 1..n : i < j => rx[i] < rx[j]
      /\ \A k \in 1..m : got[k] <= latest
      /\ \A k \in 1..m, i \in 1..n : got[k] < rx[i]
      /\ \A k \in 2..m : got[k - 1] < got[k]
  BY <1>1 DEF InTurn
<1>6. \A k \in 1..(m + 1) : k \in 1..m \/ k = m + 1
  BY <1>1
<1>7. 1 \in 1..n
  BY <1>1
<1>8. \A i \in 1..(n - 1) : rest[i] <= latest
  BY <1>3, <1>5
<1>9. \A i, j \in 1..(n - 1) : i < j => rest[i] < rest[j]
  <2>. SUFFICES ASSUME NEW i \in 1..(n - 1), NEW j \in 1..(n - 1), i < j
                PROVE  rest[i] < rest[j]
    OBVIOUS
  <2>1. i + 1 \in 1..n /\ j + 1 \in 1..n /\ i + 1 < j + 1
    BY <1>1
  <2>2. rx[i + 1] < rx[j + 1]
    BY <1>5, <2>1
  <2>. QED  BY <1>3, <2>2
<1>10. \A k \in 1..(m + 1) : more[k] <= latest
  BY <1>4, <1>5, <1>6, <1>7
<1>11. \A k \in 1..(m + 1), i \in 1..(n - 1) : more[k] < rest[i]
  <2>. SUFFICES ASSUME NEW k \in 1..(m + 1), NEW i \in 1..(n - 1) PROVE more[k] < rest[i]
    OBVIOUS
  <2>1. i + 1 \in 1..n /\ 1 < i + 1 /\ rest[i] = rx[i + 1]
    BY <1>1, <1>3
  <2>2. CASE k \in 1..m
    BY <1>4, <1>5, <2>1, <2>2
  <2>3. CASE k = m + 1
    <3>1. rx[1] < rx[i + 1]
      BY <1>5, <1>7, <2>1
    <3>. QED  BY <1>4, <2>1, <2>3, <3>1
  <2>. QED  BY <1>6, <2>2, <2>3
<1>12. \A k \in 2..(m + 1) : more[k - 1] < more[k]
  <2>. SUFFICES ASSUME NEW k \in 2..(m + 1) PROVE more[k - 1] < more[k]
    OBVIOUS
  <2>1. k - 1 \in 1..m /\ (k \in 2..m \/ k = m + 1)
    BY <1>1
  <2>2. CASE k \in 2..m
    <3>1. k \in 1..m
      BY <1>1, <2>2
    <3>. QED  BY <1>4, <1>5, <2>1, <2>2, <3>1
  <2>3. CASE k = m + 1
    BY <1>4, <1>5, <1>7, <2>1, <2>3
  <2>. QED  BY <2>1, <2>2, <2>3
<1>13. InTurn(more, rest, latest)
  BY <1>3, <1>4, <1>8, <1>9, <1>10, <1>11, <1>12 DEF InTurn
<1>. QED
  BY <1>1, <1>2, <1>3, <1>4, <1>13

\* A byte comes in.
LEMMA ArrivesInTurn ==
    ASSUME NEW got \in Seq(Nat), NEW rx \in Seq(Nat), NEW latest \in Nat, InTurn(got, rx, latest)
    PROVE  /\ InTurn(got, rx, latest + 1)
           /\ Append(rx, latest + 1) \in Seq(Nat) /\ Len(Append(rx, latest + 1)) = Len(rx) + 1
           /\ InTurn(got, Append(rx, latest + 1), latest + 1)
<1>1. PICK m \in Nat, n \in Nat : m = Len(got) /\ n = Len(rx)
  BY LenProperties
<1>2. PICK more : more = Append(rx, latest + 1)
  OBVIOUS
<1>3. /\ more \in Seq(Nat) /\ Len(more) = n + 1
      /\ \A i \in 1..n : more[i] = rx[i]
      /\ more[n + 1] = latest + 1
  <2>1. latest + 1 \in Nat
    OBVIOUS
  <2>2. /\ Append(rx, latest + 1) \in Seq(Nat) /\ Len(Append(rx, latest + 1)) = Len(rx) + 1
        /\ \A i \in 1..Len(rx) : Append(rx, latest + 1)[i] = rx[i]
        /\ Append(rx, latest + 1)[Len(rx) + 1] = latest + 1
    BY <2>1, OneAfter
  <2>. QED  BY <1>1, <1>2, <2>2
<1>4. /\ \A i \in 1..n : rx[i] <= latest
      /\ \A i, j \in 1..n : i < j => rx[i] < rx[j]
      /\ \A k \in 1..m : got[k] <= latest
      /\ \A k \in 1..m, i \in 1..n : got[k] < rx[i]
      /\ \A k \in 2..m : got[k - 1] < got[k]
  BY <1>1 DEF InTurn
<1>5. (\A i \in 1..n : rx[i] \in Nat) /\ (\A k \in 1..m : got[k] \in Nat)
  BY <1>1, ElementOfSeq
<1>6. (\A i \in 1..n : rx[i] <= latest + 1) /\ (\A k \in 1..m : got[k] <= latest + 1)
  BY <1>4, <1>5
<1>7. InTurn(got, rx, latest + 1)
  BY <1>1, <1>4, <1>6 DEF InTurn
<1>8. \A i \in 1..(n + 1) : i \in 1..n \/ i = n + 1
  BY <1>1
<1>9. \A i \in 1..(n + 1) : more[i] <= latest + 1
  BY <1>3, <1>6, <1>8
<1>10. \A i, j \in 1..(n + 1) : i < j => more[i] < more[j]
  <2>. SUFFICES ASSUME NEW i \in 1..(n + 1), NEW j \in 1..(n + 1), i < j PROVE more[i] < more[j]
    OBVIOUS
  <2>1. i \in 1..n
    BY <1>1
  <2>2. CASE j \in 1..n
    BY <1>3, <1>4, <2>1, <2>2
  <2>3. CASE j = n + 1
    BY <1>3, <1>4, <1>5, <2>1, <2>3
  <2>. QED  BY <1>8, <2>2, <2>3
<1>11. \A k \in 1..m, i \in 1..(n + 1) : got[k] < more[i]
  <2>. SUFFICES ASSUME NEW k \in 1..m, NEW i \in 1..(n + 1) PROVE got[k] < more[i]
    OBVIOUS
  <2>1. CASE i \in 1..n
    BY <1>3, <1>4, <2>1
  <2>2. CASE i = n + 1
    BY <1>3, <1>4, <1>5, <2>2
  <2>. QED  BY <1>8, <2>1, <2>2
<1>12. InTurn(got, more, latest + 1)
  BY <1>1, <1>3, <1>4, <1>6, <1>9, <1>10, <1>11 DEF InTurn
<1>. QED
  BY <1>1, <1>2, <1>3, <1>7, <1>12

\* Nothing in the FIFO, or nothing read, is in turn.
LEMMA NoneInTurn ==
    ASSUME NEW got \in Seq(Nat), NEW rx \in Seq(Nat), NEW latest \in Nat, InTurn(got, rx, latest)
    PROVE  InTurn(got, <<>>, latest) /\ InTurn(<<>>, rx, latest)
<1>1. Len(<<>>) = 0 /\ 1..0 = {} /\ 2..0 = {}
  OBVIOUS
<1>. QED
  BY <1>1 DEF InTurn

\* The last byte that was handed over.
LEMMA UpLastByte ==
    ASSUME UpTyped, UpBytes
    PROVE  /\ UartLast \in 0..UartBytes /\ Len(upWritten) \in Nat /\ UartLast >= Len(upWritten)
           /\ Len(upWritten) <= UartBytes
<1>1. upWritten \in Seq(UpNumbers) /\ \A k \in 1..Len(upWritten) : upWritten[k] >= k
  BY Zenon DEF UpTyped, UpBytes
<1>2. UartBytes \in Nat
  BY UpLimits
<1>3. PICK n \in Nat : n = Len(upWritten)
  BY <1>1, LenProperties
<1>4. CASE upWritten = <<>>
  <2>1. n = 0
    BY <1>3, <1>4
  <2>2. UartLast = 0
    BY <1>4 DEF UartLast
  <2>. QED  BY <1>2, <1>3, <2>1, <2>2
<1>5. CASE upWritten # <<>>
  <2>1. n # 0
    BY <1>1, <1>3, <1>5, EmptySeq
  <2>2. n \in 1..n
    BY <2>1
  <2>3. UartLast = upWritten[n]
    BY <1>3, <1>5 DEF UartLast, Last
  <2>4. upWritten[n] \in 1..UartBytes /\ upWritten[n] >= n
    <3>1. upWritten[n] \in UpNumbers
      BY <1>1, <1>3, <2>2, ElementOfSeq
    <3>. QED  BY <1>1, <1>3, <2>2, <3>1 DEF UpNumbers
  <2>. QED  BY <1>2, <1>3, <2>3, <2>4
<1>. QED
  BY <1>4, <1>5

\* What the invariant says, part by part.
LEMMA UpParts ==
    ASSUME UpInv, UartContexts = {"main"}
    PROVE  /\ UpTyped /\ UpBuilding /\ UpBytes /\ UpRead /\ UpCalls
           /\ upTx \in Seq(UpNumbers) /\ upShift \in Seq(UpNumbers)
           /\ upLine \in Seq(UpNumbers) /\ upWritten \in Seq(UpNumbers)
           /\ upRx \in Seq(Nat) /\ upArrived \in Nat /\ upArrived <= UartBytes
           /\ upCall \in [{"main"} -> [op : UpOps, len : Nat]]
           /\ upAt \in [{"main"} -> {"look", "data"}] /\ upGot \in [{"main"} -> Seq(Nat)]
           /\ upGot["main"] \in Seq(Nat) /\ upCall["main"] \in [op : UpOps, len : Nat]
           /\ upCall["main"].len \in Nat /\ Len(upGot["main"]) \in Nat
           /\ UartLast \in Nat
<1>1. /\ UpTyped /\ UpBuilding /\ UpBytes /\ UpRead /\ UpCalls
  BY DEF UpInv
<1>2. /\ upTx \in Seq(UpNumbers) /\ upShift \in Seq(UpNumbers)
      /\ upLine \in Seq(UpNumbers) /\ upWritten \in Seq(UpNumbers)
      /\ upRx \in Seq(Nat) /\ upArrived \in 0..UartBytes
      /\ upCall \in [{"main"} -> [op : UpOps, len : Nat]]
      /\ upAt \in [{"main"} -> {"look", "data"}] /\ upGot \in [{"main"} -> Seq(Nat)]
  BY <1>1 DEF UpTyped
<1>3. upArrived \in Nat /\ upArrived <= UartBytes
  BY <1>2, UpLimits
<1>4. upGot["main"] \in Seq(Nat) /\ upCall["main"] \in [op : UpOps, len : Nat]
  BY <1>2
<1>5. upCall["main"].len \in Nat /\ Len(upGot["main"]) \in Nat
  BY <1>4, LenProperties
<1>6. UartLast \in Nat
  BY <1>1, UpLastByte, UpLimits
<1>. QED
  BY <1>1, <1>2, <1>3, <1>4, <1>5, <1>6

\* The constructor's progress is a matter of these three.
LEMMA UpBuildStays ==
    ASSUME UpBuilding, UNCHANGED <<upTodo, upAsked, upRegs>>
    PROVE  UpBuilding'
<1>1. /\ UpChosen' = UpChosen /\ UpLow' = UpLow /\ UpHigh' = UpHigh /\ UpFrac' = UpFrac
      /\ LowSet' = LowSet /\ HighSet' = HighSet /\ FracSet' = FracSet
      /\ DivOn' = DivOn /\ DivOff' = DivOff /\ FifoReset' = FifoReset
  BY UpSameRate
<1>2. upTodo' = upTodo /\ upAsked' = upAsked /\ upRegs' = upRegs
  OBVIOUS
<1>. QED
  BY <1>1, <1>2, Zenon DEF UpBuilding, UpLatch

LEMMA UpStarts == UartContexts = {"main"} /\ UpInit => UpInv
<1>. SUFFICES ASSUME UartContexts = {"main"}, UpInit PROVE UpInv
  OBVIOUS
<1>1. /\ upTodo = <<>> /\ upAsked = [clock |-> "none", baud |-> 0]
      /\ upTx = <<>> /\ upShift = <<>> /\ upLine = <<>> /\ upWritten = <<>>
      /\ upRx = <<>> /\ upSeen = FALSE /\ upArrived = 0
      /\ upCall = [c \in UartContexts |-> NoUartCall] /\ upAt = [c \in UartContexts |-> "look"]
      /\ upGot = [c \in UartContexts |-> <<>>]
  BY Zenon DEF UpInit
<1>2. upRegs \in [UpRegisters -> Nat]
  <2>1. PICK S : S = UpRegisters
    OBVIOUS
  <2>2. upRegs = [x \in S |-> 0]
    BY <2>1, Zenon DEF UpInit, UpRegisters
  <2>3. upRegs \in [S -> Nat]
    BY <2>2
  <2>. QED  BY <2>1, <2>3, Zenon
<1>3. <<>> \in Seq(UpNumbers) /\ <<>> \in Seq(Nat) /\ 0 \in 0..UartBytes
  BY UpLimits
<1>4. /\ [c \in UartContexts |-> NoUartCall] \in [UartContexts -> [op : UpOps, len : Nat]]
      /\ [c \in UartContexts |-> "look"] \in [UartContexts -> {"look", "data"}]
      /\ [c \in UartContexts |-> <<>>] \in [UartContexts -> Seq(Nat)]
  BY <1>3 DEF NoUartCall, UpOps
<1>5. [clock |-> "none", baud |-> 0] \in [clock : {"none", "pll", "boot"}, baud : UartBauds \cup {0}]
  OBVIOUS
<1>6. UpTyped
  BY <1>1, <1>2, <1>3, <1>4, <1>5, Zenon DEF UpTyped
<1>7. UpBuilding
  <2>1. upAsked.clock = "none"
    BY <1>1
  <2>. QED  BY <1>1, <2>1, Zenon DEF UpBuilding
<1>8. Len(<<>>) = 0 /\ 1..0 = {} /\ 2..0 = {} /\ (<<>> \o <<>>) \o <<>> = <<>>
  OBVIOUS
<1>9. UpBytes
  BY <1>1, <1>8, UpLimits DEF UpBytes, UartInOrder
<1>10. upGot["main"] = <<>> /\ upCall["main"] = NoUartCall /\ upAt["main"] = "look"
  BY <1>1
<1>11. UpRead
  BY <1>1, <1>8, <1>10, UpLimits DEF UpRead, InTurn
<1>12. UpCalls
  BY <1>1, <1>8, <1>10, UpLimits DEF UpCalls, NoUartCall
<1>. QED
  BY <1>6, <1>7, <1>9, <1>11, <1>12 DEF UpInv

\* A driver is made.
LEMMA UpNewKeeps ==
    ASSUME UpInv, UartContexts = {"main"}, NewUart
    PROVE  UpInv'
<1>t. UpTyped /\ UpBuilding /\ UpBytes /\ UpRead /\ UpCalls
  BY DEF UpInv
<1>1. PICK baud \in {b \in UartBauds : try_new(b)}, clock \in {"pll", "boot"} :
         upAsked' = [clock |-> clock, baud |-> baud]
  BY Zenon DEF NewUart
<1>2. /\ upTodo = <<>> /\ upCall["main"].op = "none"
      /\ upTodo' = configure_uart(upAsked')
      /\ UNCHANGED <<upRegs, upTx, upShift, upLine, upWritten, upRx, upSeen, upArrived, upCall, upAt,
                     upGot>>
  BY Zenon DEF NewUart, upLink, upIn
<1>3. baud \in UartBauds /\ try_new(baud) /\ clock # "none" /\ clock \in {"none", "pll", "boot"}
  OBVIOUS
<1>4. /\ upAsked' \in [clock : {"none", "pll", "boot"}, baud : UartBauds \cup {0}]
      /\ upAsked'.clock # "none" /\ upAsked'.baud = baud
  BY <1>1, <1>3
<1>5. UpChosen'
  BY <1>3, <1>4, Zenon DEF UpChosen, try_new, Div64
<1>6. upTodo' = <<DivOn', LowSet', HighSet', FracSet', DivOff', FifoReset'>>
  BY <1>2, Zenon DEF configure_uart, DivOn, LowSet, HighSet, FracSet, DivOff, FifoReset, UpLow,
     UpHigh, UpFrac, UpDiv, UpDiv64
<1>7. UpBuilding'
  BY <1>5, <1>6, Zenon DEF UpBuilding
<1>8. UpTyped'
  BY <1>t, <1>2, <1>4, Zenon DEF UpTyped
<1>9. UpBytes' /\ UpRead'
  BY <1>t, <1>2 DEF UpBytes, UpRead, UartInOrder
<1>10. UpCalls'
  <2>1. UartLast' = UartLast
    BY <1>2 DEF UartLast
  <2>. QED  BY <1>t, <1>2, <2>1 DEF UpCalls
<1>. QED
  BY <1>7, <1>8, <1>9, <1>10 DEF UpInv

\* The constructor writes a register, or empties the FIFOs.
LEMMA UpWriteKeeps ==
    ASSUME UpInv, UartContexts = {"main"}, UartWrite
    PROVE  UpInv'
<1>t. UpTyped /\ UpBuilding /\ UpBytes /\ UpRead /\ UpCalls
  BY DEF UpInv
<1>1. /\ upTodo # <<>>
      /\ \/ /\ upTx' = <<>> /\ upRx' = <<>> /\ upSeen' = FALSE
            /\ upWritten' = upShift /\ upLine' = <<>>
         \/ UNCHANGED <<upTx, upRx, upSeen, upWritten, upLine>>
      /\ UNCHANGED <<upShift, upArrived, upCall, upAt, upGot>>
  BY Zenon DEF UartWrite
<1>2. UpBuilding' /\ upRegs' \in [UpRegisters -> Nat] /\ upAsked' = upAsked
  BY <1>t, UpBuildKeeps
<1>3. upCall["main"].op = "none"
  BY <1>t, <1>1 DEF UpCalls
<1>4. UpCalls'
  BY <1>t, <1>1, <1>3 DEF UpCalls
<1>p. /\ upShift \in Seq(UpNumbers) /\ upRx \in Seq(Nat) /\ upArrived \in Nat
      /\ upGot["main"] \in Seq(Nat)
  BY UpParts
<1>0. <<>> \in Seq(UpNumbers) /\ <<>> \in Seq(Nat) /\ Len(<<>>) = 0
  OBVIOUS
<1>5. UpTyped'
  <2>1. /\ upTx' \in Seq(UpNumbers) /\ upWritten' \in Seq(UpNumbers) /\ upLine' \in Seq(UpNumbers)
        /\ upRx' \in Seq(Nat) /\ upSeen' \in BOOLEAN
    <3>1. /\ upTx \in Seq(UpNumbers) /\ upWritten \in Seq(UpNumbers) /\ upLine \in Seq(UpNumbers)
          /\ upSeen \in BOOLEAN
      BY <1>t, Zenon DEF UpTyped
    <3>. QED  BY <1>0, <1>1, <1>p, <3>1
  <2>. QED  BY <1>t, <1>1, <1>2, <2>1, Zenon DEF UpTyped
<1>6. UpRead'
  <2>1. InTurn(upGot["main"], <<>>, upArrived)
    BY <1>t, <1>p, NoneInTurn DEF UpRead
  <2>2. UartDepth >= 0
    BY UpLimits
  <2>3. upRx' = <<>> \/ upRx' = upRx
    BY <1>1
  <2>4. upGot'["main"] = upGot["main"] /\ upArrived' = upArrived
    BY <1>1
  <2>5. CASE upRx' = <<>>
    <3>1. Len(upRx') <= UartDepth
      BY <1>0, <2>2, <2>5
    <3>. QED  BY <2>1, <2>4, <2>5, <3>1, Zenon DEF UpRead
  <2>6. CASE upRx' = upRx
    BY <1>t, <2>4, <2>6, Zenon DEF UpRead
  <2>. QED  BY <2>3, <2>5, <2>6
<1>7. UpBytes'
  <2>1. CASE UNCHANGED <<upTx, upRx, upSeen, upWritten, upLine>>
    BY <1>t, <1>1, <2>1 DEF UpBytes, UartInOrder
  <2>2. CASE upTx' = <<>> /\ upWritten' = upShift /\ upLine' = <<>>
    <3>1. (<<>> \o upShift) \o <<>> = upShift
      BY <1>p, ConcatEmptySeq
    <3>2. Len(upShift) <= 1 /\ Len(upShift) \in Nat /\ UartDepth >= 0
      BY <1>t, <1>p, LenProperties, UpLimits DEF UpBytes
    <3>3. \A k \in 1..Len(upShift) : upShift[k] >= k
      <4>. SUFFICES ASSUME NEW k \in 1..Len(upShift) PROVE upShift[k] >= k
        OBVIOUS
      <4>1. k = 1
        BY <3>2
      <4>2. upShift[k] \in UpNumbers
        BY <1>p, ElementOfSeq
      <4>. QED  BY <4>1, <4>2, UpLimits DEF UpNumbers
    <3>. QED  BY <1>0, <1>1, <2>2, <3>1, <3>2, <3>3 DEF UpBytes, UartInOrder
  <2>. QED  BY <1>1, <2>1, <2>2
<1>. QED
  BY <1>2, <1>4, <1>5, <1>6, <1>7 DEF UpInv

\* A call begins.
LEMMA UpCallKeeps ==
    ASSUME UpInv, UartContexts = {"main"}, UartCall("main")
    PROVE  UpInv'
<1>t. UpTyped /\ UpBuilding /\ UpBytes /\ UpRead /\ UpCalls
  BY DEF UpInv
<1>p. /\ upCall \in [{"main"} -> [op : UpOps, len : Nat]] /\ upGot \in [{"main"} -> Seq(Nat)]
      /\ upRx \in Seq(Nat) /\ upArrived \in Nat /\ upGot["main"] \in Seq(Nat) /\ UartLast \in Nat
  BY UpParts
<1>1. PICK op \in {"write", "read", "flush"}, len \in 1..2 :
         /\ op = "write" => UartLast + len <= UartBytes
         /\ upCall' = [upCall EXCEPT !["main"] = [op |-> op, len |-> len]]
  BY DEF UartCall
<1>2. /\ upCall["main"].op = "none" /\ upTodo = <<>>
      /\ upGot' = [upGot EXCEPT !["main"] = <<>>]
      /\ UNCHANGED <<upTodo, upAsked, upRegs, upTx, upShift, upLine, upWritten, upRx, upSeen,
                     upArrived, upAt>>
  BY DEF UartCall, UartRuns, UartBuilt, upBuild, upLink, upIn
<1>3. /\ upCall'["main"] = [op |-> op, len |-> len] /\ upGot'["main"] = <<>>
      /\ upCall' \in [{"main"} -> [op : UpOps, len : Nat]] /\ upGot' \in [{"main"} -> Seq(Nat)]
  <2>1. [op |-> op, len |-> len] \in [op : UpOps, len : Nat] /\ <<>> \in Seq(Nat)
    BY DEF UpOps
  <2>. QED  BY <1>p, <1>1, <1>2, <2>1
<1>4. UpTyped'
  BY <1>t, <1>2, <1>3 DEF UpTyped
<1>5. UpBuilding'
  BY <1>t, <1>2, UpBuildStays
<1>6. UpBytes'
  BY <1>t, <1>2 DEF UpBytes, UartInOrder
<1>7. UpRead'
  <2>1. InTurn(<<>>, upRx, upArrived)
    BY <1>t, <1>p, NoneInTurn DEF UpRead
  <2>. QED  BY <1>t, <1>2, <1>3, <2>1 DEF UpRead
<1>8. UpCalls'
  <2>1. UartLast' = UartLast
    BY <1>2 DEF UartLast
  <2>2. upAt'["main"] = "look"
    BY <1>t, <1>2 DEF UpCalls
  <2>3. Len(<<>>) = 0 /\ op # "none" /\ len \in Nat /\ len >= 1 /\ 0 + len <= 2
    OBVIOUS
  <2>. QED  BY <1>1, <1>2, <1>3, <2>1, <2>2, <2>3 DEF UpCalls
<1>. QED
  BY <1>4, <1>5, <1>6, <1>7, <1>8 DEF UpInv

\* A call looks at a status, or is done with it.
LEMMA UpLookKeeps ==
    ASSUME UpInv, UartContexts = {"main"}, WriteLook("main") \/ ReadLook("main") \/ Flush("main")
    PROVE  UpInv'
<1>p. /\ UpTyped /\ UpBuilding /\ UpBytes /\ UpRead /\ UpCalls
      /\ upCall \in [{"main"} -> [op : UpOps, len : Nat]]
      /\ upAt \in [{"main"} -> {"look", "data"}] /\ Len(upGot["main"]) \in Nat
      /\ upCall["main"].len \in Nat /\ UartLast \in Nat
  BY UpParts
<1>1. UNCHANGED <<upTodo, upAsked, upRegs, upTx, upShift, upLine, upWritten, upRx, upSeen, upArrived,
                  upGot>>
  BY DEF WriteLook, ReadLook, Flush, upBuild, upLink, upIn
<1>2. \/ /\ upCall["main"].op = "write" /\ Len(upTx) < UartDepth /\ upCall' = upCall
         /\ upAt' = [upAt EXCEPT !["main"] = "data"]
      \/ /\ upCall["main"].op = "read" /\ upRx # <<>> /\ upCall' = upCall
         /\ upAt' = [upAt EXCEPT !["main"] = "data"]
      \/ /\ upCall["main"].op \in {"read", "flush"} /\ upAt["main"] = "look"
         /\ upCall' = [upCall EXCEPT !["main"] = NoUartCall] /\ upAt' = upAt
  <2>1. WriteLook("main") =>
          /\ upCall["main"].op = "write" /\ Len(upTx) < UartDepth /\ upCall' = upCall
          /\ upAt' = [upAt EXCEPT !["main"] = "data"]
    BY DEF WriteLook, UartGo
  <2>2. ReadLook("main") =>
          \/ /\ upCall["main"].op = "read" /\ upRx # <<>> /\ upCall' = upCall
             /\ upAt' = [upAt EXCEPT !["main"] = "data"]
          \/ /\ upCall["main"].op = "read" /\ upAt["main"] = "look"
             /\ upCall' = [upCall EXCEPT !["main"] = NoUartCall] /\ upAt' = upAt
    BY DEF ReadLook, UartGo, UartReturn, RxReady
  <2>3. Flush("main") =>
          /\ upCall["main"].op = "flush"
          /\ upCall' = [upCall EXCEPT !["main"] = NoUartCall] /\ upAt' = upAt
    BY DEF Flush, UartReturn
  <2>4. upCall["main"].op = "flush" => upAt["main"] = "look"
    BY <1>p DEF UpCalls
  <2>. QED  BY <2>1, <2>2, <2>3, <2>4
<1>3. NoUartCall \in [op : UpOps, len : Nat] /\ NoUartCall.op = "none" /\ NoUartCall.len = 0
  BY DEF NoUartCall, UpOps
<1>4. upCall' \in [{"main"} -> [op : UpOps, len : Nat]] /\ upAt' \in [{"main"} -> {"look", "data"}]
  BY <1>p, <1>2, <1>3
<1>5. UpTyped'
  BY <1>p, <1>1, <1>4 DEF UpTyped
<1>6. UpBuilding'
  BY <1>p, <1>1, UpBuildStays
<1>7. UpBytes' /\ UpRead'
  BY <1>p, <1>1 DEF UpBytes, UpRead, UartInOrder
<1>8. UpCalls'
  <2>1. UartLast' = UartLast
    BY <1>1 DEF UartLast
  <2>2. CASE /\ upCall["main"].op = "write" /\ Len(upTx) < UartDepth /\ upCall' = upCall
             /\ upAt' = [upAt EXCEPT !["main"] = "data"]
    BY <1>p, <1>1, <2>1, <2>2 DEF UpCalls
  <2>3. CASE /\ upCall["main"].op = "read" /\ upRx # <<>> /\ upCall' = upCall
             /\ upAt' = [upAt EXCEPT !["main"] = "data"]
    BY <1>p, <1>1, <2>1, <2>3 DEF UpCalls
  <2>4. CASE /\ upAt["main"] = "look"
             /\ upCall' = [upCall EXCEPT !["main"] = NoUartCall] /\ upAt' = upAt
    <3>1. upCall'["main"] = NoUartCall
      BY <1>p, <2>4
    <3>2. Len(upGot["main"]) + 0 <= 2
      BY <1>p DEF UpCalls
    <3>. QED  BY <1>1, <1>3, <2>4, <3>1, <3>2 DEF UpCalls
  <2>. QED  BY <1>2, <2>2, <2>3, <2>4
<1>. QED
  BY <1>5, <1>6, <1>7, <1>8 DEF UpInv

\* What is left of a call of which one byte is done.
LEMMA OneByteLess ==
    ASSUME upCall \in [{"main"} -> [op : UpOps, len : Nat]], UartLess("main"),
           upCall["main"].len >= 1
    PROVE  /\ upCall' \in [{"main"} -> [op : UpOps, len : Nat]]
           /\ upCall'["main"].len = upCall["main"].len - 1
           /\ \/ upCall'["main"].op = "none"
              \/ upCall'["main"].op = upCall["main"].op /\ upCall'["main"].len >= 1
<1>1. upCall["main"].len \in Nat
  OBVIOUS
<1>2. CASE upCall["main"].len = 1
  <2>1. upCall' = [upCall EXCEPT !["main"] = NoUartCall]
    BY <1>2 DEF UartLess, UartReturn
  <2>2. NoUartCall \in [op : UpOps, len : Nat] /\ NoUartCall.op = "none" /\ NoUartCall.len = 0
    BY DEF NoUartCall, UpOps
  <2>. QED  BY <1>2, <2>1, <2>2
<1>3. CASE upCall["main"].len # 1
  <2>1. upCall' = [upCall EXCEPT !["main"].len = upCall["main"].len - 1]
    BY <1>3 DEF UartLess
  <2>2. upCall["main"].len - 1 \in Nat /\ upCall["main"].len - 1 >= 1
    BY <1>1, <1>3
  <2>. QED  BY <2>1, <2>2
<1>. QED
  BY <1>2, <1>3

\* A byte is written: there is room, from the look on.
LEMMA UpWriteDataKeeps ==
    ASSUME UpInv, UartContexts = {"main"}, WriteData("main")
    PROVE  UpInv'
<1>p. /\ UpTyped /\ UpBuilding /\ UpBytes /\ UpRead /\ UpCalls
      /\ upTx \in Seq(UpNumbers) /\ upShift \in Seq(UpNumbers)
      /\ upLine \in Seq(UpNumbers) /\ upWritten \in Seq(UpNumbers)
      /\ upCall \in [{"main"} -> [op : UpOps, len : Nat]]
      /\ upAt \in [{"main"} -> {"look", "data"}] /\ Len(upGot["main"]) \in Nat
      /\ upCall["main"].len \in Nat /\ UartLast \in Nat
  BY UpParts
<1>1. PICK byte : byte = UartLast + 1
  OBVIOUS
<1>2. /\ upCall["main"].op = "write" /\ upAt["main"] = "data"
      /\ upWritten' = Append(upWritten, byte)
      /\ upTx' = IF Len(upTx) < UartDepth THEN Append(upTx, byte) ELSE upTx
      /\ upAt' = [upAt EXCEPT !["main"] = "look"] /\ UartLess("main")
      /\ UNCHANGED <<upTodo, upAsked, upRegs, upShift, upLine, upRx, upSeen, upArrived, upGot>>
  BY <1>1 DEF WriteData, UartGo, upBuild, upIn
<1>3. /\ Len(upTx) < UartDepth /\ upCall["main"].len >= 1 /\ upTodo = <<>>
      /\ UartLast + upCall["main"].len <= UartBytes
      /\ Len(upGot["main"]) + upCall["main"].len <= 2
  BY <1>p, <1>2 DEF UpCalls
<1>4. byte \in UpNumbers /\ byte \in Nat /\ byte >= Len(upWritten) + 1
  <2>1. UartLast >= Len(upWritten) /\ Len(upWritten) \in Nat
    BY <1>p, UpLastByte
  <2>. QED  BY <1>p, <1>1, <1>3, <2>1, UpLimits DEF UpNumbers
<1>5. upTx' = Append(upTx, byte)
  BY <1>2, <1>3
<1>6. /\ Append(upTx, byte) \in Seq(UpNumbers) /\ Len(Append(upTx, byte)) = Len(upTx) + 1
      /\ Append(upWritten, byte) \in Seq(UpNumbers)
      /\ Len(Append(upWritten, byte)) = Len(upWritten) + 1
      /\ \A i \in 1..Len(upWritten) : Append(upWritten, byte)[i] = upWritten[i]
      /\ Append(upWritten, byte)[Len(upWritten) + 1] = byte
  BY <1>p, <1>4, OneAfter
<1>7. /\ upCall' \in [{"main"} -> [op : UpOps, len : Nat]]
      /\ upCall'["main"].len = upCall["main"].len - 1
      /\ \/ upCall'["main"].op = "none"
         \/ upCall'["main"].op = upCall["main"].op /\ upCall'["main"].len >= 1
  BY <1>p, <1>2, <1>3, OneByteLess
<1>8. upAt' \in [{"main"} -> {"look", "data"}] /\ upAt'["main"] = "look"
  BY <1>p, <1>2
<1>9. UpTyped'
  <2>1. upTx' \in Seq(UpNumbers) /\ upWritten' \in Seq(UpNumbers)
    BY <1>2, <1>5, <1>6
  <2>. QED  BY <1>p, <1>2, <1>7, <1>8, <2>1 DEF UpTyped
<1>10. UpBuilding'
  BY <1>p, <1>2, UpBuildStays
<1>11. UpBytes'
  <2>1. (upLine \o upShift) \o Append(upTx, byte) = Append((upLine \o upShift) \o upTx, byte)
    <3>1. PICK s, t : s = upLine \o upShift /\ t = upTx
      OBVIOUS
    <3>2. s \in Seq(UpNumbers) /\ t \in Seq(UpNumbers) /\ <<byte>> \in Seq(UpNumbers)
      BY <1>p, <1>4, <3>1, ConcatProperties
    <3>3. Append(t, byte) = t \o <<byte>> /\ s \o t \in Seq(UpNumbers)
      BY <1>4, <3>2, AppendIsConcat, ConcatProperties
    <3>4. Append(s \o t, byte) = (s \o t) \o <<byte>>
      BY <1>4, <3>3, AppendIsConcat
    <3>5. s \o (t \o <<byte>>) = (s \o t) \o <<byte>>
      BY <3>2, ConcatAssociative
    <3>. QED  BY <3>1, <3>3, <3>4, <3>5, Zenon
  <2>2. UartInOrder'
    <3>1. (upLine \o upShift) \o upTx = upWritten
      BY <1>p DEF UpBytes, UartInOrder
    <3>2. /\ upLine' = upLine /\ upShift' = upShift /\ upTx' = Append(upTx, byte)
          /\ upWritten' = Append(upWritten, byte)
      BY <1>2, <1>5
    <3>. QED  BY <2>1, <3>1, <3>2, Zenon DEF UartInOrder
  <2>3. Len(upTx') <= UartDepth
    <3>1. Len(upTx) \in Nat
      BY <1>p, LenProperties
    <3>. QED  BY <1>3, <1>5, <1>6, <3>1, UpLimits
  <2>4. \A k \in 1..Len(upWritten') : upWritten'[k] >= k
    <3>1. PICK n, w, new : n \in Nat /\ n = Len(upWritten) /\ w = upWritten /\ new = upWritten'
      BY <1>p, LenProperties
    <3>2. /\ Len(new) = n + 1 /\ \A i \in 1..n : new[i] = w[i]
          /\ new[n + 1] = byte /\ byte >= n + 1
      BY <1>2, <1>4, <1>6, <3>1, Zenon
    <3>3. \A i \in 1..n : w[i] >= i
      BY <1>p, <3>1 DEF UpBytes
    <3>4. \A k \in 1..(n + 1) : k \in 1..n \/ k = n + 1
      BY <3>1
    <3>5. \A k \in 1..(n + 1) : new[k] >= k
      BY <1>4, <3>2, <3>3, <3>4
    <3>. QED  BY <3>1, <3>2, <3>5
  <2>5. Len(upShift') <= 1
    BY <1>p, <1>2 DEF UpBytes
  <2>. QED  BY <2>2, <2>3, <2>4, <2>5 DEF UpBytes
<1>12. UpRead'
  BY <1>p, <1>2 DEF UpRead
<1>13. UpCalls'
  <2>1. UartLast' = byte
    <3>1. PICK n, new : n \in Nat /\ n = Len(upWritten) /\ new = upWritten'
      BY <1>p, LenProperties
    <3>2. new \in Seq(UpNumbers) /\ Len(new) = n + 1 /\ new[n + 1] = byte
      BY <1>2, <1>6, <3>1
    <3>3. new # <<>>
      <4>1. n + 1 # 0
        BY <3>1
      <4>. QED  BY <3>2, <4>1, NothingYet
    <3>. QED  BY <3>1, <3>2, <3>3 DEF UartLast, Last
  <2>2. PICK l, g : l = upCall["main"].len /\ g = Len(upGot["main"])
    OBVIOUS
  <2>3. /\ g + (l - 1) <= 2 /\ byte + (l - 1) <= UartBytes
    BY <1>p, <1>1, <1>3, <2>2, UpLimits
  <2>4. upGot' = upGot /\ upTodo' = <<>> /\ upCall'["main"].op \in {"none", "write"}
    BY <1>2, <1>3, <1>7
  <2>. QED  BY <1>7, <1>8, <2>1, <2>2, <2>3, <2>4 DEF UpCalls
<1>. QED
  BY <1>9, <1>10, <1>11, <1>12, <1>13 DEF UpInv

\* A byte is read: there is one, from the look on.
LEMMA UpReadDataKeeps ==
    ASSUME UpInv, UartContexts = {"main"}, ReadData("main")
    PROVE  UpInv'
<1>p. /\ UpTyped /\ UpBuilding /\ UpBytes /\ UpRead /\ UpCalls
      /\ upCall \in [{"main"} -> [op : UpOps, len : Nat]] /\ upGot \in [{"main"} -> Seq(Nat)]
      /\ upAt \in [{"main"} -> {"look", "data"}] /\ Len(upGot["main"]) \in Nat
      /\ upCall["main"].len \in Nat /\ UartLast \in Nat /\ upRx \in Seq(Nat)
      /\ upGot["main"] \in Seq(Nat) /\ upArrived \in Nat
  BY UpParts
<1>1. /\ upCall["main"].op = "read" /\ upAt["main"] = "data"
      /\ upGot' = [upGot EXCEPT !["main"] = Append(upGot["main"],
                                                   IF upRx = <<>> THEN upArrived ELSE Head(upRx))]
      /\ upRx' = IF upRx = <<>> THEN <<>> ELSE Tail(upRx)
      /\ upSeen' \in {upSeen, upRx' # <<>>}
      /\ upAt' = [upAt EXCEPT !["main"] = "look"] /\ UartLess("main")
      /\ UNCHANGED <<upTodo, upAsked, upRegs, upTx, upShift, upLine, upWritten, upArrived>>
  BY DEF ReadData, UartGo, upBuild, upLink
<1>2. /\ upRx # <<>> /\ upCall["main"].len >= 1 /\ upTodo = <<>>
      /\ Len(upGot["main"]) + upCall["main"].len <= 2
  BY <1>p, <1>1 DEF UpCalls
<1>3. PICK got, rx : got = upGot["main"] /\ rx = upRx
  OBVIOUS
<1>4. got \in Seq(Nat) /\ rx \in Seq(Nat) /\ rx # <<>> /\ InTurn(got, rx, upArrived)
  BY <1>p, <1>2, <1>3 DEF UpRead
<1>5. /\ Append(got, Head(rx)) \in Seq(Nat) /\ Tail(rx) \in Seq(Nat)
      /\ Len(Tail(rx)) = Len(rx) - 1 /\ Len(Append(got, Head(rx))) = Len(got) + 1
      /\ InTurn(Append(got, Head(rx)), Tail(rx), upArrived)
  BY <1>p, <1>4, NextInTurn
<1>6. upRx' = Tail(rx) /\ upGot'["main"] = Append(got, Head(rx)) /\ upGot' \in [{"main"} -> Seq(Nat)]
  <2>1. upGot' = [upGot EXCEPT !["main"] = Append(got, Head(rx))]
    BY <1>1, <1>2, <1>3
  <2>2. upRx' = Tail(rx)
    BY <1>1, <1>2, <1>3
  <2>. QED  BY <1>p, <1>5, <2>1, <2>2
<1>7. /\ upCall' \in [{"main"} -> [op : UpOps, len : Nat]]
      /\ upCall'["main"].len = upCall["main"].len - 1
      /\ \/ upCall'["main"].op = "none"
         \/ upCall'["main"].op = upCall["main"].op /\ upCall'["main"].len >= 1
  BY <1>p, <1>1, <1>2, OneByteLess
<1>8. upAt' \in [{"main"} -> {"look", "data"}] /\ upAt'["main"] = "look"
  BY <1>p, <1>1
<1>9. UpTyped'
  <2>1. upSeen' \in BOOLEAN
    <3>1. upSeen \in BOOLEAN
      BY <1>p DEF UpTyped
    <3>2. upSeen' = upSeen \/ upSeen' = (upRx' # <<>>)
      BY <1>1
    <3>. QED  BY <3>1, <3>2, Zenon
  <2>2. upRx' \in Seq(Nat)
    BY <1>5, <1>6
  <2>. QED  BY <1>p, <1>1, <1>6, <1>7, <1>8, <2>1, <2>2 DEF UpTyped
<1>10. UpBuilding'
  BY <1>p, <1>1, UpBuildStays
<1>11. UpBytes'
  BY <1>p, <1>1 DEF UpBytes, UartInOrder
<1>12. UpRead'
  <2>1. Len(upRx') <= UartDepth
    <3>1. Len(rx) <= UartDepth /\ Len(rx) \in Nat
      BY <1>p, <1>3, LenProperties DEF UpRead
    <3>. QED  BY <1>5, <1>6, <3>1, UpLimits
  <2>2. InTurn(upGot'["main"], upRx', upArrived')
    BY <1>1, <1>5, <1>6
  <2>. QED  BY <2>1, <2>2 DEF UpRead
<1>13. UpCalls'
  <2>1. PICK l, g : l = upCall["main"].len /\ g = Len(upGot["main"])
    OBVIOUS
  <2>2. (g + 1) + (l - 1) <= 2
    BY <1>p, <1>2, <2>1
  <2>3. Len(upGot'["main"]) = g + 1
    BY <1>3, <1>5, <1>6, <2>1
  <2>4. upTodo' = <<>> /\ upCall'["main"].op \in {"none", "read"}
    BY <1>1, <1>2, <1>7
  <2>. QED  BY <1>7, <1>8, <2>1, <2>2, <2>3, <2>4 DEF UpCalls
<1>. QED
  BY <1>9, <1>10, <1>11, <1>12, <1>13 DEF UpInv

\* The line takes a byte out of the FIFO, or carries it.
LEMMA UpSendKeeps ==
    ASSUME UpInv, UartContexts = {"main"}, StartByte \/ ByteSent
    PROVE  UpInv'
<1>p. /\ UpTyped /\ UpBuilding /\ UpBytes /\ UpRead /\ UpCalls
      /\ upTx \in Seq(UpNumbers) /\ upShift \in Seq(UpNumbers)
      /\ upLine \in Seq(UpNumbers) /\ upWritten \in Seq(UpNumbers)
  BY UpParts
<1>1. /\ \/ /\ upShift = <<>> /\ upTx # <<>>
            /\ upShift' = <<Head(upTx)>> /\ upTx' = Tail(upTx) /\ upLine' = upLine
         \/ upLine' = upLine \o upShift /\ upShift' = <<>> /\ upTx' = upTx
      /\ UNCHANGED <<upTodo, upAsked, upRegs, upWritten, upRx, upSeen, upArrived, upCall, upAt, upGot>>
  <2>1. StartByte =>
          /\ upShift = <<>> /\ upTx # <<>>
          /\ upShift' = <<Head(upTx)>> /\ upTx' = Tail(upTx) /\ upLine' = upLine
          /\ UNCHANGED <<upBuild, upWritten, upIn, upCall, upAt, upGot>>
    BY Zenon DEF StartByte
  <2>2. ByteSent =>
          /\ upLine' = upLine \o upShift /\ upShift' = <<>> /\ upTx' = upTx
          /\ UNCHANGED <<upBuild, upWritten, upIn, upCall, upAt, upGot>>
    BY Zenon DEF ByteSent
  <2>. QED  BY <2>1, <2>2 DEF upBuild, upIn
<1>2. /\ upLine' \in Seq(UpNumbers) /\ upShift' \in Seq(UpNumbers) /\ upTx' \in Seq(UpNumbers)
      /\ Len(upTx') <= UartDepth /\ Len(upShift') <= 1
      /\ (upLine' \o upShift') \o upTx' = upWritten
  <2>0. Len(upTx) <= UartDepth /\ (upLine \o upShift) \o upTx = upWritten
    BY <1>p DEF UpBytes, UartInOrder
  <2>1. CASE /\ upShift = <<>> /\ upTx # <<>>
             /\ upShift' = <<Head(upTx)>> /\ upTx' = Tail(upTx) /\ upLine' = upLine
    <3>1. /\ Head(upTx) = upTx[1] /\ upTx[1] \in UpNumbers /\ Tail(upTx) \in Seq(UpNumbers)
          /\ Len(Tail(upTx)) = Len(upTx) - 1 /\ Len(upTx) \in Nat
      BY <1>p, <2>1, OneLess
    <3>2. <<Head(upTx)>> \in Seq(UpNumbers) /\ Len(<<Head(upTx)>>) = 1
      BY <3>1
    <3>3. upTx = <<Head(upTx)>> \o Tail(upTx)
      BY <1>p, <2>1, HeadTailProperties, EmptySeq
    <3>4. (upLine \o <<Head(upTx)>>) \o Tail(upTx) = upLine \o (<<Head(upTx)>> \o Tail(upTx))
      BY <1>p, <3>1, <3>2, ConcatAssociative
    <3>5. upLine \o <<>> = upLine
      BY <1>p, ConcatEmptySeq
    <3>6. Len(upTx') <= UartDepth
      BY <2>0, <2>1, <3>1, UpLimits
    <3>7. (upLine' \o upShift') \o upTx' = upWritten
      BY <2>0, <2>1, <3>3, <3>4, <3>5, Zenon
    <3>. QED  BY <1>p, <2>1, <3>1, <3>2, <3>6, <3>7
  <2>2. CASE upLine' = upLine \o upShift /\ upShift' = <<>> /\ upTx' = upTx
    <3>1. upLine \o upShift \in Seq(UpNumbers)
      BY <1>p, ConcatProperties
    <3>2. (upLine \o upShift) \o <<>> = upLine \o upShift
      BY <3>1, ConcatEmptySeq
    <3>3. (upLine' \o upShift') \o upTx' = upWritten
      BY <2>0, <2>2, <3>2, Zenon
    <3>. QED  BY <1>p, <2>0, <2>2, <3>1, <3>3
  <2>. QED  BY <1>1, <2>1, <2>2
<1>3. UpTyped'
  BY <1>p, <1>1, <1>2 DEF UpTyped
<1>4. UpBuilding'
  BY <1>p, <1>1, UpBuildStays
<1>5. UpBytes'
  BY <1>p, <1>1, <1>2 DEF UpBytes, UartInOrder
<1>6. UpRead'
  BY <1>p, <1>1 DEF UpRead
<1>7. UpCalls'
  <2>1. UartLast' = UartLast
    BY <1>1 DEF UartLast
  <2>2. Len(upTx) < UartDepth => Len(upTx') < UartDepth
    <3>1. upTx' = upTx \/ (upTx # <<>> /\ upTx' = Tail(upTx))
      BY <1>1
    <3>2. upTx # <<>> => Len(Tail(upTx)) = Len(upTx) - 1 /\ Len(upTx) \in Nat
      BY <1>p, OneLess
    <3>. QED  BY <3>1, <3>2, UpLimits
  <2>. QED  BY <1>p, <1>1, <2>1, <2>2 DEF UpCalls
<1>. QED
  BY <1>3, <1>4, <1>5, <1>6, <1>7 DEF UpInv

\* A byte comes in.
LEMMA UpArriveKeeps ==
    ASSUME UpInv, UartContexts = {"main"}, ByteArrives
    PROVE  UpInv'
<1>p. /\ UpTyped /\ UpBuilding /\ UpBytes /\ UpRead /\ UpCalls
      /\ upRx \in Seq(Nat) /\ upGot["main"] \in Seq(Nat) /\ upArrived \in Nat
  BY UpParts
<1>1. /\ upArrived < UartBytes /\ upArrived' = upArrived + 1
      /\ upRx' = IF Len(upRx) < UartDepth THEN Append(upRx, upArrived + 1) ELSE upRx
      /\ upSeen' = TRUE
      /\ UNCHANGED <<upBuild, upLink, upCall, upAt, upGot>>
  BY Zenon DEF ByteArrives
<1>2. UNCHANGED <<upTodo, upAsked, upRegs, upTx, upShift, upLine, upWritten, upCall, upAt, upGot>>
  BY <1>1 DEF upBuild, upLink
<1>3. PICK got, rx : got = upGot["main"] /\ rx = upRx
  OBVIOUS
<1>4. got \in Seq(Nat) /\ rx \in Seq(Nat) /\ InTurn(got, rx, upArrived)
  BY <1>p, <1>3 DEF UpRead
<1>5. /\ InTurn(got, rx, upArrived + 1)
      /\ Append(rx, upArrived + 1) \in Seq(Nat) /\ Len(Append(rx, upArrived + 1)) = Len(rx) + 1
      /\ InTurn(got, Append(rx, upArrived + 1), upArrived + 1)
  BY <1>p, <1>4, ArrivesInTurn
<1>6. /\ upRx' \in Seq(Nat) /\ InTurn(got, upRx', upArrived') /\ Len(upRx') <= UartDepth
      /\ rx # <<>> => upRx' # <<>>
  <2>0. Len(rx) \in Nat /\ Len(rx) <= UartDepth
    BY <1>p, <1>3, LenProperties DEF UpRead
  <2>1. CASE Len(rx) < UartDepth
    <3>1. upRx' = Append(rx, upArrived + 1)
      BY <1>1, <1>3, <2>1
    <3>2. Len(rx) + 1 # 0 /\ Len(rx) + 1 <= UartDepth
      BY <2>0, <2>1, UpLimits
    <3>3. upRx' # <<>>
      BY <1>5, <3>1, <3>2, NothingYet
    <3>. QED  BY <1>1, <1>5, <3>1, <3>2, <3>3
  <2>2. CASE ~ (Len(rx) < UartDepth)
    BY <1>1, <1>3, <1>4, <1>5, <2>0, <2>2
  <2>. QED  BY <2>1, <2>2
<1>7. UpTyped'
  <2>1. upArrived' \in 0..UartBytes
    BY <1>p, <1>1, UpLimits
  <2>. QED  BY <1>p, <1>1, <1>2, <1>6, <2>1 DEF UpTyped
<1>8. UpBuilding'
  BY <1>p, <1>2, UpBuildStays
<1>9. UpBytes'
  BY <1>p, <1>2 DEF UpBytes, UartInOrder
<1>10. UpRead'
  <2>1. upGot'["main"] = got
    BY <1>2, <1>3
  <2>. QED  BY <1>6, <2>1, Zenon DEF UpRead
<1>11. UpCalls'
  <2>1. UartLast' = UartLast
    BY <1>2 DEF UartLast
  <2>2. upRx # <<>> => upRx' # <<>>
    BY <1>3, <1>6
  <2>. QED  BY <1>p, <1>2, <2>1, <2>2 DEF UpCalls
<1>. QED
  BY <1>7, <1>8, <1>9, <1>10, <1>11 DEF UpInv

LEMMA UpStepKeeps == UartContexts = {"main"} /\ UpInv /\ [UpNext]_upVars => UpInv'
<1>. SUFFICES ASSUME UartContexts = {"main"}, UpInv, [UpNext]_upVars PROVE UpInv'
  OBVIOUS
<1>1. CASE NewUart
  BY <1>1, UpNewKeeps
<1>2. CASE UartWrite
  BY <1>2, UpWriteKeeps
<1>3. CASE StartByte \/ ByteSent
  BY <1>3, UpSendKeeps
<1>4. CASE ByteArrives
  BY <1>4, UpArriveKeeps
<1>5. CASE \E c \in UartContexts : UartCall(c) \/ UartStep(c)
  <2>1. UartCall("main") \/ UartStep("main")
    BY <1>5
  <2>. QED
    BY <2>1, UpCallKeeps, UpLookKeeps, UpWriteDataKeeps, UpReadDataKeeps DEF UartStep
<1>6. CASE UNCHANGED upVars
  <2>1. UNCHANGED <<upTodo, upAsked, upRegs, upTx, upShift, upLine, upWritten, upRx, upSeen, upArrived,
                    upCall, upAt, upGot>>
    BY <1>6 DEF upVars, upBuild, upLink, upIn
  <2>2. UpTyped'
    BY <2>1 DEF UpInv, UpTyped
  <2>3. UpBuilding'
    BY <2>1, UpBuildStays DEF UpInv
  <2>4. UpBytes' /\ UpRead'
    BY <2>1 DEF UpInv, UpBytes, UpRead, UartInOrder
  <2>5. UpCalls'
    <3>1. UartLast' = UartLast
      BY <2>1 DEF UartLast
    <3>. QED  BY <2>1, <3>1 DEF UpInv, UpCalls
  <2>. QED  BY <2>2, <2>3, <2>4, <2>5 DEF UpInv
<1>. QED
  BY <1>1, <1>2, <1>3, <1>4, <1>5, <1>6 DEF UpNext

LEMMA UpInvSafe ==
    ASSUME UartContexts = {"main"}, UpInv
    PROVE  UartInOrder /\ UartReadOnce /\ UartAsAsked
<1>1. UartReadOnce
  <2>1. \A k \in 2..Len(upGot["main"]) : upGot["main"][k - 1] < upGot["main"][k]
    BY DEF UpInv, UpRead, InTurn
  <2>. QED  BY <2>1 DEF UartReadOnce
<1>. QED
  BY <1>1, UpBuiltRight DEF UpInv, UpBytes

\* A flush is over only with the FIFO empty.
LEMMA UpFlushStep ==
    ASSUME UartContexts = {"main"}, UpInv, [UpNext]_upVars
    PROVE  [\A c \in UartContexts :
              upCall[c].op = "flush" /\ upCall'[c].op = "none" => Len(upShift' \o upTx') <= 1]_upVars
<1>. SUFFICES ASSUME UpNext, upCall["main"].op = "flush", upCall'["main"].op = "none"
              PROVE  Len(upShift' \o upTx') <= 1
  OBVIOUS
<1>p. /\ UpBytes /\ UpCalls /\ upShift \in Seq(UpNumbers)
      /\ upCall \in [{"main"} -> [op : UpOps, len : Nat]]
  BY UpParts
<1>1. upCall' # upCall
  OBVIOUS
<1>2. upTodo = <<>>
  BY <1>p DEF UpCalls
<1>3. ~ NewUart /\ ~ UartWrite /\ ~ StartByte /\ ~ ByteSent /\ ~ ByteArrives
  BY <1>1, Zenon DEF NewUart, UartWrite, StartByte, ByteSent, ByteArrives
<1>4. UartCall("main") \/ UartStep("main")
  BY <1>3 DEF UpNext
<1>5. Flush("main")
  BY <1>1, <1>4 DEF UartStep, UartCall, WriteLook, WriteData, ReadLook, ReadData
<1>6. upTx' = <<>> /\ upShift' = upShift
  BY <1>5 DEF Flush, FlushDone, upLink
<1>7. upShift \o <<>> = upShift
  BY <1>p, ConcatEmptySeq
<1>. QED
  BY <1>6, <1>7, <1>p DEF UpBytes

LEMMA UpTypes ==
    ASSUME UartContexts = {"main"}, UpInv
    PROVE  UpTypeOK
<1>p. /\ UpTyped /\ UpBuilding /\ UpBytes /\ UpRead /\ UpCalls
      /\ upTx \in Seq(UpNumbers) /\ upShift \in Seq(UpNumbers)
      /\ upLine \in Seq(UpNumbers) /\ upWritten \in Seq(UpNumbers)
      /\ upCall["main"] \in [op : UpOps, len : Nat]
      /\ upAt \in [{"main"} -> {"look", "data"}] /\ Len(upGot["main"]) \in Nat
      /\ upCall["main"].len \in Nat /\ upGot["main"] \in Seq(Nat)
      /\ upArrived \in Nat /\ upArrived <= UartBytes
  BY UpParts
<1>1. Len(upTodo) <= 6
  <2>1. /\ Len(<<>>) <= 6
        /\ \A a, b, c, d, e, f : /\ Len(<<a, b, c, d, e, f>>) <= 6 /\ Len(<<b, c, d, e, f>>) <= 6
                                 /\ Len(<<c, d, e, f>>) <= 6 /\ Len(<<d, e, f>>) <= 6
                                 /\ Len(<<e, f>>) <= 6 /\ Len(<<f>>) <= 6
    OBVIOUS
  <2>2. \/ upTodo = <<>> \/ upTodo = <<DivOn, LowSet, HighSet, FracSet, DivOff, FifoReset>>
        \/ upTodo = <<LowSet, HighSet, FracSet, DivOff, FifoReset>>
        \/ upTodo = <<HighSet, FracSet, DivOff, FifoReset>>
        \/ upTodo = <<FracSet, DivOff, FifoReset>>
        \/ upTodo = <<DivOff, FifoReset>> \/ upTodo = <<FifoReset>>
    BY <1>p, Zenon DEF UpBuilding
  <2>. QED  BY <2>1, <2>2
<1>2. /\ upAsked.clock \in {"none", "pll", "boot"} /\ upAsked.baud \in UartBauds \cup {0}
      /\ upSeen \in BOOLEAN /\ upArrived \in 0..UartBytes
  BY <1>p DEF UpTyped
<1>3. Len(upTx) <= UartDepth /\ Len(upShift) <= 1 /\ Len(upRx) <= UartDepth
  BY <1>p DEF UpBytes, UpRead
<1>4. Len(upWritten) <= UartBytes /\ Len(upLine) <= UartBytes
  <2>1. Len(upWritten) <= UartBytes
    BY <1>p, UpLastByte
  <2>2. /\ Len(upLine \o upShift) = Len(upLine) + Len(upShift)
        /\ upLine \o upShift \in Seq(UpNumbers)
    BY <1>p, Joined
  <2>3. Len((upLine \o upShift) \o upTx) = Len(upLine \o upShift) + Len(upTx)
    BY <1>p, <2>2, Joined
  <2>4. (upLine \o upShift) \o upTx = upWritten
    BY <1>p DEF UpBytes, UartInOrder
  <2>5. Len(upLine) \in Nat /\ Len(upShift) \in Nat /\ Len(upTx) \in Nat
    BY <1>p, LenProperties
  <2>6. Len(upWritten) = (Len(upLine) + Len(upShift)) + Len(upTx)
    BY <2>2, <2>3, <2>4, Zenon
  <2>. QED  BY <2>1, <2>5, <2>6, UpLimits
<1>5. /\ upCall["main"].op \in {"none", "write", "read", "flush"}
      /\ upCall["main"].len \in 0..UartBytes
      /\ upAt["main"] \in {"look", "data"}
  <2>1. Len(upGot["main"]) + upCall["main"].len <= 2
    BY <1>p DEF UpCalls
  <2>2. upCall["main"].len \in 0..UartBytes
    BY <1>p, <2>1, UpLimits
  <2>. QED  BY <1>p, <2>2 DEF UpOps
<1>6. upGot["main"] \in BoundedSeq(0..UartBytes, UartBytes)
  <2>1. PICK got : got = upGot["main"]
    OBVIOUS
  <2>2. got \in Seq(Nat) /\ Len(got) <= UartBytes
    <3>1. Len(upGot["main"]) + upCall["main"].len <= 2
      BY <1>p DEF UpCalls
    <3>. QED  BY <1>p, <2>1, <3>1, UpLimits
  <2>3. \A k \in 1..Len(got) : got[k] \in 0..UartBytes
    <3>1. \A k \in 1..Len(got) : got[k] <= upArrived
      BY <1>p, <2>1 DEF UpRead, InTurn
    <3>2. \A k \in 1..Len(got) : got[k] \in Nat
      BY <2>2, ElementOfSeq
    <3>. QED  BY <1>p, <3>1, <3>2, UpLimits
  <2>4. Len(got) \in Nat /\ got \in [1..Len(got) -> Nat]
    BY <2>2, LenProperties
  <2>5. Len(got) \in 0..UartBytes /\ got \in [1..Len(got) -> 0..UartBytes]
    BY <2>2, <2>3, <2>4, UpLimits
  <2>. QED  BY <2>1, <2>5 DEF BoundedSeq, SeqOf
<1>7. \A c \in UartContexts :
         /\ upCall[c].op \in {"none", "write", "read", "flush"} /\ upCall[c].len \in 0..UartBytes
         /\ upAt[c] \in {"look", "data"} /\ upGot[c] \in BoundedSeq(0..UartBytes, UartBytes)
  BY <1>5, <1>6
<1>. QED
  BY <1>1, <1>2, <1>3, <1>4, <1>7, Zenon DEF UpTypeOK

\* What is written is on the line once and in order, what is read came in after what was read
\* before, the divider is that of the rate asked, and a flush is over when its last byte is
\* being shifted; where nobody else calls.
THEOREM PortAsPromised == ~ UartShared => (UpSpec => UartSafe)
<1>. SUFFICES ASSUME ~ UartShared PROVE UpSpec => UartSafe
  OBVIOUS
<1>1. UartContexts = {"main"}
  BY OnlyMain
<1>2. UpInit => UpInv
  BY <1>1, UpStarts
<1>3. UpInv /\ [UpNext]_upVars => UpInv'
  BY <1>1, UpStepKeeps
<1>4. UpInv => UartInOrder /\ UartReadOnce /\ UartAsAsked
  BY <1>1, UpInvSafe
<1>5. UpInv /\ [UpNext]_upVars =>
        [\A c \in UartContexts :
           upCall[c].op = "flush" /\ upCall'[c].op = "none" => Len(upShift' \o upTx') <= 1]_upVars
  BY <1>1, UpFlushStep
<1>. QED
  BY <1>2, <1>3, <1>4, <1>5, PTL DEF UpSpec, UartSafe, UartFlushed

LEMMA UpAlwaysTyped == ~ UartShared => (UpSpec => []UpTypeOK)
<1>. SUFFICES ASSUME ~ UartShared PROVE UpSpec => []UpTypeOK
  OBVIOUS
<1>1. UartContexts = {"main"}
  BY OnlyMain
<1>2. UpInit => UpInv
  BY <1>1, UpStarts
<1>3. UpInv /\ [UpNext]_upVars => UpInv'
  BY <1>1, UpStepKeeps
<1>4. UpInv => UpTypeOK
  BY <1>1, UpTypes
<1>. QED
  BY <1>2, <1>3, <1>4, PTL DEF UpSpec

-----------------------------------------------------------------------------
(* SpiMaster: what its state is bounded by. *)

SpiRegsFit == spAsked \in [hz : Nat, bits : 4..16] /\ spRegs.brs \in 0..SckdvMax

\* A call pushes no more frames than there are numbers for, and reads no more answers than
\* it has pushed.
SpiCounts ==
    /\ spAt \in {"room", "push"} => spCount < SpiLength(spCall)
    /\ spAt # "idle" => spNext + SpiLength(spCall) <= SpiFrames + 1 + spCount
    /\ spCount < spNext /\ spNext <= SpiFrames + 1
    /\ Len(spGot) <= spCount
    /\ spAt \in {"answer", "pop"} => Len(spGot) < spCount

SpiDepths ==
    /\ Len(spTx) <= SpiDepth /\ Len(spShift) <= 1 /\ Len(spRx) <= SpiDepth
    /\ spAt = "push" => Len(spTx) < SpiDepth

SpiFlags ==
    /\ spOwed \in BOOLEAN /\ spStuck \in BOOLEAN
    /\ spResult \in {"none", "ok", "timeout"}

SpiBounded == SpiRegsFit /\ SpiCounts /\ SpiDepths /\ SpiFlags

LEMMA SpiNumbers ==
    ASSUME SpiInv
    PROVE  /\ spCount \in Nat /\ spNext \in Nat /\ SpiLength(spCall) \in Nat
           /\ Len(spGot) \in Nat /\ Len(spTx) \in Nat /\ Len(spShift) \in Nat /\ Len(spRx) \in Nat
           /\ spTx \in Seq(Nat) /\ spShift \in Seq(Nat) /\ spRx \in Seq(Nat) /\ spGot \in Seq(Nat)
           /\ SpiFrames \in Nat /\ SpiDepth \in Nat /\ SpiDepth >= 1
<1>1. SpiTyped
  BY DEF SpiInv
<1>2. /\ spTx \in Seq(Nat) /\ spShift \in Seq(Nat) /\ spRx \in Seq(Nat) /\ spGot \in Seq(Nat)
      /\ spCount \in Nat /\ spNext \in Nat
  BY <1>1 DEF SpiTyped
<1>3. SpiLength(spCall) \in Nat
  BY <1>1 DEF SpiTyped, SpiLength, SpiMax
<1>4. SpiFrames \in Nat /\ SpiDepth \in Nat /\ SpiDepth >= 1
  BY SpiAssumption
<1>. QED
  BY <1>2, <1>3, <1>4, LenProperties

LEMMA SpiStartsBounded == SpiInit => SpiBounded
<1>. SUFFICES ASSUME SpiInit PROVE SpiBounded
  OBVIOUS
<1>1. Len(<<>>) = 0 /\ SpiDepth \in Nat /\ SpiFrames \in Nat /\ SckdvMax \in Nat
  BY SpiAssumption
<1>2. SpiRegsFit
  BY <1>1 DEF SpiInit, SpiRegsFit
<1>3. SpiCounts
  BY <1>1 DEF SpiInit, SpiCounts
<1>4. SpiDepths
  BY <1>1 DEF SpiInit, SpiDepths
<1>5. SpiFlags
  <2>1. FALSE \in BOOLEAN /\ "none" \in {"none", "ok", "timeout"}
    BY Zenon
  <2>. QED  BY <2>1, Zenon DEF SpiInit, SpiFlags
<1>. QED
  BY <1>2, <1>3, <1>4, <1>5 DEF SpiBounded

\* A new driver is given a divider and a frame size that fit.
LEMMA SpiFitsMade ==
    ASSUME SpiInv, SpiBounded, NewSpi \/ SpiWrite
    PROVE  SpiBounded'
<1>t. SpiTyped /\ SpiBuilding /\ SpiInCall /\ SpiRegsFit /\ SpiCounts /\ SpiDepths /\ SpiFlags
  BY DEF SpiInv, SpiBounded
<1>n. /\ spCount \in Nat /\ spNext \in Nat /\ SpiFrames \in Nat /\ SpiDepth \in Nat
      /\ SpiDepth >= 1
  BY SpiNumbers
<1>1. CASE NewSpi
  <2>1. PICK hz \in SpiHz, bits \in SpiBits : spAsked' = [hz |-> hz, bits |-> bits]
    BY <1>1 DEF NewSpi
  <2>2. hz \in Nat /\ bits \in 4..16
    BY <2>1, SpiAssumption
  <2>3. /\ spAt = "idle" /\ spAt' = spAt /\ spRegs' = spRegs /\ spCount' = spCount
        /\ spGot' = spGot /\ spTx' = spTx /\ spShift' = spShift /\ spRx' = spRx
        /\ spNext' = spNext /\ spOwed' = spOwed /\ spStuck' = spStuck /\ spResult' = "none"
    BY <1>1 DEF NewSpi, spiFifos
  <2>4. SpiRegsFit'
    BY <1>t, <2>1, <2>2, <2>3 DEF SpiRegsFit
  <2>5. SpiCounts'
    BY <1>t, <2>3 DEF SpiCounts
  <2>6. SpiDepths' /\ SpiFlags'
    BY <1>t, <2>3 DEF SpiDepths, SpiFlags
  <2>. QED  BY <2>4, <2>5, <2>6 DEF SpiBounded
<1>2. CASE SpiWrite
  <2>1. PICK n \in 1..11 : n = Len(spTodo)
    BY <1>2, <1>t, SpiNextAccess
  <2>2. spTodo # <<>> /\ spAsked' = spAsked /\ Len(spTodo) # 0
    BY <1>2, <2>1 DEF SpiWrite
  <2>3. try_from_hz(spAsked.hz) /\ spAsked \in [hz : Nat, bits : Int]
    BY <1>t, <2>2 DEF SpiBuilding, SpiTyped
  <2>4. sckdv(spAsked.hz) \in 2..SckdvMax
    BY <2>3, DividerFits
  <2>5. spTodo[1][1] = "brs" => spTodo[1][2] = sckdv(spAsked.hz)
    BY <1>t, <2>1, <2>2, SpiFirstAccess, Zenon
  <2>6. spRegs'.brs = (IF "brs" = spTodo[1][1] THEN spTodo[1][2] ELSE spRegs.brs)
    BY <1>2, <1>t, SpiWriteEffect
  <2>7. spRegs'.brs \in 0..SckdvMax
    <3>1. spRegs.brs \in 0..SckdvMax /\ SckdvMax \in Nat
      BY <1>t, SpiAssumption DEF SpiRegsFit
    <3>2. sckdv(spAsked.hz) \in 0..SckdvMax
      BY <2>4, <3>1
    <3>. QED  BY <2>5, <2>6, <3>1, <3>2, Zenon
  <2>8. /\ \/ spTx' = <<>> /\ spShift' = <<>> /\ spRx' = <<>>
           \/ spTx' = spTx /\ spShift' = spShift /\ spRx' = spRx
        /\ spAt' = spAt /\ spCount' = spCount /\ spGot' = spGot /\ spNext' = spNext
        /\ spCall' = spCall
        /\ spOwed' = spOwed /\ spStuck' = spStuck /\ spResult' = spResult
    BY <1>2, Zenon DEF SpiWrite, spiFifos
  <2>9. spAt = "idle"
    BY <1>t, <2>2 DEF SpiInCall, SpiBuilt
  <2>10. SpiRegsFit'
    BY <1>t, <2>2, <2>7 DEF SpiRegsFit
  <2>11. SpiCounts'
    BY <1>t, <2>8, <2>9 DEF SpiCounts
  <2>12. SpiDepths'
    <3>1. Len(<<>>) = 0
      OBVIOUS
    <3>. QED  BY <1>t, <1>n, <2>8, <2>9, <3>1 DEF SpiDepths
  <2>13. SpiFlags'
    BY <1>t, <2>8 DEF SpiFlags
  <2>. QED  BY <2>10, <2>11, <2>12, <2>13 DEF SpiBounded
<1>. QED
  BY <1>1, <1>2

\* A call begins, or waits.
LEMMA SpiCallBounded ==
    ASSUME SpiInv, SpiBounded, SpiCall \/ wait_until
    PROVE  SpiBounded'
<1>t. SpiTyped /\ SpiRegsFit /\ SpiCounts /\ SpiDepths /\ SpiFlags /\ SpiInv'
  BY SpiCalling, SpiWaiting DEF SpiInv, SpiBounded
<1>n. /\ spCount \in Nat /\ spNext \in Nat /\ SpiFrames \in Nat /\ SpiDepth \in Nat
      /\ SpiDepth >= 1 /\ SpiLength(spCall) \in Nat
  BY SpiNumbers
<1>1. CASE SpiCall
  <2>1. PICK op \in {"transfer", "write", "wait_idle"}, w \in SpiLengths, r \in SpiLengths :
           /\ spCall' = [op |-> op, write |-> w, read |-> r]
           /\ spNext + SpiLength(spCall') <= SpiFrames + 1
    BY <1>1 DEF SpiCall
  <2>2. spCall' \in [op : {"none", "transfer", "write", "wait_idle"}, write : Nat, read : Nat]
    BY <2>1, SpiAssumption
  <2>3. PICK long \in Nat : long = SpiLength(spCall')
    BY <2>2 DEF SpiLength, SpiMax
  <2>4. /\ spAt' = SpiStage(spCall', 0)
        /\ spResult' = (IF spAt' = "idle" THEN "ok" ELSE "none")
        /\ spCount' = 0 /\ spGot' = <<>> /\ spNext' = spNext /\ spStuck' = spStuck
        /\ spTx' = spTx /\ spShift' = spShift /\ spRx' = spRx
        /\ spOwed' = (spTx # <<>> \/ spShift # <<>> \/ spRx # <<>>)
        /\ spAsked' = spAsked /\ spRegs' = spRegs
    BY <1>1, Zenon DEF SpiCall, spiFifos, spiBuild
  <2>5. \/ spAt' = "empty" \/ (spAt' = "room" /\ 0 < long) \/ spAt' = "idle"
    BY <2>3, <2>4 DEF SpiStage
  <2>6. SpiRegsFit'
    BY <1>t, <2>4 DEF SpiRegsFit
  <2>7. SpiCounts'
    <3>1. Len(<<>>) = 0 /\ spNext + long <= SpiFrames + 1 /\ spCount' = 0 /\ Len(spGot') = 0
      BY <2>1, <2>3, <2>4
    <3>2. spAt' \in {"room", "push"} => 0 < long
      BY <2>5
    <3>3. 0 < spNext /\ spNext <= SpiFrames + 1
      BY <1>t, <1>n DEF SpiCounts
    <3>4. spAt' \notin {"answer", "pop"}
      BY <2>5
    <3>5. spNext' = spNext /\ SpiLength(spCall)' = long
      BY <2>3, <2>4
    <3>. QED  BY <1>n, <2>3, <3>1, <3>2, <3>3, <3>4, <3>5 DEF SpiCounts
  <2>8. SpiDepths'
    BY <1>t, <2>4, <2>5 DEF SpiDepths
  <2>9. SpiFlags'
    <3>1. spOwed' \in BOOLEAN
      BY <2>4, Zenon
    <3>2. spStuck' \in BOOLEAN /\ spResult' \in {"none", "ok", "timeout"}
      BY <1>t, <2>4 DEF SpiFlags
    <3>. QED  BY <3>1, <3>2 DEF SpiFlags
  <2>. QED  BY <2>6, <2>7, <2>8, <2>9 DEF SpiBounded
<1>2. CASE wait_until
  <2>1. /\ spCall' = spCall /\ spCount' = spCount /\ spGot' = spGot /\ spNext' = spNext
        /\ spOwed' = spOwed /\ spStuck' = spStuck
        /\ spTx' = spTx /\ spShift' = spShift /\ spRx' = spRx
        /\ spAsked' = spAsked /\ spRegs' = spRegs
    BY <1>2 DEF wait_until, spiFifos, spiBuild
  <2>2. \/ spAt' = "idle" /\ spResult' \in {"ok", "timeout"}
        \/ spAt = "room" /\ spAt' = "push" /\ spResult' = "none" /\ Len(spTx) < SpiDepth
        \/ spAt = "answer" /\ spAt' = "pop" /\ spResult' = "none"
        \/ spAt = "empty" /\ spAt' = "quiet" /\ spResult' = "none"
    BY <1>2 DEF wait_until, AfterWait, SpiReady
  <2>3. SpiRegsFit'
    BY <1>t, <2>1 DEF SpiRegsFit
  <2>4. SpiCounts'
    <3>1. SpiLength(spCall)' = SpiLength(spCall)
      BY <2>1
    <3>. QED  BY <1>t, <2>1, <2>2, <3>1 DEF SpiCounts
  <2>5. SpiDepths'
    BY <1>t, <2>1, <2>2 DEF SpiDepths
  <2>6. SpiFlags'
    BY <1>t, <2>1, <2>2 DEF SpiFlags
  <2>. QED  BY <2>3, <2>4, <2>5, <2>6 DEF SpiBounded
<1>. QED
  BY <1>1, <1>2

\* A frame is pushed, or its answer read.
LEMMA SpiMoveBounded ==
    ASSUME SpiInv, SpiBounded, Push \/ Pop
    PROVE  SpiBounded'
<1>t. SpiTyped /\ SpiRegsFit /\ SpiCounts /\ SpiDepths /\ SpiFlags /\ SpiInCall /\ SpiSent
  BY DEF SpiInv, SpiBounded
<1>n. /\ spCount \in Nat /\ spNext \in Nat /\ SpiFrames \in Nat /\ SpiDepth \in Nat
      /\ SpiDepth >= 1 /\ Len(spGot) \in Nat /\ Len(spTx) \in Nat /\ Len(spRx) \in Nat
      /\ spTx \in Seq(Nat) /\ spRx \in Seq(Nat) /\ spGot \in Seq(Nat)
  BY SpiNumbers
<1>l. PICK long \in Nat : long = SpiLength(spCall)
  BY SpiNumbers
<1>1. CASE Push
  <2>1. /\ spAt = "push" /\ spCall' = spCall /\ spGot' = spGot /\ spOwed' = spOwed
        /\ spShift' = spShift /\ spRx' = spRx /\ spTx' = Append(spTx, spNext)
        /\ spNext' = spNext + 1 /\ spCount' = spCount + 1 /\ spStuck' = spStuck
        /\ spAt' = AfterPush /\ spAsked' = spAsked /\ spRegs' = spRegs
        /\ spResult' = (IF spAt' = "idle" THEN "ok" ELSE "none")
    BY <1>1, Zenon DEF Push, spiBuild
  <2>2. \/ spAt' = "answer" \/ spAt' = "idle" \/ (spAt' = "room" /\ spCount' < long)
        \/ spAt' = "empty"
    BY <1>l, <2>1 DEF AfterPush, SpiStage
  <2>3. Len(spTx') = Len(spTx) + 1
    BY <1>n, <2>1, OneAfter
  <2>4. SpiCounts'
    <3>1. /\ spCount < long /\ spNext + long <= SpiFrames + 1 + spCount
          /\ spCount < spNext /\ Len(spGot) <= spCount
      BY <1>l, <1>t, <2>1 DEF SpiCounts
    <3>2. /\ spNext + 1 + long <= SpiFrames + 1 + (spCount + 1)
          /\ spCount + 1 < spNext + 1 /\ spNext + 1 <= SpiFrames + 1
          /\ Len(spGot) < spCount + 1 /\ Len(spGot) <= spCount + 1
      BY <1>l, <1>n, <3>1
    <3>3. SpiLength(spCall)' = long /\ spAt' # "push"
      BY <1>l, <2>1, <2>2
    <3>. QED  BY <2>1, <2>2, <3>2, <3>3 DEF SpiCounts
  <2>5. SpiDepths'
    <3>1. Len(spTx) + 1 <= SpiDepth
      BY <1>n, <1>t, <2>1 DEF SpiDepths
    <3>. QED  BY <1>t, <2>1, <2>2, <2>3, <3>1 DEF SpiDepths
  <2>6. SpiRegsFit' /\ SpiFlags'
    BY <1>t, <2>1 DEF SpiRegsFit, SpiFlags
  <2>. QED  BY <2>4, <2>5, <2>6 DEF SpiBounded
<1>2. CASE Pop
  <2>1. /\ spAt = "pop" /\ spCall' = spCall /\ spOwed' = spOwed /\ spNext' = spNext
        /\ spShift' = spShift /\ spRx' = Tail(spRx) /\ spTx' = spTx /\ spCount' = spCount
        /\ spGot' = (IF spCount <= spCall.read THEN Append(spGot, Head(spRx)) ELSE spGot)
        /\ spResult' = (IF spAt' = "idle" THEN "ok" ELSE "none") /\ spStuck' = spStuck
        /\ spAt' = SpiStage(spCall, spCount) /\ spAsked' = spAsked /\ spRegs' = spRegs
    BY <1>2, Zenon DEF Pop, spiBuild
  <2>2. \/ spAt' = "idle" \/ (spAt' = "room" /\ spCount < long) \/ spAt' = "empty"
    BY <1>l, <2>1 DEF SpiStage
  <2>3. spRx # <<>>
    BY <1>t, <2>1 DEF SpiInCall
  <2>4. Len(Tail(spRx)) = Len(spRx) - 1 /\ Head(spRx) \in Nat
    BY <1>n, <2>3, OneLess
  <2>5. Len(spGot') <= spCount
    <3>1. Len(Append(spGot, Head(spRx))) = Len(spGot) + 1
      BY <1>n, <2>4, OneAfter
    <3>2. Len(spGot) < spCount
      BY <1>t, <2>1 DEF SpiCounts
    <3>3. spGot' = spGot \/ spGot' = Append(spGot, Head(spRx))
      BY <2>1
    <3>4. Len(spGot') = Len(spGot) \/ Len(spGot') = Len(spGot) + 1
      BY <3>1, <3>3
    <3>. QED  BY <1>n, <3>2, <3>4
  <2>6. SpiCounts'
    <3>1. SpiLength(spCall)' = long /\ spAt' \notin {"push", "answer", "pop"}
      BY <1>l, <2>1, <2>2
    <3>. QED  BY <1>l, <1>t, <2>1, <2>2, <2>5, <3>1 DEF SpiCounts
  <2>7. SpiDepths'
    <3>1. Len(spRx) - 1 <= SpiDepth
      BY <1>n, <1>t DEF SpiDepths
    <3>. QED  BY <1>t, <2>1, <2>2, <2>4, <3>1 DEF SpiDepths
  <2>8. SpiRegsFit' /\ SpiFlags'
    BY <1>t, <2>1 DEF SpiRegsFit, SpiFlags
  <2>. QED  BY <2>6, <2>7, <2>8 DEF SpiBounded
<1>. QED
  BY <1>1, <1>2

\* The controller shifts, or the bus sticks.
LEMMA SpiShiftBounded ==
    ASSUME SpiInv, SpiBounded, ShiftOut \/ ShiftIn \/ SpiSticks \/ UNCHANGED spiVars
    PROVE  SpiBounded'
<1>t. SpiTyped /\ SpiRegsFit /\ SpiCounts /\ SpiDepths /\ SpiFlags
  BY DEF SpiInv, SpiBounded
<1>n. /\ SpiDepth \in Nat /\ SpiDepth >= 1
      /\ Len(spTx) \in Nat /\ Len(spRx) \in Nat /\ Len(spShift) \in Nat
      /\ spTx \in Seq(Nat) /\ spRx \in Seq(Nat) /\ spShift \in Seq(Nat)
  BY SpiNumbers
<1>1. /\ spCall' = spCall /\ spAt' = spAt /\ spCount' = spCount /\ spGot' = spGot
      /\ spResult' = spResult /\ spNext' = spNext /\ spOwed' = spOwed
      /\ spAsked' = spAsked /\ spRegs' = spRegs
      /\ spStuck' = spStuck \/ spStuck' = TRUE
  BY Zenon DEF ShiftOut, ShiftIn, SpiSticks, spiVars, spiBuild
<1>2. Len(spTx') <= Len(spTx) /\ Len(spTx') \in Nat /\ Len(spShift') <= 1 /\ Len(spRx') <= SpiDepth
  <2>0. Len(spTx) <= SpiDepth /\ Len(spShift) <= 1 /\ Len(spRx) <= SpiDepth
    BY <1>t DEF SpiDepths
  <2>1. CASE ShiftOut
    <3>1. /\ spTx # <<>> /\ spShift' = <<Head(spTx)>> /\ spTx' = Tail(spTx) /\ spRx' = spRx
      BY <2>1 DEF ShiftOut
    <3>2. Len(Tail(spTx)) = Len(spTx) - 1 /\ Len(Tail(spTx)) \in Nat /\ Head(spTx) \in Nat
      BY <1>n, <3>1, OneLess, LenProperties
    <3>3. Len(<<Head(spTx)>>) = 1
      OBVIOUS
    <3>4. Len(spTx') <= Len(spTx)
      BY <1>n, <3>1, <3>2
    <3>5. Len(spShift') = 1 /\ Len(spRx') = Len(spRx) /\ Len(spTx') \in Nat
      BY <3>1, <3>2, <3>3
    <3>. QED  BY <2>0, <3>4, <3>5
  <2>2. CASE ShiftIn
    <3>1. /\ spRx' = (IF Len(spRx) < SpiDepth THEN spRx \o spShift ELSE spRx)
          /\ spShift' = <<>> /\ spTx' = spTx
      BY <2>2 DEF ShiftIn
    <3>2. Len(spRx \o spShift) = Len(spRx) + Len(spShift)
      BY <1>n, ConcatProperties
    <3>3. Len(spRx') <= SpiDepth
      <4>1. CASE Len(spRx) < SpiDepth
        <5>1. Len(spRx') = Len(spRx) + Len(spShift)
          BY <3>1, <3>2, <4>1
        <5>. QED  BY <1>n, <2>0, <4>1, <5>1
      <4>2. CASE ~ (Len(spRx) < SpiDepth)
        BY <2>0, <3>1, <4>2
      <4>. QED  BY <4>1, <4>2
    <3>4. Len(<<>>) = 0
      OBVIOUS
    <3>. QED  BY <1>n, <3>1, <3>3, <3>4
  <2>3. CASE SpiSticks \/ UNCHANGED spiVars
    <3>1. spTx' = spTx /\ spShift' = spShift /\ spRx' = spRx
      BY <2>3 DEF SpiSticks, spiVars, spiFifos
    <3>. QED  BY <1>n, <2>0, <3>1
  <2>. QED  BY <2>1, <2>2, <2>3
<1>3. SpiDepths'
  <2>1. /\ Len(spTx) <= SpiDepth /\ (spAt = "push" => Len(spTx) < SpiDepth)
    BY <1>t DEF SpiDepths
  <2>2. /\ Len(spTx') <= SpiDepth /\ (spAt = "push" => Len(spTx') < SpiDepth)
    BY <1>n, <1>2, <2>1
  <2>. QED  BY <1>1, <1>2, <2>2 DEF SpiDepths
<1>4. SpiCounts'
  <2>1. SpiLength(spCall)' = SpiLength(spCall)
    BY <1>1
  <2>. QED  BY <1>t, <1>1, <2>1 DEF SpiCounts
<1>5. SpiRegsFit' /\ SpiFlags'
  <2>1. spStuck' \in BOOLEAN
    BY <1>t, <1>1, Zenon DEF SpiFlags
  <2>. QED  BY <1>t, <1>1, <2>1 DEF SpiRegsFit, SpiFlags
<1>. QED
  BY <1>3, <1>4, <1>5 DEF SpiBounded

LEMMA SpiAlwaysTyped == SpiSpec => []SpiTypeOK
<1>1. SpiInit => SpiInv /\ SpiBounded
  BY SpiInitInv, SpiStartsBounded
<1>2. SpiInv /\ SpiBounded /\ [SpiNext]_spiVars => SpiInv' /\ SpiBounded'
  BY SpiStep, SpiFitsMade, SpiCallBounded, SpiMoveBounded, SpiShiftBounded DEF SpiNext
<1>3. SpiInv /\ SpiBounded => SpiTypeOK
  <2>. SUFFICES ASSUME SpiInv, SpiBounded PROVE SpiTypeOK
    OBVIOUS
  <2>1. /\ Len(spTodo) <= 11 /\ spAsked.bits \in 4..16 /\ spRegs.brs \in 0..SckdvMax
        /\ spAt \in SpiStages /\ spResult \in {"none", "ok", "timeout"}
        /\ spOwed \in BOOLEAN /\ spStuck \in BOOLEAN
        /\ Len(spTx) <= SpiDepth /\ Len(spShift) <= 1 /\ Len(spRx) <= SpiDepth
    BY DEF SpiInv, SpiBuilding, SpiInCall, SpiBounded, SpiRegsFit, SpiFlags, SpiDepths
  <2>2. /\ spCount < spNext /\ spNext <= SpiFrames + 1 /\ Len(spGot) <= spCount
    BY DEF SpiBounded, SpiCounts
  <2>3. spCount \in 0..SpiFrames /\ spNext \in 1..(SpiFrames + 1) /\ Len(spGot) <= SpiFrames
    BY <2>2, SpiNumbers
  <2>. QED  BY <2>1, <2>3, Zenon DEF SpiTypeOK
<1>. QED
  BY <1>1, <1>2, <1>3, PTL DEF SpiSpec

-----------------------------------------------------------------------------
(* The drivers side by side: what one does the others do not notice. *)

LEMMA OnlyOneRuns ==
    ASSUME [PeripheralsNext]_peripheralVars
    PROVE  /\ [I2cNext]_i2cVars
           /\ [UartNext]_uartAsyncVars
           /\ [UpNext]_upVars
           /\ [SpiNext]_spiVars
           /\ [V151Next]_v151Vars
           /\ [SfcNext]_sfcVars
           /\ [UsbNext]_usbVars
           /\ [AdcNext \/ TsNext]_sensorVars
           /\ [GadcNext]_gadcVars
           /\ [TrNext]_trVars
           /\ [Next]_vars
           /\ [WdtNext]_wdtVars
           /\ [TmNext]_tmVars
           /\ [LcNext]_lcVars
<1>1. CASE driver = "i2c" /\ I2cNext /\ Only("i2c")
  <2>1. /\ UNCHANGED uartAsyncVars /\ UNCHANGED upVars /\ UNCHANGED spiVars /\ UNCHANGED v151Vars
        /\ UNCHANGED sfcVars /\ UNCHANGED usbVars /\ UNCHANGED gadcVars /\ UNCHANGED trVars
        /\ UNCHANGED vars /\ UNCHANGED wdtVars /\ UNCHANGED tmVars /\ UNCHANGED lcVars
        /\ UNCHANGED adcVars /\ UNCHANGED tsVars /\ UNCHANGED conversions
    BY <1>1, Zenon DEF Only
  <2>2. UNCHANGED sensorVars
    BY <2>1, Zenon DEF sensorVars
  <2>. QED  BY <1>1, <2>1, <2>2, Zenon
<1>2. CASE driver = "uart" /\ UartNext /\ Only("uart")
  <2>1. /\ UNCHANGED i2cVars /\ UNCHANGED upVars /\ UNCHANGED spiVars /\ UNCHANGED v151Vars
        /\ UNCHANGED sfcVars /\ UNCHANGED usbVars /\ UNCHANGED gadcVars /\ UNCHANGED trVars
        /\ UNCHANGED vars /\ UNCHANGED wdtVars /\ UNCHANGED tmVars /\ UNCHANGED lcVars
        /\ UNCHANGED adcVars /\ UNCHANGED tsVars /\ UNCHANGED conversions
    BY <1>2, Zenon DEF Only
  <2>2. UNCHANGED sensorVars
    BY <2>1, Zenon DEF sensorVars
  <2>. QED  BY <1>2, <2>1, <2>2, Zenon
<1>3. CASE driver = "uart port" /\ UpNext /\ Only("uart port")
  <2>1. /\ UNCHANGED i2cVars /\ UNCHANGED uartAsyncVars /\ UNCHANGED spiVars /\ UNCHANGED v151Vars
        /\ UNCHANGED sfcVars /\ UNCHANGED usbVars /\ UNCHANGED gadcVars /\ UNCHANGED trVars
        /\ UNCHANGED vars /\ UNCHANGED wdtVars /\ UNCHANGED tmVars /\ UNCHANGED lcVars
        /\ UNCHANGED adcVars /\ UNCHANGED tsVars /\ UNCHANGED conversions
    BY <1>3, Zenon DEF Only
  <2>2. UNCHANGED sensorVars
    BY <2>1, Zenon DEF sensorVars
  <2>. QED  BY <1>3, <2>1, <2>2, Zenon
<1>4. CASE driver = "spi" /\ SpiNext /\ Only("spi")
  <2>1. /\ UNCHANGED i2cVars /\ UNCHANGED uartAsyncVars /\ UNCHANGED upVars /\ UNCHANGED v151Vars
        /\ UNCHANGED sfcVars /\ UNCHANGED usbVars /\ UNCHANGED gadcVars /\ UNCHANGED trVars
        /\ UNCHANGED vars /\ UNCHANGED wdtVars /\ UNCHANGED tmVars /\ UNCHANGED lcVars
        /\ UNCHANGED adcVars /\ UNCHANGED tsVars /\ UNCHANGED conversions
    BY <1>4, Zenon DEF Only
  <2>2. UNCHANGED sensorVars
    BY <2>1, Zenon DEF sensorVars
  <2>. QED  BY <1>4, <2>1, <2>2, Zenon
<1>5. CASE driver = "i2c v151" /\ V151Next /\ Only("i2c v151")
  <2>1. /\ UNCHANGED i2cVars /\ UNCHANGED uartAsyncVars /\ UNCHANGED upVars /\ UNCHANGED spiVars
        /\ UNCHANGED sfcVars /\ UNCHANGED usbVars /\ UNCHANGED gadcVars /\ UNCHANGED trVars
        /\ UNCHANGED vars /\ UNCHANGED wdtVars /\ UNCHANGED tmVars /\ UNCHANGED lcVars
        /\ UNCHANGED adcVars /\ UNCHANGED tsVars /\ UNCHANGED conversions
    BY <1>5, Zenon DEF Only
  <2>2. UNCHANGED sensorVars
    BY <2>1, Zenon DEF sensorVars
  <2>. QED  BY <1>5, <2>1, <2>2, Zenon
<1>6. CASE driver = "sfc" /\ SfcNext /\ Only("sfc")
  <2>1. /\ UNCHANGED i2cVars /\ UNCHANGED uartAsyncVars /\ UNCHANGED upVars /\ UNCHANGED spiVars
        /\ UNCHANGED v151Vars /\ UNCHANGED usbVars /\ UNCHANGED gadcVars /\ UNCHANGED trVars
        /\ UNCHANGED vars /\ UNCHANGED wdtVars /\ UNCHANGED tmVars /\ UNCHANGED lcVars
        /\ UNCHANGED adcVars /\ UNCHANGED tsVars /\ UNCHANGED conversions
    BY <1>6, Zenon DEF Only
  <2>2. UNCHANGED sensorVars
    BY <2>1, Zenon DEF sensorVars
  <2>. QED  BY <1>6, <2>1, <2>2, Zenon
<1>7. CASE driver = "usb" /\ UsbNext /\ Only("usb")
  <2>1. /\ UNCHANGED i2cVars /\ UNCHANGED uartAsyncVars /\ UNCHANGED upVars /\ UNCHANGED spiVars
        /\ UNCHANGED v151Vars /\ UNCHANGED sfcVars /\ UNCHANGED gadcVars /\ UNCHANGED trVars
        /\ UNCHANGED vars /\ UNCHANGED wdtVars /\ UNCHANGED tmVars /\ UNCHANGED lcVars
        /\ UNCHANGED adcVars /\ UNCHANGED tsVars /\ UNCHANGED conversions
    BY <1>7, Zenon DEF Only
  <2>2. UNCHANGED sensorVars
    BY <2>1, Zenon DEF sensorVars
  <2>. QED  BY <1>7, <2>1, <2>2, Zenon
<1>8. CASE driver = "gadc" /\ GadcNext /\ Only("gadc")
  <2>1. /\ UNCHANGED i2cVars /\ UNCHANGED uartAsyncVars /\ UNCHANGED upVars /\ UNCHANGED spiVars
        /\ UNCHANGED v151Vars /\ UNCHANGED sfcVars /\ UNCHANGED usbVars /\ UNCHANGED trVars
        /\ UNCHANGED vars /\ UNCHANGED wdtVars /\ UNCHANGED tmVars /\ UNCHANGED lcVars
        /\ UNCHANGED adcVars /\ UNCHANGED tsVars /\ UNCHANGED conversions
    BY <1>8, Zenon DEF Only
  <2>2. UNCHANGED sensorVars
    BY <2>1, Zenon DEF sensorVars
  <2>. QED  BY <1>8, <2>1, <2>2, Zenon
<1>9. CASE driver = "trng" /\ TrNext /\ Only("trng")
  <2>1. /\ UNCHANGED i2cVars /\ UNCHANGED uartAsyncVars /\ UNCHANGED upVars /\ UNCHANGED spiVars
        /\ UNCHANGED v151Vars /\ UNCHANGED sfcVars /\ UNCHANGED usbVars /\ UNCHANGED gadcVars
        /\ UNCHANGED vars /\ UNCHANGED wdtVars /\ UNCHANGED tmVars /\ UNCHANGED lcVars
        /\ UNCHANGED adcVars /\ UNCHANGED tsVars /\ UNCHANGED conversions
    BY <1>9, Zenon DEF Only
  <2>2. UNCHANGED sensorVars
    BY <2>1, Zenon DEF sensorVars
  <2>. QED  BY <1>9, <2>1, <2>2, Zenon
<1>10. CASE driver = "embassy" /\ Next /\ Only("embassy")
  <2>1. /\ UNCHANGED i2cVars /\ UNCHANGED uartAsyncVars /\ UNCHANGED upVars /\ UNCHANGED spiVars
        /\ UNCHANGED v151Vars /\ UNCHANGED sfcVars /\ UNCHANGED usbVars /\ UNCHANGED gadcVars
        /\ UNCHANGED trVars /\ UNCHANGED wdtVars /\ UNCHANGED tmVars /\ UNCHANGED lcVars
        /\ UNCHANGED adcVars /\ UNCHANGED tsVars /\ UNCHANGED conversions
    BY <1>10, Zenon DEF Only
  <2>2. UNCHANGED sensorVars
    BY <2>1, Zenon DEF sensorVars
  <2>. QED  BY <1>10, <2>1, <2>2, Zenon
<1>11. CASE driver = "watchdog" /\ WdtNext /\ Only("watchdog")
  <2>1. /\ UNCHANGED i2cVars /\ UNCHANGED uartAsyncVars /\ UNCHANGED upVars /\ UNCHANGED spiVars
        /\ UNCHANGED v151Vars /\ UNCHANGED sfcVars /\ UNCHANGED usbVars /\ UNCHANGED gadcVars
        /\ UNCHANGED trVars /\ UNCHANGED vars /\ UNCHANGED tmVars /\ UNCHANGED lcVars
        /\ UNCHANGED adcVars /\ UNCHANGED tsVars /\ UNCHANGED conversions
    BY <1>11, Zenon DEF Only
  <2>2. UNCHANGED sensorVars
    BY <2>1, Zenon DEF sensorVars
  <2>. QED  BY <1>11, <2>1, <2>2, Zenon
<1>12. CASE driver = "timer" /\ TmNext /\ Only("timer")
  <2>1. /\ UNCHANGED i2cVars /\ UNCHANGED uartAsyncVars /\ UNCHANGED upVars /\ UNCHANGED spiVars
        /\ UNCHANGED v151Vars /\ UNCHANGED sfcVars /\ UNCHANGED usbVars /\ UNCHANGED gadcVars
        /\ UNCHANGED trVars /\ UNCHANGED vars /\ UNCHANGED wdtVars /\ UNCHANGED lcVars
        /\ UNCHANGED adcVars /\ UNCHANGED tsVars /\ UNCHANGED conversions
    BY <1>12, Zenon DEF Only
  <2>2. UNCHANGED sensorVars
    BY <2>1, Zenon DEF sensorVars
  <2>. QED  BY <1>12, <2>1, <2>2, Zenon
<1>13. CASE driver = "counter" /\ LcNext /\ Only("counter")
  <2>1. /\ UNCHANGED i2cVars /\ UNCHANGED uartAsyncVars /\ UNCHANGED upVars /\ UNCHANGED spiVars
        /\ UNCHANGED v151Vars /\ UNCHANGED sfcVars /\ UNCHANGED usbVars /\ UNCHANGED gadcVars
        /\ UNCHANGED trVars /\ UNCHANGED vars /\ UNCHANGED wdtVars /\ UNCHANGED tmVars
        /\ UNCHANGED adcVars /\ UNCHANGED tsVars /\ UNCHANGED conversions
    BY <1>13, Zenon DEF Only
  <2>2. UNCHANGED sensorVars
    BY <2>1, Zenon DEF sensorVars
  <2>. QED  BY <1>13, <2>1, <2>2, Zenon
<1>14. CASE driver = "adc" /\ AdcNext /\ Only("adc")
  <2>1. /\ UNCHANGED i2cVars /\ UNCHANGED uartAsyncVars /\ UNCHANGED upVars /\ UNCHANGED spiVars
        /\ UNCHANGED v151Vars /\ UNCHANGED sfcVars /\ UNCHANGED usbVars /\ UNCHANGED gadcVars
        /\ UNCHANGED trVars /\ UNCHANGED vars /\ UNCHANGED wdtVars /\ UNCHANGED tmVars
        /\ UNCHANGED lcVars
    BY <1>14, Zenon DEF Only
  <2>. QED  BY <1>14, <2>1, Zenon
<1>15. CASE driver = "tsensor" /\ TsNext /\ Only("tsensor")
  <2>1. /\ UNCHANGED i2cVars /\ UNCHANGED uartAsyncVars /\ UNCHANGED upVars /\ UNCHANGED spiVars
        /\ UNCHANGED v151Vars /\ UNCHANGED sfcVars /\ UNCHANGED usbVars /\ UNCHANGED gadcVars
        /\ UNCHANGED trVars /\ UNCHANGED vars /\ UNCHANGED wdtVars /\ UNCHANGED tmVars
        /\ UNCHANGED lcVars
    BY <1>15, Zenon DEF Only
  <2>. QED  BY <1>15, <2>1, Zenon
<1>16. CASE UNCHANGED peripheralVars
  <2>1. /\ UNCHANGED i2cVars /\ UNCHANGED uartAsyncVars /\ UNCHANGED upVars /\ UNCHANGED spiVars
        /\ UNCHANGED v151Vars /\ UNCHANGED sfcVars /\ UNCHANGED usbVars /\ UNCHANGED gadcVars
        /\ UNCHANGED trVars /\ UNCHANGED vars /\ UNCHANGED wdtVars /\ UNCHANGED tmVars
        /\ UNCHANGED lcVars /\ UNCHANGED sensorVars
    BY <1>16 DEF peripheralVars
  <2>. QED  BY <2>1, Zenon
<1>. QED
  BY <1>1, <1>2, <1>3, <1>4, <1>5, <1>6, <1>7, <1>8, <1>9, <1>10, <1>11, <1>12, <1>13,
     <1>14, <1>15, <1>16, Zenon DEF PeripheralsNext

\* In the composition every driver behaves as its own specification says.
LEMMA EachDriverItself ==
    PeripheralsSpec =>
      /\ I2cSpec
      /\ UartSpec
      /\ UpSpec
      /\ SpiSpec
      /\ V151Spec
      /\ SfcSpec
      /\ UsbSpec
      /\ SensorsSpec
      /\ GadcSpec
      /\ TrSpec
      /\ Spec
      /\ WdtSpec
      /\ TmSpec
      /\ LcSpec
<1>1. PeripheralsInit =>
        /\ I2cInit
        /\ UartInit
        /\ UpInit
        /\ SpiInit
        /\ V151Init
        /\ SfcInit
        /\ UsbInit
        /\ SensorsInit
        /\ GadcInit
        /\ TrInit
        /\ Init
        /\ WdtInit
        /\ TmInit
        /\ LcInit
  BY Zenon DEF PeripheralsInit
<1>2. [PeripheralsNext]_peripheralVars =>
        /\ [I2cNext]_i2cVars
        /\ [UartNext]_uartAsyncVars
        /\ [UpNext]_upVars
        /\ [SpiNext]_spiVars
        /\ [V151Next]_v151Vars
        /\ [SfcNext]_sfcVars
        /\ [UsbNext]_usbVars
        /\ [AdcNext \/ TsNext]_sensorVars
        /\ [GadcNext]_gadcVars
        /\ [TrNext]_trVars
        /\ [Next]_vars
        /\ [WdtNext]_wdtVars
        /\ [TmNext]_tmVars
        /\ [LcNext]_lcVars
  BY OnlyOneRuns
<1>3. PeripheralsSpec => I2cSpec
  BY <1>1, <1>2, PTL DEF PeripheralsSpec, I2cSpec
<1>4. PeripheralsSpec => UartSpec
  BY <1>1, <1>2, PTL DEF PeripheralsSpec, UartSpec
<1>5. PeripheralsSpec => UpSpec
  BY <1>1, <1>2, PTL DEF PeripheralsSpec, UpSpec
<1>6. PeripheralsSpec => SpiSpec
  BY <1>1, <1>2, PTL DEF PeripheralsSpec, SpiSpec
<1>7. PeripheralsSpec => V151Spec
  BY <1>1, <1>2, PTL DEF PeripheralsSpec, V151Spec
<1>8. PeripheralsSpec => SfcSpec
  BY <1>1, <1>2, PTL DEF PeripheralsSpec, SfcSpec
<1>9. PeripheralsSpec => UsbSpec
  BY <1>1, <1>2, PTL DEF PeripheralsSpec, UsbSpec
<1>10. PeripheralsSpec => SensorsSpec
  BY <1>1, <1>2, PTL DEF PeripheralsSpec, SensorsSpec
<1>11. PeripheralsSpec => GadcSpec
  BY <1>1, <1>2, PTL DEF PeripheralsSpec, GadcSpec
<1>12. PeripheralsSpec => TrSpec
  BY <1>1, <1>2, PTL DEF PeripheralsSpec, TrSpec
<1>13. PeripheralsSpec => Spec
  BY <1>1, <1>2, PTL DEF PeripheralsSpec, Spec
<1>14. PeripheralsSpec => WdtSpec
  BY <1>1, <1>2, PTL DEF PeripheralsSpec, WdtSpec
<1>15. PeripheralsSpec => TmSpec
  BY <1>1, <1>2, PTL DEF PeripheralsSpec, TmSpec
<1>16. PeripheralsSpec => LcSpec
  BY <1>1, <1>2, PTL DEF PeripheralsSpec, LcSpec
<1>. QED
  BY <1>3, <1>4, <1>5, <1>6, <1>7, <1>8, <1>9, <1>10, <1>11, <1>12, <1>13, <1>14, <1>15, <1>16

LEMMA AlarmTyped == Spec => []TypeOK
<1>1. AlarmInv => TypeOK
  BY DEF AlarmInv
<1>. QED
  BY <1>1, AlarmInit, AlarmStep, PTL DEF Spec

LEMMA V151Typed == V151Spec => []V151TypeOK
<1>1. V151Inv => V151TypeOK
  BY DEF V151Inv
<1>. QED
  BY <1>1, V151InitInv, V151Step, PTL DEF V151Spec

LEMMA WdtTyped == WdtSpec => []WdtTypeOK
<1>1. WdtInv => WdtTypeOK
  BY DEF WdtInv
<1>. QED
  BY <1>1, WdtInitInv, WdtStep, PTL DEF WdtSpec

LEMMA I2cTyped == EmptyReads = FALSE /\ LateAnswers = FALSE => (I2cSpec => []I2cTypeOK)
<1>. SUFFICES ASSUME EmptyReads = FALSE, LateAnswers = FALSE PROVE I2cSpec => []I2cTypeOK
  OBVIOUS
<1>1. I2cInv => I2cTypeOK
  BY DEF I2cInv
<1>2. I2cInv /\ [I2cNext]_i2cVars => I2cInv'
  BY I2cStep
<1>. QED
  BY <1>1, <1>2, I2cInitInv, PTL DEF I2cSpec

LEMMA SfcTyped == EmptyWrites = FALSE /\ SfcOverlap = FALSE => (SfcSpec => []SfcTypeOK)
<1>. SUFFICES ASSUME EmptyWrites = FALSE, SfcOverlap = FALSE PROVE SfcSpec => []SfcTypeOK
  OBVIOUS
<1>1. SfcInv => SfcTypeOK
  BY DEF SfcInv
<1>2. SfcInv /\ [SfcNext]_sfcVars => SfcInv'
  BY SfcStep
<1>. QED
  BY <1>1, <1>2, SfcInitInv, PTL DEF SfcSpec

\* What a sensor, a converter or the USB core returns was made for this call, of the input
\* asked for, and is returned once, and the converter is left isolated: in any behaviour of
\* the drivers, for any channels, depths and counts.
THEOREM EachResultOwn == PeripheralsSpec => []ResultsOwn
<1>1. PeripheralsSpec => [](SampleOnce /\ TemperatureAfterClear)
  BY EachDriverItself, SamplesOwn, PTL
<1>2. PeripheralsSpec => [](GadcAsAsked /\ GadcIsolated)
  BY EachDriverItself, ConversionsAsAsked, PTL
<1>3. PeripheralsSpec => []SpeedNegotiated
  BY EachDriverItself, SpeedOfThisCall, PTL
<1>. QED
  BY <1>1, <1>2, <1>3, PTL DEF ResultsOwn

\* In any behaviour of the drivers, for any clock, width and times: an expiry is not early
\* that was not pending when its channel was enabled, an alarm's never is, and no value is
\* an earlier call's, unless the poll for a timer's lock gave up.
THEOREM EachTimeTrue == PeripheralsSpec => []TimesTrue
<1>1. PeripheralsSpec => [](ExpiryNotEarly /\ CurrentIsFresh)
  BY EachDriverItself, TimerTellsTime, PTL
<1>2. PeripheralsSpec => []CountCoherent
  BY EachDriverItself, ReadingsCoherent, PTL
<1>. QED
  BY <1>1, <1>2, PTL DEF TimesTrue

\* The state of every driver keeps its type, where no port is shared with a handler, no
\* read or write is empty, no bus answers late, and flash commands and DMA are not mixed.
THEOREM EachStateTyped ==
    /\ ~ UartShared /\ ~ TrngShared
    /\ EmptyReads = FALSE /\ LateAnswers = FALSE /\ EmptyWrites = FALSE /\ SfcOverlap = FALSE
    => (PeripheralsSpec => []PeripheralsTypeOK)
<1>. SUFFICES ASSUME ~ UartShared, ~ TrngShared, EmptyReads = FALSE, LateAnswers = FALSE,
                     EmptyWrites = FALSE, SfcOverlap = FALSE
              PROVE  PeripheralsSpec => []PeripheralsTypeOK
  OBVIOUS
<1>1. /\ (I2cSpec => []I2cTypeOK) /\ (SfcSpec => []SfcTypeOK)
      /\ (UpSpec => []UpTypeOK) /\ (TrSpec => []TrTypeOK)
  BY I2cTyped, SfcTyped, UpAlwaysTyped, TrAlwaysTyped
<1>2. /\ (SensorsSpec => []SensorsTypeOK) /\ (GadcSpec => []GadcTypeOK)
      /\ (UsbSpec => []UsbTypeOK) /\ (TmSpec => []TmTypeOK) /\ (LcSpec => []LcTypeOK)
  BY SamplesOwn, ConversionsAsAsked, SpeedOfThisCall, TimerTellsTime, ReadingsCoherent, PTL
<1>. QED
  BY <1>1, <1>2, EachDriverItself, UartTyped, SpiAlwaysTyped, V151Typed, WdtTyped, AlarmTyped, PTL
  DEF PeripheralsTypeOK

\* What each driver promises it keeps beside the others: every invariant and every action
\* property of the drivers, and the wire's specification, of any behaviour of the composition.
THEOREM DriversAsPromised ==
    /\ ~ UartShared /\ ~ TrngShared
    /\ EmptyReads = FALSE /\ LateAnswers = FALSE /\ EmptyWrites = FALSE /\ SfcOverlap = FALSE
    => (PeripheralsSpec =>
          /\ [](OkMeansObeyed /\ SpiSafe /\ V151Safe /\ SfcSafe /\ WdtSafe)
          /\ [](AlarmPending /\ AlarmForEarliest /\ ResultsOwn /\ TimesTrue)
          /\ WireSpec /\ AwaitedByteIsFresh /\ UartSafe /\ RandomSafe /\ NeverEarly)
<1>. SUFFICES ASSUME ~ UartShared, ~ TrngShared, EmptyReads = FALSE, LateAnswers = FALSE,
                     EmptyWrites = FALSE, SfcOverlap = FALSE
              PROVE  PeripheralsSpec =>
                       /\ [](OkMeansObeyed /\ SpiSafe /\ V151Safe /\ SfcSafe /\ WdtSafe)
                       /\ [](AlarmPending /\ AlarmForEarliest /\ ResultsOwn /\ TimesTrue)
                       /\ WireSpec /\ AwaitedByteIsFresh /\ UartSafe /\ RandomSafe /\ NeverEarly
  OBVIOUS
<1>1. (UpSpec => UartSafe) /\ (TrSpec => RandomSafe)
  BY PortAsPromised, RandomnessOnce
<1>2. (I2cSpec => []OkMeansObeyed) /\ (I2cSpec => WireSpec) /\ (SfcSpec => []SfcSafe)
  BY I2cOkMeansObeyed, I2cImplementsWire, SfcCommandsDone
<1>. QED
  BY <1>1, <1>2, EachDriverItself, SpiAsPromised, V151ResultsOwn, WatchdogTrue,
     AlarmAlwaysPending, AlarmAlwaysEarliest, NeverWokenEarly, AwaitedBytesFresh,
     EachResultOwn, EachTimeTrue, PTL
=================================================================================
