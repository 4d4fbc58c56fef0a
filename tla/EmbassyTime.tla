------------------------------ MODULE EmbassyTime ------------------------------
(***************************************************************************)
(* The embassy-time driver (embassy.rs): tasks put deadlines into a queue, *)
(* one timer channel is armed for the earliest of them, and its interrupt  *)
(* wakes what has expired and arms it again.  Time is the 64-bit TCXO      *)
(* counter, latched and then read in pieces.                               *)
(*                                                                         *)
(* schedule_wake and on_alarm_interrupt run in a critical section, which   *)
(* nothing on the hart comes between; the counter and the timer go on.     *)
(* now() runs outside it, and the alarm may interrupt it.                  *)
(***************************************************************************)
EXTENDS Integers, FiniteSets

CONSTANTS Sleepers,   \* tasks with a timer each
          Deadlines,  \* deadlines they ask for, in ticks
          TcxoHz,     \* TCXO_HZ, and TIMER_CLOCK_HZ, which is the same
          TickHz,     \* TICK_HZ
          Word,       \* stands for 2^64
          MaxLoad,    \* stands for u32::MAX
          Lane,       \* what one read of the counter yields; stands for 2^16
          MaxCount    \* the counter is followed up to here

Never == Word - 1     \* u64::MAX: no deadline

ASSUME EmbassyAssumption ==
    /\ TcxoHz \in Nat \ {0} /\ TickHz \in Nat \ {0}
    /\ Word \in Nat \ {0} /\ MaxLoad \in Nat \ {0} /\ Lane \in Nat \ {0}
    /\ MaxCount \in Nat
    /\ Deadlines \subseteq 0..(Never - 1)

VARIABLES count,    \* the TCXO counter
          latch,    \* tcxo_count0..3
          queue,    \* the deadline of each task, Never if it has none
          running,  \* timer0_control.enable
          load,     \* timer0_load_count
          left,     \* the down-counter
          raised,   \* the alarm's level, until EOI
          irqOn,    \* interrupt::enable(ALARM_INTERRUPT)
          cs,       \* where the critical section is
          next,     \* set_alarm's `at`
          rd,       \* where a now() is
          low,      \* the part it has read
          last      \* the latest time now() returned

alarmVars == <<running, load, left, raised, irqOn>>
nowVars == <<rd, low, last>>
vars == <<count, latch, queue, alarmVars, cs, next, nowVars>>

TypeOK ==
    /\ count \in Nat /\ latch \in Nat
    /\ queue \in [Sleepers -> Deadlines \cup {Never}]
    /\ running \in BOOLEAN /\ raised \in BOOLEAN /\ irqOn \in BOOLEAN
    /\ load \in 0..MaxLoad /\ left \in 0..MaxLoad
    /\ cs \in {"free", "expire", "stop", "ack", "arm", "start"}
    /\ next \in Deadlines \cup {Never}
    /\ rd \in {"idle", "low", "high"}
    /\ low \in 0..(Lane - 1)
    /\ last \in Nat

Init ==
    /\ count = 0 /\ latch = 0
    /\ queue = [t \in Sleepers |-> Never]
    /\ running = FALSE /\ load = 0 /\ left = 0 /\ raised = FALSE
    /\ irqOn = FALSE
    /\ cs = "free" /\ next = Never
    /\ rd = "idle" /\ low = 0 /\ last = 0

-----------------------------------------------------------------------------
(* Counts and ticks. *)

\* The product is taken in a u64.
TicksOf(n) == ((n * TickHz) % Word) \div TcxoHz

CountsOf(ticks) == ((ticks * TcxoHz) % Word) \div TickHz

\* Ticks until a deadline: saturating_sub and max(1).
Delta(at, now) == IF at > now THEN at - now ELSE 1

\* Variant: the count is not clamped.
LoadForUnclamped(ticks) == IF CountsOf(ticks) = 0 THEN 1 ELSE CountsOf(ticks)

\* What is loaded for it: at least one count, at most a u32.
LoadFor(ticks) ==
    IF CountsOf(ticks) = 0 THEN 1
    ELSE IF CountsOf(ticks) > MaxLoad THEN MaxLoad
    ELSE CountsOf(ticks)

-----------------------------------------------------------------------------
(* The critical section. *)

\* What next_expiration returns for a queue.
Earliest(d, q) == d \in {q[t] : t \in Sleepers} /\ \A t \in Sleepers : d <= q[t]

\* What next_expiration returns for what it leaves in the queue.
NextExpiration ==
    \E t \in Sleepers : next' = queue'[t] /\ Earliest(queue'[t], queue')

\* Variant: only a first deadline arms the alarm.
schedule_wake_first(t, at) ==
    /\ cs = "free" /\ rd = "idle"
    /\ queue' = [queue EXCEPT ![t] = IF at < @ THEN at ELSE @]
    /\ cs' = IF \A u \in Sleepers : queue[u] = Never THEN "expire" ELSE "free"
    /\ UNCHANGED <<count, latch, alarmVars, next, nowVars>>

\* Queue::schedule_wake keeps the earlier of a task's deadlines and says
\* whether it changed anything.
schedule_wake(t, at) ==
    /\ cs = "free" /\ rd = "idle"
    /\ queue' = [queue EXCEPT ![t] = IF at < @ THEN at ELSE @]
    /\ cs' = IF at < queue[t] THEN "expire" ELSE "free"
    /\ UNCHANGED <<count, latch, alarmVars, next, nowVars>>

on_alarm_interrupt ==
    /\ cs = "free"
    /\ raised /\ irqOn
    /\ cs' = "expire"
    /\ UNCHANGED <<count, latch, queue, alarmVars, next, nowVars>>

\* Variant: the alarm has fired, so its deadline has come.
ExpireTrusting ==
    /\ cs = "expire"
    /\ latch' = count
    /\ LET now == IF raised /\ next > TicksOf(count) /\ next # Never
                  THEN next ELSE TicksOf(count)
       IN  queue' = [t \in Sleepers |->
                       IF queue[t] <= now THEN Never ELSE queue[t]]
    /\ NextExpiration
    /\ cs' = "stop"
    /\ UNCHANGED <<count, alarmVars, nowVars>>

\* Variant: wake what has expired, and wait for nothing more.
ExpireNoRearm ==
    /\ cs = "expire"
    /\ latch' = count
    /\ queue' = [t \in Sleepers |->
                   IF queue[t] <= TicksOf(count) THEN Never ELSE queue[t]]
    /\ IF raised THEN next' = Never ELSE NextExpiration
    /\ cs' = "stop"
    /\ UNCHANGED <<count, alarmVars, nowVars>>

\* next_expiration(now_ticks()): wake what has expired, return the earliest
\* that has not.
Expire ==
    /\ cs = "expire"
    /\ latch' = count
    /\ queue' = [t \in Sleepers |->
                   IF queue[t] <= TicksOf(count) THEN Never ELSE queue[t]]
    /\ NextExpiration
    /\ cs' = "stop"
    /\ UNCHANGED <<count, alarmVars, nowVars>>

Stop ==
    /\ cs = "stop"
    /\ running' = FALSE
    /\ cs' = "ack"
    /\ UNCHANGED <<count, latch, queue, load, left, raised, irqOn, next, nowVars>>

\* EOI, clear_pending, and out if there is nothing to wait for.
Acknowledge ==
    /\ cs = "ack"
    /\ raised' = FALSE
    /\ cs' = IF next = Never THEN "free" ELSE "arm"
    /\ UNCHANGED <<count, latch, queue, running, load, left, irqOn, next, nowVars>>

\* Variant: no lower bound on the delta or on the counts.
ArmUnbounded ==
    /\ cs = "arm"
    /\ latch' = count
    /\ load' = IF next > TicksOf(count)
               THEN LoadFor(next - TicksOf(count)) ELSE 0
    /\ cs' = "start"
    /\ UNCHANGED <<count, queue, running, left, raised, irqOn, next, nowVars>>

\* The time is read a second time for the load count.
Arm ==
    /\ cs = "arm"
    /\ latch' = count
    /\ load' = LoadFor(Delta(next, TicksOf(count)))
    /\ cs' = "start"
    /\ UNCHANGED <<count, queue, running, left, raised, irqOn, next, nowVars>>

Start ==
    /\ cs = "start"
    /\ running' = TRUE
    /\ left' = load
    /\ irqOn' = TRUE
    /\ cs' = "free"
    /\ UNCHANGED <<count, latch, queue, load, raised, next, nowVars>>

-----------------------------------------------------------------------------
(* now(), which nothing protects. *)

NowLatch ==
    /\ cs = "free" /\ rd = "idle"
    /\ latch' = count
    /\ rd' = "low"
    /\ UNCHANGED <<count, queue, alarmVars, cs, next, low, last>>

NowLow ==
    /\ cs = "free" /\ rd = "low"
    /\ low' = latch % Lane
    /\ rd' = "high"
    /\ UNCHANGED <<count, latch, queue, alarmVars, cs, next, last>>

NowHigh ==
    /\ cs = "free" /\ rd = "high"
    /\ last' = TicksOf((latch \div Lane) * Lane + low)
    /\ low' = 0
    /\ rd' = "idle"
    /\ UNCHANGED <<count, latch, queue, alarmVars, cs, next>>

-----------------------------------------------------------------------------
(* The clock, which both counters run on (outside the code).  Past MaxCount *)
(* only the timer is followed.                                             *)

Tick ==
    /\ count' = IF count < MaxCount THEN count + 1 ELSE count
    /\ left' = IF running /\ left > 0 THEN left - 1 ELSE left
    /\ raised' = (raised \/ (running /\ left = 1))
    /\ UNCHANGED <<latch, queue, running, load, irqOn, cs, next, nowVars>>

-----------------------------------------------------------------------------
Section == Expire \/ Stop \/ Acknowledge \/ Arm \/ Start

Next ==
    \/ \E t \in Sleepers, at \in Deadlines : schedule_wake(t, at)
    \/ on_alarm_interrupt \/ Section
    \/ NowLatch \/ NowLow \/ NowHigh
    \/ Tick

Spec == Init /\ [][Next]_vars

\* The hart runs, the clock ticks, and a pending alarm is taken (the firmware
\* has enabled interrupts globally).
FairSpec ==
    /\ Spec
    /\ WF_vars(Section)
    /\ SF_vars(on_alarm_interrupt)
    /\ WF_vars(Tick)

-----------------------------------------------------------------------------
(* Properties. *)

\* While a deadline is queued, the alarm is on its way: outside the critical
\* section the channel counts with its interrupt on, or has raised it.  No
\* order of requests, expiries and acknowledgements leaves it stopped.
AlarmPending ==
    cs = "free" /\ (\E t \in Sleepers : queue[t] # Never) =>
        irqOn /\ (raised \/ (running /\ left > 0))

\* The alarm is set for the earliest deadline or, where that is too far away
\* for the timer, earlier.
AlarmForEarliest ==
    cs = "free" /\ running => Earliest(next, queue)

\* Why both hold: what the critical section has established so far.
AlarmInv ==
    /\ TypeOK
    /\ AlarmPending
    /\ AlarmForEarliest
    /\ cs \in {"stop", "ack", "arm", "start"} => Earliest(next, queue)
    /\ cs \in {"ack", "arm", "start"} => ~ running
    /\ cs \in {"arm", "start"} => next # Never
    /\ cs = "start" => load > 0

\* A task is woken at its deadline at the earliest, though the alarm may fire
\* before it.
NeverEarly ==
    [][\A t \in Sleepers :
          queue[t] # Never /\ queue'[t] = Never =>
             queue[t] * TcxoHz <= count * TickHz]_vars

\* Every deadline that the clock reaches is kept, those that took several
\* alarms included.  embassy.rs:11-12 "on expiry ... drains the expired wakers
\* and re-arms for the next deadline".
DeadlinesKept ==
    \A t \in Sleepers :
        queue[t] <= TicksOf(MaxCount) ~> queue[t] = Never

\* embassy.rs:6-8 "`now()` reads the TCXO 64-bit free-running counter ... It is
\* monotonic and tracks real ... elapsed time".
NowMonotonic == [][last' >= last]_vars
=============================================================================
