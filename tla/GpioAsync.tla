------------------------------- MODULE GpioAsync -------------------------------
(***************************************************************************)
(* Waiting for a GPIO input (gpio.rs): each task holds the Input of one    *)
(* pin and awaits a level or an edge on it.  The pins of a bank share its  *)
(* registers, its interrupt and its signal.                                *)
(***************************************************************************)
EXTENDS Executor

CONSTANTS BankOf,  \* the bank of each task's pin
          Waits    \* the waits the tasks use

AllWaits == {"high", "low", "rising", "falling", "any"}
Triggers == AllWaits \ {"any"}

ASSUME GpioAssumption == BankOf \in [Tasks -> Signals] /\ Waits \subseteq AllWaits

VARIABLES level,  \* the pin's level; gpio_sw_out
          edge,   \* gpio_int_type: edge-triggered
          high,   \* gpio_int_polarity: high or rising
          latch,  \* an edge has been latched since the last EOI
          en,     \* gpio_int_en
          irqOn,  \* banks whose GPIO_INTn has been enabled
          pc,     \* where a task is in arm_and_wait
          asked,  \* the wait it is in
          trig,   \* the trigger it chose for it
          read,   \* gpio_int_en as read by its enable_interrupt
          met,    \* what it waits for has happened since its call
          due     \* ... since it began to await

pinVars == <<level, edge, high, latch, en, irqOn>>
taskVars == <<pc, asked, trig, read, met, due>>
vars == <<executorVars, pinVars, taskVars>>

Steps == {"idle", "type", "polarity", "clear", "reset", "read", "write", "irq",
          "await"}

TypeOK ==
    /\ ExecutorTypeOK
    /\ level \in [Tasks -> BOOLEAN]
    /\ edge \in [Tasks -> BOOLEAN]
    /\ high \in [Tasks -> BOOLEAN]
    /\ latch \in [Tasks -> BOOLEAN]
    /\ en \in SUBSET Tasks
    /\ irqOn \in SUBSET Signals
    /\ pc \in [Tasks -> Steps]
    /\ asked \in [Tasks -> AllWaits]
    /\ trig \in [Tasks -> Triggers]
    /\ read \in [Tasks -> SUBSET Tasks]
    \* a bank's register holds the bits of its own pins
    /\ \A t \in Tasks : \A p \in read[t] : BankOf[p] = BankOf[t]
    /\ met \in [Tasks -> BOOLEAN]
    /\ due \in [Tasks -> BOOLEAN]

Init ==
    /\ ExecutorInit
    /\ level \in [Tasks -> BOOLEAN]
    /\ edge = [t \in Tasks |-> FALSE]
    /\ high = [t \in Tasks |-> FALSE]
    /\ latch = [t \in Tasks |-> FALSE]
    /\ en = {}
    /\ irqOn = {}
    /\ pc = [t \in Tasks |-> "idle"]
    /\ asked = [t \in Tasks |-> "rising"]
    /\ trig = [t \in Tasks |-> "rising"]
    /\ read = [t \in Tasks |-> {}]
    /\ met = [t \in Tasks |-> FALSE]
    /\ due = [t \in Tasks |-> FALSE]

PinsOf(b) == {t \in Tasks : BankOf[t] = b}

\* gpio_int_raw: an edge-triggered pin shows its latch, the others whether
\* their level is the one they trigger on.
Raw(t) == IF edge[t] THEN latch[t] ELSE level[t] = high[t]

\* The wait w is over when the level goes, or has gone, to l.
Matches(w, l) == w = "any" \/ (l <=> w \in {"high", "rising"})

\* A task keeps the hart until it goes to sleep or returns to its caller.
Turn(t) == \A u \in Tasks \ {t} : pc[u] = "idle" \/ poll[u] = "asleep"

Goto(t, from, to) == Turn(t) /\ pc[t] = from /\ pc' = [pc EXCEPT ![t] = to]

-----------------------------------------------------------------------------
(* The waits. *)

\* A level wait that finds the level there returns at once; wait_for_any_edge
\* looks at the level to choose the edge that can come next.
wait_for(t, w) ==
    /\ Goto(t, "idle", "type")
    /\ w \in {"high", "low"} => ~ Matches(w, level[t])
    /\ asked' = [asked EXCEPT ![t] = w]
    /\ trig' = [trig EXCEPT ![t] = IF w # "any" THEN w
                                   ELSE IF level[t] THEN "falling"
                                   ELSE "rising"]
    /\ met' = [met EXCEPT ![t] = FALSE]
    /\ UNCHANGED <<executorVars, pinVars, read, due>>

\* set_interrupt_trigger: two registers, one after the other.  A latch means
\* nothing while its pin is level-triggered.
TriggerType(t) ==
    /\ Goto(t, "type", "polarity")
    /\ edge' = [edge EXCEPT ![t] = trig[t] \in {"rising", "falling"}]
    /\ UNCHANGED <<executorVars, level, high, latch, en, irqOn, asked, trig,
                   read, met, due>>

TriggerPolarity(t) ==
    /\ Goto(t, "polarity", "clear")
    /\ high' = [high EXCEPT ![t] = trig[t] \in {"high", "rising"}]
    /\ UNCHANGED <<executorVars, level, edge, latch, en, irqOn, asked, trig,
                   read, met, due>>

ClearInterrupt(t) ==
    /\ Goto(t, "clear", "reset")
    /\ latch' = [latch EXCEPT ![t] = FALSE]
    /\ UNCHANGED <<executorVars, level, edge, high, en, irqOn, asked, trig,
                   read, met, due>>

ResetSignal(t) ==
    /\ Goto(t, "reset", "read")
    /\ reset(BankOf[t])
    /\ UNCHANGED <<poll, pinVars, asked, trig, read, met, due>>

\* Variant: read another bank's register with it.
EnableReadAll(t) ==
    /\ Goto(t, "read", "write")
    /\ read' = [read EXCEPT ![t] = en]
    /\ UNCHANGED <<executorVars, pinVars, asked, trig, met, due>>

\* enable_interrupt reads the bank's register, and writes it back with the
\* pin's bit set.
EnableRead(t) ==
    /\ Goto(t, "read", "write")
    /\ read' = [read EXCEPT ![t] = en \cap PinsOf(BankOf[t])]
    /\ UNCHANGED <<executorVars, pinVars, asked, trig, met, due>>

EnableWrite(t) ==
    /\ Goto(t, "write", "irq")
    /\ en' = (en \ PinsOf(BankOf[t])) \cup read[t] \cup {t}
    /\ read' = [read EXCEPT ![t] = {}]
    /\ UNCHANGED <<executorVars, level, edge, high, latch, irqOn, asked, trig,
                   met, due>>

EnableIrq(t) ==
    /\ Goto(t, "irq", "await")
    /\ irqOn' = irqOn \cup {BankOf[t]}
    /\ poll' = [poll EXCEPT ![t] = "poll"]
    /\ UNCHANGED <<signalVars, level, edge, high, latch, en, asked, trig, read,
                   met, due>>

AwaitStep(t) ==
    /\ Turn(t)
    /\ pc[t] = "await"
    /\ FutureStep(BankOf[t], t) \/ SleepStep(t)
    /\ UNCHANGED <<pinVars, taskVars>>

Return(t) ==
    /\ Goto(t, "await", "idle")
    /\ PollReady(BankOf[t], t)
    /\ due' = [due EXCEPT ![t] = FALSE]
    /\ UNCHANGED <<pinVars, asked, trig, read, met>>

-----------------------------------------------------------------------------
(* Interrupts. *)

Raised(b) == b \in irqOn /\ \E t \in PinsOf(b) \cap en : Raw(t)

\* Variant: one signal for all the banks.
on_interrupt_shared(b) ==
    /\ Raised(b)
    /\ LET raised == {t \in PinsOf(b) : Raw(t)} IN
          /\ en' = en \ raised
          /\ latch' = [t \in Tasks |-> latch[t] /\ t \notin raised]
    /\ signal(Signals)
    /\ poll' = Interrupted
    /\ UNCHANGED <<level, edge, high, irqOn, taskVars>>

\* Variant: signal only where a future has parked its waker.
on_interrupt_parked(b) ==
    /\ Raised(b)
    /\ LET raised == {t \in PinsOf(b) : Raw(t)} IN
          /\ en' = en \ raised
          /\ latch' = [t \in Tasks |-> latch[t] /\ t \notin raised]
    /\ signal({s \in {b} : waker[s] # NoTask})
    /\ poll' = Interrupted
    /\ UNCHANGED <<level, edge, high, irqOn, taskVars>>

\* Mask and acknowledge every pin of the bank that is raw, then signal.
on_interrupt(b) ==
    /\ Raised(b)
    /\ LET raised == {t \in PinsOf(b) : Raw(t)} IN
          /\ en' = en \ raised
          /\ latch' = [t \in Tasks |-> latch[t] /\ t \notin raised]
    /\ signal({b})
    /\ poll' = Interrupted
    /\ UNCHANGED <<level, edge, high, irqOn, taskVars>>

OtherEvent ==
    /\ OtherWake
    /\ UNCHANGED <<pinVars, taskVars>>

\* The pin changes its level (outside the code).
Toggle(t) ==
    /\ level' = [level EXCEPT ![t] = ~ @]
    /\ latch' = [latch EXCEPT ![t] =
                   @ \/ (edge[t] /\ level'[t] = high[t])]
    /\ met' = [met EXCEPT ![t] =
                 @ \/ (pc[t] # "idle" /\ Matches(asked[t], level'[t]))]
    /\ due' = [due EXCEPT ![t] =
                 @ \/ (/\ pc[t] = "await"
                       /\ asked[t] \notin {"high", "low"}
                       /\ Matches(asked[t], level'[t]))]
    /\ UNCHANGED <<executorVars, edge, high, en, irqOn, pc, asked, trig, read>>

-----------------------------------------------------------------------------
TaskStep(t) ==
    \/ TriggerType(t) \/ TriggerPolarity(t) \/ ClearInterrupt(t)
    \/ ResetSignal(t) \/ EnableRead(t) \/ EnableWrite(t) \/ EnableIrq(t)
    \/ AwaitStep(t) \/ Return(t)

Next ==
    \/ \E t \in Tasks :
          \/ \E w \in Waits : wait_for(t, w)
          \/ TaskStep(t) \/ Toggle(t)
    \/ \E b \in Signals : on_interrupt(b)
    \/ OtherEvent

Spec == Init /\ [][Next]_vars

\* A task that can run gets its turn, pending interrupts are taken and, where
\* OtherWakes is set, tasks keep being polled for other reasons too.  No pin
\* need ever change.
FairSpec ==
    /\ Spec
    /\ \A t \in Tasks : SF_vars(TaskStep(t))
    /\ \A b \in Signals : WF_vars(on_interrupt(b))
    /\ WF_vars(OtherEvent)

-----------------------------------------------------------------------------
(* Properties. *)

\* A wait returns only when what it waits for has happened on its own pin
\* since it was called, not for an edge latched, or a flag raised, before that
\* or by another pin.  gpio.rs:665-666 "clears their edge latch, wakes the
\* awaiting Wait future", gpio.rs:707 "Interrupt-driven async edge/level
\* waiting on a GPIO input".
WokenByOwnPin ==
    [][\A t \in Tasks : pc[t] = "await" /\ pc'[t] = "idle" => met[t]]_vars

\* A wait for a rising or a falling edge returns when that edge comes while it
\* awaits, however soon the next one comes after it.
EdgeNoticed == \A t \in Tasks : due[t] /\ asked[t] # "any" ~> pc[t] = "idle"

\* In states of its type, no wait returns for another pin or an earlier event:
\* gpio.rs:665-666, as above.
WaitSafe == []TypeOK /\ WokenByOwnPin
-----------------------------------------------------------------------------
(* Why no wait returns early: what every step preserves. *)

\* Each task's pin is alone in its bank, as far as waits go.
PinsApart == \A t, u \in Tasks : BankOf[t] = BankOf[u] => t = u

\* t's wait has come as far as one of the steps S.
Past(t, S) == pc[t] \in S

Triggered == {"clear", "reset", "read", "write", "irq", "await"}
Cleared == Triggered \ {"clear"}
Armed == Cleared \ {"reset"}

\* What t has chosen and programmed agrees with what it waits for; a level
\* that matches, an edge latched since the EOI, and a flag raised since the
\* signal was reset, are all events of this wait.
WaitInv(t) ==
    /\ Past(t, Triggered \cup {"type", "polarity"}) =>
          trig[t] \in IF asked[t] = "any" THEN {"rising", "falling"}
                      ELSE {asked[t]}
    /\ Past(t, Triggered \cup {"polarity"}) =>
          edge[t] = (trig[t] \in {"rising", "falling"})
    /\ Past(t, Triggered) => high[t] = (trig[t] \in {"high", "rising"})
    /\ pc[t] # "idle" /\ asked[t] \in {"high", "low"} /\ Matches(asked[t], level[t])
          => met[t]
    /\ Past(t, Cleared) /\ edge[t] /\ latch[t] => met[t]
    /\ Past(t, Armed) /\ fired[BankOf[t]] => met[t]

PinInv == TypeOK /\ \A t \in Tasks : WaitInv(t)
=============================================================================
