-------------------------------- MODULE Sensors --------------------------------
(***************************************************************************)
(* The low-speed ADC (lsadc.rs) and the temperature sensor (tsensor.rs).   *)
(* A conversion is one number, the count of conversions up to it.          *)
(***************************************************************************)
EXTENDS Integers, SequencesExt

CONSTANTS AdcChannels, \* the channels asked for; stands for 0 to 5
          AdcDepth,    \* samples the FIFO holds
          MaxConversions, \* a bound
          AdcPolled,   \* the program also reads without waiting
          AdcOtherWakes \* what has nothing to do with the ADC has the task polled too

ASSUME SensorsAssumption == MaxConversions \in Nat /\ AdcOtherWakes \in BOOLEAN

NoSample == [ch |-> -1, nr |-> -1]

VARIABLES adcOn,      \* da_lsadc_rstn
          adcScan,    \* channels enabled in LSADC_CTRL_0
          adcQueue,   \* channels left of the scan that runs
          adcFifo,
          adcPending, \* LSADC_INTR is pending
          adcIrqOn,   \* and enabled
          adcFired,   \* LSADC_SIGNAL's flag,
          adcWaker,   \* and whether the task's waker is parked in it
          adcWoken,   \* the waker has been called
          adcDriver,  \* what polls the task
          adcPc,      \* where read_async is
          adcGot,     \* the sample the last read returned
          adcSeen,    \* the newest conversion returned before it
          tsOn, tsMode, tsBusy, tsReady,
          tsCode,     \* the conversion whose code the status register holds
          tsCleared,  \* conversions before the last clear_status
          tsGot,      \* the code the last read returned
          tsWaits,    \* read_blocking is polling
          tsEvents,   \* tsensor_temp_int_sts
          tsIntEn,
          conversions \* of either device, so far

adcSignal == <<adcFired, adcWaker, adcWoken>>
adcVars == <<adcOn, adcScan, adcQueue, adcFifo, adcPending, adcIrqOn, adcSignal, adcDriver,
             adcPc, adcGot, adcSeen>>
tsVars == <<tsOn, tsMode, tsBusy, tsReady, tsCode, tsCleared, tsGot, tsWaits, tsEvents,
            tsIntEn>>
sensorVars == <<adcVars, tsVars, conversions>>

Numbers == -1..MaxConversions
AdcSample == [ch : AdcChannels, nr : Numbers]
TsInterrupts == {"done", "out of threshold", "over temperature"}

SensorsTypeOK ==
    /\ adcOn \in BOOLEAN /\ adcScan \subseteq AdcChannels
    /\ \A i \in DOMAIN adcQueue : adcQueue[i] \in AdcChannels
    /\ \A i \in DOMAIN adcFifo : adcFifo[i] \in AdcSample
    /\ adcPending \in BOOLEAN /\ adcIrqOn \in BOOLEAN
    /\ adcFired \in BOOLEAN /\ adcWaker \in BOOLEAN /\ adcWoken \in BOOLEAN
    /\ adcDriver \in {"block_on", "executor"}
    /\ adcPc \in {"idle", "reset", "enable", "start", "look", "poll", "register", "pending",
                  "asleep", "read"}
    /\ adcSeen \in Numbers
    /\ adcGot \in AdcSample \cup {NoSample}
    /\ tsOn \in BOOLEAN /\ tsMode \in 0..3 /\ tsBusy \in BOOLEAN /\ tsReady \in BOOLEAN
    /\ tsCode \in Numbers /\ tsCleared \in Numbers /\ tsGot \in Numbers
    /\ tsWaits \in BOOLEAN
    /\ tsEvents \subseteq TsInterrupts /\ tsIntEn \subseteq TsInterrupts
    /\ conversions \in 0..MaxConversions

SensorsInit ==
    /\ adcOn = FALSE /\ adcScan = {} /\ adcQueue = <<>> /\ adcFifo = <<>>
    /\ adcPending = FALSE /\ adcIrqOn = FALSE
    /\ adcFired = FALSE /\ adcWaker = FALSE /\ adcWoken = FALSE
    /\ adcDriver \in {"block_on", "executor"}
    /\ adcPc = "idle" /\ adcGot = NoSample /\ adcSeen = -1
    /\ tsOn = FALSE /\ tsMode = 0 /\ tsBusy = FALSE /\ tsReady = FALSE /\ tsCode = 0
    /\ tsCleared = 0 /\ tsGot = -1 /\ tsWaits = FALSE /\ tsEvents = {} /\ tsIntEn = {}
    /\ conversions = 0

-----------------------------------------------------------------------------
(* The low-speed ADC. *)

AdcIdle == adcPc = "idle"

AdcReset(on) ==
    /\ AdcIdle
    /\ adcOn' = on
    /\ UNCHANGED <<adcScan, adcQueue, adcFifo, adcPending, adcIrqOn, adcSignal, adcDriver,
                   adcPc, adcGot, adcSeen>>

\* Variant: the channel's bit replaces the others.
configure_scan_alone(ch) ==
    /\ AdcIdle
    /\ adcScan' = {ch}
    /\ UNCHANGED <<adcOn, adcQueue, adcFifo, adcPending, adcIrqOn, adcSignal, adcDriver,
                   adcPc, adcGot, adcSeen>>

\* The channel joins those already enabled; no call takes one out again.
configure_scan(ch) ==
    /\ AdcIdle
    /\ adcScan' = adcScan \cup {ch}
    /\ UNCHANGED <<adcOn, adcQueue, adcFifo, adcPending, adcIrqOn, adcSignal, adcDriver,
                   adcPc, adcGot, adcSeen>>

StartScan == adcQueue' = SetToSeq(adcScan)

start_scan ==
    /\ AdcIdle /\ AdcPolled
    /\ StartScan
    /\ UNCHANGED <<adcOn, adcScan, adcFifo, adcPending, adcIrqOn, adcSignal, adcDriver,
                   adcPc, adcGot, adcSeen>>

stop_scan ==
    /\ AdcIdle
    /\ adcQueue' = <<>>
    /\ UNCHANGED <<adcOn, adcScan, adcFifo, adcPending, adcIrqOn, adcSignal, adcDriver,
                   adcPc, adcGot, adcSeen>>

\* rne.
data_ready == adcFifo # <<>>

\* Variant: an empty FIFO reads as a sample of channel 0.
AdcTakeUnchecked ==
    /\ adcSeen' = IF adcGot = NoSample THEN adcSeen ELSE adcGot.nr
    /\ adcGot' = IF data_ready THEN Head(adcFifo)
                 ELSE [ch |-> CHOOSE c \in AdcChannels : TRUE, nr |-> 0]
    /\ adcFifo' = IF data_ready THEN Tail(adcFifo) ELSE <<>>

\* read_sample: nothing when the FIFO is empty.
AdcTake ==
    /\ adcSeen' = IF adcGot = NoSample THEN adcSeen ELSE adcGot.nr
    /\ adcGot' = IF data_ready THEN Head(adcFifo) ELSE NoSample
    /\ adcFifo' = IF data_ready THEN Tail(adcFifo) ELSE <<>>

read_sample ==
    /\ AdcIdle /\ AdcPolled
    /\ AdcTake
    /\ UNCHANGED <<adcOn, adcScan, adcQueue, adcPending, adcIrqOn, adcSignal, adcDriver, adcPc>>

\* Called with a channel enabled and the analog part on.
ReadAsyncCall ==
    /\ AdcIdle /\ adcOn /\ adcScan # {}
    /\ conversions + Len(adcQueue) < MaxConversions
    /\ adcPc' = "reset"
    /\ adcGot' = NoSample /\ adcSeen' = IF adcGot = NoSample THEN adcSeen ELSE adcGot.nr
    /\ UNCHANGED <<adcOn, adcScan, adcQueue, adcFifo, adcPending, adcIrqOn, adcSignal, adcDriver>>

AdcGoto(from, to) == adcPc = from /\ adcPc' = to

\* ConvFuture takes the flag, and parks the waker when it was not set: what arrives in
\* between is seen by neither.  The task then sleeps until it is polled again.
AwaitConversion ==
    \/ /\ AdcGoto("poll", IF adcFired THEN "read" ELSE "register")
       /\ adcFired' = FALSE /\ UNCHANGED <<adcWaker, adcWoken>>
    \/ /\ AdcGoto("register", "pending")
       /\ adcWaker' = TRUE /\ UNCHANGED <<adcFired, adcWoken>>
    \/ /\ AdcGoto("pending", "asleep")
       /\ UNCHANGED adcSignal
    \/ /\ AdcGoto("asleep", "poll")
       /\ adcWoken /\ adcWoken' = FALSE
       /\ UNCHANGED <<adcFired, adcWaker>>

ReadAsyncStep ==
    \/ /\ AdcGoto("reset", "enable")
       /\ adcFired' = FALSE /\ adcWaker' = FALSE
       /\ UNCHANGED <<adcWoken, adcIrqOn, adcQueue, adcFifo, adcGot, adcSeen>>
    \/ /\ AdcGoto("enable", "start")
       /\ adcIrqOn' = TRUE
       /\ UNCHANGED <<adcSignal, adcQueue, adcFifo, adcGot, adcSeen>>
    \/ /\ AdcGoto("start", "look")
       /\ StartScan
       /\ UNCHANGED <<adcSignal, adcIrqOn, adcFifo, adcGot, adcSeen>>
    \/ /\ AdcGoto("look", IF data_ready THEN "read" ELSE "poll")
       /\ UNCHANGED <<adcSignal, adcIrqOn, adcQueue, adcFifo, adcGot, adcSeen>>
    \/ /\ AwaitConversion
       /\ UNCHANGED <<adcIrqOn, adcQueue, adcFifo, adcGot, adcSeen>>
    \/ /\ AdcGoto("read", "idle")
       /\ AdcTake
       /\ UNCHANGED <<adcSignal, adcIrqOn, adcQueue>>

read_async == ReadAsyncStep /\ UNCHANGED <<adcOn, adcScan, adcPending, adcDriver>>

\* An interrupt ends the wfi of block_on, which polls again, and leaves nothing behind
\* that would end a later one; an executor polls a task whose waker was called.
AdcWake(called) ==
    /\ adcPc' = IF adcDriver = "block_on" /\ adcPc = "asleep" THEN "poll" ELSE adcPc
    /\ adcWoken' = (adcWoken \/ (adcDriver = "executor" /\ called))

\* Variant: the pending bit is cleared, and nobody is woken.
AdcInterruptSilent ==
    /\ adcPending /\ adcIrqOn
    /\ adcPending' = FALSE
    /\ UNCHANGED <<adcOn, adcScan, adcQueue, adcFifo, adcIrqOn, adcSignal, adcDriver, adcPc,
                   adcGot, adcSeen>>

\* on_interrupt.
AdcInterrupt ==
    /\ adcPending /\ adcIrqOn
    /\ adcFired' = TRUE /\ adcWaker' = FALSE
    /\ AdcWake(adcWaker)
    /\ adcPending' = FALSE
    /\ UNCHANGED <<adcOn, adcScan, adcQueue, adcFifo, adcIrqOn, adcDriver, adcGot, adcSeen>>

\* Another interrupt, or the waker of another branch of the task.
AdcOtherWake ==
    /\ AdcOtherWakes /\ adcPc = "asleep"
    /\ AdcWake(TRUE)
    /\ UNCHANGED <<adcOn, adcScan, adcQueue, adcFifo, adcPending, adcIrqOn, adcFired, adcWaker,
                   adcDriver, adcGot, adcSeen>>

\* The block converts one channel of the scan, when there is room.
AdcConvert ==
    /\ adcOn /\ adcQueue # <<>> /\ Len(adcFifo) < AdcDepth
    /\ conversions < MaxConversions
    /\ adcFifo' = Append(adcFifo, [ch |-> Head(adcQueue), nr |-> conversions])
    /\ adcQueue' = Tail(adcQueue)
    /\ adcPending' = TRUE
    /\ conversions' = conversions + 1
    /\ UNCHANGED <<adcOn, adcScan, adcIrqOn, adcSignal, adcDriver, adcPc, adcGot, adcSeen>>

AdcNext ==
    \/ AdcConvert /\ UNCHANGED tsVars
    \/ /\ \/ \E on \in BOOLEAN : AdcReset(on)
          \/ \E ch \in AdcChannels : configure_scan(ch)
          \/ start_scan \/ stop_scan \/ read_sample
          \/ ReadAsyncCall \/ read_async \/ AdcInterrupt \/ AdcOtherWake
       /\ UNCHANGED <<tsVars, conversions>>

-----------------------------------------------------------------------------
(* The temperature sensor. *)

TsIdle == ~ tsWaits

\* enable, disable and set_mode modify their own bits of tsensor_ctrl.
TsControl ==
    /\ TsIdle
    /\ \/ tsOn' \in BOOLEAN /\ UNCHANGED tsMode
       \/ tsMode' \in {0, 3} /\ UNCHANGED tsOn
    /\ UNCHANGED <<tsBusy, tsReady, tsCode, tsCleared, tsGot, tsWaits, tsEvents, tsIntEn>>

start_conversion ==
    /\ TsIdle
    /\ tsBusy' = tsOn
    /\ UNCHANGED <<tsOn, tsMode, tsReady, tsCode, tsCleared, tsGot, tsWaits, tsEvents,
                   tsIntEn>>

\* Variant: the code is read whether it is ready or not.
TsReadyAlways == TRUE

\* data_ready: bit 1 of tsensor_sts.
TsReady == tsReady

\* read_raw, which returns at once, and one poll of read_blocking.
TsRead ==
    /\ tsGot' = IF TsReady THEN tsCode ELSE -1
    /\ tsWaits' = (~ TsReady /\ tsWaits)
    /\ UNCHANGED <<tsOn, tsMode, tsBusy, tsReady, tsCode, tsCleared, tsEvents, tsIntEn>>

read_blocking ==
    /\ TsIdle
    /\ tsWaits' = TRUE /\ tsGot' = -1
    /\ UNCHANGED <<tsOn, tsMode, tsBusy, tsReady, tsCode, tsCleared, tsEvents, tsIntEn>>

\* clear_status writes the status back with its clear bit.
clear_status ==
    /\ TsIdle
    /\ tsReady' = FALSE /\ tsGot' = -1
    /\ tsCleared' = conversions
    /\ UNCHANGED <<tsOn, tsMode, tsBusy, tsCode, tsWaits, tsEvents, tsIntEn>>

\* enable_interrupts, disable_all_interrupts and clear_interrupts.
TsInterruptCalls ==
    /\ TsIdle
    /\ \E some \in {{}, {"done"}, TsInterrupts} :
         \/ tsIntEn' = some /\ UNCHANGED tsEvents
         \/ tsEvents' = tsEvents \ some /\ UNCHANGED tsIntEn
    /\ UNCHANGED <<tsOn, tsMode, tsBusy, tsReady, tsCode, tsCleared, tsGot, tsWaits>>

\* A conversion ends.
TsConvert ==
    /\ tsOn /\ tsBusy /\ conversions < MaxConversions
    /\ tsBusy' = FALSE /\ tsReady' = TRUE /\ tsCode' = conversions
    /\ tsEvents' = tsEvents \cup ({"done"} \cap tsIntEn)
    /\ conversions' = conversions + 1
    /\ UNCHANGED <<tsOn, tsMode, tsCleared, tsGot, tsWaits, tsIntEn>>

TsNext ==
    \/ TsConvert /\ UNCHANGED adcVars
    \/ /\ \/ TsControl \/ start_conversion \/ TsRead \/ read_blocking \/ clear_status
          \/ TsInterruptCalls
       /\ UNCHANGED <<adcVars, conversions>>

SensorsSpec == SensorsInit /\ [][AdcNext \/ TsNext]_sensorVars

-----------------------------------------------------------------------------
\* The block converts, the handler is taken, the task goes on, and what else polls it
\* happens again and again, where AdcOtherWakes says that there is such a thing.
SensorsFairness ==
    /\ WF_sensorVars(AdcConvert /\ UNCHANGED tsVars)
    /\ WF_sensorVars(AdcInterrupt /\ UNCHANGED <<tsVars, conversions>>)
    /\ WF_sensorVars(read_async /\ UNCHANGED <<tsVars, conversions>>)
    /\ WF_sensorVars(AdcOtherWake /\ UNCHANGED <<tsVars, conversions>>)

-----------------------------------------------------------------------------
(* Properties. *)

\* A sample that is returned was converted, is returned once, in order, and is of
\* a channel that is enabled.  lsadc.rs:258-259 "so a genuine 0-code reading is
\* not mistaken for no data".
SampleOnce ==
    adcGot # NoSample =>
        /\ adcGot.ch \in adcScan
        /\ adcGot.nr < conversions
        /\ adcGot.nr > adcSeen

\* read_async returns, whatever scans and interrupts went before it.  lsadc.rs:433 "On
\* hardware this parks until the IRQ".  An interrupt between taking the flag and parking
\* the waker (lsadc.rs:422-425) wakes nobody: the property needs AdcOtherWakes.
AdcReadReturns == adcPc = "reset" ~> adcPc = "idle"

\* A temperature that is read was taken after the last clear_status.
\* tsensor.rs:92 "Returns None if data is not ready".
TemperatureAfterClear == tsGot # -1 => tsGot >= tsCleared
=============================================================================
