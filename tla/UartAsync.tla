------------------------------- MODULE UartAsync -------------------------------
(***************************************************************************)
(* Async reception on one UART (uart.rs): a task reads a byte at a time,   *)
(* from the receive FIFO when something is there, otherwise by awaiting    *)
(* the byte that the interrupt handler takes out of the FIFO and leaves in *)
(* a one-byte slot.  The n-th byte on the line is the number n.            *)
(***************************************************************************)
EXTENDS Executor, Sequences, Integers

CONSTANTS MaxBytes,   \* bytes that arrive on the line
          StatusLags  \* whether rx_fifo_empty may stay clear after a pop

\* There is a port with its signal, and a task that reads it.
ASSUME UartAssumption ==
    MaxBytes \in Nat /\ StatusLags \in BOOLEAN /\ Tasks # {} /\ Signals # {}

VARIABLES sent,       \* bytes the line has carried
          fifo,       \* the receive FIFO
          notEmpty,   \* fifo_status.rx_fifo_empty reads 0
          rxIrqOn,    \* rece_data_intr_en
          slot,       \* UART_BYTE
          uartPc,     \* where a task is in read_one
          since,      \* bytes carried when its read began
          lastByte,   \* the byte its last read returned
          due         \* a byte has arrived since it began to await

uartVars == <<sent, fifo, notEmpty, rxIrqOn, slot>>
readVars == <<since, lastByte, due>>
uartAsyncVars == <<executorVars, uartVars, uartPc, readVars>>

\* One reader holds the port's `&mut Uart`, and one signal belongs to it.
Reader == CHOOSE t \in Tasks : TRUE
Port == CHOOSE s \in Signals : TRUE

Bytes == 0..MaxBytes  \* 0 before anything has been received

UartTypeOK ==
    /\ ExecutorTypeOK
    /\ sent \in Bytes
    /\ fifo \in Seq(Bytes)
    /\ notEmpty \in BOOLEAN
    /\ rxIrqOn \in BOOLEAN
    /\ slot \in Bytes
    /\ uartPc \in {"idle", "pop", "reset", "enable", "await", "get"}
    /\ since \in Bytes
    /\ lastByte \in Bytes
    /\ due \in BOOLEAN

UartInit ==
    /\ ExecutorInit
    /\ sent = 0
    /\ fifo = <<>>
    /\ notEmpty = FALSE
    /\ rxIrqOn = FALSE
    /\ slot = 0
    /\ uartPc = "idle"
    /\ since = 0
    /\ lastByte = 0
    /\ due = FALSE

UartGoto(from, to) == uartPc = from /\ uartPc' = to

\* What one read of the data register does to the FIFO and to the status bit,
\* which on the silicon the code was tried on may not notice a pop.
Popped ==
    /\ fifo' = IF fifo = <<>> THEN <<>> ELSE Tail(fifo)
    /\ notEmpty' \in IF StatusLags THEN {notEmpty, Len(fifo) > 1}
                                   ELSE {Len(fifo) > 1}

\* Variant: the flags above the byte come with it.
DataReadWide == IF fifo = <<>> THEN 0..sent ELSE {Head(fifo) + 256}

\* ... and what it returns: an empty FIFO yields whatever was in it.
DataRead == IF fifo = <<>> THEN 0..sent ELSE {Head(fifo)}

-----------------------------------------------------------------------------
(* read_one *)

read_one ==
    /\ UartGoto("idle", IF notEmpty THEN "pop" ELSE "reset")
    /\ since' = sent
    /\ UNCHANGED <<executorVars, uartVars, lastByte, due>>

\* "byte already waiting"
PopDirect ==
    /\ UartGoto("pop", "idle")
    /\ \E b \in DataRead : lastByte' = b
    /\ Popped
    /\ UNCHANGED <<executorVars, sent, rxIrqOn, slot, since, due>>

\* Variant: do not forget what was signalled before.
NoReset ==
    /\ UartGoto("reset", "enable")
    /\ UNCHANGED <<executorVars, uartVars, readVars>>

ResetSignal ==
    /\ UartGoto("reset", "enable")
    /\ reset(Port)
    /\ UNCHANGED <<poll, uartVars, readVars>>

EnableIrq ==
    /\ UartGoto("enable", "await")
    /\ rxIrqOn' = TRUE
    /\ poll' = [poll EXCEPT ![Reader] = "poll"]
    /\ due' = FALSE
    /\ UNCHANGED <<signalVars, sent, fifo, notEmpty, slot, since, lastByte>>

AwaitStep ==
    /\ uartPc = "await"
    /\ FutureStep(Port, Reader) \/ SleepStep(Reader)
    /\ UNCHANGED <<uartVars, uartPc, readVars>>

FutureReady ==
    /\ UartGoto("await", "get")
    /\ PollReady(Port, Reader)
    /\ UNCHANGED <<uartVars, readVars>>

GetSlot ==
    /\ UartGoto("get", "idle")
    /\ lastByte' = slot
    /\ due' = FALSE
    /\ UNCHANGED <<executorVars, uartVars, since>>

-----------------------------------------------------------------------------
(* The interrupt: a level, asserted while the FIFO holds a byte. *)

\* Variant: signal only where a reader has parked its waker.
on_interrupt_parked ==
    /\ rxIrqOn
    /\ fifo # <<>>
    /\ slot' = Head(fifo)
    /\ Popped
    /\ signal({s \in Signals : waker[s] # NoTask})
    /\ poll' = Interrupted
    /\ UNCHANGED <<sent, rxIrqOn, uartPc, readVars>>

on_interrupt ==
    /\ rxIrqOn
    /\ fifo # <<>>
    /\ slot' = Head(fifo)
    /\ Popped
    /\ signal({Port})
    /\ poll' = Interrupted
    /\ UNCHANGED <<sent, rxIrqOn, uartPc, readVars>>

OtherEvent ==
    /\ OtherWake
    /\ UNCHANGED <<uartVars, uartPc, readVars>>

\* A byte arrives (outside the code; the FIFO is long enough for MaxBytes).
Arrive ==
    /\ sent < MaxBytes
    /\ sent' = sent + 1
    /\ fifo' = Append(fifo, sent + 1)
    /\ notEmpty' = TRUE
    /\ due' = (due \/ uartPc = "await")
    /\ UNCHANGED <<executorVars, rxIrqOn, slot, uartPc, since, lastByte>>

-----------------------------------------------------------------------------
TaskStep ==
    \/ PopDirect \/ ResetSignal \/ EnableIrq
    \/ AwaitStep \/ FutureReady \/ GetSlot

UartNext ==
    \/ read_one \/ TaskStep
    \/ on_interrupt \/ OtherEvent \/ Arrive

UartSpec == UartInit /\ [][UartNext]_uartAsyncVars

\* The hart runs what can run, and pending interrupts are taken.  Nothing
\* need arrive on the line.
UartFairSpec ==
    /\ UartSpec
    /\ WF_uartAsyncVars(TaskStep)
    /\ WF_uartAsyncVars(on_interrupt)
    /\ WF_uartAsyncVars(OtherEvent)

-----------------------------------------------------------------------------
(* Properties. *)

\* A byte that a read had to wait for arrived while it waited: neither the
\* flag nor the slot of an earlier read is handed out again.  uart.rs:685 "read
\* the received byte ... and wake the awaiting reader".
AwaitedByteIsFresh == [][uartPc = "get" /\ uartPc' = "idle" => lastByte' > since]_uartAsyncVars

\* A read that waits when a byte arrives returns.
ReadReturns == due ~> uartPc = "idle"
=============================================================================
