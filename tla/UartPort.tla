-------------------------------- MODULE UartPort --------------------------------
(***************************************************************************)
(* The blocking UART (uart.rs): the constructor's registers and its FIFO   *)
(* reset, write_byte, read_byte and flush_tx, and the embedded-io and nb   *)
(* traits over them, whose methods end in a loop over those three.  They   *)
(* take &self, so a handler may call too.  Bytes are numbered in the order *)
(* they are written, and in the order the other end sends them.            *)
(***************************************************************************)
EXTENDS Integers, SequencesExt

CONSTANTS
    UART_CLOCK_HZ,  \* the PLL clock, in 1/16 of which a divider counts
    UartBootHz,     \* the boot console clock
    UartBauds,      \* the baud rates asked for
    UartDivMax,     \* the largest divider, stands for 0xFFFF
    UartFraction,   \* fractions of a divider step, stands for 64
    UartDepth,      \* bytes a FIFO holds
    UartBytes,      \* bytes written, and bytes received, before the model stops
    UartShared      \* TRUE: a handler may call at any point

\* Half a divider is a register's width, the boot clock is no faster than the PLL, and a
\* call's two bytes fit.
ASSUME UpAssumption ==
    /\ UART_CLOCK_HZ \in Nat /\ UartBootHz \in 0..UART_CLOCK_HZ /\ UartBauds \subseteq Nat
    /\ UartDivMax \in Nat /\ \E h \in 1..UartDivMax : h * h = UartDivMax + 1
    /\ UartFraction \in Nat \ {0} /\ UartDepth \in Nat \ {0}
    /\ UartBytes \in Nat /\ UartBytes >= 2 /\ UartShared \in BOOLEAN

VARIABLES
    upTodo,    \* the register writes of a constructor that are left
    upAsked,   \* the configuration of the driver: [clock, baud], or none
    upRegs,    \* [div en, low, high, frac]
    upTx, upShift, upLine,  \* bytes in the FIFO, being shifted out, and carried
    upWritten, \* bytes handed to the data register since the FIFO was last reset
    upRx,      \* the receive FIFO
    upSeen,    \* the FIFO's status bit says it is not empty
    upArrived, \* bytes that have come in
    upCall,    \* each context's call: [op, len], op "none" outside one
    upAt,      \* where it is: "look" at the status, or "data"
    upGot      \* the bytes it has read

upLink == <<upTx, upShift, upLine, upWritten>>
upIn == <<upRx, upSeen, upArrived>>
upBuild == <<upTodo, upAsked, upRegs>>
upVars == <<upBuild, upLink, upIn, upCall, upAt, upGot>>

UartContexts == {"main"} \cup (IF UartShared THEN {"handler"} ELSE {})
NoUartCall == [op |-> "none", len |-> 0]

UpTypeOK ==
    /\ Len(upTodo) <= 6 /\ upAsked.clock \in {"none", "pll", "boot"} /\ upAsked.baud \in UartBauds \cup {0}
    /\ Len(upTx) <= UartDepth /\ Len(upShift) <= 1 /\ Len(upRx) <= UartDepth
    /\ Len(upWritten) <= UartBytes /\ Len(upLine) <= UartBytes
    /\ upSeen \in BOOLEAN /\ upArrived \in 0..UartBytes
    /\ \A c \in UartContexts :
         /\ upCall[c].op \in {"none", "write", "read", "flush"} /\ upCall[c].len \in 0..UartBytes
         /\ upAt[c] \in {"look", "data"} /\ upGot[c] \in BoundedSeq(0..UartBytes, UartBytes)

-----------------------------------------------------------------------------
(* The constructor. *)

Div64(hz, baud) == (hz * UartFraction) \div baud

\* Variant: any rate but zero is taken.
try_new_any(baud) == baud > 0

\* BaudRate::try_new gives Some: checked against the PLL clock.
try_new(baud) ==
    baud > 0 /\ Div64(UART_CLOCK_HZ, baud) \div UartFraction \in 1..UartDivMax

\* Half a divider's bits in each of its registers.
UartHalf == CHOOSE h \in 1..UartDivMax : h * h = UartDivMax + 1

clock_hz(clock) == IF clock = "pll" THEN UART_CLOCK_HZ ELSE UartBootHz

\* Variant: the high half is written to the low register.
configure_uart_low(c) ==
    LET div64 == Div64(clock_hz(c.clock), c.baud)
        div == div64 \div UartFraction
    IN << <<"div en", 1>>, <<"low", div \div UartHalf>>, <<"high", (div \div UartHalf) % UartHalf>>,
          <<"frac", div64 % UartFraction>>, <<"div en", 0>>, <<"fifo", 0>> >>

configure_uart(c) ==
    LET div64 == Div64(clock_hz(c.clock), c.baud)
        div == div64 \div UartFraction
    IN << <<"div en", 1>>, <<"low", div % UartHalf>>, <<"high", (div \div UartHalf) % UartHalf>>,
          <<"frac", div64 % UartFraction>>, <<"div en", 0>>, <<"fifo", 0>> >>

UpInit ==
    /\ upTodo = <<>> /\ upAsked = [clock |-> "none", baud |-> 0]
    /\ upRegs = [x \in {"div en", "low", "high", "frac"} |-> 0]
    /\ upTx = <<>> /\ upShift = <<>> /\ upLine = <<>> /\ upWritten = <<>>
    /\ upRx = <<>> /\ upSeen = FALSE /\ upArrived = 0
    /\ upCall = [c \in UartContexts |-> NoUartCall] /\ upAt = [c \in UartContexts |-> "look"]
    /\ upGot = [c \in UartContexts |-> <<>>]

\* A driver made anew, in the place of one whose bytes may still be on their way.
NewUart ==
    /\ upTodo = <<>> /\ \A c \in UartContexts : upCall[c].op = "none"
    /\ \E baud \in {b \in UartBauds : try_new(b)}, clock \in {"pll", "boot"} :
         upAsked' = [clock |-> clock, baud |-> baud]
    /\ upTodo' = configure_uart(upAsked')
    /\ UNCHANGED <<upRegs, upLink, upIn, upCall, upAt, upGot>>

\* The last write empties both FIFOs; the byte in the shift register goes on.
UartWrite ==
    /\ upTodo # <<>> /\ upTodo' = Tail(upTodo)
    /\ IF upTodo[1][1] = "fifo"
       THEN /\ upTx' = <<>> /\ upRx' = <<>> /\ upSeen' = FALSE
            /\ upWritten' = upShift /\ upLine' = <<>>
            /\ UNCHANGED upRegs
       ELSE /\ upRegs' = [upRegs EXCEPT ![upTodo[1][1]] = upTodo[1][2]]
            /\ UNCHANGED <<upTx, upRx, upSeen, upWritten, upLine>>
    /\ UNCHANGED <<upAsked, upShift, upArrived, upCall, upAt, upGot>>

-----------------------------------------------------------------------------
(* Calls. *)

UartBuilt == upTodo = <<>> /\ upAsked.clock # "none"

\* Main waits for a handler that runs.
UartRuns(c) ==
    /\ UartBuilt
    /\ \A d \in UartContexts : d = "handler" /\ d # c => upCall[d].op = "none"

UartLast == IF upWritten = <<>> THEN 0 ELSE Last(upWritten)

UartCall(c) ==
    /\ UartRuns(c) /\ upCall[c].op = "none"
    /\ \E op \in {"write", "read", "flush"}, len \in 1..2 :
         /\ op = "flush" => len = 1
         /\ op = "write" => UartLast + len <= UartBytes
         /\ upCall' = [upCall EXCEPT ![c] = [op |-> op, len |-> len]]
    /\ upGot' = [upGot EXCEPT ![c] = <<>>]
    /\ UNCHANGED <<upBuild, upLink, upIn, upAt>>

UartReturn(c) == upCall' = [upCall EXCEPT ![c] = NoUartCall]
UartGo(c, at) == upAt' = [upAt EXCEPT ![c] = at]

\* One byte less to write.
UartLess(c) ==
    IF upCall[c].len = 1 THEN UartReturn(c)
    ELSE upCall' = [upCall EXCEPT ![c].len = @ - 1]

\* Variant: the FIFO's status bit is looked at.
RxReadyByStatus == upSeen

\* rx_fifo_cnt, which follows the FIFO where the status bit does not.
RxReady == upRx # <<>>

\* Variant: a byte is written whatever the FIFO holds.
WriteLookBlind(c) ==
    /\ UartRuns(c) /\ upCall[c].op = "write" /\ upAt[c] = "look"
    /\ UartGo(c, "data")
    /\ UNCHANGED <<upBuild, upLink, upIn, upCall, upGot>>

\* write_byte loops while the FIFO is full, without a bound.
WriteLook(c) ==
    /\ UartRuns(c) /\ upCall[c].op = "write" /\ upAt[c] = "look"
    /\ Len(upTx) < UartDepth /\ UartGo(c, "data")
    /\ UNCHANGED <<upBuild, upLink, upIn, upCall, upGot>>

\* A byte written to a full FIFO is lost.
WriteData(c) ==
    /\ UartRuns(c) /\ upCall[c].op = "write" /\ upAt[c] = "data"
    /\ LET byte == UartLast + 1
       IN /\ upWritten' = Append(upWritten, byte)
          /\ upTx' = IF Len(upTx) < UartDepth THEN Append(upTx, byte) ELSE upTx
    /\ UartGo(c, "look") /\ UartLess(c)
    /\ UNCHANGED <<upBuild, upShift, upLine, upIn, upGot>>

\* read_byte, and with it a read that ends at the first byte that is not there.
ReadLook(c) ==
    /\ UartRuns(c) /\ upCall[c].op = "read" /\ upAt[c] = "look"
    /\ IF RxReady THEN UartGo(c, "data") /\ UNCHANGED upCall
                  ELSE UartReturn(c) /\ UNCHANGED upAt
    /\ UNCHANGED <<upBuild, upLink, upIn, upGot>>

\* The status bit may not notice a pop, and an empty FIFO yields what was last in it.
ReadData(c) ==
    /\ UartRuns(c) /\ upCall[c].op = "read" /\ upAt[c] = "data"
    /\ upGot' = [upGot EXCEPT ![c] = Append(@, IF upRx = <<>> THEN upArrived ELSE Head(upRx))]
    /\ upRx' = IF upRx = <<>> THEN <<>> ELSE Tail(upRx)
    /\ upSeen' \in {upSeen, upRx' # <<>>}
    /\ UartGo(c, "look") /\ UartLess(c)
    /\ UNCHANGED <<upBuild, upLink, upArrived>>

\* Variant: room in the FIFO is enough.
FlushDoneRoom == Len(upTx) < UartDepth

\* tx_fifo_empty.
FlushDone == upTx = <<>>

\* flush_tx; tx_flushed and nb's flush return at once, with the same answer.
Flush(c) ==
    /\ UartRuns(c) /\ upCall[c].op = "flush" /\ FlushDone /\ UartReturn(c)
    /\ UNCHANGED <<upBuild, upLink, upIn, upAt, upGot>>

-----------------------------------------------------------------------------
(* The line.  A divider of zero stops it. *)

UartTicks == upRegs["div en"] = 0 /\ upRegs["low"] + UartHalf * upRegs["high"] > 0

StartByte ==
    /\ UartTicks /\ upShift = <<>> /\ upTx # <<>>
    /\ upShift' = <<Head(upTx)>> /\ upTx' = Tail(upTx)
    /\ UNCHANGED <<upBuild, upLine, upWritten, upIn, upCall, upAt, upGot>>

ByteSent ==
    /\ UartTicks /\ upShift # <<>>
    /\ upLine' = upLine \o upShift /\ upShift' = <<>>
    /\ UNCHANGED <<upBuild, upTx, upWritten, upIn, upCall, upAt, upGot>>

\* A byte that finds the FIFO full is lost.
ByteArrives ==
    /\ UartTicks /\ upArrived < UartBytes
    /\ upArrived' = upArrived + 1
    /\ upRx' = IF Len(upRx) < UartDepth THEN Append(upRx, upArrived') ELSE upRx
    /\ upSeen' = TRUE
    /\ UNCHANGED <<upBuild, upLink, upCall, upAt, upGot>>

UartStep(c) == WriteLook(c) \/ WriteData(c) \/ ReadLook(c) \/ ReadData(c) \/ Flush(c)

UpNext ==
    \/ NewUart \/ UartWrite \/ StartByte \/ ByteSent \/ ByteArrives
    \/ \E c \in UartContexts : UartCall(c) \/ UartStep(c)

UpSpec == UpInit /\ [][UpNext]_upVars

UpFairness ==
    /\ WF_upVars(UartWrite \/ StartByte \/ ByteSent)
    /\ \A c \in UartContexts : WF_upVars(UartStep(c))

-----------------------------------------------------------------------------
(* Properties. *)

\* Every byte a write has handed over is on the line once and in order, or still on its way,
\* through full FIFOs and waits.  uart.rs:310 "blocking while this UART's TX FIFO is full".
UartInOrder == upLine \o upShift \o upTx = upWritten

\* What a read returns came in after what was read before it, and is returned once.
\* uart.rs:323-324 "re-reads a stale byte".
UartReadOnce ==
    \A c \in UartContexts : \A k \in 2..Len(upGot[c]) : upGot[c][k - 1] < upGot[c][k]

\* When flush returns at most one byte is still leaving.  uart.rs:329 "TX FIFO is fully
\* drained".
UartFlushed ==
    [][\A c \in UartContexts :
         upCall[c].op = "flush" /\ upCall'[c].op = "none" => Len(upShift' \o upTx') <= 1]_upVars

\* With the constructor done the data register is the FIFO, and the divider in its three
\* registers is the one whose rate is nearest from above to the rate asked, whatever was
\* there before.  uart.rs:260 "Valid range: div".
UartAsAsked ==
    UartBuilt =>
        LET div64 == upRegs["frac"] + UartFraction * (upRegs["low"] + UartHalf * upRegs["high"])
        IN /\ upRegs["div en"] = 0
           /\ div64 * upAsked.baud <= UartFraction * clock_hz(upAsked.clock)
           /\ UartFraction * clock_hz(upAsked.clock) < (div64 + 1) * upAsked.baud

\* Every call returns where the clock is the one the rate was checked against: the loops of
\* write_byte and flush_tx have no bound, and a divider of zero would hold them for ever.
\* uart.rs:262 "so no runtime clamp is needed".
UartReturns ==
    \A c \in UartContexts :
        upAsked.clock = "pll" /\ upCall[c].op # "none" ~> upCall[c].op = "none"

\* What the blocking port promises of what it was asked for: registers, bytes in both
\* directions, and flushes (uart.rs:260-332).
UartSafe == [](UartInOrder /\ UartReadOnce /\ UartAsAsked) /\ UartFlushed
=============================================================================
