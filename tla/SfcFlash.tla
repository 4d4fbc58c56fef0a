------------------------------- MODULE SfcFlash -------------------------------
(***************************************************************************)
(* The SPI flash controller (sfc.rs): commands that carry data through a   *)
(* buffer of words, and a bus DMA that runs on its own.  Both report in    *)
(* one status register, and one write acknowledges both.                   *)
(***************************************************************************)
EXTENDS Integers, Sequences

CONSTANTS BufBytes,    \* the data buffer; stands for 64
          WordBytes,   \* stands for 4
          EmptyWrites, \* whether writes of no bytes are asked for
          SfcOverlap   \* whether commands and DMA are mixed freely

ASSUME SfcAssumption ==
    /\ BufBytes \in Nat \ {0} /\ WordBytes \in Nat \ {0}
    /\ EmptyWrites \in BOOLEAN /\ SfcOverlap \in BOOLEAN

VARIABLES sfcPc,       \* where the driver is
          sfcCall,     \* the latest command
          sfcStatus,   \* how it ended
          sfcData,     \* the bytes it returned
          sfcTag,      \* distinguishes the data of successive commands
          sfcBuf,      \* cmd_databuf_0..15, by bytes
          sfcCmd,      \* cmd_config: the start bit, and data_cnt
          sfcInt,      \* int_status
          sfcDma,      \* whether the bus DMA runs
          sfcOwed,     \* one has been started, and not been waited for
          flashGot     \* the bytes that the latest command programmed

sfcVars == <<sfcPc, sfcCall, sfcStatus, sfcData, sfcTag, sfcBuf, sfcCmd, sfcInt,
             sfcDma, sfcOwed, flashGot>>

Filler == <<0, 0>>                                \* padding, or reset state
SfcBytes == ({1, 2, 3, 4} \X (1..BufBytes)) \cup {Filler}

\* send_command, and command_with_data in its two directions.
SfcCalls == [op : {"plain", "write", "read"}, len : 0..(BufBytes + 1)]

NoSfcCall == [op |-> "plain", len |-> 0]

SfcTypeOK ==
    /\ sfcPc \in {"idle", "poll", "clear", "dmaPoll", "dmaClear"}
    /\ sfcCall \in SfcCalls
    /\ sfcStatus \in {"none", "ok", "tooLong"}
    /\ sfcData \in Seq(SfcBytes)
    /\ sfcTag \in {1, 2}
    /\ sfcBuf \in [1..BufBytes -> SfcBytes]
    /\ sfcCmd \in [start : BOOLEAN, count : 0..BufBytes]
    /\ sfcInt \in SUBSET {"cmd", "dma"}
    /\ sfcDma \in BOOLEAN /\ sfcOwed \in BOOLEAN
    /\ flashGot \in Seq(SfcBytes)

SfcInit ==
    /\ sfcPc = "idle" /\ sfcCall = NoSfcCall /\ sfcStatus = "none"
    /\ sfcData = <<>> /\ sfcTag = 1
    /\ sfcBuf = [i \in 1..BufBytes |-> Filler]
    /\ sfcCmd = [start |-> FALSE, count |-> 0]
    /\ sfcInt = {} /\ sfcDma = FALSE /\ sfcOwed = FALSE /\ flashGot = <<>>

-----------------------------------------------------------------------------
(* What a command transfers. *)

\* The i-th byte of the data of a command, and the same byte as the flash has
\* it.
Given(tag, i) == <<tag, i>>
Stored(tag, i) == <<tag + 2, i>>

\* write_databuf writes whole words, the last one padded.
Padded(len) == ((len + WordBytes - 1) \div WordBytes) * WordBytes

Loaded(tag, len) ==
    [i \in 1..BufBytes |->
        IF i <= len THEN Given(tag, i)
        ELSE IF i <= Padded(len) THEN Filler ELSE sfcBuf[i]]

\* Variant: the count is not taken to the field's base of zero.
DataCountPlus(len) == len % BufBytes

\* data_cnt is one less than the number of bytes, in a field of its own.
DataCount(len) == (IF len = 0 THEN 0 ELSE len - 1) % BufBytes

\* Variant: the check of the length is off by one.
TooLongByOne(len) == len > BufBytes + 1

TooLong(len) == len > BufBytes

-----------------------------------------------------------------------------
(* The driver. *)

SfcMayCommand == SfcOverlap \/ (~ sfcDma /\ "dma" \notin sfcInt)

\* send_command and command_with_data up to the write of cmd_config, which is
\* what makes the controller look at the rest.
SfcCommand(call) ==
    /\ sfcPc = "idle"
    /\ SfcMayCommand
    /\ ~ TooLong(call.len)
    /\ call.op = "plain" => call.len = 0
    /\ call.op = "write" => call.len > 0 \/ EmptyWrites
    /\ sfcTag' = 3 - sfcTag
    /\ sfcBuf' = IF call.op = "write" THEN Loaded(3 - sfcTag, call.len) ELSE sfcBuf
    /\ sfcCmd' = [start |-> TRUE,
                  count |-> IF call.op = "plain" THEN 0
                            ELSE DataCount(call.len) + 1]
    /\ sfcCall' = call
    /\ sfcPc' = "poll"
    /\ sfcStatus' = "none" /\ sfcData' = <<>>
    /\ UNCHANGED <<sfcInt, sfcDma, sfcOwed, flashGot>>

SfcRefuse(call) ==
    /\ sfcPc = "idle"
    /\ call.op # "plain"
    /\ TooLong(call.len)
    /\ sfcCall' = NoSfcCall
    /\ sfcStatus' = "tooLong" /\ sfcData' = <<>>
    /\ flashGot' = <<>>
    /\ UNCHANGED <<sfcPc, sfcTag, sfcBuf, sfcCmd, sfcInt, sfcDma, sfcOwed>>

\* command_done, polled without a bound.
SfcPollDone ==
    /\ sfcPc = "poll"
    /\ "cmd" \in sfcInt
    /\ sfcPc' = "clear"
    /\ UNCHANGED <<sfcCall, sfcStatus, sfcData, sfcTag, sfcBuf, sfcCmd, sfcInt,
                   sfcDma, sfcOwed, flashGot>>

\* clear_interrupts clears both bits; then the buffer is read back, as many
\* bytes as were asked for.
SfcClear ==
    /\ sfcPc = "clear"
    /\ sfcInt' = {}
    /\ sfcStatus' = "ok"
    /\ sfcData' = IF sfcCall.op = "read" THEN SubSeq(sfcBuf, 1, sfcCall.len)
                  ELSE <<>>
    /\ sfcPc' = "idle"
    /\ UNCHANGED <<sfcCall, sfcTag, sfcBuf, sfcCmd, sfcDma, sfcOwed, flashGot>>

bus_dma_start ==
    /\ sfcPc = "idle"
    /\ SfcMayCommand
    /\ sfcDma' = TRUE /\ sfcOwed' = TRUE
    /\ UNCHANGED <<sfcPc, sfcCall, sfcStatus, sfcData, sfcTag, sfcBuf, sfcCmd,
                   sfcInt, flashGot>>

\* bus_dma_wait, for a DMA that has been started.
bus_dma_wait ==
    /\ sfcPc = "idle"
    /\ sfcOwed
    /\ sfcPc' = "dmaPoll"
    /\ UNCHANGED <<sfcCall, sfcStatus, sfcData, sfcTag, sfcBuf, sfcCmd, sfcInt,
                   sfcDma, sfcOwed, flashGot>>

\* Variant: any set bit will do.
DmaPollAny ==
    /\ sfcPc = "dmaPoll"
    /\ sfcPc' = "dmaClear"
    /\ UNCHANGED <<sfcCall, sfcStatus, sfcData, sfcTag, sfcBuf, sfcCmd, sfcInt,
                   sfcDma, sfcOwed, flashGot>>

\* Variant: it polls for the end of a command.
DmaPollCmd ==
    /\ sfcPc = "dmaPoll"
    /\ "cmd" \in sfcInt
    /\ sfcPc' = "dmaClear"
    /\ UNCHANGED <<sfcCall, sfcStatus, sfcData, sfcTag, sfcBuf, sfcCmd, sfcInt,
                   sfcDma, sfcOwed, flashGot>>

DmaPollDone ==
    /\ sfcPc = "dmaPoll"
    /\ "dma" \in sfcInt
    /\ sfcPc' = "dmaClear"
    /\ UNCHANGED <<sfcCall, sfcStatus, sfcData, sfcTag, sfcBuf, sfcCmd, sfcInt,
                   sfcDma, sfcOwed, flashGot>>

DmaClear ==
    /\ sfcPc = "dmaClear"
    /\ sfcInt' = {}
    /\ sfcOwed' = FALSE
    /\ sfcPc' = "idle"
    /\ UNCHANGED <<sfcCall, sfcStatus, sfcData, sfcTag, sfcBuf, sfcCmd, sfcDma, flashGot>>

-----------------------------------------------------------------------------
(* The controller and the flash (outside the code). *)

FlashExecute ==
    /\ sfcCmd.start
    /\ sfcBuf' = IF sfcCall.op = "read"
                 THEN [i \in 1..BufBytes |-> IF i <= sfcCmd.count
                                             THEN Stored(sfcTag, i) ELSE sfcBuf[i]]
                 ELSE sfcBuf
    /\ flashGot' = IF sfcCall.op = "write" THEN SubSeq(sfcBuf, 1, sfcCmd.count)
                   ELSE <<>>
    /\ sfcCmd' = [sfcCmd EXCEPT !.start = FALSE]
    /\ sfcInt' = sfcInt \cup {"cmd"}
    /\ UNCHANGED <<sfcPc, sfcCall, sfcStatus, sfcData, sfcTag, sfcDma, sfcOwed>>

DmaEnd ==
    /\ sfcDma
    /\ sfcDma' = FALSE
    /\ sfcInt' = sfcInt \cup {"dma"}
    /\ UNCHANGED <<sfcPc, sfcCall, sfcStatus, sfcData, sfcTag, sfcBuf, sfcCmd,
                   sfcOwed, flashGot>>

-----------------------------------------------------------------------------
SfcDriver == SfcPollDone \/ SfcClear \/ DmaPollDone \/ DmaClear

SfcNext ==
    \/ \E call \in SfcCalls : SfcCommand(call) \/ SfcRefuse(call)
    \/ bus_dma_start \/ bus_dma_wait
    \/ SfcDriver
    \/ FlashExecute \/ DmaEnd

\* The hart runs, and the controller ends what it has begun.
SfcFairness == WF_sfcVars(SfcDriver \/ FlashExecute \/ DmaEnd)

SfcSpec == SfcInit /\ [][SfcNext]_sfcVars

SfcFairSpec == SfcSpec /\ SfcFairness

-----------------------------------------------------------------------------
(* Properties. *)

\* A command that has returned did what was asked: a read returns as many bytes
\* of the flash as were asked for, none of them left in the buffer by an earlier
\* command, a write has programmed the bytes given and no others, up to a full
\* buffer, and one that does not fit has programmed nothing.  sfc.rs:335-336
\* "reject an over-long write rather than silently truncating it".
FlashAsAsked ==
    sfcPc = "idle" /\ sfcStatus # "none" =>
        /\ sfcCall.op = "read" => sfcData = [i \in 1..sfcCall.len |->
                                                Stored(sfcTag, i)]
        /\ flashGot = IF sfcCall.op = "write"
                      THEN [i \in 1..sfcCall.len |-> Given(sfcTag, i)]
                      ELSE <<>>

\* bus_dma_wait returns only when no DMA is running, whatever the status bits
\* have been left at.  sfc.rs:425 "Wait for bus DMA to complete".
DmaWaitMeansDone == sfcPc = "dmaClear" => ~ sfcDma

\* A wait for a bus DMA that was started ends: its completion is not lost.
\* sfc.rs:425 "Wait for bus DMA to complete".
DmaWaitReturns == sfcPc = "dmaPoll" ~> sfcPc = "idle"

\* A command or a DMA has done its work when its call is over (sfc.rs:328-428).
SfcSafe == FlashAsAsked /\ DmaWaitMeansDone

-----------------------------------------------------------------------------
(* Why these hold: the invariant that every step preserves.                 *)

\* The controller has been told to move the bytes of the call under way.
SfcTold ==
    /\ sfcCall.op = "write" =>
          /\ sfcCall.len \in 1..BufBytes
          /\ sfcCmd.count = sfcCall.len
          /\ \A i \in 1..sfcCall.len : sfcBuf[i] = Given(sfcTag, i)
    /\ sfcCall.op = "read" =>
          sfcCall.len <= sfcCmd.count /\ sfcCall.len <= BufBytes

\* It has moved them.
SfcMoved ==
    /\ flashGot = IF sfcCall.op = "write"
                  THEN [i \in 1..sfcCall.len |-> Given(sfcTag, i)]
                  ELSE <<>>
    /\ sfcCall.op = "read" =>
          /\ sfcCall.len <= BufBytes
          /\ \A i \in 1..sfcCall.len : sfcBuf[i] = Stored(sfcTag, i)

\* The command bit belongs to the command under way, and the DMA bit to a DMA
\* that has ended.
SfcInv ==
    /\ SfcTypeOK
    /\ sfcCmd.start <=> sfcPc = "poll" /\ "cmd" \notin sfcInt
    /\ "cmd" \in sfcInt => sfcPc \in {"poll", "clear"}
    /\ sfcCmd.start => SfcTold
    /\ sfcPc = "clear" \/ (sfcPc = "poll" /\ "cmd" \in sfcInt) => SfcMoved
    /\ sfcPc \in {"poll", "clear"} => sfcStatus = "none"
    /\ sfcStatus # "none" =>
          /\ SfcMoved
          /\ sfcCall.op = "read" => sfcData = [i \in 1..sfcCall.len |->
                                                  Stored(sfcTag, i)]
    /\ "dma" \in sfcInt => ~ sfcDma
    /\ sfcPc = "dmaClear" => "dma" \in sfcInt
=============================================================================
