------------------------------- MODULE SpiMaster -------------------------------
(***************************************************************************)
(* The blocking SPI master (spi.rs): the constructor's register sequence,  *)
(* full-duplex transfers paced frame by frame, writes that only push, and  *)
(* wait_idle, over the two FIFOs and the shift register.  Frames are       *)
(* numbered as they are pushed; the slave's answer to a frame has its      *)
(* number.                                                                 *)
(***************************************************************************)
EXTENDS Integers, SequencesExt

CONSTANTS
    SPI_CLOCK_HZ,  \* SSI_CLK
    SckdvMax,      \* the largest divider, stands for 0xFFFE
    SpiHz,         \* the bus clocks asked for
    SpiBits,       \* the frame sizes, of DataBits
    SpiFrames,     \* frames pushed before the model stops
    SpiDepth,      \* frames a FIFO holds
    SpiLengths     \* lengths of the slices that calls are given

ASSUME SpiAssumption ==
    /\ SPI_CLOCK_HZ \in Nat /\ SckdvMax \in Nat
    /\ SpiHz \subseteq Nat /\ SpiBits \subseteq 4..16
    /\ SpiFrames \in Nat /\ SpiDepth \in Nat \ {0} /\ SpiLengths \subseteq Nat

VARIABLES
    spTodo,    \* the register accesses of a constructor that are left
    spAsked,   \* what it was given: [hz, bits]; the clock mode is left out
    spRegs,    \* [er, brs, bits, slave] of the controller
    spTree,    \* [load, div, gate, pll] of the clock tree
    spCall,    \* the call: [op, write, read], the lengths of its slices
    spAt,      \* where it is in its loop
    spCount,   \* frames it has pushed
    spGot,     \* answers it has read, those it discards left out
    spResult,  \* what it returned
    spTx, spShift, spRx,  \* the FIFOs, and the frames in the shift register: none or one
    spNext,    \* the number of the next frame
    spOwed,    \* a frame was on its way, or an answer unread, when the call began
    spStuck    \* the bus does not move

spiBuild == <<spTodo, spAsked, spRegs, spTree>>
spiFifos == <<spTx, spShift, spRx>>
spiVars == <<spiBuild, spCall, spAt, spCount, spGot, spResult, spiFifos, spNext, spOwed,
             spStuck>>

NoSpiCall == [op |-> "none", write |-> 0, read |-> 0]
SpiStages == {"idle", "room", "push", "answer", "pop", "empty", "quiet"}

SpiTypeOK ==
    /\ Len(spTodo) <= 11 /\ spAsked.bits \in 4..16
    /\ spRegs.brs \in 0..SckdvMax
    /\ spAt \in SpiStages /\ spResult \in {"none", "ok", "timeout"}
    /\ spCount \in 0..SpiFrames /\ spNext \in 1..(SpiFrames + 1)
    /\ Len(spGot) <= SpiFrames /\ spOwed \in BOOLEAN /\ spStuck \in BOOLEAN
    /\ Len(spTx) <= SpiDepth /\ Len(spShift) <= 1 /\ Len(spRx) <= SpiDepth

SpiInit ==
    /\ spTodo = <<>> /\ spAsked = [hz |-> 0, bits |-> 8]
    /\ spRegs = [er |-> FALSE, brs |-> 0, bits |-> 0, slave |-> FALSE]
    /\ spTree = [load |-> TRUE, div |-> 0, gate |-> TRUE, pll |-> FALSE]
    /\ spCall = NoSpiCall /\ spAt = "idle" /\ spCount = 0 /\ spGot = <<>> /\ spResult = "none"
    /\ spTx = <<>> /\ spShift = <<>> /\ spRx = <<>> /\ spNext = 1
    /\ spOwed = FALSE /\ spStuck = FALSE

-----------------------------------------------------------------------------
(* The constructor. *)

\* Variant: the band is checked at its upper end only.
try_from_hz_half(hz) == hz # 0 /\ SPI_CLOCK_HZ \div hz >= 2

\* SpiHz::try_from_hz gives Some.
try_from_hz(hz) ==
    hz # 0 /\ SPI_CLOCK_HZ \div hz >= 2 /\ SPI_CLOCK_HZ \div hz <= SckdvMax

\* The low bit of the divider register cannot be set.
sckdv(hz) ==
    LET div == SPI_CLOCK_HZ \div hz
        held == IF div < 2 THEN 2 ELSE IF div > SckdvMax + 1 THEN SckdvMax + 1 ELSE div
    IN held - (held % 2)

configure_spi_source_clock ==
    << <<"load", FALSE>>, <<"div", 3>>, <<"load", TRUE>>,
       <<"gate", FALSE>>, <<"pll", TRUE>>, <<"gate", TRUE>> >>

configure_spi(c) ==
    configure_spi_source_clock \o
    << <<"er", FALSE>>, <<"brs", sckdv(c.hz)>>, <<"bits", c.bits - 1>>, <<"slave", TRUE>>,
       <<"er", TRUE>> >>

\* A new driver on the token of one that is gone, whose frames may still be leaving.
NewSpi ==
    /\ spTodo = <<>> /\ spAt = "idle"
    /\ \E hz \in {h \in SpiHz : try_from_hz(h)}, bits \in SpiBits :
         LET c == [hz |-> hz, bits |-> bits]
         IN spAsked' = c /\ spTodo' = configure_spi(c)
    /\ spCall' = NoSpiCall /\ spResult' = "none"
    /\ UNCHANGED <<spRegs, spTree, spAt, spCount, spGot, spiFifos, spNext, spOwed, spStuck>>

\* Switching the controller off empties its FIFOs.
SpiWrite ==
    /\ spTodo # <<>>
    /\ LET reg == spTodo[1][1]
           value == spTodo[1][2]
       IN /\ spTree' = IF reg \in DOMAIN spTree THEN [spTree EXCEPT ![reg] = value] ELSE spTree
          /\ spRegs' = IF reg \in DOMAIN spRegs THEN [spRegs EXCEPT ![reg] = value] ELSE spRegs
          /\ IF reg = "er" /\ ~ value
             THEN spTx' = <<>> /\ spShift' = <<>> /\ spRx' = <<>>
             ELSE UNCHANGED spiFifos
    /\ spTodo' = Tail(spTodo)
    /\ UNCHANGED <<spAsked, spCall, spAt, spCount, spGot, spResult, spNext, spOwed, spStuck>>

-----------------------------------------------------------------------------
(* Calls. *)

SpiBuilt == spTodo = <<>> /\ spRegs.er

SpiMin(a, b) == IF a < b THEN a ELSE b
SpiMax(a, b) == IF a > b THEN a ELSE b

\* How many frames a call pushes.  transfer_in_place is a transfer of one slice.
SpiLength(call) == IF call.op = "transfer" THEN SpiMax(call.write, call.read) ELSE call.write

\* The first step of the loop, or the end of it.
SpiStage(call, pushed) ==
    IF call.op = "wait_idle" THEN "empty"
    ELSE IF pushed < SpiLength(call) THEN "room" ELSE "idle"

SpiCall ==
    /\ SpiBuilt /\ spAt = "idle"
    /\ \E op \in {"transfer", "write", "wait_idle"}, w \in SpiLengths, r \in SpiLengths :
         /\ op = "write" => r = 0
         /\ op = "wait_idle" => w = 0 /\ r = 0
         /\ spCall' = [op |-> op, write |-> w, read |-> r]
         /\ spNext + SpiLength(spCall') <= SpiFrames + 1
    /\ spAt' = SpiStage(spCall', 0)
    /\ spResult' = IF spAt' = "idle" THEN "ok" ELSE "none"
    /\ spCount' = 0 /\ spGot' = <<>>
    /\ spOwed' = (spTx # <<>> \/ spShift # <<>> \/ spRx # <<>>)
    /\ UNCHANGED <<spiBuild, spiFifos, spNext, spStuck>>

SpiReady ==
    CASE spAt = "room" -> Len(spTx) < SpiDepth
      [] spAt = "answer" -> spRx # <<>>
      [] spAt = "empty" -> spTx = <<>>
      [] spAt = "quiet" -> spShift = <<>>

\* Variant: an idle wait ends with the FIFO.
AfterWaitEarly ==
    CASE spAt = "room" -> "push"
      [] spAt = "answer" -> "pop"
      [] spAt \in {"empty", "quiet"} -> "idle"

AfterWait ==
    CASE spAt = "room" -> "push"
      [] spAt = "answer" -> "pop"
      [] spAt = "empty" -> "quiet"
      [] spAt = "quiet" -> "idle"

\* Variant: the loop has no bound.
wait_until_forever ==
    /\ spAt \in {"room", "answer", "empty", "quiet"} /\ SpiReady
    /\ spAt' = AfterWait
    /\ spResult' = IF spAt' = "idle" THEN "ok" ELSE "none"
    /\ UNCHANGED <<spiBuild, spCall, spCount, spGot, spiFifos, spNext, spOwed, spStuck>>

\* One bounded wait: seen ready, or given up.
wait_until ==
    /\ spAt \in {"room", "answer", "empty", "quiet"}
    /\ \/ /\ SpiReady /\ spAt' = AfterWait
          /\ spResult' = IF spAt' = "idle" THEN "ok" ELSE "none"
       \/ ~ SpiReady /\ spAt' = "idle" /\ spResult' = "timeout"
    /\ UNCHANGED <<spiBuild, spCall, spCount, spGot, spiFifos, spNext, spOwed, spStuck>>

\* Variant: a transfer pushes on before it has read the answer.
AfterPushHasty == SpiStage(spCall, spCount')

\* A transfer reads the answer to a frame before it pushes the next.
AfterPush == IF spCall.op = "transfer" THEN "answer" ELSE SpiStage(spCall, spCount')

Push ==
    /\ spAt = "push"
    /\ spTx' = Append(spTx, spNext) /\ spNext' = spNext + 1 /\ spCount' = spCount + 1
    /\ spAt' = AfterPush
    /\ spResult' = IF spAt' = "idle" THEN "ok" ELSE "none"
    /\ UNCHANGED <<spiBuild, spCall, spGot, spShift, spRx, spOwed, spStuck>>

\* The answers past the end of the slice are thrown away.
Pop ==
    /\ spAt = "pop"
    /\ spGot' = IF spCount <= spCall.read THEN Append(spGot, Head(spRx)) ELSE spGot
    /\ spRx' = Tail(spRx)
    /\ spAt' = SpiStage(spCall, spCount)
    /\ spResult' = IF spAt' = "idle" THEN "ok" ELSE "none"
    /\ UNCHANGED <<spiBuild, spCall, spCount, spTx, spShift, spNext, spOwed, spStuck>>

-----------------------------------------------------------------------------
(* The controller: a frame leaves, and its answer has come in.  An answer  *)
(* that finds the FIFO full is lost.                                       *)

SpiMoves == spRegs.er /\ spTree.gate /\ ~ spStuck

ShiftOut ==
    /\ SpiMoves /\ spShift = <<>> /\ spTx # <<>>
    /\ spShift' = <<Head(spTx)>> /\ spTx' = Tail(spTx)
    /\ UNCHANGED <<spiBuild, spCall, spAt, spCount, spGot, spResult, spRx, spNext, spOwed, spStuck>>

ShiftIn ==
    /\ SpiMoves /\ spShift # <<>>
    /\ spRx' = IF Len(spRx) < SpiDepth THEN spRx \o spShift ELSE spRx
    /\ spShift' = <<>>
    /\ UNCHANGED <<spiBuild, spCall, spAt, spCount, spGot, spResult, spTx, spNext, spOwed, spStuck>>

SpiSticks ==
    /\ ~ spStuck /\ spStuck' = TRUE
    /\ UNCHANGED <<spiBuild, spCall, spAt, spCount, spGot, spResult, spiFifos, spNext, spOwed>>

SpiNext ==
    \/ NewSpi \/ SpiWrite \/ SpiCall \/ wait_until \/ Push \/ Pop
    \/ ShiftOut \/ ShiftIn \/ SpiSticks

SpiSpec == SpiInit /\ [][SpiNext]_spiVars

SpiFairness == WF_spiVars(wait_until \/ Push \/ Pop)

-----------------------------------------------------------------------------
(* Properties. *)

\* A driver that is built has the frame size it was given, the PLL under it, and the nearest
\* even divider that is no slower than what was asked: spi.rs:24 "by an even SCKDV in `[2,
\* 0xFFFE]`".  On the way there the divider is not written while it is loaded, the source
\* not switched with the gate open, the controller not set up while it is on: spi.rs:194
\* "(gate-close -> switch -> gate-open)".
SpiAsAsked ==
    /\ SpiBuilt =>
        /\ spRegs.bits + 1 = spAsked.bits
        /\ spRegs.brs \in 2..SckdvMax /\ spRegs.brs % 2 = 0
        /\ spRegs.brs * spAsked.hz <= SPI_CLOCK_HZ
        /\ SPI_CLOCK_HZ < (spRegs.brs + 2) * spAsked.hz
        /\ spTree = [load |-> TRUE, div |-> 3, gate |-> TRUE, pll |-> TRUE]
    /\ spTodo # <<>> =>
        /\ spTodo[1][1] = "div" => ~ spTree.load
        /\ spTodo[1][1] = "pll" => ~ spTree.gate
        /\ spTodo[1][1] \in {"brs", "bits"} => ~ spRegs.er

\* A transfer that returns Ok has read the answer to each of its own frames, in order, if
\* nothing was left by the calls before it: spi.rs:247 "write `write` while reading into
\* `read`, byte-paced".
SpiOwnAnswers ==
    spCall.op = "transfer" /\ spResult = "ok" /\ ~ spOwed =>
        LET first == spNext - SpiLength(spCall)
        IN spGot = [k \in 1..spCall.read |-> first + k - 1]

\* Once wait_idle returns Ok nothing is in the FIFO or the shift register: spi.rs:285 "all
\* pending TX data to be transmitted and the SPI bus to become idle".
SpiIdleMeansSent ==
    spCall.op = "wait_idle" /\ spResult = "ok" => spTx = <<>> /\ spShift = <<>>

\* Every call returns, with the bus stuck at any point: spi.rs:148 "instead of hanging the
\* CPU".
SpiReturns == spAt # "idle" ~> spAt = "idle"

\* What the blocking master promises of what it was asked for: registers, answers, and
\* the end of a transmission (spi.rs:186-295).
SpiSafe == SpiAsAsked /\ SpiOwnAnswers /\ SpiIdleMeansSent

-----------------------------------------------------------------------------
(* Why these hold: the invariant that every step preserves.                 *)

SpiAccesses ==
    {"load", "div", "gate", "pll", "er", "brs", "bits", "slave"} \X (BOOLEAN \cup Int)

SpiTyped ==
    /\ spTodo \in Seq(SpiAccesses)
    /\ spAsked \in [hz : Nat, bits : Int]
    /\ DOMAIN spRegs = {"er", "brs", "bits", "slave"} /\ spRegs.brs \in Nat
    /\ spTree \in [load : BOOLEAN, div : Nat, gate : BOOLEAN, pll : BOOLEAN]
    /\ spCall \in [op : {"none", "transfer", "write", "wait_idle"}, write : Nat, read : Nat]
    /\ spTx \in Seq(Nat) /\ spShift \in Seq(Nat) /\ spRx \in Seq(Nat) /\ spGot \in Seq(Nat)
    /\ spCount \in Nat /\ spNext \in Nat

\* The accesses that are left are the last of the constructor's, and those before them
\* have been made.
SpiBuilding ==
    LET left == Len(spTodo)
    IN /\ left <= 11
       /\ \A i \in 1..left : spTodo[i] = configure_spi(spAsked)[11 - left + i]
       /\ spTree.load = IF left \in {9, 10} THEN FALSE ELSE TRUE
       /\ spTree.gate = IF left \in {6, 7} THEN FALSE ELSE TRUE
       /\ left \in 1..4 => ~ spRegs.er
       /\ spRegs.er \/ left # 0 =>
            /\ try_from_hz(spAsked.hz)
            /\ left <= 9 => spTree.div = 3
            /\ left <= 6 => spTree.pll = TRUE
            /\ left <= 3 => spRegs.brs = sckdv(spAsked.hz)
            /\ left <= 2 => spRegs.bits = spAsked.bits - 1

\* No call runs before the constructor is through, and none has a result before its end.
SpiInCall ==
    /\ ~ SpiBuilt => spAt = "idle" /\ spCall = NoSpiCall
    /\ spAt \in SpiStages /\ (spAt # "idle" => spResult = "none")
    /\ spAt = "pop" => spRx # <<>>

\* A frame, or its answer, and nothing else is between the two ends of the FIFOs.
SpiAlone(frame) ==
    \/ spTx = <<frame>> /\ spShift = <<>> /\ spRx = <<>>
    \/ spTx = <<>> /\ spShift = <<frame>> /\ spRx = <<>>
    \/ spTx = <<>> /\ spShift = <<>> /\ spRx = <<frame>>

\* The frame that a transfer waits for is alone there, and the answers before it are read.
SpiAnswers ==
    spCall.op = "transfer" /\ ~ spOwed /\ spResult # "timeout" =>
        LET waits == spAt \in {"answer", "pop"}
            read == IF waits THEN spCount - 1 ELSE spCount
        IN /\ spAt = "idle" => spResult = "ok" /\ spCount = SpiLength(spCall)
           /\ spAt \in {"room", "push"} => spCount < SpiLength(spCall)
           /\ waits => spCount \in 1..SpiLength(spCall)
           /\ IF waits THEN SpiAlone(spNext - 1) ELSE spTx = <<>> /\ spShift = <<>> /\ spRx = <<>>
           /\ spAt \notin {"empty", "quiet"}
           /\ Len(spGot) = SpiMin(read, spCall.read)
           /\ \A k \in 1..Len(spGot) : spGot[k] = spNext - spCount + k - 1

\* Nothing is pushed while the bus is waited for.
SpiSent ==
    spCall.op = "wait_idle" =>
        /\ spAt \in {"empty", "quiet", "idle"}
        /\ spAt = "quiet" => spTx = <<>>
        /\ spResult = "ok" => spAt = "idle" /\ spTx = <<>> /\ spShift = <<>>

SpiInv == SpiTyped /\ SpiBuilding /\ SpiInCall /\ SpiAnswers /\ SpiSent
=============================================================================
