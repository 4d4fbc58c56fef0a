---------------------------------- MODULE I2s ----------------------------------
(***************************************************************************)
(* The I2S driver (i2s.rs): constructors that program the block one        *)
(* register at a time, the enables kept in ct_set/ct_clr, and the left and *)
(* right FIFOs, with the block's own loopback.  The block's interrupt      *)
(* flags, which only the caller reads, are left out.                       *)
(***************************************************************************)
EXTENDS Integers, SequencesExt

CONSTANTS
    I2sModes,       \* of {"i2s", "pcm"}
    I2sChannels,    \* of {2, 4, 8, 16}
    I2sWidths,      \* of {16, 18, 20, 24, 32}
    I2sThresholds,  \* FIFO thresholds a caller asks for
    I2sDepth        \* samples a FIFO holds

VARIABLES
    i2sTodo,    \* register writes left of the constructor
    i2sRole,    \* the live driver: "none", "master" or "slave"
    i2sAsked,   \* its configuration
    i2sClocked, \* the clock gates and the divider reset of enable_i2s_clock
    i2sRegs,    \* the block's registers
    i2sOn,      \* the bits of ct that are set
    i2sWanted,  \* the bits the calls so far have set and not cleared
    i2sFifo     \* the four FIFOs; a sample is the side it was written for

i2sVars == <<i2sTodo, i2sRole, i2sAsked, i2sClocked, i2sRegs, i2sOn, i2sWanted, i2sFifo>>

Sides == {"left", "right"}
ChannelCount == {2, 4, 8, 16}
DataWidth == {16, 18, 20, 24, 32}

ASSUME I2sAssumption ==
    /\ I2sChannels \subseteq ChannelCount /\ I2sWidths \subseteq DataWidth
    /\ {} \notin {I2sModes, I2sChannels, I2sWidths, I2sThresholds}
    /\ I2sDepth \in Nat

CtBits == {"tx", "rx", "tx int", "rx int"}

SlaveConfig == [mode : I2sModes, channels : I2sChannels, width : I2sWidths,
                edge : {"rising", "falling"}, tx : I2sThresholds, rx : I2sThresholds,
                loop : BOOLEAN]
\* A master samples on the vendor's falling edge.
MasterConfig == {c \in SlaveConfig : c.edge = "falling"}

\* Variant: the bit clock's divider is rounded down.
derive_dividers_truncated(width, channels) ==
    LET product == width * channels
    IN [bclk |-> 12288 \div (32 * product), fs |-> product, ratio |-> product \div 2]

\* The frame is one sample of every channel, half of it high; the bit clock's divider is
\* rounded to the nearest.
derive_dividers(width, channels) ==
    LET product == width * channels
        bclk == (2 * 12288 + 32 * product) \div (2 * 32 * product)
    IN [bclk |-> IF bclk = 0 THEN 1 ELSE bclk, fs |-> product, ratio |-> product \div 2]

ModeBits(c, master) ==
    [pcm |-> c.mode = "pcm", channels |-> c.channels, edge |-> c.edge, master |-> master]
\* One width for both directions.
WidthBits(c) == [tx |-> c.width, rx |-> c.width]

Common(c) ==
    << <<"width", WidthBits(c)>>, <<"threshold", <<c.tx, c.rx>> >>, <<"loop", c.loop>>,
       <<"signed", TRUE>>, <<"reset", Sides>> >>

\* Variant: the dividers' enable comes before the dividers.
new_master_running(c) ==
    LET d == derive_dividers(c.width, c.channels)
    IN << <<"clock", TRUE>>, <<"mode", ModeBits(c, TRUE)>>, <<"crg", TRUE>>,
          <<"fs", d.fs>>, <<"ratio", d.ratio>>, <<"bclk", d.bclk>> >> \o Common(c)

new_master(c) ==
    LET d == derive_dividers(c.width, c.channels)
    IN << <<"clock", TRUE>>, <<"mode", ModeBits(c, TRUE)>>,
          <<"fs", d.fs>>, <<"ratio", d.ratio>>, <<"bclk", d.bclk>>, <<"crg", TRUE>> >>
       \o Common(c)

\* A slave's frame and bit clocks come from outside.
new_slave(c) ==
    << <<"clock", TRUE>>, <<"mode", ModeBits(c, FALSE)>>, <<"crg", FALSE>> >> \o Common(c)

EmptyFifo == [txleft |-> <<>>, txright |-> <<>>, rxleft |-> <<>>, rxright |-> <<>>]

I2sInit ==
    /\ i2sTodo = <<>> /\ i2sRole = "none" /\ i2sAsked \in {CHOOSE c \in SlaveConfig : TRUE}
    /\ i2sClocked = FALSE
    /\ i2sRegs = [mode |-> [pcm |-> FALSE, channels |-> 0, edge |-> "falling", master |-> FALSE],
                  fs |-> 0, ratio |-> 0, bclk |-> 0, crg |-> FALSE, width |-> [tx |-> 0, rx |-> 0],
                  threshold |-> <<0, 0>>, loop |-> FALSE, signed |-> FALSE]
    /\ i2sOn = {} /\ i2sWanted = {} /\ i2sFifo = EmptyFifo

I2sTypeOK ==
    /\ Len(i2sTodo) <= 11 /\ i2sRole \in {"none", "master", "slave"}
    /\ i2sAsked \in SlaveConfig /\ i2sClocked \in BOOLEAN
    /\ i2sRegs.fs \in 0..1023 /\ i2sRegs.ratio \in 0..2047 /\ i2sRegs.bclk \in 0..127
    /\ i2sOn \subseteq CtBits /\ i2sWanted \subseteq CtBits
    /\ \A q \in DOMAIN i2sFifo : i2sFifo[q] \in BoundedSeq(Sides, I2sDepth)

-----------------------------------------------------------------------------
NewI2s ==
    /\ i2sTodo = <<>>
    /\ \/ \E c \in MasterConfig :
            i2sRole' = "master" /\ i2sAsked' = c /\ i2sTodo' = new_master(c)
       \/ \E c \in SlaveConfig :
            i2sRole' = "slave" /\ i2sAsked' = c /\ i2sTodo' = new_slave(c)
    /\ UNCHANGED <<i2sClocked, i2sRegs, i2sOn, i2sWanted, i2sFifo>>

\* Without its clock the block latches no write.
I2sWrite ==
    /\ i2sTodo # <<>>
    /\ i2sTodo' = Tail(i2sTodo)
    /\ LET reg == Head(i2sTodo)[1]
           value == Head(i2sTodo)[2]
       IN /\ i2sClocked' = (i2sClocked \/ reg = "clock")
          /\ i2sRegs' = IF i2sClocked /\ reg \in DOMAIN i2sRegs
                        THEN [i2sRegs EXCEPT ![reg] = value] ELSE i2sRegs
          /\ i2sFifo' = IF i2sClocked /\ reg = "reset" THEN EmptyFifo ELSE i2sFifo
    /\ UNCHANGED <<i2sRole, i2sAsked, i2sOn, i2sWanted>>

Built == i2sTodo = <<>> /\ i2sRole # "none"

\* Variant: the enables are written as a whole.
ct_set_whole(bit) == {bit}

\* ct_set and ct_clr change the bits written as one and no other.
ct_set(bit) == i2sOn \cup {bit}
ct_clr(bit) == i2sOn \ {bit}

\* The interrupt enables are only ever set.
EnableCalls ==
    /\ Built
    /\ \/ \E bit \in CtBits : i2sOn' = ct_set(bit) /\ i2sWanted' = i2sWanted \cup {bit}
       \/ \E bit \in {"tx", "rx"} : i2sOn' = ct_clr(bit) /\ i2sWanted' = i2sWanted \ {bit}
    /\ UNCHANGED <<i2sTodo, i2sRole, i2sAsked, i2sClocked, i2sRegs, i2sFifo>>

\* Variant: the sides change places.
TxFifoSwapped(side) == IF side = "left" THEN "txright" ELSE "txleft"

TxFifo(side) == IF side = "left" THEN "txleft" ELSE "txright"
RxFifo(side) == IF side = "left" THEN "rxleft" ELSE "rxright"

\* Writing to a full FIFO loses the sample, reading an empty one gives nothing.
FifoCalls ==
    /\ Built
    /\ \/ \E side \in Sides :
            IF Len(i2sFifo[TxFifo(side)]) < I2sDepth
            THEN i2sFifo' = [i2sFifo EXCEPT ![TxFifo(side)] = Append(@, side)]
            ELSE UNCHANGED i2sFifo
       \/ \E side \in Sides :
            i2sFifo' = [i2sFifo EXCEPT ![RxFifo(side)] = IF @ = <<>> THEN @ ELSE Tail(@)]
       \/ i2sFifo' = [i2sFifo EXCEPT !.txleft = <<>>, !.txright = <<>>]
       \/ i2sFifo' = [i2sFifo EXCEPT !.rxleft = <<>>, !.rxright = <<>>]
    /\ UNCHANGED <<i2sTodo, i2sRole, i2sAsked, i2sClocked, i2sRegs, i2sOn, i2sWanted>>

\* The block moves a frame: a sample of each side goes out, and comes back in when looped.
Frame ==
    /\ Built /\ "tx" \in i2sOn
    /\ LET full == i2sFifo.txleft # <<>> /\ i2sFifo.txright # <<>>
           looped == full /\ i2sRegs.loop /\ "rx" \in i2sOn
           room == Len(i2sFifo.rxleft) < I2sDepth /\ Len(i2sFifo.rxright) < I2sDepth
       IN i2sFifo' =
               IF ~ full THEN i2sFifo
               ELSE [txleft |-> Tail(i2sFifo.txleft), txright |-> Tail(i2sFifo.txright),
                     rxleft |-> IF looped /\ room
                                THEN Append(i2sFifo.rxleft, Head(i2sFifo.txleft))
                                ELSE i2sFifo.rxleft,
                     rxright |-> IF looped /\ room
                                 THEN Append(i2sFifo.rxright, Head(i2sFifo.txright))
                                 ELSE i2sFifo.rxright]
    /\ UNCHANGED <<i2sTodo, i2sRole, i2sAsked, i2sClocked, i2sRegs, i2sOn, i2sWanted>>

I2sNext == NewI2s \/ I2sWrite \/ EnableCalls \/ FifoCalls \/ Frame

I2sSpec == I2sInit /\ [][I2sNext]_i2sVars

-----------------------------------------------------------------------------
(* Properties. *)

\* How far a divider is from the one a frame of so many bits needs.
Off(divider, bits) ==
    LET product == divider * 32 * bits
    IN IF product > 12288 THEN product - 12288 ELSE 12288 - product

\* A built driver's registers say what its configuration asked, whatever an earlier driver
\* left, and the enables are those the calls gave.  A master's bit clock is the divider
\* nearest to the one asked.  i2s.rs:141 "`round` is round-half-up", i2s.rs:294 "(BCLK/FS
\* supplied externally".
I2sAsAsked ==
    Built =>
        /\ i2sRegs.mode = ModeBits(i2sAsked, i2sRole = "master")
        /\ i2sRegs.width = WidthBits(i2sAsked)
        /\ i2sRegs.threshold = <<i2sAsked.tx, i2sAsked.rx>>
        /\ i2sRegs.loop = i2sAsked.loop /\ i2sRegs.signed
        /\ i2sRegs.crg = (i2sRole = "master")
        /\ i2sRole = "master" =>
             LET bits == i2sAsked.width * i2sAsked.channels
             IN /\ i2sRegs.fs = bits /\ 2 * i2sRegs.ratio = bits
                /\ \A other \in 1..127 : Off(i2sRegs.bclk, bits) <= Off(other, bits)
        /\ i2sOn = i2sWanted

\* The clock generator never runs from a zero or unset divider, while a driver is being
\* built either.  i2s.rs:129 "takes a raw divider and can never present a
\* zero/out-of-range one".
NoZeroDivider ==
    i2sRegs.crg => i2sRegs.fs > 0 /\ i2sRegs.ratio > 0 /\ i2sRegs.bclk > 0

\* What is read on a side was written for it, through uneven writes, overflows and resets.
\* i2s.rs:402-426 write_left, write_right, read_left, read_right.
ChannelsKept ==
    /\ \A k \in 1..Len(i2sFifo.rxleft) : i2sFifo.rxleft[k] = "left"
    /\ \A k \in 1..Len(i2sFifo.rxright) : i2sFifo.rxright[k] = "right"

\* The block is set as asked, by way of legal settings, and keeps its sides apart
\* (i2s.rs:129-147, 402-426).
I2sSafe == I2sAsAsked /\ NoZeroDivider /\ ChannelsKept
=============================================================================
