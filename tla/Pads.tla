--------------------------------- MODULE Pads ---------------------------------
(***************************************************************************)
(* Pad control and pin functions (io_config.rs), and the pull resistor     *)
(* that gpio.rs sets in the same registers.                                *)
(***************************************************************************)
EXTENDS Integers, FiniteSets

CONSTANTS GpioPads,  \* GPIO pads with a control register (pins 0 to 14), a function each
          UartPads,  \* UART pads, a function each
          SfcPads,   \* flash pads, which have no function select
          PadSettings,  \* the settings asked for
          Functions     \* the pin functions asked for, as raw bits

VARIABLES padCtrl,   \* pad_*_ctrl, by its bits
          padSel,    \* *_sel
          padAsked,  \* the settings last asked of each pad, by either driver
          selAsked

padVars == <<padCtrl, padSel, padAsked, selAsked>>

AllPads == GpioPads \cup UartPads \cup SfcPads
MuxedPads == GpioPads \cup UartPads

Pulls == {"none", "up", "down"}

\* 0 is the strongest drive.
PadSetting == [drive : 0..7, pull : Pulls, schmitt : BOOLEAN, input : BOOLEAN]

\* The settings asked for are settings.
ASSUME PadsAssumption == PadSettings \subseteq PadSetting

PullEnable(pull) == pull # "none"
PullSelect(pull) == pull = "up"

\* Variant: two of the drive bits change places.
build_pad_ctrl_swapped(s) ==
    [ds2 |-> s.drive \div 4 % 2, ds1 |-> s.drive % 2, ds0 |-> s.drive \div 2 % 2,
     pe |-> PullEnable(s.pull), ps |-> PullSelect(s.pull),
     st |-> s.schmitt, ie |-> s.input]

build_pad_ctrl(s) ==
    [ds2 |-> s.drive \div 4 % 2, ds1 |-> s.drive \div 2 % 2, ds0 |-> s.drive % 2,
     pe |-> PullEnable(s.pull), ps |-> PullSelect(s.pull),
     st |-> s.schmitt, ie |-> s.input]

\* At reset the input buffer is on.
PadReset == [drive |-> 0, pull |-> "none", schmitt |-> FALSE, input |-> TRUE]

PadsTypeOK ==
    /\ \A p \in AllPads : padCtrl[p] \in
         [ds2 : 0..1, ds1 : 0..1, ds0 : 0..1, pe : BOOLEAN, ps : BOOLEAN,
          st : BOOLEAN, ie : BOOLEAN]
    /\ padSel \in [MuxedPads -> 0..7]
    /\ padAsked \in [AllPads -> PadSetting]
    /\ selAsked \in [MuxedPads -> 0..7]

PadsInit ==
    /\ padCtrl = [p \in AllPads |-> build_pad_ctrl(PadReset)]
    /\ padSel = [p \in MuxedPads |-> 0]
    /\ padAsked = [p \in AllPads |-> PadReset]
    /\ selAsked = [p \in MuxedPads |-> 0]

-----------------------------------------------------------------------------
\* configure_gpio_pad, configure_uart_pad and configure_sfc_pad: a write.
configure_pad(p, s) ==
    /\ padCtrl' = [padCtrl EXCEPT ![p] = build_pad_ctrl(s)]
    /\ padAsked' = [padAsked EXCEPT ![p] = s]
    /\ UNCHANGED <<padSel, selAsked>>

\* Variant: the raw bits are written as they are given.
set_mux_raw(p, f) ==
    /\ padSel' = [padSel EXCEPT ![p] = f]
    /\ selAsked' = [selAsked EXCEPT ![p] = f]
    /\ UNCHANGED <<padCtrl, padAsked>>

\* set_gpio_mux and set_uart_mux: three bits, by from_bits.
set_mux(p, f) ==
    /\ f \in 0..7
    /\ padSel' = [padSel EXCEPT ![p] = f]
    /\ selAsked' = [selAsked EXCEPT ![p] = f]
    /\ UNCHANGED <<padCtrl, padAsked>>

\* Variant: the pull is written, not modified, and the drive is lost.
apply_pull_written(p, pull) ==
    /\ p \in GpioPads
    /\ padCtrl' = [padCtrl EXCEPT ![p] =
           build_pad_ctrl([PadReset EXCEPT !.pull = pull])]
    /\ padAsked' = [padAsked EXCEPT ![p].pull = pull, ![p].input = TRUE]
    /\ UNCHANGED <<padSel, selAsked>>

\* gpio.rs: the pull and the input buffer change, the rest is kept.  A pin
\* without a control register is left alone.
apply_pull(p, pull) ==
    IF p \in GpioPads
    THEN /\ padCtrl' = [padCtrl EXCEPT ![p].pe = PullEnable(pull),
                                       ![p].ps = PullSelect(pull), ![p].ie = TRUE]
         /\ padAsked' = [padAsked EXCEPT ![p].pull = pull, ![p].input = TRUE]
         /\ UNCHANGED <<padSel, selAsked>>
    ELSE UNCHANGED padVars

\* What the driver's owner does.
PadsNext ==
    \/ \E p \in AllPads, s \in PadSettings : configure_pad(p, s)
    \/ \E p \in MuxedPads, f \in Functions : set_mux(p, f)

PadsSpec == PadsInit /\ [][PadsNext]_padVars

-----------------------------------------------------------------------------
(* The register map read back: what a pad does with its bits. *)

PadDrive(c) == 4 * c.ds2 + 2 * c.ds1 + c.ds0
PadPull(c) == IF ~ c.pe THEN "none" ELSE IF c.ps THEN "up" ELSE "down"

\* Whatever of the two drivers has set which part of it last, a pad does what
\* was last asked of it, and no call for another pad disturbs it.  gpio.rs:542
\* "Read-modify-write so drive strength / Schmitt bits are kept";
\* io_config.rs:478 "PE=1, PS=1", the pair both drivers write.
PadsAsAsked ==
    /\ padSel = selAsked
    /\ \A p \in AllPads :
         /\ PadDrive(padCtrl[p]) = padAsked[p].drive
         /\ PadPull(padCtrl[p]) = padAsked[p].pull
         /\ padCtrl[p].st = padAsked[p].schmitt
         /\ padCtrl[p].ie = padAsked[p].input
=============================================================================
