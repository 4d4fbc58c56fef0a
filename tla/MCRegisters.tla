------------------------------ MODULE MCRegisters ------------------------------
(***************************************************************************)
(* The drivers whose calls change registers that they share with others:   *)
(* pins and pads, PWM channels, I2S, eFuse and key slots, the interrupt    *)
(* controller, and the cache under DMA transfers.  One of them runs in     *)
(* each behaviour, the others stay as they were initialised.               *)
(***************************************************************************)
EXTENDS PinBank, PwmChannels, I2s, Efuse, InterruptControl, DmaCache

CONSTANTS p1, p2, p3, u1, f1

\* The last pin is one of the ULP block, and its drivers are the handler's.
TwoBanks == [p \in {p1, p2, p3} |-> IF p = p3 THEN "ulp" ELSE "gpio"]

OneSetting == {[drive |-> 5, pull |-> "up", schmitt |-> TRUE, input |-> FALSE]}

VARIABLE block  \* the one that runs

registerVars == <<block, pinVars, padVars, pwmVars, i2sVars, efVars, kmVars,
                  icVars, ccVars>>

Blocks == {"pins", "pads", "pwm", "i2s", "efuse", "km", "interrupt", "cache"}

RegistersInit ==
    /\ block \in Blocks
    /\ PinsInit /\ PwmInit /\ I2sInit /\ EfInit /\ KmInit /\ IcInit
    /\ CcInit

\* What belongs to other blocks than b is left alone.
Only(b) ==
    /\ UNCHANGED block
    /\ b # "pins" => UNCHANGED pinVars
    /\ b \notin {"pins", "pads"} => UNCHANGED padVars
    /\ b # "pwm" => UNCHANGED pwmVars
    /\ b # "i2s" => UNCHANGED i2sVars
    /\ b # "efuse" => UNCHANGED efVars
    /\ b # "km" => UNCHANGED kmVars
    /\ b # "interrupt" => UNCHANGED icVars
    /\ b # "cache" => UNCHANGED ccVars

\* With the pins run the pads that belong to them.
RegistersNext ==
    \/ /\ block = "pins"
       /\ PinsNext /\ Only("pins")
       /\ \A p \in AllPads \ Pins : padCtrl'[p] = padCtrl[p]
       /\ UNCHANGED <<padSel, selAsked>>
    \/ block = "pads" /\ PadsNext /\ Only("pads")
    \/ block = "pwm" /\ PwmNext /\ Only("pwm")
    \/ block = "i2s" /\ I2sNext /\ Only("i2s")
    \/ block = "efuse" /\ EfNext /\ Only("efuse")
    \/ block = "km" /\ KmNext /\ Only("km")
    \/ block = "interrupt" /\ IcNext /\ Only("interrupt")
    \/ block = "cache" /\ CcNext /\ Only("cache")

RegistersSpec ==
    RegistersInit /\ [][RegistersNext]_registerVars /\ WF_icVars(IcFair)

\* The state of every one of them has its type.
RegistersTypeOK ==
    /\ PinsTypeOK /\ PadsTypeOK /\ PwmTypeOK /\ I2sTypeOK /\ EfTypeOK /\ IcTypeOK
    /\ CcTypeOK
=============================================================================
