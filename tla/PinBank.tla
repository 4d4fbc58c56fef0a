-------------------------------- MODULE PinBank --------------------------------
(***************************************************************************)
(* Digital pins (gpio.rs, ulp_gpio.rs).  The pins of a bank share its      *)
(* direction register, gpio_sw_oen, which is read, modified and written;   *)
(* data is set and cleared by registers of its own.  The calls of the      *)
(* program and of an interrupt handler are sequences of register accesses. *)
(***************************************************************************)
EXTENDS Pads, SequencesExt

CONSTANTS Pins,
          BankOfPin,
          HandlerPins, \* the pins whose drivers the handler holds
          UlpPins      \* pins of the ULP block

\* The handler's pins and the ULP block's are among the pins.
ASSUME PinsAssumption == Pins # {} /\ HandlerPins \subseteq Pins /\ UlpPins \subseteq Pins

VARIABLES oen,      \* gpio_sw_oen, as the set of pins that are inputs
          data,     \* the set of pins whose data bit is set
          kind,     \* the driver that holds the pin
          pinTodo,  \* the accesses left of each context's call
          pinOf,    \* the pin it is for, and any one outside calls
          oenRead,  \* gpio_sw_oen as the context read it
          oenSaved, \* ... and as it saved it
          sampled,  \* the level it sampled
          outAsked, \* the pins that are to drive
          highAsked \* the pins to be high when they do

pinVars == <<oen, data, kind, pinTodo, pinOf, oenRead, oenSaved, sampled,
             outAsked, highAsked>>

PinContexts == {"main", "handler"}
PinsOf(c) == IF c = "handler" THEN HandlerPins ELSE Pins \ HandlerPins
FirstPin(c) == IF PinsOf(c) = {} THEN CHOOSE p \in Pins : TRUE ELSE CHOOSE p \in PinsOf(c) : TRUE
Bank(p) == {q \in Pins : BankOfPin[q] = BankOfPin[p]}

\* "gone" is an Output that was latched or a Flex that was dropped.
Kinds == {"any", "input", "output", "flex", "gone"}

\* gpio_sw_out of a pin that drives: nothing when its pad's input buffer is off.
SwOut(p) == p \in data /\ (p \in GpioPads => padCtrl[p].ie)

-----------------------------------------------------------------------------
(* The register accesses of the calls. *)

\* Variant: the register is written with the pin's own bit only.
SetOenWhole(input) == <<IF input THEN "only" ELSE "none">>

\* set_oen: a read, and a write of what was read with the pin's bit changed.
SetOen(input) == <<"read", IF input THEN "oen" ELSE "drive">>
DataTo(high) == <<IF high THEN "set" ELSE "clr">>

\* Variant: the direction first, then the level.
InitOutputEarly(high) == SetOen(FALSE) \o DataTo(high)

\* init_output and init_flex.
InitOutput(high) == DataTo(high) \o SetOen(FALSE)

Toggle == <<"sample", "flip">>

\* Variant: the direction is not put back.
FlexIsHighStays == <<"save">> \o SetOen(TRUE)

\* Flex::is_high: saved, switched to input, put back; what it reads is not kept.
FlexIsHigh == <<"save">> \o SetOen(TRUE) \o <<"read", "restore">>

PinsTypeOK ==
    /\ oen \subseteq Pins /\ data \subseteq Pins
    /\ kind \in [Pins -> Kinds]
    /\ \A c \in PinContexts :
         /\ \A i \in DOMAIN pinTodo[c] : pinTodo[c][i] \in
              {"read", "oen", "drive", "only", "none", "set", "clr", "sample", "flip",
               "save", "restore"}
         /\ pinOf[c] \in Pins
         /\ oenRead[c] \subseteq Bank(pinOf[c]) /\ oenSaved[c] \subseteq Bank(pinOf[c])
    /\ sampled \in [PinContexts -> BOOLEAN]
    /\ outAsked \subseteq Pins /\ highAsked \subseteq Pins

PinsInit ==
    /\ PadsInit
    /\ oen = Pins /\ data = {}
    /\ kind = [p \in Pins |-> "any"]
    /\ pinTodo = [c \in PinContexts |-> <<>>]
    /\ pinOf = [c \in PinContexts |-> FirstPin(c)]
    /\ oenRead = [c \in PinContexts |-> {}] /\ oenSaved = [c \in PinContexts |-> {}]
    /\ sampled = [c \in PinContexts |-> FALSE]
    /\ outAsked = {} /\ highAsked = {}

-----------------------------------------------------------------------------
(* The calls. *)

\* A handler preempts the program and runs to its end.
MayRun(c) == c = "handler" \/ pinTodo["handler"] = <<>>

PinCall(c, p, from, to, accesses) ==
    /\ MayRun(c) /\ pinTodo[c] = <<>>
    /\ p \in PinsOf(c) /\ kind[p] \in from
    /\ kind' = [kind EXCEPT ![p] = to]
    /\ pinTodo' = [pinTodo EXCEPT ![c] = accesses]
    /\ pinOf' = [pinOf EXCEPT ![c] = IF accesses = <<>> THEN FirstPin(c) ELSE p]
    /\ UNCHANGED <<oen, data, oenRead, oenSaved, sampled>>

Asks(p, out, high) ==
    /\ outAsked' = IF out THEN outAsked \cup {p} ELSE outAsked \ {p}
    /\ highAsked' = IF high THEN highAsked \cup {p} ELSE highAsked \ {p}

\* init_input sets the pull after the direction, in the pad's own register.
init_input(c, p, pull) ==
    /\ PinCall(c, p, {"any"}, "input", SetOen(TRUE))
    /\ Asks(p, FALSE, p \in highAsked)
    /\ apply_pull(p, pull)

init_output(c, p, to, high) ==
    /\ PinCall(c, p, {"any"}, to, InitOutput(high))
    /\ Asks(p, TRUE, high)
    /\ UNCHANGED padVars

\* set_high and set_low of Output; those of Flex switch to output first.
set_level(c, p, high) ==
    /\ \/ PinCall(c, p, {"output"}, "output", DataTo(high))
       \/ PinCall(c, p, {"flex"}, "flex", SetOen(FALSE) \o DataTo(high))
    /\ Asks(p, TRUE, high)
    /\ UNCHANGED padVars

\* "based on its current GPIO_SW_OUT state".
toggle(c, p) ==
    /\ \/ PinCall(c, p, {"output"}, "output", Toggle)
       \/ PinCall(c, p, {"flex"}, "flex", SetOen(FALSE) \o Toggle)
    /\ Asks(p, TRUE, ~ SwOut(p))
    /\ UNCHANGED padVars

flex_is_high(c, p) ==
    /\ PinCall(c, p, {"flex"}, "flex", FlexIsHigh)
    /\ UNCHANGED <<outAsked, highAsked, padVars>>

\* set_as_output and set_as_input.
set_as(c, p, out) ==
    /\ PinCall(c, p, {"flex"}, "flex", SetOen(~ out))
    /\ Asks(p, out, p \in highAsked)
    /\ UNCHANGED padVars

\* into_flex, into_latched, the degrades, the drops of Input and Flex (they have
\* no Drop) and steal: no register is touched.
Retype(c, p) ==
    /\ \/ PinCall(c, p, {"output"}, "flex", <<>>)
       \/ PinCall(c, p, {"output", "flex", "input"}, "gone", <<>>)
       \/ PinCall(c, p, {"output", "flex", "input", "gone"}, "any", <<>>)
    /\ UNCHANGED <<outAsked, highAsked, padVars>>

\* Variant: the output is dropped as a Flex is.
drop_output_kept(c, p) ==
    /\ PinCall(c, p, {"output"}, "gone", <<>>)
    /\ Asks(p, FALSE, p \in highAsked)
    /\ UNCHANGED padVars

\* Output's Drop: back to input.
drop_output(c, p) ==
    /\ PinCall(c, p, {"output"}, "gone", SetOen(TRUE))
    /\ Asks(p, FALSE, p \in highAsked)
    /\ UNCHANGED padVars

\* create_input_pin and into_input, create_output_pin and into_output of a ULP pin:
\* the direction only.
ulp_direction(c, p, out) ==
    /\ p \in UlpPins
    /\ PinCall(c, p, {"any", "input", "output"}, IF out THEN "output" ELSE "input",
               SetOen(~ out))
    /\ Asks(p, out, p \in highAsked)
    /\ UNCHANGED padVars

Calls(c, p) ==
    \/ /\ p \notin UlpPins
       /\ \/ \E pull \in Pulls : init_input(c, p, pull)
          \/ \E to \in {"output", "flex"}, high \in BOOLEAN : init_output(c, p, to, high)
          \/ flex_is_high(c, p) \/ drop_output(c, p) \/ Retype(c, p)
          \/ \E out \in BOOLEAN : set_as(c, p, out)
    \/ \E high \in BOOLEAN : set_level(c, p, high)
    \/ toggle(c, p)
    \/ \E out \in BOOLEAN : ulp_direction(c, p, out)

-----------------------------------------------------------------------------
\* One register access of a call.
PinAccess(c) ==
    LET op == Head(pinTodo[c])
        p == pinOf[c]
        WriteOen(bits) == oen' = (oen \ Bank(p)) \cup bits
        WithBit(bits, input) == IF input THEN bits \cup {p} ELSE bits \ {p}
    IN  /\ pinTodo[c] # <<>> /\ MayRun(c)
        /\ pinTodo' = [pinTodo EXCEPT ![c] = Tail(@)]
        /\ pinOf' = IF pinTodo'[c] = <<>> THEN [pinOf EXCEPT ![c] = FirstPin(c)] ELSE pinOf
        /\ oenRead' = [oenRead EXCEPT ![c] =
               IF op = "read" THEN oen \cap Bank(p) ELSE {}]
        /\ oenSaved' = [oenSaved EXCEPT ![c] =
               CASE op = "save" -> oen \cap Bank(p) [] op = "restore" -> {} [] OTHER -> @]
        /\ CASE op = "oen" -> WriteOen(WithBit(oenRead[c], TRUE))
             [] op = "drive" -> WriteOen(WithBit(oenRead[c], FALSE))
             [] op = "restore" -> WriteOen(WithBit(oenRead[c], p \in oenSaved[c]))
             [] op = "only" -> WriteOen({p})
             [] op = "none" -> WriteOen({})
             [] OTHER -> UNCHANGED oen
        /\ sampled' = [sampled EXCEPT ![c] = op = "sample" /\ SwOut(p)]
        /\ data' = CASE op = "set" \/ (op = "flip" /\ ~ sampled[c]) -> data \cup {p}
                     [] op = "clr" \/ (op = "flip" /\ sampled[c]) -> data \ {p}
                     [] OTHER -> data
        /\ UNCHANGED <<kind, outAsked, highAsked, padVars>>

\* The pad driver belongs to the program.
PadCall ==
    /\ pinTodo["main"] = <<>> /\ pinTodo["handler"] = <<>>
    /\ PadsNext
    /\ UNCHANGED pinVars

PinsNext ==
    \/ \E c \in PinContexts : PinAccess(c) \/ \E p \in PinsOf(c) : Calls(c, p)
    \/ PadCall

PinsSpec == PinsInit /\ [][PinsNext]_<<pinVars, padVars>>

-----------------------------------------------------------------------------
(* Properties. *)

Busy(p) == \E c \in PinContexts : pinTodo[c] # <<>> /\ pinOf[c] = p

\* When no call for a pin is under way the pin drives if and only if its owner's
\* last word was to drive, with the level of that word, whatever calls for other
\* pins are under way: a dropped output is an input, a latched one still drives,
\* and a Flex that was read is what it was.  gpio.rs:358-361 "a dropped output
\* reverts its pad to input / high-impedance ... so a stale handle cannot keep
\* driving a line".
PinsAsAsked ==
    \A p \in Pins : ~ Busy(p) =>
        /\ p \in oen <=> p \notin outAsked
        /\ p \in outAsked \ UlpPins => (p \in data <=> p \in highAsked)

\* A pin that its init call makes an output begins with the level asked for.
\* gpio.rs:100 "Drive the pin high on initialization (otherwise low)".
NoGlitch ==
    [][\A p \in Pins \ UlpPins, c \in PinContexts :
          /\ pinOf[c] = p /\ kind[p] = "output"
          /\ p \in oen /\ p \notin oen'
          => (p \in data <=> p \in highAsked)]_pinVars

\* Pins and pads do what was last asked of them, and nothing else on the way there
\* (gpio.rs:100-156, 542-548).
PinsSafe == [](PinsAsAsked /\ PadsAsAsked) /\ NoGlitch
=============================================================================
