------------------------------- MODULE UsbDevice -------------------------------
(***************************************************************************)
(* Bringing the BS2X DWC2 USB controller up as a device (usb.rs), with a   *)
(* host that comes, resets and enumerates when it likes.                   *)
(***************************************************************************)
EXTENDS Integers, SequencesExt

VARIABLES usbTodo,    \* the register accesses left of device_enumerate
          usbResult,  \* what it returned: an error, or the speed
          usbPresent, \* gsnpsid holds the signature
          usbCore,    \* grstctl: "idle", "busy" or "resetting"
          usbAttached, \* not DCTL.SFTDISCON
          usbMode,    \* "otg", or "device" once forced
          usbIntSts,  \* the bits of gintsts that are set
          usbSpeed,   \* DSTS.ENUMSPD
          usbHost,    \* "absent", "present", "reset" or "enumerated"
          usbCall     \* the speed the host gave since this call's own reset, -1 none

usbVars == <<usbTodo, usbResult, usbPresent, usbCore, usbAttached, usbMode, usbIntSts,
             usbSpeed, usbHost, usbCall>>

EnumSpd == 0..3

\* Variant: the two full speeds change places.
speed_from_enumspd_swapped(e) ==
    CASE e = 0 -> "high" [] e = 1 -> "full" [] e = 2 -> "low" [] OTHER -> "full, FS PHY"

speed_from_enumspd(e) ==
    CASE e = 0 -> "high" [] e = 1 -> "full, FS PHY" [] e = 2 -> "low" [] OTHER -> "full"

\* Variant: stale events are not cleared before the connection.
DeviceEnumerateUncleared ==
    <<"poll idle", "csftrst", "poll reset", "poll idle", "force device", "connect",
      "poll usbrst", "clear usbrst", "poll enumdone", "clear enumdone", "speed">>

\* The masks and the device configuration, which nothing here reads, are left out.
DeviceEnumerate ==
    <<"poll idle", "csftrst", "poll reset", "poll idle", "force device", "clear all",
      "connect", "poll usbrst", "clear usbrst", "poll enumdone", "clear enumdone",
      "speed">>

UsbTypeOK ==
    /\ Len(usbTodo) <= Len(DeviceEnumerate)
    /\ usbResult \in {"none", "timeout", "not present", "high", "full", "low",
                      "full, FS PHY"}
    /\ usbPresent \in BOOLEAN /\ usbAttached \in BOOLEAN
    /\ usbCore \in {"idle", "busy", "resetting"}
    /\ usbMode \in {"otg", "device"}
    /\ usbIntSts \subseteq {"usbrst", "enumdone"}
    /\ usbSpeed \in EnumSpd /\ usbCall \in EnumSpd \cup {-1}
    /\ usbHost \in {"absent", "present", "reset", "enumerated"}

\* A boot loader may have been connected, and its events be pending.
UsbInit ==
    /\ usbTodo = <<>> /\ usbResult = "none"
    /\ usbPresent \in BOOLEAN /\ usbAttached \in BOOLEAN
    /\ usbCore \in {"idle", "busy"}
    /\ usbMode = "otg" /\ usbIntSts \in {{}, {"usbrst", "enumdone"}}
    /\ usbSpeed \in {0, 1} /\ usbHost = "absent" /\ usbCall = -1

-----------------------------------------------------------------------------
device_enumerate ==
    /\ usbTodo = <<>>
    /\ IF usbPresent
       THEN usbTodo' = DeviceEnumerate /\ usbResult' = "none"
       ELSE usbTodo' = <<>> /\ usbResult' = "not present"
    /\ usbCall' = -1
    /\ UNCHANGED <<usbPresent, usbCore, usbAttached, usbMode, usbIntSts, usbSpeed, usbHost>>

Op == Head(usbTodo)

\* What each poll waits for.
UsbReady ==
    CASE Op = "poll idle" -> usbCore = "idle"
      [] Op = "poll reset" -> usbCore # "resetting"
      [] Op = "poll usbrst" -> "usbrst" \in usbIntSts
      [] Op = "poll enumdone" -> "enumdone" \in usbIntSts

Polling == usbTodo # <<>> /\ Op \in {"poll idle", "poll reset", "poll usbrst", "poll enumdone"}

\* Variant: the bound is left out.
UsbPollForever ==
    /\ Polling /\ UsbReady
    /\ usbTodo' = Tail(usbTodo) /\ UNCHANGED usbResult
    /\ UNCHANGED <<usbPresent, usbCore, usbAttached, usbMode, usbIntSts, usbSpeed, usbHost,
                   usbCall>>

\* poll: the bit, or the bound.
UsbPoll ==
    /\ Polling
    /\ \/ UsbReady /\ usbTodo' = Tail(usbTodo) /\ UNCHANGED usbResult
       \/ ~ UsbReady /\ usbTodo' = <<>> /\ usbResult' = "timeout"
    /\ UNCHANGED <<usbPresent, usbCore, usbAttached, usbMode, usbIntSts, usbSpeed, usbHost,
                   usbCall>>

\* A write, or the read of the speed.  gintsts bits are cleared by writing them.
UsbAccess ==
    /\ usbTodo # <<>> /\ ~ Polling
    /\ usbTodo' = Tail(usbTodo)
    /\ usbCore' = IF Op = "csftrst" THEN "resetting" ELSE usbCore
    /\ usbMode' = IF Op = "force device" THEN "device" ELSE usbMode
    /\ usbAttached' = (usbAttached \/ Op = "connect")
    /\ usbIntSts' = usbIntSts \ (CASE Op = "clear all" -> {"usbrst", "enumdone"}
                                   [] Op = "clear usbrst" -> {"usbrst"}
                                   [] Op = "clear enumdone" -> {"enumdone"}
                                   [] OTHER -> {})
    /\ usbResult' = IF Op = "speed" THEN speed_from_enumspd(usbSpeed) ELSE usbResult
    /\ usbCall' = IF Op = "csftrst" THEN -1 ELSE usbCall
    /\ UNCHANGED <<usbPresent, usbSpeed, usbHost>>

-----------------------------------------------------------------------------
(* The core and the host. *)

\* The soft reset ends, with the device detached; gintsts keeps its events.
UsbCoreStep ==
    /\ \/ usbCore = "resetting" /\ usbCore' = "busy" /\ usbAttached' = FALSE
          /\ usbHost' = IF usbHost = "absent" THEN "absent" ELSE "present"
       \/ usbCore = "busy" /\ usbCore' = "idle" /\ UNCHANGED <<usbAttached, usbHost>>
    /\ UNCHANGED <<usbTodo, usbResult, usbPresent, usbMode, usbIntSts, usbSpeed, usbCall>>

\* The host resets an attached device and then enumerates it at a speed.
UsbHostStep ==
    /\ usbCore = "idle" /\ usbAttached /\ usbMode = "device"
    /\ \/ /\ usbHost = "present" /\ usbHost' = "reset"
          /\ usbIntSts' = usbIntSts \cup {"usbrst"}
          /\ UNCHANGED <<usbSpeed, usbCall>>
       \/ /\ usbHost = "reset" /\ usbHost' = "enumerated"
          /\ usbIntSts' = usbIntSts \cup {"enumdone"}
          /\ usbSpeed' \in EnumSpd
          /\ usbCall' = IF usbTodo = <<>> THEN usbCall ELSE usbSpeed'
    /\ UNCHANGED <<usbTodo, usbResult, usbPresent, usbCore, usbAttached, usbMode>>

UsbPlug ==
    /\ usbHost' = IF usbHost = "absent" THEN "present" ELSE "absent"
    /\ UNCHANGED <<usbTodo, usbResult, usbPresent, usbCore, usbAttached, usbMode, usbIntSts,
                   usbSpeed, usbCall>>

UsbNext ==
    \/ device_enumerate \/ UsbAccess \/ UsbPoll
    \/ UsbCoreStep \/ UsbHostStep \/ UsbPlug

UsbSpec == UsbInit /\ [][UsbNext]_usbVars

UsbFairness == WF_usbVars(UsbAccess \/ UsbPoll \/ UsbCoreStep)

-----------------------------------------------------------------------------
(* Properties. *)

\* The speed returned is the one the host enumerated the device at since the call's
\* own reset, never one left by an earlier connection.  usb.rs:89-90 "wait until the
\* host has reset and enumerated it; returns the negotiated [`Speed`]".
SpeedNegotiated ==
    usbTodo = <<>> /\ usbResult \in {"high", "full", "low", "full, FS PHY"} =>
        /\ usbCall # -1
        /\ usbResult = (CASE usbCall = 0 -> "high" [] usbCall = 1 -> "full, FS PHY"
                          [] usbCall = 2 -> "low" [] usbCall = 3 -> "full")

\* Every call returns, also when no host comes.  usb.rs:43 "A status bit ... never
\* asserted".
EnumerateReturns == usbTodo # <<>> ~> usbTodo = <<>>
=============================================================================
