------------------------------- MODULE Watchdog -------------------------------
(***************************************************************************)
(* The watchdog (wdt.rs).  Every call is a few register accesses between   *)
(* an unlock and a lock, while the counter runs.  When the counter has     *)
(* run out once or twice with an interrupt, the next time resets the chip. *)
(***************************************************************************)
EXTENDS Integers, SequencesExt

CONSTANTS WdtTicksPerMs, \* stands for WDT_CLOCK_HZ / 1000
          WdtReserve,    \* stands for 2 ^ WDT_LOAD_RESEV
          WDT_MAX_LOAD,
          WdtInputs      \* the timeouts asked for, in ms

ASSUME WdtAssumption ==
    /\ WdtTicksPerMs \in Nat /\ WdtReserve \in Nat \ {0} /\ WDT_MAX_LOAD \in Nat
    /\ WdtInputs \subseteq Nat

VARIABLES wdtOwner,   \* the handle: "none", "new", "scoped", or "armed" (forgotten)
          wdtTodo,    \* the register accesses of the call, the next one first
          wdtResult,  \* what it returned
          wdtLocked, wdtCr, wdtLoad, wdtCount,
          wdtStage,   \* interrupts since the counter was restarted
          wdtLatch,   \* the two bits of wdt_ccvr_en
          wdtWedged,  \* the block has no clock
          wdtBit,     \* the chip has been reset
          wdtAsked,   \* what the calls so far ask of the control register
          wdtMs,      \* and of the timeout
          wdtSince    \* ticks since the counter was restarted, up to a bound

wdtVars == <<wdtOwner, wdtTodo, wdtResult, wdtLocked, wdtCr, wdtLoad, wdtCount,
             wdtStage, wdtLatch, wdtWedged, wdtBit, wdtAsked, wdtMs, wdtSince>>

wdtHardware == <<wdtCr, wdtLoad, wdtCount, wdtStage, wdtLatch, wdtSince>>

WdtControls == [en : BOOLEAN, rst : BOOLEAN, imsk : BOOLEAN, double : BOOLEAN]

WdtReset == [en |-> FALSE, rst |-> FALSE, imsk |-> FALSE, double |-> FALSE]

WdtBound == 3 * WDT_MAX_LOAD * WdtReserve

-----------------------------------------------------------------------------
(* WdtTimeout. *)

\* Variant: a timeout that does not fit is not refused.
from_ms_any(ms) == ms # 0

\* None for no time at all and for one whose load does not fit the field.
from_ms(ms) == ms # 0 /\ (ms * WdtTicksPerMs) \div WdtReserve <= WDT_MAX_LOAD

\* The field has as many bits as WDT_MAX_LOAD.
load_field(ms) == ((ms * WdtTicksPerMs) \div WdtReserve) % (WDT_MAX_LOAD + 1)

-----------------------------------------------------------------------------
(* The register accesses of each call. *)

WriteCr(cr) == [reg |-> "cr", cr |-> cr]
WriteLoad(load) == [reg |-> "load", load |-> load]
Touch(reg) == [reg |-> reg]

Locked(accesses) == Append(<<Touch("unlock")>> \o accesses, Touch("lock"))

\* configure masks the interrupt; the latch is asked for before the lock.
ConfigureAccesses(ms, cr) ==
    Locked(<<WriteLoad(load_field(ms)), WriteCr(cr), Touch("latch"), Touch("poll")>>)

WdtTypeOK ==
    /\ wdtOwner \in {"none", "new", "scoped", "armed"}
    /\ \A i \in DOMAIN wdtTodo : wdtTodo[i].reg \in
         {"unlock", "lock", "cr", "load", "latch", "poll", "restart", "eoi", "drop"}
    /\ wdtResult \in {"none", "ok", "busy"}
    /\ wdtLocked \in BOOLEAN /\ wdtWedged \in BOOLEAN /\ wdtBit \in BOOLEAN
    /\ wdtCr \in WdtControls /\ wdtAsked \in WdtControls
    /\ wdtLoad \in 0..WDT_MAX_LOAD
    /\ wdtCount \in 0..(WDT_MAX_LOAD * WdtReserve)
    /\ wdtStage \in 0..2
    /\ wdtLatch \in {"no", "asked", "valid"}
    /\ wdtMs \in WdtInputs \cup {0}
    /\ wdtSince \in 0..WdtBound

WdtInit ==
    /\ wdtOwner = "none" /\ wdtTodo = <<>> /\ wdtResult = "none"
    /\ wdtLocked = TRUE /\ wdtCr = WdtReset /\ wdtLoad = 0 /\ wdtCount = 0
    /\ wdtStage = 0 /\ wdtLatch = "no" /\ wdtWedged \in BOOLEAN /\ wdtBit = FALSE
    /\ wdtAsked = WdtReset /\ wdtMs = 0 /\ wdtSince = 0

-----------------------------------------------------------------------------
(* The calls. *)

WdtCall(accesses, asked, ms) ==
    /\ wdtOwner \in {"new", "scoped"}
    /\ wdtTodo = <<>>
    /\ wdtOwner' = IF Touch("lock") \in Range(accesses) THEN "scoped" ELSE wdtOwner
    /\ wdtTodo' = accesses
    /\ wdtAsked' = asked
    /\ wdtMs' = ms
    /\ wdtResult' = "none"
    /\ UNCHANGED <<wdtLocked, wdtHardware, wdtWedged, wdtBit>>

\* new unlocks; the handle may be made again when the last one is gone.
WdtNew ==
    /\ wdtOwner \in {"none", "armed"}
    /\ wdtTodo = <<>>
    /\ wdtOwner' = "new"
    /\ wdtTodo' = <<Touch("unlock")>>
    /\ wdtResult' = "none"
    /\ UNCHANGED <<wdtLocked, wdtHardware, wdtWedged, wdtBit, wdtAsked, wdtMs>>

configure ==
    \E ms \in {t \in WdtInputs : from_ms(t)}, rst \in BOOLEAN, double \in BOOLEAN :
        LET cr == [en |-> TRUE, rst |-> rst, imsk |-> TRUE, double |-> double]
        IN  WdtCall(ConfigureAccesses(ms, cr), cr, ms)

\* enable, disable, enable_interrupt and disable_interrupt.
WdtModify ==
    \E f \in {"en", "imsk"}, b \in BOOLEAN :
        /\ wdtMs # 0
        /\ LET cr == [wdtAsked EXCEPT ![f] = b]
           IN  WdtCall(Locked(<<WriteCr([wdtCr EXCEPT ![f] = b])>>), cr, wdtMs)

feed == WdtCall(Locked(<<Touch("restart")>>), wdtAsked, wdtMs)

counter_value == WdtCall(<<Touch("latch"), Touch("poll")>>, wdtAsked, wdtMs)

\* The interrupt is cleared by a read, which needs no unlocking.
clear_interrupt == WdtCall(<<Touch("eoi")>>, wdtAsked, wdtMs)

\* Variant: the handle is dropped, which stops the watchdog.
into_armed_dropped ==
    /\ wdtOwner \in {"new", "scoped"}
    /\ wdtTodo = <<>>
    /\ wdtOwner' = "armed"
    /\ wdtCr' = [wdtCr EXCEPT !.en = FALSE]
    /\ UNCHANGED <<wdtTodo, wdtResult, wdtLocked, wdtLoad, wdtCount, wdtStage, wdtLatch,
                   wdtSince, wdtWedged, wdtBit, wdtAsked, wdtMs>>

\* The handle is forgotten: the watchdog runs on.
into_armed ==
    /\ wdtOwner \in {"new", "scoped"}
    /\ wdtTodo = <<>>
    /\ wdtOwner' = "armed"
    /\ UNCHANGED <<wdtTodo, wdtResult, wdtLocked, wdtHardware, wdtWedged, wdtBit,
                   wdtAsked, wdtMs>>

WdtDrop ==
    WdtCall(Append(Locked(<<WriteCr([wdtCr EXCEPT !.en = FALSE])>>), Touch("drop")),
            [wdtAsked EXCEPT !.en = FALSE], wdtMs)

-----------------------------------------------------------------------------
(* One register access. *)

\* A write to a locked block is lost.
Write(reg) == wdtTodo[1].reg = reg /\ ~ wdtLocked

WdtAccess ==
    /\ wdtTodo # <<>>
    /\ wdtTodo[1].reg # "poll"
    /\ wdtTodo' = Tail(wdtTodo)
    /\ wdtLocked' = CASE wdtTodo[1].reg = "unlock" -> FALSE
                      [] wdtTodo[1].reg = "lock" -> TRUE
                      [] OTHER -> wdtLocked
    /\ wdtCr' = IF Write("cr") THEN wdtTodo[1].cr ELSE wdtCr
    /\ wdtLoad' = IF Write("load") THEN wdtTodo[1].load ELSE wdtLoad
    /\ IF Write("restart") \/ Write("load")
       THEN wdtCount' = wdtLoad' * WdtReserve /\ wdtStage' = 0 /\ wdtSince' = 0
       ELSE /\ wdtStage' = IF wdtTodo[1].reg = "eoi" THEN 0 ELSE wdtStage
            /\ UNCHANGED <<wdtCount, wdtSince>>
    /\ wdtLatch' = IF wdtTodo[1].reg = "latch" THEN "asked" ELSE wdtLatch
    /\ wdtOwner' = IF wdtTodo[1].reg = "drop" THEN "none" ELSE wdtOwner
    /\ UNCHANGED <<wdtResult, wdtWedged, wdtBit, wdtAsked, wdtMs>>

\* Variant: `?` on the result, which skips the lock.
request_counter_hasty ==
    /\ wdtTodo # <<>> /\ wdtTodo[1].reg = "poll"
    /\ \/ wdtLatch = "valid" /\ wdtResult' = "ok" /\ wdtTodo' = Tail(wdtTodo)
       \/ wdtWedged /\ wdtResult' = "busy" /\ wdtTodo' = <<>>
    /\ UNCHANGED <<wdtOwner, wdtLocked, wdtHardware, wdtWedged, wdtBit, wdtAsked, wdtMs>>

\* The bounded poll ends with the latch valid, or, with no clock, by its bound;
\* configure goes on to the lock either way.
request_counter ==
    /\ wdtTodo # <<>> /\ wdtTodo[1].reg = "poll"
    /\ wdtTodo' = Tail(wdtTodo)
    /\ \/ wdtLatch = "valid" /\ wdtResult' = "ok"
       \/ wdtWedged /\ wdtResult' = "busy"
    /\ UNCHANGED <<wdtOwner, wdtLocked, wdtHardware, wdtWedged, wdtBit, wdtAsked, wdtMs>>

-----------------------------------------------------------------------------
(* The block (outside the code). *)

WdtLatches ==
    /\ wdtLatch = "asked"
    /\ ~ wdtWedged
    /\ wdtLatch' = "valid"
    /\ UNCHANGED <<wdtOwner, wdtTodo, wdtResult, wdtLocked, wdtCr, wdtLoad, wdtCount,
                   wdtStage, wdtWedged, wdtBit, wdtAsked, wdtMs, wdtSince>>

WdtInterrupts == IF wdtCr.double THEN 2 ELSE 1

WdtTick ==
    /\ wdtCr.en /\ ~ wdtWedged /\ ~ wdtBit
    /\ wdtSince' = IF wdtSince < WdtBound THEN wdtSince + 1 ELSE wdtSince
    /\ IF wdtCount > 1
       THEN wdtCount' = wdtCount - 1 /\ UNCHANGED <<wdtStage, wdtBit>>
       ELSE /\ wdtCount' = wdtLoad * WdtReserve
            /\ wdtBit' = (wdtCr.rst /\ wdtStage >= WdtInterrupts)
            /\ wdtStage' = IF wdtStage < WdtInterrupts THEN wdtStage + 1 ELSE wdtStage
    /\ UNCHANGED <<wdtOwner, wdtTodo, wdtResult, wdtLocked, wdtCr, wdtLoad, wdtLatch,
                   wdtWedged, wdtAsked, wdtMs>>

-----------------------------------------------------------------------------
WdtNext ==
    /\ ~ wdtBit
    /\ \/ WdtNew \/ configure \/ WdtModify \/ feed \/ counter_value \/ clear_interrupt
       \/ into_armed \/ WdtDrop
       \/ WdtAccess \/ request_counter
       \/ WdtLatches \/ WdtTick

\* The hart goes on with a call, and the block with its clock.
WdtFair == WdtAccess \/ request_counter \/ WdtLatches \/ WdtTick

WdtSpec == WdtInit /\ [][WdtNext]_wdtVars

-----------------------------------------------------------------------------
(* Properties. *)

\* Between calls the control register is what the calls so far add up to, and
\* the block is locked, unless no call that writes it came after new, also when
\* configure has returned Busy.  wdt.rs:8-10 "The WDT registers are protected by
\* a lock. ... The driver handles this automatically."
WdtSettled ==
    wdtTodo = <<>> =>
        /\ wdtCr = wdtAsked
        /\ wdtOwner \in {"none", "scoped"} => wdtLocked

\* The chip is reset only by a watchdog in whose scope, or left armed, nobody
\* fed it for the timeout asked for, up to the resolution of the load, once for
\* each interrupt and once more.  wdt.rs:51-55 "One interrupt, then reset on next
\* timeout".
WdtBitesLate ==
    wdtBit => /\ wdtAsked.rst \/ wdtTodo # <<>>
              /\ wdtTodo = <<>> =>
                   /\ wdtAsked.en
                   /\ wdtSince >= (IF wdtAsked.double THEN 3 ELSE 2)
                                  * (wdtMs * WdtTicksPerMs - (WdtReserve - 1))

\* A watchdog left armed guards: unless somebody takes it again, it resets the
\* chip.  wdt.rs:328-330 "leaving it armed past this scope".
WdtArmedBites ==
    wdtOwner = "armed" /\ wdtAsked.en /\ wdtAsked.rst /\ ~ wdtWedged
        ~> wdtBit \/ wdtOwner = "new"

\* The watchdog is set as it was asked to be, and bites no sooner (wdt.rs:180-230).
WdtSafe == WdtSettled /\ WdtBitesLate

-----------------------------------------------------------------------------
(* Why these hold: the invariant that every step preserves.                 *)

WdtAccesses ==
    {Touch(reg) : reg \in {"unlock", "lock", "latch", "poll", "restart", "eoi", "drop"}}
    \cup {WriteCr(cr) : cr \in WdtControls}
    \cup {WriteLoad(load) : load \in 0..WDT_MAX_LOAD}

\* Accesses of this kind are still to come.
WdtDue(reg) == \E i \in 1..Len(wdtTodo) : wdtTodo[i].reg = reg

\* A call unlocks first and writes before it locks, so that no write is lost, and
\* a handle that locks at all leaves the block locked.
WdtBracketed ==
    /\ wdtTodo \in Seq(WdtAccesses)
    /\ \A i \in 1..Len(wdtTodo) :
         /\ wdtTodo[i].reg = "unlock" => i = 1
         /\ wdtTodo[i].reg \in {"cr", "load"} =>
              /\ ~ wdtLocked \/ (i # 1 /\ wdtTodo[1].reg = "unlock")
              /\ \A j \in 1..i : wdtTodo[j].reg # "lock"
         /\ wdtTodo[i].reg = "drop" => i = Len(wdtTodo) /\ wdtOwner = "scoped"
    /\ wdtOwner \in {"none", "scoped"} =>
         WdtDue("lock") \/ (wdtLocked /\ ~ WdtDue("unlock"))
    /\ wdtOwner \in {"none", "armed"} => wdtTodo = <<>>

\* What was asked for has been written or is still to be.
WdtPromised ==
    /\ wdtMs # 0 => wdtMs \in WdtInputs /\ from_ms(wdtMs)
    /\ WdtDue("cr") \/ wdtCr = wdtAsked
    /\ WdtDue("load") \/ wdtLoad = load_field(wdtMs)
    /\ \A i \in 1..Len(wdtTodo) :
         /\ wdtTodo[i].reg = "cr" => wdtTodo[i].cr = wdtAsked
         /\ wdtTodo[i].reg = "load" => wdtTodo[i].load = load_field(wdtMs)

\* The ticks that the counter has counted since it was restarted.
WdtCounted(full, stage) ==
    CASE stage = 0 -> full - wdtCount
      [] stage = 1 -> (full + full) - wdtCount
      [] OTHER     -> (full + full + full) - wdtCount

\* No expiry comes without them.
WdtTimed ==
    /\ wdtCount <= wdtLoad * WdtReserve
    /\ wdtSince = WdtBound \/ wdtSince >= WdtCounted(wdtLoad * WdtReserve, wdtStage)
    /\ wdtBit => /\ wdtCr.en /\ wdtCr.rst
                 /\ wdtSince >= (IF wdtCr.double THEN 3 ELSE 2) * (wdtLoad * WdtReserve)

WdtInv == WdtTypeOK /\ WdtBracketed /\ WdtPromised /\ WdtTimed
=============================================================================
