-------------------------------- MODULE Timers --------------------------------
(***************************************************************************)
(* A channel of the blocking timer (timer.rs), used as a one-shot timer, a *)
(* periodic one, or a scheduler's alarm.  Each call is a few register      *)
(* accesses, between which the channel goes on counting.                   *)
(***************************************************************************)
EXTENDS Integers, SequencesExt

CONSTANTS TmTicks, TmUnits, \* TmTicks ticks of the timer take TmUnits microseconds
          TmMax,            \* the largest count, stands for u32::MAX
          TmInputs,         \* the times asked for, in microseconds
          TmZeroFires       \* whether a channel that is loaded with zero expires

ASSUME TmAssumption ==
    /\ TmTicks \in Nat \ {0} /\ TmUnits \in Nat \ {0}
    /\ TmMax \in Nat /\ TmInputs \subseteq Nat /\ TmZeroFires \in BOOLEAN

VARIABLES tmUser,    \* what the channel is used as
          tmTodo,    \* the register accesses of the call, the next one first
          tmCtl,     \* enable, mode and cnt_req
          tmLoad, tmCount, tmRaw,
          tmSnap,    \* current_value, and whether it is locked
          tmAsked,   \* the time asked for by the latest start
          tmOwed,    \* what is pending expired before the channel was last enabled
          tmSince,   \* ticks since the channel was last enabled, up to a bound
          tmSeen     \* what current returned, the count at the call, if its poll gave up

tmVars == <<tmUser, tmTodo, tmCtl, tmLoad, tmCount, tmRaw, tmSnap, tmAsked, tmOwed,
            tmSince, tmSeen>>

TmNone == [value |-> -1, from |-> -1, gaveUp |-> FALSE]

-----------------------------------------------------------------------------
(* From times to counts. *)

TmCountOf(us) == (TmTicks * us) \div TmUnits

\* try_ticks_for_us and try_ticks_for_ms refuse what does not fit.
try_ticks_for_us(us) == TmCountOf(us) <= TmMax

\* Variant: the conversion wraps.
ticks_for_us_wrapping(us) == TmCountOf(us) % (TmMax + 1)

ticks_for_us_saturating(us) == IF TmCountOf(us) > TmMax THEN TmMax ELSE TmCountOf(us)

-----------------------------------------------------------------------------
(* The register accesses of each call. *)

A(reg, val) == [reg |-> reg, val |-> val]

ConfigureOps(n) == <<A("load", n), A("ctl", 0)>>
StartOps(n) == ConfigureOps(n) \o <<A("enable", 0)>>

\* Variant: the interrupt is cleared before it is waited for.
WaitOpsSwapped == <<A("eoi", 0), A("poll", 0)>>

WaitOps == <<A("poll", 0), A("eoi", 0)>>

\* Variant: what is pending is cleared while the old count still runs.
ArmOpsLate(n) == <<A("eoi", 0), A("ctl", 0), A("load", n), A("enable", 0)>>

ArmOps(n) == <<A("ctl", 0), A("eoi", 0), A("load", n), A("enable", 0)>>

\* Variant: the current value is taken as it stands.
CurrentOpsRaw == <<A("read", 0)>>

CurrentOps == <<A("request", 0), A("locked?", 0), A("read", 0)>>

TmTypeOK ==
    /\ tmUser \in {"oneshot", "periodic", "alarm"}
    /\ \A i \in DOMAIN tmTodo : tmTodo[i].reg \in {"load", "ctl", "enable", "disable",
                                   "poll", "eoi", "request", "locked?", "read"}
    /\ tmCtl \in [en : BOOLEAN, req : BOOLEAN]
    /\ tmLoad \in 0..TmMax /\ tmCount \in 0..TmMax
    /\ tmRaw \in BOOLEAN /\ tmOwed \in BOOLEAN
    /\ tmSnap \in [value : 0..TmMax, locked : BOOLEAN]
    /\ tmAsked \in TmInputs \cup {0}
    /\ tmSince \in 0..(2 * TmMax)
    /\ tmSeen \in [value : -1..TmMax, from : -1..TmMax, gaveUp : BOOLEAN]

TmInit ==
    /\ tmUser \in {"oneshot", "periodic", "alarm"}
    /\ tmTodo = <<>>
    /\ tmCtl = [en |-> FALSE, req |-> FALSE]
    /\ tmLoad = 0 /\ tmCount = 0 /\ tmRaw = FALSE
    /\ tmSnap = [value |-> 0, locked |-> FALSE]
    /\ tmAsked = 0 /\ tmOwed = FALSE /\ tmSince = 0 /\ tmSeen = TmNone

-----------------------------------------------------------------------------
(* The calls. *)

TmCall(ops) ==
    /\ tmTodo = <<>>
    /\ tmTodo' = ops
    /\ tmSeen' = TmNone
    /\ UNCHANGED <<tmUser, tmCtl, tmLoad, tmCount, tmRaw, tmSnap, tmOwed, tmSince>>

\* start_micros and start_millis, of a one-shot and of a periodic timer.
TmStart(us) ==
    /\ tmUser \in {"oneshot", "periodic"}
    /\ try_ticks_for_us(us)
    /\ TmCall(StartOps(TmCountOf(us)))
    /\ tmAsked' = us

\* wait, and wait_tick of a periodic timer.
TmWait ==
    /\ tmUser # "alarm"
    /\ TmCall(WaitOps)
    /\ UNCHANGED tmAsked

\* delay_us and delay_ms, of no time too; delay_ns alone returns at once from no ticks.
TmDelay(us) ==
    /\ tmUser = "oneshot"
    /\ TmCall(StartOps(ticks_for_us_saturating(us)) \o WaitOps)
    /\ tmAsked' = us

\* stop, or disarm.
TmStop ==
    /\ TmCall(<<A("disable", 0)>>)
    /\ UNCHANGED tmAsked

\* clear, clear_tick, and the alarm's clear_interrupt.
TmClear ==
    /\ TmCall(<<A("eoi", 0)>>)
    /\ UNCHANGED tmAsked

\* arm_millis takes a NonZeroU32, and asserts that the time fits.
arm_millis(ms) ==
    /\ tmUser = "alarm"
    /\ ms # 0 /\ try_ticks_for_us(ms)
    /\ TmCall(ArmOps(TmCountOf(ms)))
    /\ tmAsked' = ms

\* TimerAlarm0::new and its Drop.
TmAlarmReset ==
    /\ tmUser = "alarm"
    /\ TmCall(<<A("disable", 0), A("eoi", 0)>>)
    /\ UNCHANGED tmAsked

\* A channel that is off is said to be at zero.
current_value ==
    /\ tmTodo = <<>> /\ tmUser # "alarm"
    /\ tmTodo' = IF tmCtl.en THEN CurrentOps ELSE <<>>
    /\ tmSeen' = IF tmCtl.en THEN [value |-> -1, from |-> tmCount, gaveUp |-> FALSE] ELSE TmNone
    /\ UNCHANGED <<tmUser, tmCtl, tmLoad, tmCount, tmRaw, tmSnap, tmAsked, tmOwed,
                   tmSince>>

-----------------------------------------------------------------------------
(* One register access. *)

At(reg) == tmTodo # <<>> /\ tmTodo[1].reg = reg

\* The wait for an expiry has no bound; the poll for the lock may end without it.
TmBlocked == At("poll") /\ ~ tmRaw

TmAccess ==
    /\ tmTodo # <<>> /\ ~ TmBlocked
    /\ tmTodo' = Tail(tmTodo)
    /\ tmLoad' = IF At("load") THEN tmTodo[1].val ELSE tmLoad
    /\ tmCtl' = CASE At("ctl") -> [en |-> FALSE, req |-> FALSE]
                  [] At("disable") -> [tmCtl EXCEPT !.en = FALSE]
                  [] At("enable") -> [tmCtl EXCEPT !.en = TRUE]
                  [] At("request") -> [tmCtl EXCEPT !.req = TRUE]
                  [] OTHER -> tmCtl
    /\ tmCount' = IF At("enable") THEN tmLoad ELSE tmCount
    /\ tmSince' = IF At("enable") THEN 0 ELSE tmSince
    /\ tmRaw' = (tmRaw /\ ~ At("eoi"))
    /\ tmOwed' = IF At("enable") THEN tmRaw ELSE tmOwed /\ ~ At("eoi")
    /\ tmSnap' = IF At("request") THEN [tmSnap EXCEPT !.locked = FALSE] ELSE tmSnap
    /\ tmSeen' = CASE At("locked?") -> [tmSeen EXCEPT !.gaveUp = ~ tmSnap.locked]
                   [] At("read") -> [tmSeen EXCEPT !.value = tmSnap.value]
                   [] OTHER -> tmSeen
    /\ UNCHANGED <<tmUser, tmAsked>>

-----------------------------------------------------------------------------
(* The channel (outside the code). *)

\* Loaded with zero, a channel expires at its first tick if it does so at all.
TmZeroLeft == tmCount = 0 /\ tmSince = 0 /\ TmZeroFires

TmTick ==
    /\ tmCtl.en
    /\ tmSince' = IF tmSince < 2 * TmMax THEN tmSince + 1 ELSE tmSince
    /\ CASE tmCount > 1 -> tmCount' = tmCount - 1 /\ UNCHANGED <<tmRaw, tmCtl>>
         [] tmCount = 1 \/ TmZeroLeft ->
                /\ tmRaw' = TRUE
                /\ tmCount' = IF tmUser = "periodic" THEN tmLoad ELSE 0
                /\ UNCHANGED tmCtl
         [] OTHER -> UNCHANGED <<tmCount, tmRaw, tmCtl>>
    /\ UNCHANGED <<tmUser, tmTodo, tmLoad, tmSnap, tmAsked, tmOwed, tmSeen>>

TmLatch ==
    /\ tmCtl.req
    /\ tmCtl' = [tmCtl EXCEPT !.req = FALSE]
    /\ tmSnap' = [value |-> tmCount, locked |-> TRUE]
    /\ UNCHANGED <<tmUser, tmTodo, tmLoad, tmCount, tmRaw, tmAsked, tmOwed, tmSince,
                   tmSeen>>

-----------------------------------------------------------------------------
TmNext ==
    \/ \E us \in TmInputs : TmStart(us) \/ TmDelay(us) \/ arm_millis(us)
    \/ TmWait \/ TmStop \/ TmClear \/ TmAlarmReset \/ current_value
    \/ TmAccess
    \/ TmTick \/ TmLatch

TmSpec == TmInit /\ [][TmNext]_tmVars

\* The hart goes on with a call, and the channel counts.
TmFairness == WF_tmVars(TmAccess) /\ WF_tmVars(TmTick)

-----------------------------------------------------------------------------
(* Properties. *)

\* An expiry is not early: what is pending came no sooner after the latest start than
\* the time asked for, up to a tick and the largest count.  The one exception is an
\* expiry that was already pending when that start enabled the channel, until it is
\* acknowledged: neither start of a TimerDriver clears it (timer.rs:368, 461).  An
\* alarm has no exception.  timer.rs:356 "Counts down from a loaded value and stops
\* when it reaches zero", timer.rs:305 "Arms or replaces".
ExpiryNotEarly ==
    /\ tmTodo = <<>> \/ At("poll")
    /\ tmRaw
    /\ tmOwed => tmUser = "alarm"
    => \/ tmSince * TmUnits > TmTicks * tmAsked - TmUnits
       \/ tmSince >= TmMax

TmWaiting == \E i \in DOMAIN tmTodo : tmTodo[i].reg = "poll"

\* The call starts the channel, or it has expired, or it still counts.
TmDue ==
    \/ \E i \in DOMAIN tmTodo : tmTodo[i].reg = "enable"
    \/ tmRaw
    \/ tmCtl.en /\ (tmCount > 0 \/ TmZeroLeft)

\* A blocking delay, or a wait for a timer that runs or has expired, ends: its expiry
\* is not lost.  timer.rs:403 "Wait for the timer to expire".  delay_us(0) and
\* delay_ms(0) load zero and wait without bound (timer.rs:435-446): they end because,
\* and only where, a channel that is loaded with zero expires, TmZeroFires.
WaitReturns == (TmWaiting /\ TmDue) ~> ~ TmWaiting

\* The current value is one that the counter has had since the call, not what an
\* earlier call latched, unless the poll for the lock gave up (timer.rs:225 "best
\* effort").  timer.rs:176-180 "Reading it raw returns the same stale value forever".
CurrentIsFresh ==
    tmTodo = <<>> /\ tmSeen.value # -1 /\ ~ tmSeen.gaveUp /\ tmUser # "periodic" =>
        tmSeen.value \in tmCount..tmSeen.from
=============================================================================
