------------------------------ MODULE PwmChannels ------------------------------
(***************************************************************************)
(* PWM channels (pwm.rs).  A handle names a channel; nothing stops the     *)
(* program from making several handles of one channel.  A call is a few    *)
(* register writes, and the channel drives its output in between.  The     *)
(* clock tree is the WS63's: its gate is every channel's, the divider that *)
(* is loaded is channel 0's alone.  On a BS2X no clock register is written.*)
(***************************************************************************)
EXTENDS Integers, FiniteSets, SequencesExt

CONSTANTS PwmHandles,
          PwmChannelIds, \* stands for 0 to 7
          PWM_CLOCK_HZ,
          PwmMax16,      \* stands for the largest 16-bit count
          PwmHz,         \* the frequencies asked for
          PwmCounts,     \* the periods asked for as counts, and the duties
          PwmPercents

NoPwm == -1

ASSUME PwmAssumption ==
    /\ PwmChannelIds \subseteq Nat /\ PWM_CLOCK_HZ \in Nat /\ PwmMax16 \in Nat
    /\ PwmHz \subseteq Nat /\ PwmCounts \subseteq Nat /\ PwmPercents \subseteq Nat

VARIABLES pwmOf,      \* the channel a handle names
          pwmPeriod,  \* pwm_freq_l, the half that latches
          pwmDuty,    \* pwm_duty_l
          pwmEn,      \* pwm_en
          pwmClock,   \* "off", "gated on" for all, or "divided" for channel 0 too
          pwmTodo,    \* the register writes left of the call
          pwmResult,  \* what the last call of SetDutyCycle returned
          pwmLeft,    \* channels left running by into_running since they last stopped
          pwmAsked    \* the period and the duty asked of each channel

pwmVars == <<pwmOf, pwmPeriod, pwmDuty, pwmEn, pwmClock, pwmTodo, pwmResult,
             pwmLeft, pwmAsked>>

-----------------------------------------------------------------------------
(* Duty and PwmPeriod. *)

from_percent(percent) == percent <= 100

from_count(count) == count # 0

\* Variant: a frequency too low for the counter is not refused.
try_from_hz_any(hz) == IF hz = 0 THEN {} ELSE {PWM_CLOCK_HZ \div hz} \ {0}

\* None for no frequency, for one above the clock and for one whose count does
\* not fit the 16 bits.
try_from_hz(hz) == IF hz = 0 THEN {} ELSE {PWM_CLOCK_HZ \div hz} \cap 1..PwmMax16

\* The periods the program can hold.
PwmPeriods == {c \in PwmCounts \cap 0..PwmMax16 : from_count(c)}
              \cup UNION {try_from_hz(hz) : hz \in PwmHz}

\* Variant: rounded up.
duty_count_up(period, percent) == (period * percent + 199) \div 100

duty_count(period, percent) == (period * percent) \div 100

\* A register holds 16 bits.
Half(n) == n % (PwmMax16 + 1)

-----------------------------------------------------------------------------
PwmTypeOK ==
    /\ pwmOf \in [PwmHandles -> PwmChannelIds \cup {NoPwm}]
    /\ pwmPeriod \in [PwmChannelIds -> 0..PwmMax16]
    /\ pwmDuty \in [PwmChannelIds -> 0..PwmMax16]
    /\ pwmEn \subseteq PwmChannelIds /\ pwmLeft \subseteq PwmChannelIds
    /\ pwmClock \in {"off", "gated on", "divided"}
    /\ \A i \in DOMAIN pwmTodo : pwmTodo[i].reg \in {"gate", "divide", "freq", "duty"}
    /\ pwmResult \in {"none", "ok", "out of range"}
    /\ pwmAsked \in [PwmChannelIds -> [period : Nat, duty : Nat]]

PwmInit ==
    /\ pwmOf = [h \in PwmHandles |-> NoPwm]
    /\ pwmPeriod = [c \in PwmChannelIds |-> 0] /\ pwmDuty = [c \in PwmChannelIds |-> 0]
    /\ pwmEn = {} /\ pwmLeft = {}
    /\ pwmClock = "off" /\ pwmTodo = <<>> /\ pwmResult = "none"
    /\ pwmAsked = [c \in PwmChannelIds |-> [period |-> 0, duty |-> 0]]

-----------------------------------------------------------------------------
(* The calls. *)

PwmIdle(h) == pwmTodo = <<>> /\ pwmOf[h] # NoPwm

PwmNew(h, c) ==
    /\ pwmTodo = <<>> /\ pwmOf[h] = NoPwm
    /\ pwmOf' = [pwmOf EXCEPT ![h] = c]
    /\ UNCHANGED <<pwmPeriod, pwmDuty, pwmEn, pwmClock, pwmTodo, pwmResult,
                   pwmLeft, pwmAsked>>

Reg(reg, c, val) == [reg |-> reg, ch |-> c, val |-> val]

\* Variant: the clock is left to the caller.
ConfigureOpsUnclocked(c, period, duty) ==
    <<Reg("freq", c, period), Reg("duty", c, duty)>>

\* configure: enable_pwm_clock, then the period, then the duty.
ConfigureOps(c, period, duty) ==
    <<Reg("gate", c, 0), Reg("divide", c, 0), Reg("freq", c, period),
      Reg("duty", c, duty)>>

PwmConfigure(h) ==
    \E period \in PwmPeriods, percent \in {p \in PwmPercents : from_percent(p)} :
        /\ PwmIdle(h)
        /\ pwmTodo' = ConfigureOps(pwmOf[h], period, duty_count(period, percent))
        /\ pwmAsked' = [pwmAsked EXCEPT ![pwmOf[h]] =
               [period |-> period, duty |-> (period * percent) \div 100]]
        /\ pwmResult' = "none"
        /\ UNCHANGED <<pwmOf, pwmPeriod, pwmDuty, pwmEn, pwmClock, pwmLeft>>

\* Variant: the duty is not checked.
DutyFitsAlways(c, duty) == TRUE

\* max_duty_cycle is the period read back.
DutyFits(c, duty) == duty <= pwmPeriod[c]

set_duty_cycle(h, duty) ==
    /\ PwmIdle(h)
    /\ IF DutyFits(pwmOf[h], duty)
       THEN /\ pwmTodo' = <<Reg("duty", pwmOf[h], duty)>>
            /\ pwmResult' = "ok"
            /\ pwmAsked' = [pwmAsked EXCEPT ![pwmOf[h]].duty = duty]
       ELSE pwmResult' = "out of range" /\ UNCHANGED <<pwmTodo, pwmAsked>>
    /\ UNCHANGED <<pwmOf, pwmPeriod, pwmDuty, pwmEn, pwmClock, pwmLeft>>

PwmEnable(h) ==
    /\ PwmIdle(h)
    /\ pwmEn' = pwmEn \cup {pwmOf[h]}
    /\ UNCHANGED <<pwmOf, pwmPeriod, pwmDuty, pwmClock, pwmTodo, pwmResult,
                   pwmLeft, pwmAsked>>

PwmDisable(h) ==
    /\ PwmIdle(h)
    /\ pwmEn' = pwmEn \ {pwmOf[h]}
    /\ pwmLeft' = pwmLeft \ {pwmOf[h]}
    /\ UNCHANGED <<pwmOf, pwmPeriod, pwmDuty, pwmClock, pwmTodo, pwmResult,
                   pwmAsked>>

\* The handle is forgotten.
into_running(h) ==
    /\ PwmIdle(h)
    /\ pwmOf' = [pwmOf EXCEPT ![h] = NoPwm]
    /\ pwmLeft' = IF pwmOf[h] \in pwmEn THEN pwmLeft \cup {pwmOf[h]} ELSE pwmLeft
    /\ UNCHANGED <<pwmPeriod, pwmDuty, pwmEn, pwmClock, pwmTodo, pwmResult,
                   pwmAsked>>

\* Variant: only the handle goes.
PwmDropKept(h) ==
    /\ PwmIdle(h)
    /\ pwmOf' = [pwmOf EXCEPT ![h] = NoPwm]
    /\ UNCHANGED <<pwmPeriod, pwmDuty, pwmEn, pwmClock, pwmTodo, pwmResult,
                   pwmLeft, pwmAsked>>

\* Drop disables.
PwmDrop(h) ==
    /\ PwmIdle(h)
    /\ pwmOf' = [pwmOf EXCEPT ![h] = NoPwm]
    /\ pwmEn' = pwmEn \ {pwmOf[h]}
    /\ pwmLeft' = pwmLeft \ {pwmOf[h]}
    /\ UNCHANGED <<pwmPeriod, pwmDuty, pwmClock, pwmTodo, pwmResult, pwmAsked>>

-----------------------------------------------------------------------------
\* One register write of a call.  Whoever's call it is, the divider is channel 0's.
PwmWrite ==
    LET op == Head(pwmTodo)
        Put(f, reg) == IF op.reg = reg THEN [f EXCEPT ![op.ch] = Half(op.val)] ELSE f
    IN  /\ pwmTodo # <<>>
        /\ pwmTodo' = Tail(pwmTodo)
        /\ pwmClock' = CASE op.reg = "gate" /\ pwmClock = "off" -> "gated on"
                         [] op.reg = "divide" -> "divided"
                         [] OTHER -> pwmClock
        /\ pwmPeriod' = Put(pwmPeriod, "freq")
        /\ pwmDuty' = Put(pwmDuty, "duty")
        /\ UNCHANGED <<pwmOf, pwmEn, pwmResult, pwmLeft, pwmAsked>>

PwmNext ==
    \/ \E h \in PwmHandles :
         \/ \E c \in PwmChannelIds : PwmNew(h, c)
         \/ PwmConfigure(h) \/ PwmEnable(h) \/ PwmDisable(h)
         \/ \E duty \in PwmCounts \cap 0..PwmMax16 : set_duty_cycle(h, duty)
         \/ into_running(h) \/ PwmDrop(h)
    \/ PwmWrite

PwmSpec == PwmInit /\ [][PwmNext]_pwmVars

-----------------------------------------------------------------------------
(* Properties. *)

\* Between calls every channel has the period and the duty last asked of it, by
\* whichever of its handles, and a duty within its period.  On a WS63 a channel that has
\* a period has its gate open, and channel 0 its divider loaded: those of channels 1 to
\* 7 are loaded by nobody (pwm.rs:118-119), and nothing is said of their clock, or of any
\* clock on a BS2X, in spite of pwm.rs:8-11 "there is no compiles but writes a dead
\* waveform path".
PwmAsAsked ==
    pwmTodo = <<>> =>
        \A c \in PwmChannelIds :
            /\ pwmPeriod[c] = pwmAsked[c].period
            /\ pwmDuty[c] = pwmAsked[c].duty
            /\ pwmDuty[c] <= pwmPeriod[c]
            /\ pwmPeriod[c] # 0 => pwmClock # "off"
            /\ c = 0 /\ pwmPeriod[c] # 0 => pwmClock = "divided"

\* An output is on only while a handle of its channel lives or one was left
\* running.  pwm.rs:383 "a dropped channel stops driving its output".
PwmScoped ==
    \A c \in pwmEn : c \in pwmLeft \/ \E h \in PwmHandles : pwmOf[h] = c

\* A channel has the wave that was asked for, as long as it is asked for (pwm.rs:8-11, 383).
PwmSafe == PwmAsAsked /\ PwmScoped
=============================================================================
