--------------------------- MODULE InterruptControl ---------------------------
(***************************************************************************)
(* The interrupt controller (interrupt.rs) and the software interrupt      *)
(* (software_interrupt.rs), one CSR access at a time.  The hart takes an   *)
(* interrupt before its next instruction, wherever that is: in a call of   *)
(* the driver, in a critical section, or in a handler, if it is allowed.   *)
(***************************************************************************)
EXTENDS Integers, SequencesExt

CONSTANTS IcIrqs,        \* interrupt numbers
          SOFT_INT0,     \* the software interrupt's, one of them
          IcPriorities,  \* the Priority values given to set_priority
          IcThresholds,  \* the Threshold values given to set_threshold
          IcRaises       \* how many interrupts the devices raise

ASSUME IcAssumption ==
    /\ IcIrqs \subseteq 26..127 /\ SOFT_INT0 \in IcIrqs
    /\ IcPriorities \subseteq 1..7 /\ IcThresholds \subseteq 0..7 /\ IcRaises \in Nat

VARIABLES icMie, icLocien, icPending,  \* mie, LOCIEN and LOCIPD
          icLocipri, icPrithd,         \* the priorities and the threshold
          icMstatus,                   \* mstatus.MIE
          icFrames,   \* who runs: handlers, innermost first, and the thread
          icLeft,     \* interrupts the devices may still raise
          siOwned, siEn, siSrc,        \* the software interrupt: token, soft_int_en, soft_int_sts
          icAsked     \* what the calls so far ask for each interrupt

icRegs == <<icMie, icLocien, icPending, icLocipri, icPrithd, icMstatus>>
icVars == <<icRegs, icFrames, icLeft, siOwned, siEn, siSrc, icAsked>>

-----------------------------------------------------------------------------
(* Which register and which bit. *)

SYS_VECTOR_CNT == 26
LOCAL_IRQ_VECTOR_CNT == 32
LOCIEN_IRQ_NUM == 32
LOCIPRI_IRQ_NUM == 8
LOCIPRI_IRQ_BITS == 4

IsLocal(n) == n >= LOCAL_IRQ_VECTOR_CNT

LocienBit(n) == <<(n - LOCAL_IRQ_VECTOR_CNT) \div LOCIEN_IRQ_NUM,
                  (n - LOCAL_IRQ_VECTOR_CNT) % LOCIEN_IRQ_NUM>>

\* Variant: the registers are counted as LOCIEN's are.
LocipriFieldOfBit(n) ==
    <<IF IsLocal(n) THEN (n - LOCAL_IRQ_VECTOR_CNT) \div LOCIPRI_IRQ_NUM ELSE 0,
      ((n - SYS_VECTOR_CNT) % LOCIPRI_IRQ_NUM) * LOCIPRI_IRQ_BITS>>

LocipriField(n) ==
    <<(n - SYS_VECTOR_CNT) \div LOCIPRI_IRQ_NUM,
      ((n - SYS_VECTOR_CNT) % LOCIPRI_IRQ_NUM) * LOCIPRI_IRQ_BITS>>

LocipriRegs == {LocipriField(n)[1] : n \in IcIrqs}
LocipriShifts == {LOCIPRI_IRQ_BITS * k : k \in 0..7}

is_enabled(n) == IF IsLocal(n) THEN LocienBit(n) \in icLocien ELSE n \in icMie

LocipriOf(n) == icLocipri[LocipriField(n)[1]][LocipriField(n)[2]]

\* The field read back as a Priority.
priority(n) == CASE LocipriOf(n) < 1 -> 1 [] LocipriOf(n) > 7 -> 7 [] OTHER -> LocipriOf(n)

\* mip, or LOCIPD.
is_pending(n) == n \in icPending

IcTypeOK ==
    /\ icMie \subseteq 26..31
    /\ icLocien \subseteq (0..2) \X (0..31)
    /\ icPending \subseteq IcIrqs
    /\ \A n \in IcIrqs : LocipriOf(n) \in 0..7
    /\ icPrithd \in 0..7
    /\ icMstatus \in BOOLEAN /\ siOwned \in BOOLEAN /\ siEn \in BOOLEAN /\ siSrc \in BOOLEAN
    /\ \A i \in DOMAIN icFrames :
         /\ icFrames[i].irq \in IcIrqs \cup {0}
         /\ icFrames[i].saved \in Seq(BOOLEAN)
    /\ icLeft \in 0..IcRaises
    /\ icAsked \in [IcIrqs -> [on : BOOLEAN, pri : 0..7, was : 0..7]]

\* After reset every priority is zero.
IcInit ==
    /\ icMie = {} /\ icLocien = {} /\ icPending = {}
    /\ icLocipri = [reg \in LocipriRegs |-> [shift \in LocipriShifts |-> 0]]
    /\ icPrithd = 0 /\ icMstatus = FALSE
    /\ icFrames = <<[irq |-> 0, todo |-> <<>>, saved |-> <<>>]>>
    /\ icLeft = IcRaises
    /\ siOwned = FALSE /\ siEn = FALSE /\ siSrc = FALSE
    /\ icAsked = [n \in IcIrqs |-> [on |-> FALSE, pri |-> 0, was |-> 0]]

-----------------------------------------------------------------------------
(* When the hart takes an interrupt. *)

Deliverable == {n \in IcIrqs : /\ icMstatus
                               /\ is_pending(n) /\ is_enabled(n)
                               /\ LocipriOf(n) > icPrithd}

\* The highest priority first, and of equals the lowest number.
FirstOf(ns) ==
    CHOOSE n \in ns : \A o \in ns : \/ LocipriOf(n) > LocipriOf(o)
                                    \/ LocipriOf(n) = LocipriOf(o) /\ n <= o

\* An instruction of the code is executed only when no interrupt is taken.
Runs == Deliverable = {}

Current == icFrames[1]
InThread == Current.irq = 0
AtCall == Runs /\ Current.todo = <<>>

-----------------------------------------------------------------------------
(* The CSR accesses of each call. *)

Do(op, n, v) == [op |-> op, irq |-> n, val |-> v]

\* Variant: the new priority is set before the old one is cleared.
locipri_set_field_swapped(n, v) == <<Do("priSet", n, v), Do("priKeep", n, v)>>

\* Two accesses: the field is cleared, then set.
locipri_set_field(n, v) == <<Do("priClear", n, 0), Do("priSet", n, v)>>

\* enable gives the interrupt priority 1, whatever it had.
EnableOps(n) == <<Do("on", n, 0)>> \o locipri_set_field(n, 1)

DisableOps(n) == <<Do("off", n, 0), Do("clear", n, 0)>>

clear_interrupt_ops == <<Do("siClr", SOFT_INT0, 0), Do("clear", SOFT_INT0, 0)>>

Begin(ops) == icFrames' = [icFrames EXCEPT ![1].todo = ops]

-----------------------------------------------------------------------------
(* The calls of the thread. *)

IcCall(ops) == AtCall /\ InThread /\ Begin(ops)

IcEnable(n) ==
    /\ n = SOFT_INT0 => siOwned
    /\ IcCall(EnableOps(n))
    /\ icAsked' = [icAsked EXCEPT ![n] = [on |-> TRUE, pri |-> 1, was |-> @.pri]]
    /\ UNCHANGED <<icRegs, icLeft, siOwned, siEn, siSrc>>

IcDisable(n) ==
    /\ n # SOFT_INT0
    /\ IcCall(DisableOps(n))
    /\ icAsked' = [icAsked EXCEPT ![n].on = FALSE]
    /\ UNCHANGED <<icRegs, icLeft, siOwned, siEn, siSrc>>

set_priority(n, p) ==
    /\ IcCall(locipri_set_field(n, p))
    /\ icAsked' = [icAsked EXCEPT ![n].pri = p, ![n].was = icAsked[n].pri]
    /\ UNCHANGED <<icRegs, icLeft, siOwned, siEn, siSrc>>

set_threshold(t) ==
    /\ IcCall(<<>>)
    /\ icPrithd' = t
    /\ UNCHANGED <<icMie, icLocien, icPending, icLocipri, icMstatus, icLeft, siOwned,
                   siEn, siSrc, icAsked>>

\* init writes priority 1 into every field.
IcSetDefaults ==
    /\ IcCall(<<>>)
    /\ icLocipri' = [r \in DOMAIN icLocipri |-> [s \in DOMAIN icLocipri[r] |-> 1]]
    /\ icAsked' = [n \in IcIrqs |-> [icAsked[n] EXCEPT !.pri = 1]]
    /\ UNCHANGED <<icMie, icLocien, icPending, icPrithd, icMstatus, icLeft, siOwned,
                   siEn, siSrc>>

\* enable_global and disable_global, outside critical sections.
IcGlobal(b) ==
    /\ IcCall(<<>>)
    /\ Current.saved = <<>>
    /\ icMstatus' = b
    /\ UNCHANGED <<icMie, icLocien, icPending, icLocipri, icPrithd, icLeft, siOwned,
                   siEn, siSrc, icAsked>>

-----------------------------------------------------------------------------
(* Critical sections, in the thread and in handlers. *)

\* csrrci reads mstatus and clears MIE.
FreeEnter ==
    /\ AtCall
    /\ Len(Current.saved) < 2
    /\ icFrames' = [icFrames EXCEPT ![1].saved = <<icMstatus>> \o @]
    /\ icMstatus' = FALSE
    /\ UNCHANGED <<icMie, icLocien, icPending, icLocipri, icPrithd, icLeft, siOwned,
                   siEn, siSrc, icAsked>>

\* Variant: interrupts are always on afterwards.
FreeLeaveOn ==
    /\ AtCall
    /\ Current.saved # <<>>
    /\ icMstatus' = TRUE
    /\ icFrames' = [icFrames EXCEPT ![1].saved = Tail(@)]
    /\ UNCHANGED <<icMie, icLocien, icPending, icLocipri, icPrithd, icLeft, siOwned,
                   siEn, siSrc, icAsked>>

\* MIE is set again only if it was set.
FreeLeave ==
    /\ AtCall
    /\ Current.saved # <<>>
    /\ icMstatus' = (icMstatus \/ Current.saved[1])
    /\ icFrames' = [icFrames EXCEPT ![1].saved = Tail(@)]
    /\ UNCHANGED <<icMie, icLocien, icPending, icLocipri, icPrithd, icLeft, siOwned,
                   siEn, siSrc, icAsked>>

-----------------------------------------------------------------------------
(* The software interrupt. *)

\* Variant: the source itself stays off.
SoftNewDisabled ==
    /\ ~ siOwned
    /\ IcCall(clear_interrupt_ops \o EnableOps(SOFT_INT0))
    /\ siOwned' = TRUE
    /\ icAsked' = [icAsked EXCEPT ![SOFT_INT0] = [on |-> TRUE, pri |-> 1, was |-> @.pri]]
    /\ UNCHANGED <<icRegs, icLeft, siEn, siSrc>>

\* new clears what is left from before, enables the source, then the interrupt.
SoftNew ==
    /\ ~ siOwned
    /\ IcCall(clear_interrupt_ops \o <<Do("siEn", SOFT_INT0, 1)>> \o EnableOps(SOFT_INT0))
    /\ siOwned' = TRUE
    /\ icAsked' = [icAsked EXCEPT ![SOFT_INT0] = [on |-> TRUE, pri |-> 1, was |-> @.pri]]
    /\ UNCHANGED <<icRegs, icLeft, siEn, siSrc>>

\* From the thread or from any handler, also from its own once that has cleared it.
pend_interrupt ==
    /\ AtCall /\ siOwned
    /\ siSrc' = TRUE
    /\ icPending' = icPending \cup IF siEn THEN {SOFT_INT0} ELSE {}
    /\ UNCHANGED <<icMie, icLocien, icLocipri, icPrithd, icMstatus, icFrames, icLeft,
                   siOwned, siEn, icAsked>>

\* Variant: what is pending is left to the next owner.
SoftDropPending ==
    /\ siOwned
    /\ IcCall(DisableOps(SOFT_INT0) \o <<Do("siEn", SOFT_INT0, 0)>>)
    /\ siOwned' = FALSE
    /\ icAsked' = [icAsked EXCEPT ![SOFT_INT0].on = FALSE]
    /\ UNCHANGED <<icRegs, icLeft, siEn, siSrc>>

SoftDrop ==
    /\ siOwned
    /\ IcCall(DisableOps(SOFT_INT0) \o <<Do("siEn", SOFT_INT0, 0)>> \o clear_interrupt_ops)
    /\ siOwned' = FALSE
    /\ icAsked' = [icAsked EXCEPT ![SOFT_INT0].on = FALSE]
    /\ UNCHANGED <<icRegs, icLeft, siEn, siSrc>>

-----------------------------------------------------------------------------
(* One CSR access of the call under way. *)

NewField(do) ==
    CASE do.op = "priClear" -> 0
      [] do.op = "priSet" -> IF LocipriOf(do.irq) + do.val <= 7
                             THEN LocipriOf(do.irq) + do.val ELSE 7
      [] do.op = "priKeep" -> do.val
      [] OTHER -> LocipriOf(do.irq)

IcAccess ==
    /\ Runs
    /\ Current.todo # <<>>
    /\ LET do == Current.todo[1]
           n == do.irq
           f == LocipriField(n)
       IN  /\ icMie' = IF IsLocal(n) THEN icMie
                       ELSE CASE do.op = "on" -> icMie \cup {n}
                              [] do.op = "off" -> icMie \ {n}
                              [] OTHER -> icMie
           /\ icLocien' = IF ~ IsLocal(n) THEN icLocien
                          ELSE CASE do.op = "on" -> icLocien \cup {LocienBit(n)}
                                 [] do.op = "off" -> icLocien \ {LocienBit(n)}
                                 [] OTHER -> icLocien
           /\ icLocipri' = [icLocipri EXCEPT ![f[1]][f[2]] = NewField(do)]
           /\ siSrc' = (siSrc /\ do.op # "siClr")
           /\ siEn' = IF do.op = "siEn" THEN do.val = 1 ELSE siEn
           \* The source is a level: it is latched again as long as it is there.
           /\ icPending' = (IF do.op = "clear" THEN icPending \ {n} ELSE icPending)
                             \cup IF siSrc' /\ siEn' THEN {SOFT_INT0} ELSE {}
    /\ icFrames' = [icFrames EXCEPT ![1].todo = Tail(@)]
    /\ UNCHANGED <<icPrithd, icMstatus, icLeft, siOwned, icAsked>>

-----------------------------------------------------------------------------
(* The hart, the handlers and the devices (outside the code). *)

\* MIE is cleared on entry; a handler begins with clearing its interrupt.
Trap ==
    /\ Deliverable # {}
    /\ LET n == FirstOf(Deliverable)
       IN  icFrames' = <<[irq |-> n, saved |-> <<>>,
                          todo |-> IF n = SOFT_INT0 THEN clear_interrupt_ops
                                   ELSE <<Do("clear", n, 0)>>]>> \o icFrames
    /\ icMstatus' = FALSE
    /\ UNCHANGED <<icMie, icLocien, icPending, icLocipri, icPrithd, icLeft, siOwned,
                   siEn, siSrc, icAsked>>

Mret ==
    /\ AtCall /\ ~ InThread
    /\ Current.saved = <<>>
    /\ icFrames' = Tail(icFrames)
    /\ icMstatus' = TRUE
    /\ UNCHANGED <<icMie, icLocien, icPending, icLocipri, icPrithd, icLeft, siOwned,
                   siEn, siSrc, icAsked>>

IcRaise(n) ==
    /\ n # SOFT_INT0
    /\ icLeft > 0
    /\ icLeft' = icLeft - 1
    /\ icPending' = icPending \cup {n}
    /\ UNCHANGED <<icMie, icLocien, icLocipri, icPrithd, icMstatus, icFrames, siOwned,
                   siEn, siSrc, icAsked>>

-----------------------------------------------------------------------------
IcNext ==
    \/ \E n \in IcIrqs : IcEnable(n) \/ IcDisable(n) \/ IcRaise(n)
    \/ \E n \in IcIrqs, p \in IcPriorities : set_priority(n, p)
    \/ \E t \in IcThresholds : set_threshold(t)
    \/ \E b \in BOOLEAN : IcGlobal(b)
    \/ IcSetDefaults
    \/ FreeEnter \/ FreeLeave
    \/ SoftNew \/ pend_interrupt \/ SoftDrop
    \/ IcAccess \/ Trap \/ Mret

IcSpec == IcInit /\ [][IcNext]_icVars

\* The hart executes, a critical section ends, a handler returns.
IcFair == FreeLeave \/ IcAccess \/ Trap \/ Mret

-----------------------------------------------------------------------------
(* Properties. *)

\* Whenever no call is under way, each interrupt is enabled, and has the priority,
\* that the latest calls for it asked for: the registers that they share keep
\* them apart, and enable has put the priority to 1 (interrupt.rs:317-321).
IcSettled ==
    icFrames[Len(icFrames)].todo = <<>> =>
        \A n \in IcIrqs : /\ is_enabled(n) = icAsked[n].on
                          /\ LocipriOf(n) = icAsked[n].pri

\* A handler runs only for an interrupt that is enabled, or just being disabled,
\* with a priority above the threshold that was asked for or is just being
\* replaced: not for what the field holds in between.  interrupt.rs:15-16 "An IRQ
\* is delivered only when it is enabled and its priority is strictly greater than
\* the threshold".
TakenAsAllowed ==
    [][Len(icFrames') > Len(icFrames) =>
         LET a == icAsked[icFrames'[1].irq]
             settled == icFrames[Len(icFrames)].todo = <<>>
         IN  /\ a.on \/ ~ settled
             /\ a.pri > icPrithd \/ (a.was > icPrithd /\ ~ settled)]_icVars

\* No handler starts in a critical section or in another handler, and MIE is off
\* as long as one is under way.  interrupt.rs:488-489 "restoring the previous
\* mstatus.MIE afterwards (nesting-safe - only re-enables if it was enabled)".
SectionsKept ==
    /\ Len(icFrames) <= 2
    /\ icMstatus => Current.saved = <<>> /\ InThread

\* A dropped software interrupt leaves nothing behind that a later owner would
\* take for its own.  software_interrupt.rs:15 "clearing stale state before
\* enabling it".
NothingStale ==
    ~ siOwned /\ icFrames[Len(icFrames)].todo = <<>> => ~ siSrc /\ ~ is_pending(SOFT_INT0)

\* A software interrupt that is pended is served or dropped, also one that its own
\* handler or another pends, or that is pended while everything is masked, if time
\* and again interrupts are on and the threshold below it.
\* software_interrupt.rs:32-35.
PendServed ==
    []<>(icMstatus /\ LocipriOf(SOFT_INT0) > icPrithd) => []<>(~ siSrc \/ ~ siOwned)

\* Between calls the controller is as they have asked, and sections and tokens leave no
\* trace (interrupt.rs:317-321, 488-489, software_interrupt.rs:15).
IcSafe == IcSettled /\ SectionsKept /\ NothingStale

-----------------------------------------------------------------------------
(* Why these hold: the invariant that every step preserves.                 *)

IcOps == [op : {"on", "off", "priClear", "priSet", "siEn", "siClr", "clear"},
          irq : IcIrqs, val : 0..7]

IcThread == icFrames[Len(icFrames)]

\* An access of one of these kinds for n is still to come in the thread's call.
IcDue(kinds, n) ==
    \E i \in 1..Len(IcThread.todo) : IcThread.todo[i].op \in kinds /\ IcThread.todo[i].irq = n

IcTyped ==
    /\ icFrames \in Seq([irq : IcIrqs \cup {0}, todo : Seq(IcOps), saved : Seq(BOOLEAN)])
    /\ icMie \subseteq Int /\ icLocien \subseteq Int \X Int /\ icPending \subseteq IcIrqs
    /\ icLocipri \in [LocipriRegs -> [LocipriShifts -> 0..7]] /\ icPrithd \in 0..7
    /\ icMstatus \in BOOLEAN /\ siOwned \in BOOLEAN /\ siEn \in BOOLEAN /\ siSrc \in BOOLEAN
    /\ icAsked \in [IcIrqs -> [on : BOOLEAN, pri : 0..7, was : 0..7]]

\* A handler runs on a thread that was in no section, and only clears interrupts; what
\* a section has saved is FALSE but for the outermost of the thread's.
IcNested ==
    /\ IcThread.irq = 0
    /\ Len(icFrames) = 1 \/
         /\ Len(icFrames) = 2 /\ ~ icMstatus
         /\ Current.irq # 0 /\ IcThread.saved = <<>>
         /\ \A i \in 1..Len(Current.todo) : Current.todo[i].op \in {"siClr", "clear"}
         /\ \A i \in 1..Len(Current.saved) : ~ Current.saved[i]
    /\ icMstatus => Current.saved = <<>>
    /\ \A i \in 1..(Len(Current.saved) - 1) : ~ Current.saved[i]

\* The accesses of a call under way do what it is asked for.
IcPlanned ==
    LET todo == IcThread.todo
    IN \A i \in 1..Len(todo) :
         LET n == todo[i].irq
         IN /\ todo[i].op = "on" => icAsked[n].on
            /\ todo[i].op = "off" => ~ icAsked[n].on
            /\ todo[i].op = "priClear" =>
                 i < Len(todo) /\ todo[i + 1].op = "priSet" /\ todo[i + 1].irq = n
            /\ todo[i].op = "priSet" =>
                 /\ todo[i].val = icAsked[n].pri
                 /\ IF i = 1 THEN LocipriOf(n) = 0
                    ELSE todo[i - 1].op = "priClear" /\ todo[i - 1].irq = n

\* What a line is asked to be it is, unless it is still to be made so.
IcKept ==
    \A n \in IcIrqs :
        /\ IcDue({"on", "off"}, n) \/ (is_enabled(n) <=> icAsked[n].on)
        /\ IcDue({"priSet"}, n) \/ LocipriOf(n) = icAsked[n].pri
        /\ LocipriOf(n) \in {0, icAsked[n].pri, icAsked[n].was}

\* Without an owner a raised software interrupt is still to be cleared, the source
\* before what it has latched.
IcCleared ==
    ~ siOwned =>
        /\ siSrc => IcDue({"siClr"}, SOFT_INT0)
        /\ is_pending(SOFT_INT0) => IcDue({"clear"}, SOFT_INT0)
        /\ \A i \in 1..Len(IcThread.todo) :
             IcThread.todo[i].op = "siClr" =>
                 /\ IcThread.todo[i].irq = SOFT_INT0
                 /\ \E j \in (i + 1)..Len(IcThread.todo) :
                      IcThread.todo[j].op = "clear" /\ IcThread.todo[j].irq = SOFT_INT0

IcInv == IcTyped /\ IcNested /\ IcPlanned /\ IcKept /\ IcCleared
=============================================================================
