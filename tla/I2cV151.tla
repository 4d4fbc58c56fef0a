------------------------------- MODULE I2cV151 -------------------------------
(***************************************************************************)
(* The BS2X I2C master (i2c_v151.rs): bytes and read commands go into a    *)
(* FIFO that the controller works off on its own.  A device may refuse its *)
(* address or a byte: the controller then drops what is in the FIFO, sends *)
(* a STOP and keeps the abort bit until it is read.  Or it may hold the    *)
(* bus, for ever or until some time after the call has given up.           *)
(***************************************************************************)
EXTENDS Integers, SequencesExt

CONSTANTS V151MaxLen, \* longest transfer
          V151Depth,  \* of the FIFO
          V151Refuse  \* how many bytes a device takes before it refuses

ASSUME V151Assumption ==
    /\ V151MaxLen \in Nat \ {0} /\ V151Depth \in Nat \ {0}
    /\ V151Refuse \in Nat

VARIABLES v151Pc, v151Call, v151Done,   \* the call, and how many bytes it has done
          v151Result, v151Got,          \* what it returned, and the bytes it read
          v151Tag,                      \* distinguishes the bytes of successive calls
          v151Fifo, v151Rx,             \* commands and received bytes in the controller
          v151Abort, v151StopDet,       \* tx_abrt and stop_det
          v151Open,                     \* a transfer is under way on the bus
          v151Room,                     \* bytes the device will still take
          v151Stuck,                    \* the device holds the bus
          v151Taken                     \* bytes of this call that the device took or sent

v151Vars == <<v151Pc, v151Call, v151Done, v151Result, v151Got, v151Tag, v151Fifo,
              v151Rx, v151Abort, v151StopDet, v151Open, v151Room, v151Stuck, v151Taken>>

v151Bus == <<v151Fifo, v151Rx, v151Abort, v151StopDet, v151Open, v151Room, v151Stuck,
             v151Taken>>

V151Calls == {[op |-> "probe", len |-> 1]}
             \cup [op : {"write", "read"}, len : 0..V151MaxLen]

NoV151Call == [op |-> "none", len |-> 0]

V151TypeOK ==
    /\ v151Pc \in {"idle", "target", "room", "push", "abort?", "stop", "byte", "take",
                   "probe", "present?"}
    /\ v151Call \in V151Calls \cup {NoV151Call}
    /\ v151Done \in 0..V151MaxLen
    /\ v151Result \in {"none", "ok", "nack", "timeout", "present", "absent"}
    /\ \A i \in DOMAIN v151Got : v151Got[i] \in {0, 1} \X (1..V151MaxLen)
    /\ v151Tag \in {0, 1}
    /\ Len(v151Fifo) <= V151Depth
    /\ Len(v151Rx) <= V151MaxLen
    /\ v151Abort \in BOOLEAN /\ v151StopDet \in BOOLEAN /\ v151Open \in BOOLEAN
    /\ v151Room \in 0..V151Refuse
    /\ v151Stuck \in BOOLEAN
    /\ v151Taken \in 0..V151MaxLen

V151Init ==
    /\ v151Pc = "idle" /\ v151Call = NoV151Call /\ v151Done = 0 /\ v151Result = "none"
    /\ v151Got = <<>> /\ v151Tag = 0 /\ v151Fifo = <<>> /\ v151Rx = <<>>
    /\ v151Abort = FALSE /\ v151StopDet = FALSE /\ v151Open = FALSE
    /\ v151Room = 0 /\ v151Stuck = FALSE /\ v151Taken = 0

-----------------------------------------------------------------------------
(* The driver. *)

V151Return(result) ==
    /\ v151Result' = result
    /\ v151Pc' = "idle"
    /\ UNCHANGED <<v151Call, v151Done, v151Got, v151Tag>>

V151Goto(pc) ==
    /\ v151Pc' = pc
    /\ UNCHANGED <<v151Call, v151Done, v151Result, v151Got, v151Tag>>

\* write, read and probe; write_read and transaction are one after the other.
V151Begin(call) ==
    /\ v151Pc = "idle"
    /\ v151Pc' = "target"
    /\ v151Call' = call /\ v151Done' = 0 /\ v151Result' = "none" /\ v151Got' = <<>>
    /\ v151Tag' = 1 - v151Tag
    /\ UNCHANGED v151Bus

\* What follows set_target: nothing to read is read at once, and a write of
\* nothing waits for its STOP.
V151First ==
    IF v151Call = [op |-> "read", len |-> 0] THEN V151Return("ok")
    ELSE V151Goto(CASE v151Call.op = "probe" -> "push"
                    [] v151Call.len = 0 -> "stop"
                    [] OTHER -> "room")

\* Variant: the target is changed under an enabled controller.
set_target_enabled ==
    /\ v151Pc = "target"
    /\ v151Abort' = FALSE /\ v151StopDet' = FALSE
    /\ v151Taken' = 0
    /\ v151Room' \in 0..V151Refuse
    /\ V151First
    /\ UNCHANGED <<v151Fifo, v151Rx, v151Open, v151Stuck>>

\* set_target disables the controller, which ends the transfer under way and
\* empties its FIFOs, and clears its interrupts.
set_target ==
    /\ v151Pc = "target"
    /\ v151Fifo' = <<>> /\ v151Rx' = <<>> /\ v151Open' = FALSE
    /\ v151Abort' = FALSE /\ v151StopDet' = FALSE
    /\ v151Taken' = 0
    /\ v151Room' \in 0..V151Refuse
    /\ V151First
    /\ UNCHANGED v151Stuck

\* tfnf
V151Room ==
    /\ v151Pc = "room"
    /\ Len(v151Fifo) < V151Depth
    /\ V151Goto("push")
    /\ UNCHANGED v151Bus

V151Last == v151Done + 1 = v151Call.len

\* Nothing enters the FIFO while the abort bit is set.
V151Push ==
    /\ v151Pc = "push"
    /\ v151Fifo' = IF v151Abort THEN v151Fifo
                   ELSE Append(v151Fifo, [read |-> v151Call.op # "write",
                                          stop |-> V151Last])
    /\ v151Done' = v151Done + 1
    /\ v151Pc' = CASE v151Call.op = "write" -> "abort?"
                   [] v151Call.op = "read" -> "byte"
                   [] OTHER -> "probe"
    /\ UNCHANGED <<v151Call, v151Result, v151Got, v151Tag, v151Rx, v151Abort,
                   v151StopDet, v151Open, v151Room, v151Stuck, v151Taken>>

\* The read of ic_clr_intr clears every bit.
V151CheckAbort ==
    /\ v151Pc = "abort?"
    /\ IF v151Abort
       THEN /\ v151Abort' = FALSE /\ v151StopDet' = FALSE
            /\ V151Return("nack")
       ELSE /\ UNCHANGED <<v151Abort, v151StopDet>>
            /\ V151Goto(IF v151Done = v151Call.len THEN "stop" ELSE "room")
    /\ UNCHANGED <<v151Fifo, v151Rx, v151Open, v151Room, v151Stuck, v151Taken>>

\* Variant: the write does not wait for its STOP.
V151StopUnseen ==
    /\ v151Pc = "stop"
    /\ V151Return("ok")
    /\ UNCHANGED v151Bus

V151StopSeen ==
    /\ v151Pc = "stop"
    /\ v151StopDet
    /\ V151Return("ok")
    /\ UNCHANGED v151Bus

\* rfne
V151ByteSeen ==
    /\ v151Pc = "byte"
    /\ v151Rx # <<>>
    /\ V151Goto("take")
    /\ UNCHANGED v151Bus

\* The abort bit is looked at once more before the byte is taken.
V151Take ==
    /\ v151Pc = "take"
    /\ IF v151Abort
       THEN /\ v151Abort' = FALSE /\ v151StopDet' = FALSE
            /\ V151Return("nack")
            /\ UNCHANGED v151Rx
       ELSE /\ v151Got' = Append(v151Got, Head(v151Rx))
            /\ v151Rx' = Tail(v151Rx)
            /\ IF v151Done = v151Call.len
               THEN v151Pc' = "idle" /\ v151Result' = "ok"
               ELSE v151Pc' = "room" /\ UNCHANGED v151Result
            /\ UNCHANGED <<v151Call, v151Done, v151Tag, v151Abort, v151StopDet>>
    /\ UNCHANGED <<v151Fifo, v151Open, v151Room, v151Stuck, v151Taken>>

V151Resolved ==
    /\ v151Pc = "probe"
    /\ v151StopDet \/ v151Abort
    /\ V151Goto("present?")
    /\ UNCHANGED v151Bus

\* Absent if aborted; else the byte that came is drained.
V151Present ==
    /\ v151Pc = "present?"
    /\ v151Rx' = IF v151Abort THEN v151Rx ELSE <<>>
    /\ v151Abort' = FALSE /\ v151StopDet' = FALSE
    /\ V151Return(IF v151Abort THEN "absent" ELSE "present")
    /\ UNCHANGED <<v151Fifo, v151Open, v151Room, v151Stuck, v151Taken>>

\* Variant: the loop has no bound.
V151NeverExhausted == FALSE /\ UNCHANGED v151Vars

\* A bounded wait ends without its bit where the bus is stuck, or where the bit
\* cannot come any more; probe ignores that.
V151Exhausted ==
    /\ \/ v151Pc = "room" /\ Len(v151Fifo) = V151Depth /\ v151Stuck
       \/ v151Pc = "stop" /\ ~ v151StopDet /\ (v151Stuck \/ (v151Fifo = <<>> /\ ~ v151Open))
       \/ v151Pc = "byte" /\ v151Rx = <<>> /\ (v151Stuck \/ v151Fifo = <<>>)
       \/ v151Pc = "probe" /\ ~ v151StopDet /\ ~ v151Abort /\ v151Stuck
    /\ IF v151Pc = "probe" THEN V151Goto("present?") ELSE V151Return("timeout")
    /\ UNCHANGED v151Bus

-----------------------------------------------------------------------------
(* The controller and the device (outside the code). *)

V151Execute ==
    /\ v151Fifo # <<>> /\ ~ v151Stuck
    /\ IF v151Room = 0 /\ (Head(v151Fifo).read => v151Taken = 0)
       THEN /\ v151Abort' = TRUE /\ v151StopDet' = TRUE
            /\ v151Fifo' = <<>> /\ v151Open' = FALSE
            /\ UNCHANGED <<v151Rx, v151Room, v151Taken>>
       ELSE LET c == Head(v151Fifo)
            IN  /\ v151Fifo' = Tail(v151Fifo)
                /\ v151Room' = IF v151Room = 0 THEN 0 ELSE v151Room - 1
                /\ v151Taken' = v151Taken + 1
                /\ v151Rx' = IF c.read THEN Append(v151Rx, <<v151Tag, v151Taken + 1>>)
                             ELSE v151Rx
                /\ v151Open' = ~ c.stop
                /\ v151StopDet' = (v151StopDet \/ c.stop)
                /\ UNCHANGED v151Abort
    /\ UNCHANGED <<v151Pc, v151Call, v151Done, v151Result, v151Got, v151Tag, v151Stuck>>

V151Stick ==
    /\ v151Fifo # <<>> /\ ~ v151Stuck
    /\ v151Stuck' = TRUE
    /\ UNCHANGED <<v151Pc, v151Call, v151Done, v151Result, v151Got, v151Tag, v151Fifo,
                   v151Rx, v151Abort, v151StopDet, v151Open, v151Room, v151Taken>>

\* A device that stretched the clock lets go of it, perhaps long after the call gave up.
V151Release ==
    /\ v151Stuck
    /\ v151Stuck' = FALSE
    /\ UNCHANGED <<v151Pc, v151Call, v151Done, v151Result, v151Got, v151Tag, v151Fifo,
                   v151Rx, v151Abort, v151StopDet, v151Open, v151Room, v151Taken>>

-----------------------------------------------------------------------------
V151Driver ==
    \/ set_target \/ V151Room \/ V151Push \/ V151CheckAbort \/ V151StopSeen
    \/ V151ByteSeen \/ V151Take \/ V151Resolved \/ V151Present \/ V151Exhausted

V151Next ==
    \/ \E call \in V151Calls : V151Begin(call)
    \/ V151Driver
    \/ V151Execute \/ V151Stick \/ V151Release

V151Fair == V151Driver \/ V151Execute

V151Spec == V151Init /\ [][V151Next]_v151Vars

-----------------------------------------------------------------------------
(* Properties. *)

\* A read that returns Ok returns bytes that the device sent to this call, all of
\* them and in their order, also after calls that gave up half way and were answered
\* later; and a probe
\* that finds nothing has not been answered.  i2c_v151.rs:228 "Read buf.len()
\* bytes from addr".
V151Fresh ==
    v151Pc = "idle" =>
        /\ v151Call.op = "read" /\ v151Result = "ok" =>
             v151Got = [i \in 1..v151Call.len |-> <<v151Tag, i>>]
        /\ v151Result = "absent" => v151Taken = 0

\* A write that returns Nack has been refused, and one that returns Ok has ended on
\* the bus, with nothing of it left in the controller.  i2c_v151.rs:203 "STOP after
\* the last byte".
V151WriteEnded ==
    v151Pc = "idle" /\ v151Call.op = "write" =>
        /\ v151Result = "ok" => ~ v151Open /\ v151Fifo = <<>>
        /\ v151Result = "nack" => v151Taken < v151Call.len

\* Every call returns, whatever the device does.  i2c_v151.rs:65 "so a missing
\* device/stuck bus can't hang the CPU".
V151Returns == v151Pc # "idle" ~> v151Pc = "idle"

\* A write that returns Ok was acknowledged to the last byte.  i2c_v151.rs:32 "The
\* addressed device did not ACK" is the error it would return otherwise.
V151OkMeansAcked ==
    v151Pc = "idle" /\ v151Call.op = "write" /\ v151Result = "ok" =>
        v151Taken = v151Call.len

\* What a result of the BS2X master says of this call, and not of an earlier one
\* (i2c_v151.rs:191-260).
V151Safe == V151Fresh /\ V151WriteEnded

-----------------------------------------------------------------------------
(* Why these hold: the invariant that every step preserves.                 *)

V151Entries == [read : BOOLEAN, stop : BOOLEAN]

\* Whatever call is under way: a STOP is the last command in the FIFO, and once
\* it is on the bus, or the FIFO has been dropped, nothing is left.
V151Controller ==
    /\ v151Fifo \in Seq(V151Entries)
    /\ \A i \in 1..(Len(v151Fifo) - 1) : ~ v151Fifo[i].stop
    /\ v151Abort => v151StopDet
    /\ v151StopDet => v151Fifo = <<>> /\ ~ v151Open
    /\ v151Taken + Len(v151Fifo) <= V151MaxLen
    /\ v151Rx \in Seq({0, 1} \X (1..V151MaxLen)) /\ Len(v151Rx) <= v151Taken

\* Between set_target and the return, what the controller has and has done is
\* of this call, and a refusal leaves at least one byte of it untaken.
V151UnderWay ==
    v151Pc \notin {"idle", "target"} =>
        /\ v151Done <= v151Call.len
        /\ v151Taken + Len(v151Fifo) <= v151Done
        /\ v151Abort => v151Taken < v151Done
        /\ v151Fifo # <<>> /\ v151Fifo[Len(v151Fifo)].stop => v151Done = v151Call.len
        /\ v151StopDet => v151Abort \/ v151Done = v151Call.len

V151GotUpTo(n) == v151Got = [i \in 1..n |-> <<v151Tag, i>>]

\* The byte that was asked for is there, and nothing else.
V151Arrived ==
    /\ v151Rx = << <<v151Tag, v151Done>> >> /\ v151Fifo = <<>>
    /\ v151Taken = v151Done /\ ~ v151Abort

\* Or it is still to come, or was refused.
V151Awaited ==
    /\ v151Rx = <<>>
    /\ \/ v151Abort
       \/ /\ v151Fifo = <<[read |-> TRUE, stop |-> v151Done = v151Call.len]>>
          /\ v151Taken = v151Done - 1 /\ ~ v151Abort

\* What is known at each stage.
V151Stages ==
    /\ v151Pc = "target" => v151Done = 0 /\ v151Got = <<>>
    /\ v151Pc \in {"room", "push"} => v151Done < v151Call.len
    /\ v151Pc = "push" => Len(v151Fifo) < V151Depth
    /\ v151Pc = "room" => v151Call.op \in {"write", "read"}
    /\ v151Call.op = "read" /\ v151Pc \in {"room", "push"} =>
          /\ v151Fifo = <<>> /\ v151Rx = <<>> /\ ~ v151Abort
          /\ v151Taken = v151Done /\ V151GotUpTo(v151Done)
    /\ v151Pc \in {"abort?", "stop"} => v151Call.op = "write"
    /\ v151Pc \in {"byte", "take"} =>
          v151Call.op = "read" /\ v151Done > 0 /\ V151GotUpTo(v151Done - 1)
    /\ v151Pc = "byte" => V151Arrived \/ V151Awaited
    /\ v151Pc = "take" => V151Arrived
    /\ v151Pc \in {"probe", "present?"} => v151Call.op = "probe"

\* What a result says, and what makes it stay true.
V151Ended ==
    /\ v151Pc # "idle" => v151Result = "none" /\ v151Call \in V151Calls
    /\ v151Call.op = "read" /\ v151Result = "ok" => V151GotUpTo(v151Call.len)
    /\ v151Result = "absent" => v151Taken = 0 /\ v151Fifo = <<>>
    /\ v151Call.op = "write" /\ v151Result \in {"ok", "nack"} =>
          /\ v151Fifo = <<>>
          /\ v151Result = "ok" => ~ v151Open
          /\ v151Result = "nack" => v151Taken < v151Call.len

V151Inv == /\ V151TypeOK /\ V151Controller /\ V151UnderWay /\ V151Stages
           /\ V151Ended
=============================================================================
