------------------------------- MODULE I2cMaster -------------------------------
(***************************************************************************)
(* The WS63 I2C master (i2c.rs).  A call is a list of operations; each is  *)
(* a START with the address and then its bytes, and one STOP ends the      *)
(* call.  The driver gives the controller one command at a time and polls  *)
(* for its completion a bounded number of times; a slave may refuse its    *)
(* address or a byte, or hold the bus for ever.                            *)
(***************************************************************************)
EXTENDS Naturals, SequencesExt

CONSTANTS MaxLen,      \* longest operation tried
          MaxOps,      \* most operations in a call
          EmptyReads,  \* whether reads of no bytes are asked for
          LateAnswers  \* whether a slave may answer after the last poll

ASSUME I2cAssumption ==
    /\ MaxLen \in Nat \ {0} /\ MaxOps \in Nat
    /\ EmptyReads \in BOOLEAN /\ LateAnswers \in BOOLEAN

VARIABLES wire,    \* the bus: I2cWire's phases, or "clash"
          com,     \* i2c_com: the command under way
          done,    \* int_done
          ackErr,  \* int_ack_err
          stuck,   \* the slave holds the bus beyond the last poll
          pc,      \* where the driver is
          todo,    \* commands it has still to give, the one at hand first
          result,  \* what the latest call returned
          asked,   \* the commands of the latest call
          obeyed   \* those that the controller has carried out, unrefused

busVars == <<wire, com, done, ackErr, stuck>>
callVars == <<pc, todo, result, asked, obeyed>>
i2cVars == <<busVars, callVars>>

Commands == {"startW", "startR", "write", "read", "readLast", "stop"}

I2cTypeOK ==
    /\ wire \in {"free", "listens", "talks", "refused", "released", "clash"}
    /\ com \in Commands \cup {"none"}
    /\ done \in BOOLEAN /\ ackErr \in BOOLEAN /\ stuck \in BOOLEAN
    /\ pc \in {"idle", "clear", "issue", "poll", "check", "timeout"}
    /\ todo \in Seq(Commands)
    /\ result \in {"none", "ok", "ack", "timeout", "invalid"}
    /\ asked \in Seq(Commands)
    /\ obeyed \in Seq(Commands)

I2cInit ==
    /\ wire = "free" /\ com = "none"
    /\ done = FALSE /\ ackErr = FALSE /\ stuck = FALSE
    /\ pc = "idle" /\ todo = <<>> /\ result = "none"
    /\ asked = <<>> /\ obeyed = <<>>

-----------------------------------------------------------------------------
(* What a call asks of the controller. *)

Operations == [read : BOOLEAN, len : 0..MaxLen]

Starts == {"startW", "startR"}

\* Variant: no byte of a read is its last.
CommandsForNoNack(op) ==
    <<IF op.read THEN "startR" ELSE "startW">>
      \o [i \in 1..op.len |-> IF op.read THEN "read" ELSE "write"]

\* The last byte of a read is answered with a NACK.
CommandsFor(op) ==
    <<IF op.read THEN "startR" ELSE "startW">>
      \o [i \in 1..op.len |-> IF ~ op.read THEN "write"
                              ELSE IF i < op.len THEN "read" ELSE "readLast"]

\* Variant: the NACK that ends a read is taken to end the call.
CommandsOfOneEnd(ops) ==
    LET all == FlattenSeq([i \in DOMAIN ops |-> CommandsFor(ops[i])])
    IN  IF all # <<>> /\ Last(all) = "readLast" THEN all
        ELSE Append(all, "stop")

\* The operations one after the other, and one STOP.
CommandsOf(ops) ==
    Append(FlattenSeq([i \in DOMAIN ops |-> CommandsFor(ops[i])]), "stop")

Calls == {ops \in UNION {[1..n -> Operations] : n \in 0..MaxOps} :
            EmptyReads \/ \A i \in DOMAIN ops : ops[i].read => ops[i].len > 0}

\* How the next command is approached: send_start clears all flags first.
Entry(cmd) == IF cmd \in Starts THEN "clear" ELSE "issue"

-----------------------------------------------------------------------------
(* The driver. *)

\* write, read, write_read and transaction differ in the operations only.
transaction(ops) ==
    /\ pc = "idle"
    /\ todo' = CommandsOf(ops)
    /\ asked' = CommandsOf(ops)
    /\ obeyed' = <<>>
    /\ result' = "none"
    /\ pc' = Entry(CommandsOf(ops)[1])
    /\ UNCHANGED busVars

\* validate_7bit_addr refuses the address before anything is done.
InvalidAddress ==
    /\ pc = "idle"
    /\ result' = "invalid"
    /\ UNCHANGED <<busVars, pc, todo, asked, obeyed>>

ClearInterrupts ==
    /\ pc = "clear"
    /\ done' = FALSE /\ ackErr' = FALSE
    /\ pc' = "issue"
    /\ UNCHANGED <<wire, com, stuck, todo, result, asked, obeyed>>

\* Variant: the register is read and modified, which keeps what is in it.
IssueOver ==
    /\ pc = "issue"
    /\ com' = IF com = "none" THEN Head(todo) ELSE "several"
    /\ pc' = "poll"
    /\ UNCHANGED <<wire, done, ackErr, stuck, todo, result, asked, obeyed>>

\* The command register is written, over what may still be in it.
Issue ==
    /\ pc = "issue"
    /\ com' = Head(todo)
    /\ pc' = "poll"
    /\ UNCHANGED <<wire, done, ackErr, stuck, todo, result, asked, obeyed>>

PollDone ==
    /\ pc = "poll"
    /\ done
    /\ pc' = "check"
    /\ UNCHANGED <<busVars, todo, result, asked, obeyed>>

\* Variant: the poll counter is never tested.
PollForever == pc = "poll" /\ ~ done /\ stuck /\ UNCHANGED i2cVars

\* wait_until gives up.
PollExhausted ==
    /\ pc = "poll"
    /\ ~ done
    /\ stuck
    /\ pc' = "timeout"
    /\ UNCHANGED <<busVars, todo, result, asked, obeyed>>

TimedOut ==
    /\ pc = "timeout"
    /\ done' = FALSE /\ ackErr' = FALSE
    /\ result' = "timeout"
    /\ todo' = <<>>
    /\ pc' = "idle"
    /\ UNCHANGED <<wire, com, stuck, asked, obeyed>>

Refused ==
    /\ pc = "check"
    /\ ackErr
    /\ done' = FALSE /\ ackErr' = FALSE
    /\ result' = "ack"
    /\ todo' = <<>>
    /\ pc' = "idle"
    /\ UNCHANGED <<wire, com, stuck, asked, obeyed>>

\* Variant: completion is enough.
AcceptedUnchecked ==
    /\ pc = "check"
    /\ done' = FALSE
    /\ todo' = Tail(todo)
    /\ result' = IF Len(todo) = 1 THEN "ok" ELSE result
    /\ pc' = IF Len(todo) = 1 THEN "idle" ELSE Entry(todo[2])
    /\ UNCHANGED <<wire, com, ackErr, stuck, asked, obeyed>>

\* clear_transfer_interrupts or clear_stop_interrupts, and on to the next.
Accepted ==
    /\ pc = "check"
    /\ ~ ackErr
    /\ done' = FALSE
    /\ todo' = Tail(todo)
    /\ result' = IF Len(todo) = 1 THEN "ok" ELSE result
    /\ pc' = IF Len(todo) = 1 THEN "idle" ELSE Entry(todo[2])
    /\ UNCHANGED <<wire, com, ackErr, stuck, asked, obeyed>>

-----------------------------------------------------------------------------
(* The controller and the slave (outside the code). *)

\* Where a command may take the bus, each with the slave's choice.
Outcomes(cmd) ==
    CASE cmd = "startW" -> IF wire = "talks" THEN {"clash"} ELSE {"listens", "refused"}
      [] cmd = "startR" -> IF wire = "talks" THEN {"clash"} ELSE {"talks", "refused"}
      [] cmd = "write"  -> IF wire # "listens" THEN {"clash"} ELSE {"listens", "refused"}
      [] cmd = "read"   -> IF wire # "talks" THEN {"clash"} ELSE {"talks"}
      [] cmd = "readLast" -> IF wire # "talks" THEN {"clash"} ELSE {"released"}
      [] OTHER          -> IF wire = "talks" THEN {"clash"} ELSE {"free"}

Execute ==
    /\ com # "none"
    /\ stuck => LateAnswers
    /\ wire' \in Outcomes(com)
    /\ com' = "none"
    /\ done' = TRUE
    /\ ackErr' = (wire' = "refused")
    /\ obeyed' = IF wire' = "refused" THEN obeyed ELSE Append(obeyed, com)
    /\ UNCHANGED <<stuck, pc, todo, result, asked>>

\* The slave, or a short on the bus, holds SCL.
Stick ==
    /\ ~ stuck
    /\ stuck' = TRUE
    /\ UNCHANGED <<wire, com, done, ackErr, callVars>>

-----------------------------------------------------------------------------
I2cDriver ==
    \/ ClearInterrupts \/ Issue \/ PollDone \/ PollExhausted
    \/ TimedOut \/ Refused \/ Accepted

I2cNext ==
    \/ \E ops \in Calls : transaction(ops)
    \/ InvalidAddress
    \/ I2cDriver
    \/ Execute \/ Stick

I2cSpec == I2cInit /\ [][I2cNext]_i2cVars

\* The hart runs, and the controller carries out a command unless the bus is
\* stuck.
I2cFairSpec == I2cSpec /\ WF_i2cVars(I2cDriver) /\ WF_i2cVars(Execute)

-----------------------------------------------------------------------------
(* Properties. *)

\* A call that returns Ok has been carried out: every START, byte and STOP it
\* stands for, in order, once, and none of them refused; what an earlier call
\* has left behind when it gave up is not taken for any of it.  i2c.rs:204
\* "Wait for command completion, then inspect the NACK status".  And it has left the
\* bus free: one STOP ends it, however many STARTs it had.  i2c.rs:355 "Only emits STOP
\* after the last operation".
OkMeansObeyed ==
    result = "ok" => obeyed = asked /\ (pc = "idle" => wire = "free")

\* On the wire there is nothing but legal transfers: no byte to a slave that
\* has refused, and neither a START nor a STOP while the slave is sending.
\* i2c.rs:273 "bytes with NACK on the last, STOP".
Wire == INSTANCE I2cWire
WireSpec == Wire!Spec

\* Every call returns, though the bus be stuck.  i2c.rs:132-133 "instead of
\* hanging the CPU forever when the bus or a peer never drives the expected
\* status bit".
CallReturns == pc # "idle" ~> pc = "idle"
-----------------------------------------------------------------------------
(* Why these hold: the invariant that every step preserves. *)

\* Which command of a call comes after which.
Follows(a, b) ==
    \/ a \in {"startW", "write"} /\ b \in Starts \cup {"write", "stop"}
    \/ a \in {"startR", "read"} /\ b \in {"read", "readLast"}
    \/ a = "readLast" /\ b \in Starts \cup {"stop"}

WellFormed(cmds) ==
    cmds # <<>> =>
        /\ cmds[Len(cmds)] = "stop"
        /\ \A i \in 1..(Len(cmds) - 1) : Follows(cmds[i], cmds[i + 1])

\* Where an unrefused command leaves the bus.
After(cmd) == CASE cmd \in {"startW", "write"} -> "listens"
                [] cmd \in {"startR", "read"} -> "talks"
                [] cmd = "readLast" -> "released"
                [] OTHER -> "free"

\* The commands obeyed and those to come make up the call, and the next one is
\* legal where the bus is, unless the bus will never move again.
Due == /\ asked = obeyed \o todo
       /\ stuck \/ "clash" \notin Outcomes(Head(todo))

\* The command at hand is over.
Over == pc = "check" \/ (pc = "poll" /\ done)

\* The flags belong to the command at hand, and what is left in the command
\* register by a call that gave up is never carried out.
I2cInv ==
    /\ I2cTypeOK
    /\ wire # "clash"
    /\ pc = "idle" <=> todo = <<>>
    /\ WellFormed(todo)
    /\ pc = "idle" => wire # "talks" \/ stuck
    /\ pc \in {"idle", "clear", "issue"} =>
          ~ done /\ ~ ackErr /\ (com # "none" => stuck)
    /\ pc \in {"clear", "issue"} => Due
    /\ pc = "poll" /\ ~ done => com = Head(todo) /\ Due
    /\ Over => /\ done /\ com = "none"
               /\ ackErr <=> wire = "refused"
               /\ ~ ackErr => /\ wire = After(Head(todo))
                              /\ asked = obeyed \o Tail(todo)
    /\ pc = "timeout" => stuck
    /\ result = "ok" => pc = "idle" /\ obeyed = asked /\ wire = "free"
=============================================================================
