---------------------------- MODULE PeripheralProofs ----------------------------
(***************************************************************************)
(* Proofs about the drivers of independent peripherals, for every value of *)
(* their constants.                                                        *)
(***************************************************************************)
EXTENDS I2cMaster, SfcFlash, I2cV151, Watchdog, SpiMaster, ListLemmas

-----------------------------------------------------------------------------
(* I2cMaster: what a call asks of the controller is well formed.            *)

WireBytes == {"startW", "startR", "write", "read", "readLast"}

\* One operation, or several one after the other: it begins with a START and
\* ends where a START or a STOP may come.
Piece(s) ==
    /\ s \in Seq(WireBytes)
    /\ s # <<>>
    /\ s[1] \in Starts
    /\ s[Len(s)] \in {"startW", "write", "readLast"}
    /\ \A i \in 1..(Len(s) - 1) : Follows(s[i], s[i + 1])

\* A START with its bytes is one, unless it is a read of no bytes.
LEMMA OperationIsPiece ==
    ASSUME NEW op \in Operations, op.read => op.len > 0
    PROVE  Piece(CommandsFor(op))
<1>. DEFINE first == IF op.read THEN "startR" ELSE "startW"
            Byte(i) == IF ~ op.read THEN "write"
                       ELSE IF i < op.len THEN "read" ELSE "readLast"
            rest == [i \in 1..op.len |-> Byte(i)]
            s == <<first>> \o rest
<1>t. op.len \in Nat /\ op.read \in BOOLEAN
  BY I2cAssumption DEF Operations
<1>1. <<first>> \in Seq(WireBytes) /\ Len(<<first>>) = 1 /\ <<first>>[1] = first
  BY DEF WireBytes
<1>2. rest \in Seq(WireBytes) /\ Len(rest) = op.len
  <2>1. \A i \in 1..op.len : Byte(i) \in WireBytes
    BY DEF WireBytes
  <2>2. rest \in [1..op.len -> WireBytes]
    BY <2>1
  <2>. QED  BY <2>2, <1>t
<1>3. /\ s \in Seq(WireBytes)
      /\ Len(s) = op.len + 1
      /\ \A i \in 1..(op.len + 1) : s[i] = IF i <= 1 THEN <<first>>[i] ELSE rest[i - 1]
  <2>. HIDE DEF first, rest
  <2>1. 1 + op.len = op.len + 1
    BY <1>t
  <2>. QED  BY <1>1, <1>2, <1>t, <2>1, ConcatProperties
<1>4. s[1] = first /\ \A i \in 2..(op.len + 1) : s[i] = Byte(i - 1)
  BY <1>1, <1>3, <1>t
<1>5. CommandsFor(op) = s
  BY DEF CommandsFor
<1>. HIDE DEF s
<1>6. s # <<>>
  BY <1>3, <1>t
<1>7. s[Len(s)] \in {"startW", "write", "readLast"}
  BY <1>3, <1>4, <1>t
<1>8. ASSUME NEW i \in 1..(Len(s) - 1)
      PROVE  Follows(s[i], s[i + 1])
  <2>1. i \in 1..op.len /\ s[i + 1] = Byte(i)
    <3>1. i \in 1..op.len
      BY <1>3, <1>t
    <3>2. i + 1 \in 2..(op.len + 1) /\ (i + 1) - 1 = i
      BY <3>1, <1>t
    <3>. QED  BY <1>4, <3>1, <3>2
  <2>2. s[i] = IF i = 1 THEN first ELSE Byte(i - 1)
    BY <1>3, <1>4, <1>t
  <2>3. CASE ~ op.read
    BY <2>1, <2>2, <2>3 DEF Follows
  <2>4. CASE op.read
    <3>1. s[i + 1] \in {"read", "readLast"}
      BY <2>1, <2>4
    <3>2. s[i] \in {"startR", "read"}
      BY <2>1, <2>2, <2>4, <1>t
    <3>. QED  BY <3>1, <3>2 DEF Follows
  <2>. QED  BY <2>3, <2>4
<1>. QED
  BY <1>3, <1>4, <1>5, <1>6, <1>7, <1>8 DEF Piece, Starts

\* One after the other, two of them make one.
LEMMA PiecesJoin ==
    ASSUME NEW s, NEW t, Piece(s), Piece(t)
    PROVE  Piece(s \o t)
<1>. DEFINE m == Len(s)
            n == Len(t)
<1>1. m \in Nat \ {0} /\ n \in Nat \ {0}
  BY EmptySeq DEF Piece
<1>2. /\ s \o t \in Seq(WireBytes)
      /\ Len(s \o t) = m + n
      /\ \A i \in 1..(m + n) : (s \o t)[i] = IF i <= m THEN s[i] ELSE t[i - m]
  BY ConcatProperties DEF Piece
<1>3. s \o t # <<>> /\ (s \o t)[1] = s[1] /\ (s \o t)[m + n] = t[n]
  BY <1>1, <1>2
<1>4. ASSUME NEW i \in 1..(m + n - 1)
      PROVE  Follows((s \o t)[i], (s \o t)[i + 1])
  <2>1. CASE i < m
    BY <1>1, <1>2, <2>1 DEF Piece
  <2>2. CASE i = m
    <3>1. (s \o t)[i] = s[m] /\ (s \o t)[i + 1] = t[1]
      BY <1>1, <1>2, <2>2
    <3>. QED  BY <3>1 DEF Piece, Follows, Starts
  <2>3. CASE i > m
    <3>1. /\ (i - m) \in 1..(n - 1) /\ (i + 1) - m = (i - m) + 1
          /\ (s \o t)[i] = t[i - m] /\ (s \o t)[i + 1] = t[(i + 1) - m]
      BY <1>1, <1>2, <2>3
    <3>. QED  BY <3>1 DEF Piece
  <2>. QED  BY <1>1, <2>1, <2>2, <2>3
<1>. QED
  BY <1>2, <1>3, <1>4 DEF Piece

\* So do any number of them.
LEMMA PiecesFlatten ==
    ASSUME NEW seqs \in Seq(Seq(WireBytes)), seqs # <<>>,
           \A i \in 1..Len(seqs) : Piece(seqs[i])
    PROVE  Piece(FlattenSeq(seqs))
<1>. DEFINE n == Len(seqs)
<1>t. n \in Nat /\ n # 0
  BY LenProperties, EmptySeq
<1>1. PICK f \in [1..n -> Seq(WireBytes)] :
        /\ FlattenSeq(seqs) = f[n]
        /\ \A i \in 1..n : f[i] = IF i = 1 THEN seqs[i] ELSE f[i - 1] \o seqs[i]
  BY FlattenSteps
<1>. DEFINE S == {m \in Nat : m \in 1..n => Piece(f[m])}
<1>2. 0 \in S
  OBVIOUS
<1>3. ASSUME NEW m \in Nat, m \in S, m + 1 \in 1..n
      PROVE  Piece(f[m + 1])
  <2>1. CASE m = 0
    <3>1. m + 1 = 1 /\ 1 \in 1..n
      BY <1>t, <2>1
    <3>2. f[1] = seqs[1]
      BY <1>1, <3>1
    <3>. QED  BY <3>1, <3>2
  <2>2. CASE m # 0
    <3>1. f[m + 1] = f[m] \o seqs[m + 1]
      <4>1. (m + 1) - 1 = m /\ m + 1 # 1
        BY <2>2
      <4>. QED  BY <1>1, <1>3, <4>1
    <3>2. Piece(f[m]) /\ Piece(seqs[m + 1])
      BY <1>3, <2>2, <1>t
    <3>. QED  BY <3>1, <3>2, PiecesJoin
  <2>. QED  BY <2>1, <2>2
<1>4. Nat \subseteq S
  <2>1. \A m \in Nat : m \in S => m + 1 \in S
    BY <1>3
  <2>. HIDE DEF S
  <2>. QED  BY <1>2, <2>1, NatSetInduction
<1>5. n \in S /\ n \in 1..n
  <2>. HIDE DEF S
  <2>. QED  BY <1>4, <1>t
<1>. QED
  BY <1>1, <1>5

\* What a call asks for is legal from a bus on which no slave is sending.
LEMMA CallWellFormed ==
    ASSUME EmptyReads = FALSE, NEW ops \in Calls
    PROVE  /\ CommandsOf(ops) \in Seq(Commands)
           /\ CommandsOf(ops) # <<>>
           /\ WellFormed(CommandsOf(ops))
           /\ Head(CommandsOf(ops)) \in Starts \cup {"stop"}
<1>. DEFINE seqs == [i \in DOMAIN ops |-> CommandsFor(ops[i])]
            all == FlattenSeq(seqs)
<1>1. PICK n \in 0..MaxOps : ops \in [1..n -> Operations]
  BY DEF Calls
<1>t. n \in Nat
  BY I2cAssumption
<1>2. \A i \in 1..n : Piece(seqs[i])
  BY <1>1, OperationIsPiece DEF Calls
<1>3. seqs \in Seq(Seq(WireBytes)) /\ Len(seqs) = n
  <2>1. \A i \in 1..n : seqs[i] \in Seq(WireBytes)
    BY <1>2 DEF Piece
  <2>2. seqs \in [1..n -> Seq(WireBytes)]
    BY <1>1, <2>1
  <2>. QED  BY <2>2, <1>t
<1>4. CommandsOf(ops) = Append(all, "stop")
  BY DEF CommandsOf
<1>. HIDE DEF seqs
<1>5. CASE n = 0
  <2>1. seqs = <<>>
    BY <1>3, <1>5, EmptySeq
  <2>2. all = <<>>
    BY <2>1 DEF FlattenSeq
  <2>3. CommandsOf(ops) = <<"stop">>
    BY <1>4, <2>2
  <2>. QED  BY <2>3 DEF Commands, WellFormed
<1>6. CASE n # 0
  <2>1. Piece(all)
    BY <1>2, <1>3, <1>6, <1>t, PiecesFlatten, EmptySeq
  <2>. HIDE DEF all
  <2>2. Len(all) \in Nat \ {0}
    BY <2>1, EmptySeq DEF Piece
  <2>3. all \in Seq(Commands)
    BY <2>1, SeqMonotonic DEF Piece, WireBytes, Commands
  <2>4. /\ CommandsOf(ops) \in Seq(Commands)
        /\ Len(CommandsOf(ops)) = Len(all) + 1
        /\ CommandsOf(ops)[Len(all) + 1] = "stop"
        /\ \A i \in 1..Len(all) : CommandsOf(ops)[i] = all[i]
    BY <1>4, <2>3, AppendProperties DEF Commands
  <2>5. CommandsOf(ops) # <<>> /\ Head(CommandsOf(ops)) = all[1]
    BY <2>2, <2>4
  <2>6. \A i \in 1..Len(all) : Follows(CommandsOf(ops)[i], CommandsOf(ops)[i + 1])
    BY <2>1, <2>2, <2>4 DEF Piece, Follows
  <2>. QED  BY <2>1, <2>2, <2>4, <2>5, <2>6 DEF Piece, WellFormed
<1>. QED
  BY <1>5, <1>6
-----------------------------------------------------------------------------
(* I2cMaster: I2cInv is inductive where a slave that holds the bus beyond   *)
(* the last poll does not answer later, and no read of no bytes is asked    *)
(* for.                                                                     *)

\* What is left of a call, once its first command is over, is well formed.
LEMMA RestWellFormed ==
    ASSUME NEW s \in Seq(Commands), s # <<>>, WellFormed(s)
    PROVE  /\ Head(s) \in Commands
           /\ Tail(s) \in Seq(Commands)
           /\ WellFormed(Tail(s))
           /\ Tail(s) = <<>> <=> Len(s) = 1
           /\ Len(s) = 1 => Head(s) = "stop"
           /\ Len(s) # 1 => /\ s[2] = Head(Tail(s))
                            /\ Follows(Head(s), s[2])
<1>. DEFINE n == Len(s)
<1>1. n \in Nat \ {0} /\ s[n] = "stop"
  BY EmptySeq DEF WellFormed
<1>2. /\ Head(s) = s[1] /\ Head(s) \in Commands
      /\ Tail(s) \in Seq(Commands) /\ Len(Tail(s)) = n - 1
      /\ \A i \in 1..(n - 1) : Tail(s)[i] = s[i + 1]
  BY HeadTailProperties, ElementOfSeq, <1>1
<1>3. Tail(s) = <<>> <=> n = 1
  <2>1. Tail(s) = <<>> => Len(Tail(s)) = 0
    BY EmptySeq
  <2>2. Tail(s) # <<>> => Len(Tail(s)) \in Nat \ {0}
    BY <1>2, EmptySeq
  <2>. QED  BY <1>1, <1>2, <2>1, <2>2
<1>4. ASSUME n # 1
      PROVE  /\ s[2] = Head(Tail(s))
             /\ Follows(Head(s), s[2])
             /\ Tail(s)[n - 1] = "stop"
             /\ \A i \in 1..(n - 2) : Follows(Tail(s)[i], Tail(s)[i + 1])
  <2>1. Follows(s[1], s[2])
    <3>1. 1 \in 1..(n - 1) /\ 1 + 1 = 2
      BY <1>1, <1>4
    <3>2. \A i \in 1..(n - 1) : Follows(s[i], s[i + 1])
      BY DEF WellFormed
    <3>3. Follows(s[1], s[1 + 1])
      BY <3>1, <3>2
    <3>. QED  BY <3>1, <3>3
  <2>2. Head(Tail(s)) = Tail(s)[1] /\ Tail(s)[1] = s[2]
    BY <1>1, <1>2, <1>3, <1>4
  <2>3. Tail(s)[n - 1] = s[n]
    BY <1>1, <1>2, <1>4
  <2>4. ASSUME NEW i \in 1..(n - 2)
        PROVE  Follows(Tail(s)[i], Tail(s)[i + 1])
    <3>1. /\ i + 1 \in 1..(n - 1)
          /\ Tail(s)[i] = s[i + 1] /\ Tail(s)[i + 1] = s[(i + 1) + 1]
      BY <1>1, <1>2
    <3>. QED  BY <3>1 DEF WellFormed
  <2>. QED  BY <1>1, <1>2, <2>1, <2>2, <2>3, <2>4
<1>5. WellFormed(Tail(s))
  <2>1. CASE n = 1
    BY <1>3, <2>1 DEF WellFormed
  <2>2. CASE n # 1
    <3>1. Len(Tail(s)) - 1 = n - 2
      BY <1>1, <1>2
    <3>. QED  BY <1>2, <1>4, <2>2, <3>1 DEF WellFormed
  <2>. QED  BY <2>1, <2>2
<1>. QED
  BY <1>1, <1>2, <1>3, <1>4, <1>5

\* A command that is obeyed moves from what is due to what is done.
LEMMA ObeyedMoves ==
    ASSUME NEW s \in Seq(Commands), NEW t \in Seq(Commands), t # <<>>
    PROVE  s \o t = Append(s, Head(t)) \o Tail(t)
<1>1. /\ Head(t) \in Commands /\ Tail(t) \in Seq(Commands)
      /\ t = <<Head(t)>> \o Tail(t)
  BY HeadTailProperties, EmptySeq
<1>2. Append(s, Head(t)) = s \o <<Head(t)>> /\ <<Head(t)>> \in Seq(Commands)
  BY <1>1, AppendIsConcat
<1>. QED
  BY <1>1, <1>2, ConcatAssociative

\* A legal command leaves the bus refused or where it says, and a command that
\* may follow it is legal there.
LEMMA LegalOutcomes ==
    ASSUME NEW cmd \in Commands, "clash" \notin Outcomes(cmd), NEW w \in Outcomes(cmd)
    PROVE  /\ w \in {"free", "listens", "talks", "refused", "released"}
           /\ w # "refused" => w = After(cmd)
BY DEF Outcomes, After, Commands

LEMMA LegalNext ==
    ASSUME NEW a \in Commands, NEW b \in Commands, Follows(a, b), wire = After(a)
    PROVE  "clash" \notin Outcomes(b)
BY DEF Outcomes, After, Follows, Starts, Commands

\* The controller and the driver begin with nothing to do.
LEMMA I2cInitInv == I2cInit => I2cInv
BY EmptySeq DEF I2cInit, I2cInv, I2cTypeOK, WellFormed, Over, Due

\* A call begins with the bus at rest, or never to move again.
LEMMA I2cCalling ==
    ASSUME EmptyReads = FALSE, I2cInv, NEW ops \in Calls, transaction(ops)
    PROVE  I2cInv'
<1>. DEFINE cmds == CommandsOf(ops)
<1>1. /\ cmds \in Seq(Commands) /\ cmds # <<>> /\ WellFormed(cmds)
      /\ Head(cmds) \in Starts \cup {"stop"}
  BY CallWellFormed
<1>2. /\ pc = "idle" /\ todo' = cmds /\ asked' = cmds /\ obeyed' = <<>>
      /\ result' = "none" /\ pc' = Entry(cmds[1]) /\ UNCHANGED busVars
  BY DEF transaction
<1>. HIDE DEF cmds
<1>3. pc' \in {"clear", "issue"}
  BY <1>2 DEF Entry
<1>4. WellFormed(todo)'
  BY <1>1, <1>2 DEF WellFormed
<1>5. Due'
  <2>1. asked' = obeyed' \o todo'
    BY <1>1, <1>2, ConcatEmptySeq
  <2>2. wire # "talks" \/ stuck
    BY <1>2 DEF I2cInv
  <2>3. wire # "talks" => "clash" \notin Outcomes(Head(cmds))
    BY <1>1 DEF Outcomes, Starts
  <2>. QED  BY <1>2, <2>1, <2>2, <2>3 DEF Due, Outcomes, busVars
<1>. QED
  BY <1>1, <1>2, <1>3, <1>4, <1>5, EmptySeq
     DEF I2cInv, I2cTypeOK, Over, busVars

\* The driver acts on flags that belong to the command at hand.
LEMMA I2cDriving ==
    ASSUME I2cInv, I2cDriver
    PROVE  I2cInv'
<1>1. CASE ClearInterrupts
  BY <1>1 DEF I2cInv, I2cTypeOK, ClearInterrupts, WellFormed, Due, Outcomes, Over
<1>2. CASE Issue
  <2>1. Head(todo) \in Commands
    BY <1>2, RestWellFormed DEF I2cInv, I2cTypeOK, Issue
  <2>. QED
    BY <1>2, <2>1 DEF I2cInv, I2cTypeOK, Issue, WellFormed, Due, Outcomes, Over
<1>3. CASE PollDone
  BY <1>3 DEF I2cInv, I2cTypeOK, PollDone, busVars, WellFormed, Due, Over
<1>4. CASE PollExhausted
  BY <1>4 DEF I2cInv, I2cTypeOK, PollExhausted, busVars, WellFormed, Due, Over
<1>5. CASE TimedOut
  BY <1>5, EmptySeq DEF I2cInv, I2cTypeOK, TimedOut, WellFormed, Due, Over
<1>6. CASE Refused
  BY <1>6, EmptySeq DEF I2cInv, I2cTypeOK, Refused, WellFormed, Due, Over
<1>7. CASE Accepted
  <2>1. todo \in Seq(Commands) /\ todo # <<>> /\ WellFormed(todo)
    BY <1>7 DEF Accepted, I2cInv, I2cTypeOK
  <2>2. /\ Head(todo) \in Commands
        /\ Tail(todo) \in Seq(Commands)
        /\ WellFormed(Tail(todo))
        /\ Tail(todo) = <<>> <=> Len(todo) = 1
        /\ Len(todo) = 1 => Head(todo) = "stop"
        /\ Len(todo) # 1 => /\ todo[2] = Head(Tail(todo))
                            /\ Follows(Head(todo), todo[2])
    BY <2>1, RestWellFormed
  <2>3. /\ done /\ com = "none" /\ ~ ackErr
        /\ wire = After(Head(todo)) /\ asked = obeyed \o Tail(todo)
    BY <1>7 DEF Accepted, I2cInv, Over
  <2>4. /\ done' = FALSE /\ todo' = Tail(todo)
        /\ UNCHANGED <<wire, com, ackErr, stuck, asked, obeyed>>
    BY <1>7 DEF Accepted
  <2>5. WellFormed(todo)'
    BY <2>2, <2>4 DEF WellFormed
  <2>6. CASE Len(todo) = 1
    <3>1. pc' = "idle" /\ result' = "ok"
      BY <1>7, <2>6 DEF Accepted
    <3>2. wire = "free"
      BY <2>2, <2>3, <2>6 DEF After
    <3>3. asked = obeyed
      BY <2>2, <2>3, <2>6, ConcatEmptySeq DEF I2cInv, I2cTypeOK
    <3>. QED
      BY <2>2, <2>3, <2>4, <2>5, <2>6, <3>1, <3>2, <3>3
         DEF I2cInv, I2cTypeOK, Over
  <2>7. CASE Len(todo) # 1
    <3>1. pc' = Entry(todo[2]) /\ result' = result /\ result # "ok"
      BY <1>7, <2>7 DEF Accepted, I2cInv
    <3>2. pc' \in {"clear", "issue"}
      BY <3>1 DEF Entry
    <3>3. Head(Tail(todo)) \in Commands
      BY <2>2, <2>7, RestWellFormed
    <3>4. "clash" \notin Outcomes(Head(Tail(todo)))
      BY <2>2, <2>3, <2>7, <3>3, LegalNext
    <3>5. Due'
      BY <2>3, <2>4, <3>4 DEF Due, Outcomes
    <3>. QED
      BY <2>2, <2>3, <2>4, <2>5, <2>7, <3>1, <3>2, <3>5
         DEF I2cInv, I2cTypeOK, Over
  <2>. QED  BY <2>6, <2>7
<1>. QED
  BY <1>1, <1>2, <1>3, <1>4, <1>5, <1>6, <1>7 DEF I2cDriver

\* The controller carries out the command at hand, and nothing else.
LEMMA I2cExecuting ==
    ASSUME LateAnswers = FALSE, I2cInv, Execute
    PROVE  /\ I2cInv'
           /\ com \in Commands /\ "clash" \notin Outcomes(com)
<1>1. /\ com # "none" /\ ~ stuck /\ wire' \in Outcomes(com) /\ com' = "none"
      /\ done' = TRUE /\ ackErr' = (wire' = "refused")
      /\ obeyed' = IF wire' = "refused" THEN obeyed ELSE Append(obeyed, com)
      /\ UNCHANGED <<stuck, pc, todo, result, asked>>
  BY DEF Execute, I2cInv, I2cTypeOK
<1>2. pc = "poll" /\ ~ done
  BY <1>1 DEF I2cInv, I2cTypeOK, Over
<1>3. com = Head(todo) /\ asked = obeyed \o todo /\ "clash" \notin Outcomes(com)
  BY <1>1, <1>2 DEF I2cInv, Due
<1>4. todo \in Seq(Commands) /\ todo # <<>> /\ com \in Commands
  BY <1>1, <1>2 DEF I2cInv, I2cTypeOK
<1>5. /\ wire' \in {"free", "listens", "talks", "refused", "released"}
      /\ wire' # "refused" => wire' = After(com)
  BY <1>1, <1>3, <1>4, LegalOutcomes
<1>6. wire' # "refused" => asked' = obeyed' \o Tail(todo)
  BY <1>1, <1>3, <1>4, ObeyedMoves DEF I2cInv, I2cTypeOK
<1>7. obeyed' \in Seq(Commands)
  BY <1>1, <1>4, AppendProperties DEF I2cInv, I2cTypeOK
<1>8. WellFormed(todo)'
  BY <1>1 DEF I2cInv, WellFormed
<1>9. result # "ok"
  BY <1>2 DEF I2cInv
<1>. QED
  BY <1>1, <1>2, <1>3, <1>4, <1>5, <1>6, <1>7, <1>8, <1>9
     DEF I2cInv, I2cTypeOK, Over

LEMMA I2cStep ==
    EmptyReads = FALSE /\ LateAnswers = FALSE /\ I2cInv /\ [I2cNext]_i2cVars => I2cInv'
<1>. SUFFICES ASSUME EmptyReads = FALSE, LateAnswers = FALSE, I2cInv, [I2cNext]_i2cVars
              PROVE  I2cInv'
  OBVIOUS
<1>1. CASE InvalidAddress
  BY <1>1 DEF InvalidAddress, busVars, I2cInv, I2cTypeOK, WellFormed, Due, Outcomes, Over
<1>2. CASE Stick
  BY <1>2 DEF Stick, callVars, I2cInv, I2cTypeOK, WellFormed, Due, Outcomes, Over
<1>3. CASE UNCHANGED i2cVars
  BY <1>3 DEF i2cVars, busVars, callVars, I2cInv, I2cTypeOK, WellFormed, Due, Outcomes, Over
<1>. QED
  BY <1>1, <1>2, <1>3, I2cCalling, I2cDriving, I2cExecuting DEF I2cNext

\* A call that returns Ok has been carried out, every command once and in order,
\* and has left the bus free: for operations of any number and any length.
THEOREM I2cOkMeansObeyed ==
    ASSUME EmptyReads = FALSE, LateAnswers = FALSE
    PROVE  I2cSpec => []OkMeansObeyed
<1>1. I2cInv => OkMeansObeyed
  BY DEF I2cInv, OkMeansObeyed
<1>. QED
  BY <1>1, I2cInitInv, I2cStep, PTL DEF I2cSpec

\* The master implements I2cWire: what is on the wire is legal.
THEOREM I2cImplementsWire ==
    ASSUME EmptyReads = FALSE, LateAnswers = FALSE
    PROVE  I2cSpec => WireSpec
<1>1. I2cInit => Wire!Init
  BY DEF I2cInit, Wire!Init
<1>2. I2cInv /\ [I2cNext]_i2cVars => [Wire!Next]_wire
  <2>. SUFFICES ASSUME I2cInv, [I2cNext]_i2cVars
                PROVE  [Wire!Next]_wire
    OBVIOUS
  <2>1. CASE Execute
    <3>1. com \in Commands /\ "clash" \notin Outcomes(com) /\ wire' \in Outcomes(com)
      BY <2>1, I2cExecuting DEF Execute
    <3>. QED
      BY <3>1 DEF Outcomes, Commands, Wire!Next, Wire!Start, Wire!Send,
         Wire!Receive, Wire!Stop, Wire!MasterMayMove
  <2>2. CASE \E ops \in Calls : transaction(ops)
    BY <2>2 DEF transaction, busVars
  <2>3. CASE InvalidAddress \/ I2cDriver \/ Stick \/ UNCHANGED i2cVars
    BY <2>3 DEF InvalidAddress, I2cDriver, ClearInterrupts, Issue, PollDone,
       PollExhausted, TimedOut, Refused, Accepted, Stick, i2cVars, busVars
  <2>. QED  BY <2>1, <2>2, <2>3 DEF I2cNext
<1>. QED
  BY <1>1, <1>2, I2cInitInv, I2cStep, PTL DEF I2cSpec, WireSpec, Wire!Spec
-----------------------------------------------------------------------------
(* SfcFlash: SfcInv is inductive where commands and DMA are not mixed and no *)
(* empty write is asked for.                                                *)

\* A command is given as many bytes as it has, up to a full buffer.
LEMMA DataCountIs ==
    ASSUME NEW len \in 0..BufBytes
    PROVE  /\ DataCount(len) + 1 \in 1..BufBytes
           /\ len > 0 => DataCount(len) + 1 = len
<1>1. 0 % BufBytes = 0 /\ (len > 0 => (len - 1) % BufBytes = len - 1)
  BY SfcAssumption
<1>. QED
  BY <1>1, SfcAssumption DEF DataCount

\* The given bytes of a write are in the buffer.
LEMMA LoadedIs ==
    ASSUME SfcTypeOK, NEW tag \in {1, 2}, NEW len \in 0..BufBytes
    PROVE  /\ Loaded(tag, len) \in [1..BufBytes -> SfcBytes]
           /\ \A i \in 1..len : Loaded(tag, len)[i] = Given(tag, i)
<1>1. \A i \in 1..BufBytes : sfcBuf[i] \in SfcBytes /\ Given(tag, i) \in SfcBytes
  BY DEF SfcTypeOK, SfcBytes, Given
<1>2. Filler \in SfcBytes
  BY DEF SfcBytes
<1>. QED
  BY <1>1, <1>2, SfcAssumption DEF Loaded

\* The first bytes of a buffer.
LEMMA FirstBytes ==
    ASSUME NEW buf \in [1..BufBytes -> SfcBytes], NEW len \in 0..BufBytes
    PROVE  /\ SubSeq(buf, 1, len) \in Seq(SfcBytes)
           /\ SubSeq(buf, 1, len) = [i \in 1..len |-> buf[i]]
<1>1. buf \in Seq(SfcBytes) /\ Len(buf) = BufBytes
  BY SfcAssumption
<1>2. SubSeq(buf, 1, len) \in Seq(SfcBytes)
  BY <1>1, SfcAssumption, SubSeqProperties
<1>3. SubSeq(buf, 1, len) = [i \in 1..len |-> buf[i]]
  <2>1. SubSeq(buf, 1, len) = [i \in 1..((1 + len) - 1) |-> buf[(i + 1) - 1]]
    BY SfcAssumption DEF SubSeq
  <2>. QED  BY <2>1, SfcAssumption
<1>. QED
  BY <1>2, <1>3

LEMMA SfcInitInv == SfcInit => SfcInv
<1>. SUFFICES ASSUME SfcInit
              PROVE  SfcInv
  OBVIOUS
<1>1. Filler \in SfcBytes /\ NoSfcCall \in SfcCalls
  BY SfcAssumption DEF SfcBytes, SfcCalls, NoSfcCall
<1>2. SfcTypeOK
  <2>1. sfcBuf \in [1..BufBytes -> SfcBytes]
    BY <1>1 DEF SfcInit
  <2>2. sfcCmd \in [start : BOOLEAN, count : 0..BufBytes]
    BY SfcAssumption DEF SfcInit
  <2>. QED  BY <1>1, <2>1, <2>2, EmptySeq DEF SfcInit, SfcTypeOK
<1>. QED
  BY <1>2 DEF SfcInit, SfcInv

\* A call tells the controller what it is asked for, or is refused.
LEMMA SfcCalling ==
    ASSUME EmptyWrites = FALSE, SfcOverlap = FALSE, SfcInv, NEW call \in SfcCalls,
           SfcCommand(call) \/ SfcRefuse(call)
    PROVE  SfcInv'
<1>t. SfcTypeOK /\ BufBytes \in Nat \ {0}
  BY SfcAssumption DEF SfcInv
<1>1. CASE SfcCommand(call)
  <2>1. call.len \in 0..BufBytes /\ call.op \in {"plain", "write", "read"}
    BY <1>1, <1>t DEF SfcCommand, SfcCalls, TooLong
  <2>2. sfcTag' \in {1, 2} /\ sfcTag' = 3 - sfcTag
    BY <1>1, <1>t DEF SfcCommand, SfcTypeOK
  <2>3. sfcBuf' = IF call.op = "write" THEN Loaded(sfcTag', call.len) ELSE sfcBuf
    BY <1>1, <2>2 DEF SfcCommand
  <2>4. /\ sfcBuf' \in [1..BufBytes -> SfcBytes]
        /\ call.op = "write" => \A i \in 1..call.len : sfcBuf'[i] = Given(sfcTag', i)
    <3>1. CASE call.op = "write"
      <4>1. sfcBuf' = Loaded(sfcTag', call.len)
        BY <2>3, <3>1
      <4>. QED  BY <2>1, <2>2, <4>1, <1>t, LoadedIs
    <3>2. CASE call.op # "write"
      BY <2>3, <3>2, <1>t DEF SfcTypeOK
    <3>. QED  BY <3>1, <3>2
  <2>5. /\ sfcCmd' \in [start : BOOLEAN, count : 0..BufBytes] /\ sfcCmd'.start
        /\ call.op # "plain" => sfcCmd'.count = DataCount(call.len) + 1
    BY <1>1, <2>1, <1>t, DataCountIs DEF SfcCommand
  <2>6. /\ sfcPc = "idle" /\ sfcPc' = "poll" /\ sfcStatus' = "none" /\ sfcData' = <<>>
        /\ sfcCall' = call /\ (call.op = "write" => call.len > 0)
        /\ UNCHANGED <<sfcInt, sfcDma, sfcOwed, flashGot>>
    BY <1>1 DEF SfcCommand
  <2>7. SfcTypeOK'
    BY <2>2, <2>4, <2>5, <2>6, <1>t, EmptySeq DEF SfcTypeOK
  <2>8. SfcTold'
    BY <2>1, <2>4, <2>5, <2>6, <1>t, DataCountIs DEF SfcTold, Given
  <2>. QED  BY <2>5, <2>6, <2>7, <2>8 DEF SfcInv
<1>2. CASE SfcRefuse(call)
  <2>1. /\ sfcCall' = NoSfcCall /\ sfcStatus' = "tooLong" /\ sfcData' = <<>>
        /\ flashGot' = <<>> /\ sfcPc = "idle"
        /\ UNCHANGED <<sfcPc, sfcTag, sfcBuf, sfcCmd, sfcInt, sfcDma, sfcOwed>>
    BY <1>2 DEF SfcRefuse
  <2>2. NoSfcCall \in SfcCalls /\ NoSfcCall.op = "plain"
    BY <1>t DEF SfcCalls, NoSfcCall
  <2>3. SfcTypeOK'
    BY <2>1, <2>2, <1>t, EmptySeq DEF SfcTypeOK
  <2>. QED  BY <2>1, <2>2, <2>3 DEF SfcInv, SfcMoved
<1>. QED
  BY <1>1, <1>2

\* The driver takes each completion for what it is.
LEMMA SfcDriving ==
    ASSUME SfcOverlap = FALSE, SfcInv, bus_dma_start \/ bus_dma_wait \/ SfcDriver
    PROVE  SfcInv'
<1>t. SfcTypeOK
  BY DEF SfcInv
<1>1. CASE bus_dma_start
  BY <1>1 DEF bus_dma_start, SfcMayCommand, SfcInv, SfcTypeOK, SfcTold, SfcMoved
<1>2. CASE bus_dma_wait
  BY <1>2 DEF bus_dma_wait, SfcInv, SfcTypeOK, SfcTold, SfcMoved
<1>3. CASE SfcPollDone
  BY <1>3 DEF SfcPollDone, SfcInv, SfcTypeOK, SfcTold, SfcMoved
<1>4. CASE SfcClear
  <2>1. /\ sfcPc = "clear" /\ sfcInt' = {} /\ sfcStatus' = "ok" /\ sfcPc' = "idle"
        /\ sfcData' = IF sfcCall.op = "read" THEN SubSeq(sfcBuf, 1, sfcCall.len)
                      ELSE <<>>
        /\ UNCHANGED <<sfcCall, sfcTag, sfcBuf, sfcCmd, sfcDma, sfcOwed, flashGot>>
    BY <1>4 DEF SfcClear
  <2>2. SfcMoved /\ SfcMoved'
    BY <2>1 DEF SfcInv, SfcMoved, Stored, Given
  <2>3. sfcCall.op = "read" =>
          /\ SubSeq(sfcBuf, 1, sfcCall.len) \in Seq(SfcBytes)
          /\ SubSeq(sfcBuf, 1, sfcCall.len) = [i \in 1..sfcCall.len |-> Stored(sfcTag, i)]
    <3>. SUFFICES ASSUME sfcCall.op = "read"
                  PROVE  /\ SubSeq(sfcBuf, 1, sfcCall.len) \in Seq(SfcBytes)
                         /\ SubSeq(sfcBuf, 1, sfcCall.len)
                              = [i \in 1..sfcCall.len |-> Stored(sfcTag, i)]
      OBVIOUS
    <3>1. sfcCall.len \in 0..BufBytes
      BY <2>2, <1>t, SfcAssumption DEF SfcMoved, SfcTypeOK, SfcCalls
    <3>2. SubSeq(sfcBuf, 1, sfcCall.len) = [i \in 1..sfcCall.len |-> sfcBuf[i]]
      BY <3>1, <1>t, FirstBytes DEF SfcTypeOK
    <3>3. \A i \in 1..sfcCall.len : sfcBuf[i] = Stored(sfcTag, i)
      BY <2>2 DEF SfcMoved
    <3>. QED  BY <3>1, <3>2, <3>3, <1>t, FirstBytes DEF SfcTypeOK
  <2>4. SfcTypeOK'
    BY <2>1, <2>3, <1>t, EmptySeq DEF SfcTypeOK
  <2>. QED  BY <2>1, <2>2, <2>3, <2>4 DEF SfcInv, Stored
<1>5. CASE DmaPollDone
  BY <1>5 DEF DmaPollDone, SfcInv, SfcTypeOK, SfcTold, SfcMoved
<1>6. CASE DmaClear
  BY <1>6 DEF DmaClear, SfcInv, SfcTypeOK, SfcTold, SfcMoved
<1>. QED
  BY <1>1, <1>2, <1>3, <1>4, <1>5, <1>6 DEF SfcDriver

\* The controller moves the bytes it has been told to.
LEMMA SfcMoving ==
    ASSUME SfcInv, FlashExecute \/ DmaEnd
    PROVE  SfcInv'
<1>t. SfcTypeOK /\ BufBytes \in Nat \ {0}
  BY SfcAssumption DEF SfcInv
<1>1. CASE FlashExecute
  <2>1. /\ sfcCmd.start
        /\ sfcBuf' = IF sfcCall.op = "read"
                     THEN [i \in 1..BufBytes |-> IF i <= sfcCmd.count
                                                 THEN Stored(sfcTag, i) ELSE sfcBuf[i]]
                     ELSE sfcBuf
        /\ flashGot' = IF sfcCall.op = "write" THEN SubSeq(sfcBuf, 1, sfcCmd.count)
                       ELSE <<>>
        /\ sfcCmd' = [sfcCmd EXCEPT !.start = FALSE]
        /\ sfcInt' = sfcInt \cup {"cmd"}
        /\ UNCHANGED <<sfcPc, sfcCall, sfcStatus, sfcData, sfcTag, sfcDma, sfcOwed>>
    BY <1>1 DEF FlashExecute
  <2>2. SfcTold /\ sfcPc = "poll" /\ sfcStatus = "none"
    BY <2>1 DEF SfcInv
  <2>3. sfcCall.op = "write" =>
          /\ flashGot' = [i \in 1..sfcCall.len |-> Given(sfcTag, i)]
          /\ flashGot' \in Seq(SfcBytes)
    <3>. SUFFICES ASSUME sfcCall.op = "write"
                  PROVE  /\ flashGot' = [i \in 1..sfcCall.len |-> Given(sfcTag, i)]
                         /\ flashGot' \in Seq(SfcBytes)
      OBVIOUS
    <3>1. sfcCall.len \in 0..BufBytes /\ flashGot' = SubSeq(sfcBuf, 1, sfcCall.len)
      BY <2>1, <2>2, <1>t DEF SfcTold
    <3>2. flashGot' = [i \in 1..sfcCall.len |-> sfcBuf[i]] /\ flashGot' \in Seq(SfcBytes)
      BY <3>1, <1>t, FirstBytes DEF SfcTypeOK
    <3>. QED  BY <3>2, <2>2 DEF SfcTold
  <2>4. /\ sfcBuf' \in [1..BufBytes -> SfcBytes]
        /\ sfcCall.op = "read" =>
              \A i \in 1..sfcCall.len : sfcBuf'[i] = Stored(sfcTag, i)
    <3>1. \A i \in 1..BufBytes : Stored(sfcTag, i) \in SfcBytes /\ sfcBuf[i] \in SfcBytes
      BY <1>t DEF SfcTypeOK, SfcBytes, Stored
    <3>2. sfcBuf' \in [1..BufBytes -> SfcBytes]
      BY <2>1, <3>1, <1>t DEF SfcTypeOK
    <3>3. ASSUME sfcCall.op = "read", NEW i \in 1..sfcCall.len
          PROVE  sfcBuf'[i] = Stored(sfcTag, i)
      <4>1. i \in 1..BufBytes /\ i <= sfcCmd.count
        BY <2>2, <3>3, <1>t DEF SfcTold, SfcTypeOK, SfcCalls
      <4>. QED  BY <2>1, <3>3, <4>1
    <3>. QED  BY <3>2, <3>3
  <2>5. sfcCmd' \in [start : BOOLEAN, count : 0..BufBytes] /\ ~ sfcCmd'.start
    BY <2>1, <1>t DEF SfcTypeOK
  <2>6. SfcTypeOK'
    BY <2>1, <2>3, <2>4, <2>5, <1>t, EmptySeq DEF SfcTypeOK
  <2>7. SfcMoved'
    BY <2>1, <2>2, <2>3, <2>4 DEF SfcMoved, SfcTold, Stored, Given
  <2>. QED  BY <2>1, <2>2, <2>5, <2>6, <2>7 DEF SfcInv
<1>2. CASE DmaEnd
  BY <1>2 DEF DmaEnd, SfcInv, SfcTypeOK, SfcTold, SfcMoved
<1>. QED
  BY <1>1, <1>2

LEMMA SfcStep ==
    EmptyWrites = FALSE /\ SfcOverlap = FALSE /\ SfcInv /\ [SfcNext]_sfcVars => SfcInv'
<1>1. SfcInv /\ UNCHANGED sfcVars => SfcInv'
  BY DEF sfcVars, SfcInv, SfcTypeOK, SfcTold, SfcMoved
<1>. QED
  BY <1>1, SfcCalling, SfcDriving, SfcMoving DEF SfcNext

\* A flash command that has returned did what was asked, and a wait for a bus
\* DMA returns when none is running: for a buffer of any size.
THEOREM SfcCommandsDone ==
    ASSUME EmptyWrites = FALSE, SfcOverlap = FALSE
    PROVE  SfcSpec => []SfcSafe
<1>1. SfcInv => SfcSafe
  BY DEF SfcInv, SfcMoved, SfcSafe, FlashAsAsked, DmaWaitMeansDone, Stored, Given
<1>. QED
  BY <1>1, SfcInitInv, SfcStep, PTL DEF SfcSpec
-----------------------------------------------------------------------------
(* I2cV151: V151Inv is inductive.                                           *)

LEMMA V151InitInv == V151Init => V151Inv
<1>. SUFFICES ASSUME V151Init
              PROVE  V151Inv
  OBVIOUS
<1>1. V151TypeOK
  <2>1. \A i \in DOMAIN v151Got : v151Got[i] \in {0, 1} \X (1..V151MaxLen)
    BY NothingYet DEF V151Init
  <2>2. Len(v151Fifo) = 0 /\ Len(v151Rx) = 0
    BY NothingYet DEF V151Init
  <2>3. v151Abort \in BOOLEAN /\ v151StopDet \in BOOLEAN /\ v151Open \in BOOLEAN
        /\ v151Stuck \in BOOLEAN
    BY DEF V151Init
  <2>. QED
    BY <2>1, <2>2, <2>3, V151Assumption DEF V151Init, V151TypeOK
<1>2. V151Controller /\ V151UnderWay
  BY V151Assumption, EmptySeq DEF V151Init, V151Controller, V151UnderWay
<1>3. V151Stages /\ V151Ended
  BY DEF V151Init, V151Stages, V151Ended, NoV151Call
<1>. QED
  BY <1>1, <1>2, <1>3 DEF V151Inv

\* A call starts beside whatever an earlier one left in the controller, and
\* set_target does away with that.
LEMMA V151Starting ==
    ASSUME V151Inv, (\E call \in V151Calls : V151Begin(call)) \/ set_target
    PROVE  V151Inv'
<1>t. V151TypeOK /\ V151Controller /\ V151Ended
  BY DEF V151Inv
<1>1. CASE \E call \in V151Calls : V151Begin(call)
  <2>1. PICK call \in V151Calls : V151Begin(call)
    BY <1>1
  <2>2. V151TypeOK'
    BY <2>1, <1>t, NothingYet, V151Assumption DEF V151Begin, v151Bus, V151TypeOK
  <2>3. V151Controller'
    BY <2>1, <1>t DEF V151Begin, v151Bus, V151Controller
  <2>4. V151UnderWay' /\ V151Stages' /\ V151Ended'
    BY <2>1 DEF V151Begin, V151UnderWay, V151Stages, V151Ended
  <2>. QED  BY <2>2, <2>3, <2>4 DEF V151Inv
<1>2. CASE set_target
  <2>1. /\ v151Pc = "target" /\ v151Fifo' = <<>> /\ v151Rx' = <<>> /\ ~ v151Open'
        /\ ~ v151Abort' /\ ~ v151StopDet' /\ v151Taken' = 0 /\ v151Room' \in 0..V151Refuse
        /\ v151Open' \in BOOLEAN /\ v151Abort' \in BOOLEAN /\ v151StopDet' \in BOOLEAN
        /\ UNCHANGED <<v151Stuck, v151Call, v151Done, v151Got, v151Tag>>
    BY <1>2 DEF set_target, V151First, V151Return, V151Goto
  <2>2. /\ v151Call \in V151Calls /\ v151Result = "none"
        /\ v151Done = 0 /\ v151Got = <<>>
    BY <2>1, <1>t DEF V151Ended, V151Inv, V151Stages
  <2>3. v151Call.len \in 0..V151MaxLen /\ v151Call.op \in {"probe", "write", "read"}
    BY <2>2, V151Assumption DEF V151Calls
  <2>4. CASE v151Call = [op |-> "read", len |-> 0]
    <3>1. v151Pc' = "idle" /\ v151Result' = "ok"
      BY <1>2, <2>4 DEF set_target, V151First, V151Return
    <3>2. <<>> = [i \in 1..0 |-> <<v151Tag, i>>]
      OBVIOUS
    <3>3. V151Ended'
      BY <2>1, <2>2, <2>4, <3>1, <3>2 DEF V151Ended, V151GotUpTo
    <3>. QED
      BY <2>1, <3>1, <3>3, <1>t, EmptySeq, V151Assumption
      DEF V151Inv, V151TypeOK, V151Controller, V151UnderWay, V151Stages
  <2>5. CASE v151Call # [op |-> "read", len |-> 0]
    <3>1. /\ v151Result' = "none"
          /\ v151Pc' = CASE v151Call.op = "probe" -> "push"
                         [] v151Call.len = 0 -> "stop"
                         [] OTHER -> "room"
      BY <1>2, <2>2, <2>5 DEF set_target, V151First, V151Goto
    <3>2. /\ v151Call.op = "probe" => v151Call.len = 1
          /\ v151Call.len = 0 => v151Call.op # "read"
      BY <2>2, <2>5 DEF V151Calls
    <3>3. /\ v151Pc' \in {"push", "stop", "room"}
          /\ v151Pc' = "stop" => v151Call.op = "write" /\ v151Call.len = 0
          /\ v151Pc' \in {"push", "room"} => v151Call.len > 0
          /\ v151Pc' = "room" => v151Call.op \in {"write", "read"}
      BY <2>3, <3>1, <3>2
    <3>4. V151GotUpTo(0)'
      BY <2>1, <2>2 DEF V151GotUpTo
    <3>5. V151TypeOK' /\ V151Controller'
      BY <2>1, <3>1, <3>3, <1>t, EmptySeq, V151Assumption DEF V151TypeOK, V151Controller
    <3>6. V151UnderWay' /\ V151Ended'
      BY <2>1, <2>2, <2>3, <3>1, <3>3 DEF V151UnderWay, V151Ended
    <3>7. V151Stages'
      BY <2>1, <2>2, <2>3, <3>3, <3>4, V151Assumption DEF V151Stages
    <3>. QED  BY <3>5, <3>6, <3>7 DEF V151Inv
  <2>. QED  BY <2>4, <2>5
<1>. QED
  BY <1>1, <1>2

\* A command enters the FIFO.
LEMMA V151Pushing ==
    ASSUME V151Inv, V151Push
    PROVE  V151Inv'
<1>t. V151TypeOK /\ V151Controller /\ V151UnderWay /\ V151Stages /\ V151Ended
  BY DEF V151Inv
<1>. DEFINE c == [read |-> v151Call.op # "write", stop |-> V151Last]
<1>1. /\ v151Pc = "push" /\ v151Done' = v151Done + 1
      /\ v151Fifo' = IF v151Abort THEN v151Fifo ELSE Append(v151Fifo, c)
      /\ v151Pc' = CASE v151Call.op = "write" -> "abort?"
                     [] v151Call.op = "read" -> "byte"
                     [] OTHER -> "probe"
      /\ UNCHANGED <<v151Call, v151Result, v151Got, v151Tag, v151Rx, v151Abort,
                     v151StopDet, v151Open, v151Room, v151Stuck, v151Taken>>
  BY DEF V151Push
<1>2. /\ v151Call \in V151Calls /\ v151Call.len \in 0..V151MaxLen
      /\ v151Call.op \in {"probe", "write", "read"}
  BY <1>1, <1>t, V151Assumption DEF V151Ended, V151Calls
<1>3. v151Done \in Nat /\ v151Done < v151Call.len /\ v151Done + 1 \in 1..V151MaxLen
  BY <1>1, <1>2, <1>t, V151Assumption DEF V151Stages, V151TypeOK
<1>4. c \in V151Entries /\ (c.stop <=> v151Done + 1 = v151Call.len)
  BY DEF V151Entries, V151Last
<1>. HIDE DEF c
<1>5. /\ v151Fifo' \in Seq(V151Entries)
      /\ Len(v151Fifo') = IF v151Abort THEN Len(v151Fifo) ELSE Len(v151Fifo) + 1
      /\ \A i \in 1..Len(v151Fifo) : v151Fifo'[i] = v151Fifo[i]
      /\ ~ v151Abort => v151Fifo'[Len(v151Fifo) + 1] = c
  BY <1>1, <1>4, <1>t DEF V151Controller
<1>6. Len(v151Fifo) \in Nat /\ Len(v151Fifo) < V151Depth /\ v151Taken \in Nat
  BY <1>1, <1>t, V151Assumption DEF V151Stages, V151Controller, V151TypeOK
<1>7. /\ v151Abort => v151Fifo = <<>>
      /\ ~ v151Abort => ~ v151StopDet
      /\ \A i \in 1..Len(v151Fifo) : ~ v151Fifo[i].stop
  <2>1. v151Fifo # <<>> => ~ v151Fifo[Len(v151Fifo)].stop
    BY <1>1, <1>3, <1>t DEF V151UnderWay
  <2>2. \A i \in 1..Len(v151Fifo) : i = Len(v151Fifo) \/ i \in 1..(Len(v151Fifo) - 1)
    BY <1>6
  <2>3. v151Fifo = <<>> => Len(v151Fifo) = 0
    OBVIOUS
  <2>. QED
    BY <1>1, <1>3, <1>6, <2>1, <2>2, <2>3, <1>t DEF V151UnderWay, V151Controller
<1>8. V151TypeOK'
  BY <1>1, <1>2, <1>3, <1>5, <1>6, <1>t, V151Assumption DEF V151TypeOK
<1>9. V151Controller'
  <2>1. v151Taken + Len(v151Fifo) <= v151Done /\ v151Abort => v151Taken < v151Done
    BY <1>1, <1>t DEF V151UnderWay
  <2>2. v151Taken + Len(v151Fifo') <= v151Done + 1
    BY <1>1, <1>3, <1>5, <1>6, <1>t DEF V151UnderWay
  <2>3. \A i \in 1..(Len(v151Fifo') - 1) : ~ v151Fifo'[i].stop
    <3>1. \A i \in 1..(Len(v151Fifo') - 1) : i \in 1..Len(v151Fifo)
      BY <1>5, <1>6
    <3>. QED  BY <3>1, <1>5, <1>7
  <2>4. v151StopDet => v151Fifo' = <<>> /\ ~ v151Open
    BY <1>1, <1>7, <1>t DEF V151Controller
  <2>. QED
    BY <1>1, <1>3, <1>5, <1>6, <2>2, <2>3, <2>4, <1>t, V151Assumption DEF V151Controller
<1>10. V151UnderWay'
  <2>1. v151Taken + Len(v151Fifo') <= v151Done + 1
    BY <1>1, <1>3, <1>5, <1>6, <1>t DEF V151UnderWay
  <2>2. v151Fifo' # <<>> /\ v151Fifo'[Len(v151Fifo')].stop => v151Done + 1 = v151Call.len
    <3>1. CASE v151Abort
      BY <1>1, <1>7, <3>1
    <3>2. CASE ~ v151Abort
      BY <1>4, <1>5, <3>2
    <3>. QED  BY <3>1, <3>2
  <2>3. v151Abort => v151Taken < v151Done + 1
    BY <1>1, <1>3, <1>6, <1>t DEF V151UnderWay
  <2>. QED
    BY <1>1, <1>2, <1>3, <1>7, <2>1, <2>2, <2>3 DEF V151UnderWay
<1>11. V151Stages'
  <2>1. CASE v151Call.op = "read"
    <3>1. /\ v151Fifo = <<>> /\ v151Rx = <<>> /\ ~ v151Abort
          /\ v151Taken = v151Done /\ V151GotUpTo(v151Done)
      BY <1>1, <2>1, <1>t DEF V151Stages
    <3>2. v151Pc' = "byte" /\ (v151Done + 1) - 1 = v151Done
      BY <1>1, <1>3, <2>1
    <3>3. V151GotUpTo(v151Done - 1)'
      BY <1>1, <3>1, <3>2 DEF V151GotUpTo
    <3>4. v151Fifo' = <<[read |-> TRUE, stop |-> v151Done' = v151Call'.len]>>
      <4>1. (v151Call.op # "write") = TRUE /\ V151Last = (v151Done' = v151Call'.len)
        BY <1>1, <2>1 DEF V151Last
      <4>2. c = [read |-> TRUE, stop |-> v151Done' = v151Call'.len]
        BY <4>1 DEF c
      <4>3. v151Fifo' = Append(<<>>, c)
        BY <1>1, <3>1
      <4>4. Append(<<>>, c) = <<c>>
        OBVIOUS
      <4>. QED  BY <4>2, <4>3, <4>4
    <3>5. V151Awaited'
      BY <1>1, <3>1, <3>2, <3>4 DEF V151Awaited
    <3>. QED
      BY <1>1, <1>3, <2>1, <3>2, <3>3, <3>5 DEF V151Stages
  <2>2. CASE v151Call.op # "read"
    BY <1>1, <1>2, <2>2 DEF V151Stages
  <2>. QED  BY <2>1, <2>2
<1>12. V151Ended'
  BY <1>1, <1>2, <1>t DEF V151Ended
<1>. QED
  BY <1>8, <1>9, <1>10, <1>11, <1>12 DEF V151Inv

\* A wait ends with its bit.
LEMMA V151Seeing ==
    ASSUME V151Inv, V151Room \/ V151StopSeen \/ V151ByteSeen \/ V151Resolved
    PROVE  V151Inv'
<1>t. V151TypeOK /\ V151Controller /\ V151UnderWay /\ V151Stages /\ V151Ended
  BY DEF V151Inv
<1>u. UNCHANGED <<v151Call, v151Done, v151Got, v151Tag>> /\ UNCHANGED v151Bus
  BY DEF V151Room, V151StopSeen, V151ByteSeen, V151Resolved, V151Goto, V151Return
<1>1. V151Controller'
  BY <1>u, <1>t DEF v151Bus, V151Controller
<1>2. CASE V151Room
  BY <1>2, <1>u, <1>1, <1>t
  DEF V151Room, V151Goto, v151Bus, V151Inv, V151TypeOK, V151UnderWay, V151Stages,
      V151Ended, V151GotUpTo
<1>3. CASE V151StopSeen
  BY <1>3, <1>u, <1>1, <1>t
  DEF V151StopSeen, V151Return, v151Bus, V151Inv, V151TypeOK, V151UnderWay, V151Stages,
      V151Ended, V151Controller
<1>4. CASE V151ByteSeen
  <2>1. v151Pc = "byte" /\ v151Pc' = "take" /\ v151Result' = v151Result /\ v151Rx # <<>>
    BY <1>4 DEF V151ByteSeen, V151Goto
  <2>2. V151Arrived'
    BY <2>1, <1>u, <1>t DEF V151Stages, V151Awaited, V151Arrived, v151Bus
  <2>3. V151Stages'
    BY <2>1, <2>2, <1>u, <1>t DEF V151Stages, V151GotUpTo
  <2>. QED
    BY <2>1, <2>3, <1>u, <1>1, <1>t
    DEF v151Bus, V151Inv, V151TypeOK, V151UnderWay, V151Ended
<1>5. CASE V151Resolved
  BY <1>5, <1>u, <1>1, <1>t
  DEF V151Resolved, V151Goto, v151Bus, V151Inv, V151TypeOK, V151UnderWay, V151Stages,
      V151Ended
<1>. QED
  BY <1>2, <1>3, <1>4, <1>5

\* A refusal is reported, and the byte that was asked for is taken.
LEMMA V151Answering ==
    ASSUME V151Inv, V151CheckAbort \/ V151Take \/ V151Present \/ V151Exhausted
    PROVE  V151Inv'
<1>t. V151TypeOK /\ V151Controller /\ V151UnderWay /\ V151Stages /\ V151Ended
  BY DEF V151Inv
<1>1. CASE V151CheckAbort
  <2>1. /\ v151Pc = "abort?"
        /\ UNCHANGED <<v151Call, v151Done, v151Got, v151Tag, v151Fifo, v151Rx, v151Open,
                       v151Room, v151Stuck, v151Taken>>
    BY <1>1 DEF V151CheckAbort, V151Return, V151Goto
  <2>2. /\ v151Call \in V151Calls /\ v151Call.op = "write" /\ v151Done <= v151Call.len
        /\ v151Done \in Nat /\ v151Call.len \in 0..V151MaxLen
    BY <2>1, <1>t, V151Assumption
    DEF V151Stages, V151Ended, V151UnderWay, V151TypeOK, V151Calls
  <2>3. CASE v151Abort
    <3>1. /\ ~ v151Abort' /\ ~ v151StopDet' /\ v151Pc' = "idle" /\ v151Result' = "nack"
          /\ v151Abort' \in BOOLEAN /\ v151StopDet' \in BOOLEAN
      BY <1>1, <2>3 DEF V151CheckAbort, V151Return
    <3>2. v151Fifo = <<>> /\ v151Taken < v151Call.len
      BY <2>1, <2>2, <2>3, <1>t, V151Assumption DEF V151Controller, V151UnderWay, V151TypeOK
    <3>. QED
      BY <2>1, <2>2, <3>1, <3>2, <1>t
      DEF V151Inv, V151TypeOK, V151Controller, V151UnderWay, V151Stages, V151Ended
  <2>4. CASE ~ v151Abort
    <3>1. /\ UNCHANGED <<v151Abort, v151StopDet, v151Result>>
          /\ v151Pc' = IF v151Done = v151Call.len THEN "stop" ELSE "room"
      BY <1>1, <2>4 DEF V151CheckAbort, V151Goto
    <3>. QED
      BY <2>1, <2>2, <3>1, <1>t
      DEF V151Inv, V151TypeOK, V151Controller, V151UnderWay, V151Stages, V151Ended
  <2>. QED  BY <2>3, <2>4
<1>2. CASE V151Take
  <2>1. /\ v151Pc = "take"
        /\ UNCHANGED <<v151Call, v151Done, v151Tag, v151Fifo, v151Open,
                       v151Room, v151Stuck, v151Taken, v151Abort, v151StopDet>>
        /\ v151Got' = Append(v151Got, Head(v151Rx)) /\ v151Rx' = Tail(v151Rx)
        /\ IF v151Done = v151Call.len
           THEN v151Pc' = "idle" /\ v151Result' = "ok"
           ELSE v151Pc' = "room" /\ UNCHANGED v151Result
    BY <1>2, <1>t DEF V151Take, V151Stages, V151Arrived
  <2>2. /\ v151Call \in V151Calls /\ v151Call.op = "read" /\ v151Done \in 1..V151MaxLen
        /\ v151Call.len \in 0..V151MaxLen /\ v151Done <= v151Call.len
        /\ V151GotUpTo(v151Done - 1) /\ v151Rx = << <<v151Tag, v151Done>> >>
        /\ v151Fifo = <<>> /\ v151Taken = v151Done /\ ~ v151Abort /\ v151Result = "none"
    BY <2>1, <1>t, V151Assumption
    DEF V151Stages, V151Arrived, V151Ended, V151UnderWay, V151TypeOK, V151Calls
  <2>3. v151Rx' = <<>>
    BY <2>1, <2>2
  <2>4. v151Got' = [i \in 1..v151Done |-> <<v151Tag, i>>]
    <3>1. Head(v151Rx) = <<v151Tag, v151Done>>
      BY <2>2
    <3>. DEFINE e(i) == <<v151Tag, i>>
    <3>. HIDE DEF e
    <3>2. v151Got = [i \in 1..(v151Done - 1) |-> e(i)] /\ Head(v151Rx) = e(v151Done)
      BY <2>2, <3>1 DEF V151GotUpTo, e
    <3>3. v151Got \in Seq({e(i) : i \in 1..v151Done}) /\ Len(v151Got) = v151Done - 1
      BY <3>2, <2>2
    <3>4. v151Got' = [i \in 1..v151Done |-> e(i)]
      BY <2>1, <2>2, <3>2, <3>3
    <3>. QED  BY <3>4 DEF e
  <2>5. V151TypeOK'
    <3>1. \A i \in DOMAIN v151Got' : v151Got'[i] \in {0, 1} \X (1..V151MaxLen)
      BY <2>2, <2>4, <1>t, V151Assumption DEF V151TypeOK
    <3>2. Len(v151Rx') = 0
      BY <2>3
    <3>. QED  BY <2>1, <3>1, <3>2, <1>t, V151Assumption DEF V151TypeOK
  <2>6. V151Controller' /\ V151UnderWay'
    BY <2>1, <2>2, <2>3, <1>t, EmptySeq DEF V151Controller, V151UnderWay, V151TypeOK
  <2>7. V151GotUpTo(v151Done)'
    BY <2>1, <2>4 DEF V151GotUpTo
  <2>8. V151Stages' /\ V151Ended'
    BY <2>1, <2>2, <2>3, <2>7 DEF V151Stages, V151Ended
  <2>. QED  BY <2>5, <2>6, <2>8 DEF V151Inv
<1>3. CASE V151Present
  <2>1. /\ v151Pc = "present?" /\ v151Pc' = "idle"
        /\ v151Rx' = IF v151Abort THEN v151Rx ELSE <<>>
        /\ v151Abort' = FALSE /\ v151StopDet' = FALSE
        /\ v151Result' = IF v151Abort THEN "absent" ELSE "present"
        /\ UNCHANGED <<v151Call, v151Done, v151Got, v151Tag, v151Fifo, v151Open,
                       v151Room, v151Stuck, v151Taken>>
    BY <1>3 DEF V151Present, V151Return
  <2>2. v151Call \in V151Calls /\ v151Call.op = "probe" /\ v151Call.len = 1
    BY <2>1, <1>t DEF V151Stages, V151Ended, V151Calls
  <2>3. v151Abort => v151Taken = 0 /\ v151Fifo = <<>>
    BY <2>1, <2>2, <1>t, V151Assumption DEF V151UnderWay, V151Controller, V151TypeOK
  <2>4. V151TypeOK'
    <3>1. Len(v151Rx') <= V151MaxLen
      BY <2>1, <1>t, NothingYet, V151Assumption DEF V151TypeOK
    <3>. QED  BY <2>1, <3>1, <1>t DEF V151TypeOK
  <2>5. V151Controller'
    BY <2>1, <1>t, EmptySeq, V151Assumption DEF V151TypeOK, V151Controller
  <2>. QED
    BY <2>1, <2>2, <2>3, <2>4, <2>5 DEF V151Inv, V151UnderWay, V151Stages, V151Ended
<1>4. CASE V151Exhausted
  <2>1. /\ UNCHANGED <<v151Call, v151Done, v151Got, v151Tag>> /\ UNCHANGED v151Bus
        /\ v151Pc \in {"room", "stop", "byte", "probe"}
        /\ v151Pc = "probe" => v151Pc' = "present?" /\ v151Result' = v151Result
        /\ v151Pc # "probe" => v151Pc' = "idle" /\ v151Result' = "timeout"
    BY <1>4 DEF V151Exhausted, V151Goto, V151Return
  <2>2. v151Call \in V151Calls
    BY <2>1, <1>t DEF V151Ended
  <2>. QED
    BY <2>1, <2>2, <1>t
    DEF v151Bus, V151Inv, V151TypeOK, V151Controller, V151UnderWay, V151Stages, V151Ended
<1>. QED
  BY <1>1, <1>2, <1>3, <1>4
\* The controller works off its FIFO, or the device stops it, or lets it go on.
LEMMA V151Executing ==
    ASSUME V151Inv, V151Execute \/ V151Stick \/ V151Release
    PROVE  V151Inv'
<1>t. V151TypeOK /\ V151Controller /\ V151UnderWay /\ V151Stages /\ V151Ended
  BY DEF V151Inv
<1>u. UNCHANGED <<v151Pc, v151Call, v151Done, v151Result, v151Got, v151Tag>>
  BY DEF V151Execute, V151Stick, V151Release
<1>1. CASE V151Stick \/ V151Release
  <2>1. /\ v151Stuck' \in BOOLEAN
        /\ UNCHANGED <<v151Fifo, v151Rx, v151Abort, v151StopDet, v151Open, v151Room,
                       v151Taken>>
    BY <1>1 DEF V151Stick, V151Release
  <2>2. V151TypeOK' /\ V151Controller' /\ V151UnderWay'
    BY <2>1, <1>u, <1>t DEF V151TypeOK, V151Controller, V151UnderWay
  <2>3. V151Stages' /\ V151Ended'
    BY <2>1, <1>u, <1>t
    DEF V151Stages, V151GotUpTo, V151Arrived, V151Awaited, V151Ended
  <2>. QED  BY <2>2, <2>3 DEF V151Inv
<1>2. CASE V151Execute
  <2>. DEFINE c == Head(v151Fifo)
  <2>1. /\ v151Fifo \in Seq(V151Entries) /\ v151Fifo # <<>> /\ Len(v151Fifo) \in Nat \ {0}
        /\ c = v151Fifo[1] /\ c \in V151Entries /\ c.stop \in BOOLEAN /\ c.read \in BOOLEAN
        /\ v151Taken \in 0..V151MaxLen /\ v151Taken + 1 <= V151MaxLen
        /\ ~ v151StopDet /\ ~ v151Abort
    <3>1. v151Fifo \in Seq(V151Entries) /\ v151Fifo # <<>>
      BY <1>2, <1>t DEF V151Execute, V151Controller
    <3>2. Len(v151Fifo) \in Nat \ {0} /\ c = v151Fifo[1] /\ c \in V151Entries
      BY <3>1
    <3>. QED
      BY <3>1, <3>2, <1>t, V151Assumption DEF V151Controller, V151TypeOK, V151Entries
  <2>. HIDE DEF c
  <2>4. c.stop => Len(v151Fifo) = 1
    <3>1. Len(v151Fifo) # 1 => 1 \in 1..(Len(v151Fifo) - 1)
      <4>1. Len(v151Fifo) \in Nat \ {0}
        BY <2>1
      <4>2. \A n \in Nat \ {0} : n # 1 => 1 \in 1..(n - 1)
        OBVIOUS
      <4>. QED  BY <4>1, <4>2
    <3>. QED  BY <3>1, <2>1, <1>t DEF V151Controller
  <2>2. CASE v151Room = 0 /\ (c.read => v151Taken = 0)
    <3>1. /\ v151Abort' = TRUE /\ v151StopDet' = TRUE /\ v151Fifo' = <<>>
          /\ v151Open' = FALSE /\ UNCHANGED <<v151Rx, v151Room, v151Taken, v151Stuck>>
      BY <1>2, <2>2 DEF V151Execute, c
    <3>2. V151TypeOK' /\ V151Controller'
      <4>1. Len(v151Fifo') = 0
        BY <3>1, NothingYet
      <4>2. V151TypeOK'
        <5>1. /\ v151Abort' \in BOOLEAN /\ v151StopDet' \in BOOLEAN
              /\ v151Open' \in BOOLEAN
          BY <3>1
        <5>. QED
          BY <3>1, <4>1, <5>1, <1>u, <1>t, V151Assumption DEF V151TypeOK
      <4>. QED
        BY <2>1, <3>1, <4>1, <4>2, <1>t, EmptySeq, V151Assumption DEF V151Controller
    <3>3. V151UnderWay'
      BY <2>1, <3>1, <1>u, <1>t, EmptySeq, V151Assumption DEF V151TypeOK, V151UnderWay
    <3>4. v151Pc = "byte" => V151Awaited /\ v151Rx = <<>>
      BY <2>1, <1>t DEF V151Stages, V151Arrived, V151Awaited
    <3>5. v151Pc = "byte" => V151Awaited'
      BY <3>1, <3>4, <1>u DEF V151Awaited
    <3>6. v151Pc # "take" /\ ~ (v151Call.op = "read" /\ v151Pc \in {"room", "push"})
      BY <2>1, <1>t DEF V151Stages, V151Arrived
    <3>7. v151Pc = "push" => Len(v151Fifo') < V151Depth
      BY <3>1, EmptySeq, V151Assumption
    <3>8. V151Stages'
      BY <3>5, <3>6, <3>7, <1>u, <1>t DEF V151Stages, V151GotUpTo
    <3>9. V151Ended'
      BY <2>1, <3>1, <1>u, <1>t DEF V151Ended, V151GotUpTo
    <3>. QED  BY <3>2, <3>3, <3>8, <3>9 DEF V151Inv
  <2>3. CASE ~ (v151Room = 0 /\ (c.read => v151Taken = 0))
    <3>1. /\ v151Fifo' = Tail(v151Fifo)
          /\ v151Room' = IF v151Room = 0 THEN 0 ELSE v151Room - 1
          /\ v151Taken' = v151Taken + 1
          /\ v151Rx' = IF c.read THEN Append(v151Rx, <<v151Tag, v151Taken + 1>>)
                       ELSE v151Rx
          /\ v151Open' = ~ c.stop
          /\ v151StopDet' = (v151StopDet \/ c.stop)
          /\ UNCHANGED <<v151Abort, v151Stuck>>
      BY <1>2, <2>3 DEF V151Execute, c
    <3>2. /\ v151Fifo' \in Seq(V151Entries) /\ Len(v151Fifo') = Len(v151Fifo) - 1
          /\ \A i \in 1..Len(v151Fifo') : v151Fifo'[i] = v151Fifo[i + 1]
      BY <2>1, <3>1
    <3>3. c.stop => v151Fifo' = <<>>
      <4>1. c.stop => Len(v151Fifo) = 1
        BY <2>4, <2>1
      <4>. QED  BY <4>1, <2>1, <3>2, EmptySeq
    <3>4. /\ v151Rx' \in Seq({0, 1} \X (1..V151MaxLen))
          /\ Len(v151Rx') <= v151Taken + 1 /\ Len(v151Rx') \in Nat
      <4>1. v151Rx \in Seq({0, 1} \X (1..V151MaxLen)) /\ Len(v151Rx) <= v151Taken
        BY <1>t DEF V151Controller
      <4>2. <<v151Tag, v151Taken + 1>> \in {0, 1} \X (1..V151MaxLen)
        BY <2>1, <1>t, V151Assumption DEF V151TypeOK
      <4>3. CASE c.read
        BY <2>1, <3>1, <4>1, <4>2, <4>3
      <4>4. CASE ~ c.read
        BY <2>1, <3>1, <4>1, <4>4
      <4>. QED  BY <4>3, <4>4
    <3>5. V151TypeOK'
      BY <2>1, <3>1, <3>2, <3>4, <1>u, <1>t, V151Assumption DEF V151TypeOK
    <3>6. V151Controller'
      <4>1. \A i \in 1..(Len(v151Fifo') - 1) : ~ v151Fifo'[i].stop
        <5>1. \A i \in 1..(Len(v151Fifo') - 1) :
                 i \in 1..Len(v151Fifo') /\ i + 1 \in 1..(Len(v151Fifo) - 1)
          BY <2>1, <3>2
        <5>. QED  BY <5>1, <3>2, <1>t DEF V151Controller
      <4>2. v151Taken' + Len(v151Fifo') <= V151MaxLen
        BY <2>1, <3>1, <3>2, <1>t, V151Assumption DEF V151Controller
      <4>. QED
        BY <2>1, <3>1, <3>2, <3>3, <3>4, <4>1, <4>2 DEF V151Controller
    <3>7. V151UnderWay'
      <4>. SUFFICES ASSUME v151Pc \notin {"idle", "target"}
                    PROVE  V151UnderWay'
        BY <1>u DEF V151UnderWay
      <4>1. v151Taken' + Len(v151Fifo') <= v151Done
        BY <2>1, <3>1, <3>2, <1>t DEF V151UnderWay, V151TypeOK
      <4>2. c.stop => v151Done = v151Call.len
        <5>1. c.stop => Len(v151Fifo) = 1
          BY <2>4, <2>1
        <5>. QED  BY <5>1, <2>1, <1>t DEF V151UnderWay
      <4>3. v151Fifo' # <<>> /\ v151Fifo'[Len(v151Fifo')].stop => v151Done = v151Call.len
        <5>1. v151Fifo' # <<>> => Len(v151Fifo') \in 1..Len(v151Fifo')
                                  /\ Len(v151Fifo') + 1 = Len(v151Fifo)
          BY <2>1, <3>2, EmptySeq
        <5>. QED  BY <5>1, <2>1, <3>2, <1>t DEF V151UnderWay
      <4>. QED
        BY <2>1, <3>1, <4>1, <4>2, <4>3, <1>u, <1>t DEF V151UnderWay
    <3>8. v151Pc = "byte" => V151Arrived'
      <4>. SUFFICES ASSUME v151Pc = "byte"
                    PROVE  V151Arrived'
        OBVIOUS
      <4>1. /\ v151Rx = <<>> /\ v151Taken = v151Done - 1
            /\ v151Fifo = <<[read |-> TRUE, stop |-> v151Done = v151Call.len]>>
        BY <2>1, <1>t DEF V151Stages, V151Arrived, V151Awaited
      <4>2. c.read /\ v151Fifo' = <<>>
        BY <2>1, <3>1, <4>1
      <4>3. v151Done \in Nat /\ v151Taken + 1 = v151Done
        BY <4>1, <1>t, V151Assumption DEF V151TypeOK
      <4>4. v151Rx' = << <<v151Tag, v151Done>> >>
        BY <3>1, <4>1, <4>2, <4>3
      <4>. QED  BY <2>1, <3>1, <4>2, <4>3, <4>4, <1>u DEF V151Arrived
    <3>9. v151Pc # "take" /\ ~ (v151Call.op = "read" /\ v151Pc \in {"room", "push"})
      BY <2>1, <1>t DEF V151Stages, V151Arrived
    <3>10. v151Pc = "push" => Len(v151Fifo') < V151Depth
      BY <2>1, <3>2, <1>t, V151Assumption DEF V151Stages
    <3>11. V151Stages'
      BY <3>8, <3>9, <3>10, <1>u, <1>t DEF V151Stages, V151GotUpTo
    <3>12. V151Ended'
      BY <2>1, <3>1, <1>u, <1>t DEF V151Ended, V151GotUpTo
    <3>. QED  BY <3>5, <3>6, <3>7, <3>11, <3>12 DEF V151Inv
  <2>. QED  BY <2>2, <2>3
<1>. QED
  BY <1>1, <1>2

LEMMA V151Step == V151Inv /\ [V151Next]_v151Vars => V151Inv'
<1>1. V151Inv /\ UNCHANGED v151Vars => V151Inv'
  BY DEF v151Vars, V151Inv, V151TypeOK, V151Controller, V151UnderWay, V151Stages,
     V151GotUpTo, V151Arrived, V151Awaited, V151Ended
<1>. QED
  BY <1>1, V151Starting, V151Pushing, V151Seeing, V151Answering, V151Executing
  DEF V151Next, V151Driver

\* What a result of the BS2X master says is true of the call that returned it and
\* not of an earlier one, whatever devices refuse or hold the bus, for transfers and
\* FIFOs of any length.
THEOREM V151ResultsOwn == V151Spec => []V151Safe
<1>1. V151Inv => V151Safe
  BY DEF V151Inv, V151Ended, V151Safe, V151Fresh, V151WriteEnded, V151GotUpTo
<1>. QED
  BY <1>1, V151InitInv, V151Step, PTL DEF V151Spec
-----------------------------------------------------------------------------
(* Watchdog: WdtInv is inductive.                                           *)

\* A quotient falls short by less than the divisor.
LEMMA QuotientCovers ==
    ASSUME NEW a \in Nat, NEW b \in Nat \ {0}
    PROVE  a \div b \in Nat /\ (a \div b) * b >= a - (b - 1)
BY SMTT(30)

\* A greater load counts for longer.
LEMMA LongerTakesMore ==
    ASSUME NEW a \in Nat, NEW b \in Nat, NEW c \in Nat, a <= b
    PROVE  a * c <= b * c
BY SMTT(30)

\* The reload value of a timeout that fits covers it, up to the resolution of
\* the load.
LEMMA LoadCovers ==
    ASSUME NEW ms \in Nat, ms # 0 => from_ms(ms)
    PROVE  /\ load_field(ms) \in 0..WDT_MAX_LOAD
           /\ load_field(ms) * WdtReserve >= ms * WdtTicksPerMs - (WdtReserve - 1)
<1>. DEFINE a == ms * WdtTicksPerMs
            q == a \div WdtReserve
<1>1. a \in Nat /\ (ms = 0 => a = 0)
  BY WdtAssumption
<1>2. q \in Nat /\ q * WdtReserve >= a - (WdtReserve - 1)
  BY <1>1, QuotientCovers, WdtAssumption
<1>3. q <= WDT_MAX_LOAD
  <2>1. CASE ms # 0
    BY <2>1 DEF from_ms
  <2>2. CASE ms = 0
    BY <2>2, <1>1, WdtAssumption
  <2>. QED  BY <2>1, <2>2
<1>4. load_field(ms) = q % (WDT_MAX_LOAD + 1)
  BY DEF load_field
<1>. HIDE DEF q, a
<1>5. q % (WDT_MAX_LOAD + 1) = q
  BY <1>2, <1>3, WdtAssumption
<1>. QED
  BY <1>2, <1>3, <1>4, <1>5, WdtAssumption DEF a

\* The fields of a register access.
LEMMA AccessFields ==
    \A a \in WdtAccesses :
        /\ a.reg \in {"unlock", "lock", "cr", "load", "latch", "poll", "restart", "eoi",
                      "drop"}
        /\ a.reg = "cr" => a.cr \in WdtControls
        /\ a.reg = "load" => a.load \in 0..WDT_MAX_LOAD
BY DEF WdtAccesses, Touch, WriteCr, WriteLoad

LEMMA AccessKinds ==
    /\ \A reg \in {"unlock", "lock", "latch", "poll", "restart", "eoi", "drop"} :
          Touch(reg) \in WdtAccesses /\ Touch(reg).reg = reg
    /\ \A cr \in WdtControls :
          WriteCr(cr) \in WdtAccesses /\ WriteCr(cr).reg = "cr" /\ WriteCr(cr).cr = cr
    /\ \A load \in 0..WDT_MAX_LOAD :
          /\ WriteLoad(load) \in WdtAccesses /\ WriteLoad(load).reg = "load"
          /\ WriteLoad(load).load = load
BY DEF WdtAccesses, Touch, WriteCr, WriteLoad

LEMMA WdtInitInv == WdtInit => WdtInv
<1>. SUFFICES ASSUME WdtInit
              PROVE  WdtInv
  OBVIOUS
<1>1. Len(wdtTodo) = 0 /\ DOMAIN wdtTodo = {} /\ wdtTodo \in Seq(WdtAccesses)
  BY NothingYet, EmptySeq DEF WdtInit
<1>2. WdtReset \in WdtControls /\ wdtLocked = TRUE /\ wdtBit = FALSE
  BY DEF WdtInit, WdtReset, WdtControls
<1>3. WdtBound \in Nat /\ 0 * WdtReserve = 0 /\ WDT_MAX_LOAD * WdtReserve \in Nat
  BY WdtAssumption DEF WdtBound
<1>4. WdtTypeOK
  <2>1. wdtLocked \in BOOLEAN /\ wdtWedged \in BOOLEAN /\ wdtBit \in BOOLEAN
    BY DEF WdtInit
  <2>2. 0 \in 0..WdtBound /\ 0 \in 0..(WDT_MAX_LOAD * WdtReserve) /\ 0 \in 0..WDT_MAX_LOAD
    BY <1>3, WdtAssumption
  <2>. QED  BY <1>1, <1>2, <2>1, <2>2 DEF WdtInit, WdtTypeOK
<1>5. WdtBracketed
  BY <1>1, <1>2 DEF WdtInit, WdtBracketed, WdtDue
<1>6. load_field(0) = 0
  BY WdtAssumption DEF load_field
<1>7. WdtPromised
  BY <1>1, <1>6 DEF WdtInit, WdtPromised, WdtDue
<1>8. WdtTimed
  BY <1>2, <1>3 DEF WdtInit, WdtTimed, WdtCounted
<1>. QED
  BY <1>4, <1>5, <1>7, <1>8 DEF WdtInv

\* A call that has bracketed its accesses, and whose writes are what is asked for.
LEMMA WdtBeginning ==
    ASSUME WdtInv, WdtBracketed', WdtPromised',
           UNCHANGED <<wdtLocked, wdtHardware, wdtWedged, wdtBit>>,
           wdtResult' = "none", wdtAsked' \in WdtControls,
           wdtMs' \in WdtInputs \cup {0},
           wdtOwner' \in {"none", "new", "scoped", "armed"}
    PROVE  WdtInv'
<1>t. WdtTypeOK /\ WdtTimed
  BY DEF WdtInv
<1>1. \A i \in DOMAIN wdtTodo' : wdtTodo'[i] \in WdtAccesses
  BY DEF WdtBracketed
<1>2. WdtTypeOK'
  BY <1>1, <1>t, AccessFields DEF WdtTypeOK, wdtHardware
<1>3. WdtTimed'
  BY <1>t DEF WdtTimed, WdtCounted, wdtHardware
<1>. QED
  BY <1>2, <1>3 DEF WdtInv

\* Between calls nothing is due.
LEMMA WdtBetween ==
    ASSUME WdtInv, wdtTodo = <<>>
    PROVE  /\ wdtCr = wdtAsked /\ wdtLoad = load_field(wdtMs)
           /\ wdtOwner \in {"none", "scoped"} => wdtLocked
           /\ wdtAsked \in WdtControls /\ wdtMs \in WdtInputs \cup {0}
           /\ wdtMs # 0 => wdtMs \in WdtInputs /\ from_ms(wdtMs)
<1>1. Len(wdtTodo) = 0
  BY NothingYet
<1>. QED
  BY <1>1 DEF WdtInv, WdtBracketed, WdtPromised, WdtTypeOK, WdtDue

LEMMA WdtTakes ==
    ASSUME WdtInv, WdtNew
    PROVE  WdtInv'
<1>t. wdtCr = wdtAsked /\ wdtLoad = load_field(wdtMs)
      /\ wdtAsked \in WdtControls /\ wdtMs \in WdtInputs \cup {0}
      /\ (wdtMs # 0 => wdtMs \in WdtInputs /\ from_ms(wdtMs))
  BY WdtBetween DEF WdtNew
<1>1. /\ wdtOwner' = "new" /\ wdtTodo' = <<Touch("unlock")>>
      /\ wdtResult' = "none"
      /\ UNCHANGED <<wdtLocked, wdtHardware, wdtWedged, wdtBit, wdtAsked, wdtMs>>
  BY DEF WdtNew
<1>2. /\ wdtTodo' \in Seq(WdtAccesses) /\ Len(wdtTodo') = 1
      /\ \A i \in 1..Len(wdtTodo') : i = 1 /\ wdtTodo'[i].reg = "unlock"
  BY <1>1, AccessKinds
<1>3. WdtBracketed'
  BY <1>1, <1>2 DEF WdtBracketed
<1>4. WdtPromised'
  BY <1>1, <1>2, <1>t DEF WdtPromised, wdtHardware
<1>. QED
  BY <1>1, <1>3, <1>4, <1>t, WdtBeginning


\* What Locked puts around the accesses of a call.
LEMMA LockedIs ==
    ASSUME NEW accesses \in Seq(WdtAccesses)
    PROVE  /\ Locked(accesses) \in Seq(WdtAccesses)
           /\ Len(Locked(accesses)) = Len(accesses) + 2
           /\ Locked(accesses)[1] = Touch("unlock")
           /\ \A i \in 1..Len(accesses) : Locked(accesses)[i + 1] = accesses[i]
           /\ Locked(accesses)[Len(accesses) + 2] = Touch("lock")
<1>1. Touch("unlock") \in WdtAccesses /\ Touch("lock") \in WdtAccesses
  BY AccessKinds
<1>2. PICK k \in Seq(WdtAccesses) :
         /\ k = <<Touch("unlock")>> \o accesses /\ Len(k) = Len(accesses) + 1
         /\ k[1] = Touch("unlock")
         /\ \A i \in 1..Len(accesses) : k[i + 1] = accesses[i]
  <2>. DEFINE k == <<Touch("unlock")>> \o accesses
  <2>1. /\ k \in Seq(WdtAccesses) /\ Len(k) = Len(accesses) + 1 /\ k[1] = Touch("unlock")
        /\ \A i \in 1..Len(accesses) : k[i + 1] = accesses[i]
    BY <1>1, OneBefore
  <2>. QED  BY <2>1
<1>3. Locked(accesses) = Append(k, Touch("lock"))
  BY <1>2 DEF Locked
<1>4. Len(accesses) \in Nat /\ (Len(accesses) + 1) + 1 = Len(accesses) + 2
  OBVIOUS
<1>. QED
  BY <1>1, <1>2, <1>3, <1>4

\* A call that writes takes the lock off, and puts it on again afterwards.
LEMMA WdtLocking ==
    ASSUME WdtInv, wdtTodo = <<>>, UNCHANGED wdtLocked, wdtOwner' = "scoped",
           wdtTodo' \in Seq(WdtAccesses), NEW n \in 2..Len(wdtTodo'),
           wdtTodo'[1].reg = "unlock", wdtTodo'[n].reg = "lock",
           \A i \in 2..Len(wdtTodo') :
              /\ wdtTodo'[i].reg # "unlock"
              /\ wdtTodo'[i].reg \in {"cr", "load", "lock"} => i <= n
              /\ wdtTodo'[i].reg = "lock" => i = n
              /\ wdtTodo'[i].reg = "drop" => i = Len(wdtTodo')
    PROVE  WdtBracketed'
<1>1. WdtDue("lock")'
  BY DEF WdtDue
<1>2. ASSUME NEW i \in 1..Len(wdtTodo')
      PROVE  /\ wdtTodo'[i].reg = "unlock" => i = 1
             /\ wdtTodo'[i].reg \in {"cr", "load"} =>
                  /\ i # 1
                  /\ \A j \in 1..i : wdtTodo'[j].reg # "lock"
             /\ wdtTodo'[i].reg = "drop" => i = Len(wdtTodo')
  <2>1. i = 1 \/ i \in 2..Len(wdtTodo')
    OBVIOUS
  <2>2. ASSUME wdtTodo'[i].reg \in {"cr", "load"}, NEW j \in 1..i
        PROVE  wdtTodo'[j].reg # "lock"
    <3>1. i \in 2..Len(wdtTodo') /\ i <= n /\ i # n
      BY <2>1, <2>2
    <3>2. j = 1 \/ j \in 2..Len(wdtTodo')
      BY <3>1
    <3>. QED  BY <3>1, <3>2
  <2>. QED  BY <2>1, <2>2
<1>. QED
  BY <1>1, <1>2 DEF WdtBracketed

\* The calls that write the control register, or restart the counter.
LEMMA WdtWrites ==
    ASSUME WdtInv, WdtModify \/ feed \/ WdtDrop
    PROVE  WdtInv'
<1>t. /\ wdtTodo = <<>> /\ wdtOwner \in {"new", "scoped"} /\ wdtResult' = "none"
      /\ UNCHANGED <<wdtLocked, wdtHardware, wdtWedged, wdtBit, wdtMs>>
  BY DEF WdtModify, feed, WdtDrop, WdtCall
<1>b. /\ wdtCr = wdtAsked /\ wdtLoad = load_field(wdtMs)
      /\ wdtAsked \in WdtControls /\ wdtMs \in WdtInputs \cup {0}
      /\ wdtMs # 0 => wdtMs \in WdtInputs /\ from_ms(wdtMs)
  BY <1>t, WdtBetween
\* One access between the brackets, and perhaps the end of the handle.
<1>1. ASSUME NEW a \in WdtAccesses, a.reg \in {"cr", "restart"},
             a.reg = "cr" => a.cr = wdtAsked',
             a.reg # "cr" => wdtAsked' = wdtAsked,
             wdtAsked' \in WdtControls,
             \/ wdtTodo' = Locked(<<a>>)
             \/ wdtTodo' = Append(Locked(<<a>>), Touch("drop")),
             wdtOwner' = "scoped"
      PROVE  WdtInv'
  <2>1. /\ Locked(<<a>>) \in Seq(WdtAccesses) /\ Len(Locked(<<a>>)) = 3
        /\ Locked(<<a>>)[1] = Touch("unlock") /\ Locked(<<a>>)[2] = a
        /\ Locked(<<a>>)[3] = Touch("lock")
    <3>1. <<a>> \in Seq(WdtAccesses) /\ Len(<<a>>) = 1 /\ <<a>>[1] = a
      OBVIOUS
    <3>2. 1 + 2 = 3 /\ 1 + 1 = 2 /\ 1 \in 1..1
      OBVIOUS
    <3>. QED  BY <3>1, <3>2, LockedIs
  <2>2. /\ wdtTodo' \in Seq(WdtAccesses) /\ Len(wdtTodo') \in {3, 4}
        /\ wdtTodo'[1].reg = "unlock" /\ wdtTodo'[2] = a /\ wdtTodo'[3].reg = "lock"
        /\ Len(wdtTodo') = 4 => wdtTodo'[4].reg = "drop"
    <3>1. CASE wdtTodo' = Locked(<<a>>)
      BY <2>1, <3>1, AccessKinds
    <3>2. CASE wdtTodo' = Append(Locked(<<a>>), Touch("drop"))
      <4>1. PICK k \in Seq(WdtAccesses) : k = Locked(<<a>>)
        BY <2>1
      <4>2. wdtTodo' = Append(k, Touch("drop")) /\ Len(k) = 3 /\ k[1] = Touch("unlock")
            /\ k[2] = a /\ k[3] = Touch("lock")
        BY <2>1, <3>2, <4>1
      <4>3. /\ wdtTodo' \in Seq(WdtAccesses) /\ Len(wdtTodo') = 4
            /\ wdtTodo'[1] = Touch("unlock") /\ wdtTodo'[2] = a
            /\ wdtTodo'[3] = Touch("lock") /\ wdtTodo'[4] = Touch("drop")
        <5>1. Touch("drop") \in WdtAccesses /\ 3 + 1 = 4
              /\ 1 \in 1..3 /\ 2 \in 1..3 /\ 3 \in 1..3
          BY AccessKinds
        <5>2. /\ wdtTodo' \in Seq(WdtAccesses) /\ Len(wdtTodo') = Len(k) + 1
              /\ \A i \in 1..Len(k) : wdtTodo'[i] = k[i]
              /\ wdtTodo'[Len(k) + 1] = Touch("drop")
          <6>1. /\ Append(k, Touch("drop")) \in Seq(WdtAccesses)
                /\ Len(Append(k, Touch("drop"))) = Len(k) + 1
                /\ \A i \in 1..Len(k) : Append(k, Touch("drop"))[i] = k[i]
                /\ Append(k, Touch("drop"))[Len(k) + 1] = Touch("drop")
            BY <5>1, OneAfter
          <6>. QED  BY <4>2, <6>1
        <5>. QED  BY <4>2, <5>1, <5>2
      <4>. QED  BY <4>3, AccessKinds
    <3>. QED  BY <1>1, <3>1, <3>2
  <2>n. \A n \in {3, 4} :
           /\ \A i \in 1..n : i \in {1, 2, 3} \/ (i = 4 /\ n = 4)
           /\ \A i \in 2..n : i \in {2, 3} \/ (i = 4 /\ n = 4)
    OBVIOUS
  <2>3. \A i \in 1..Len(wdtTodo') : i \in {1, 2, 3} \/ (i = 4 /\ Len(wdtTodo') = 4)
    BY <2>2, <2>n
  <2>4. WdtBracketed'
    <3>1. 3 \in 2..Len(wdtTodo')
      BY <2>2
    <3>2. \A i \in 2..Len(wdtTodo') : i \in {2, 3} \/ (i = 4 /\ Len(wdtTodo') = 4)
      BY <2>2, <2>n
    <3>3. \A i \in 2..Len(wdtTodo') :
              /\ wdtTodo'[i].reg # "unlock"
              /\ wdtTodo'[i].reg \in {"cr", "load", "lock"} => i <= 3
              /\ wdtTodo'[i].reg = "lock" => i = 3
              /\ wdtTodo'[i].reg = "drop" => i = Len(wdtTodo')
      BY <1>1, <2>2, <3>2
    <3>. QED  BY <1>1, <1>t, <2>2, <3>1, <3>3, WdtLocking
  <2>5. WdtPromised'
    <3>1. \A i \in 1..Len(wdtTodo') :
             /\ wdtTodo'[i].reg = "cr" => wdtTodo'[i].cr = wdtAsked'
             /\ wdtTodo'[i].reg # "load"
      BY <1>1, <2>2, <2>3
    <3>2. a.reg = "cr" => WdtDue("cr")'
      BY <2>2 DEF WdtDue
    <3>. QED  BY <1>1, <1>t, <1>b, <3>1, <3>2 DEF WdtPromised, wdtHardware
  <2>. QED  BY <1>1, <1>t, <1>b, <2>4, <2>5, WdtBeginning
<1>l. ASSUME NEW s \in Seq(WdtAccesses), NEW i \in 1..Len(s), s[i] = Touch("lock")
      PROVE  Touch("lock") \in Range(s)
  BY <1>l DEF Range
<1>k. ASSUME NEW a \in WdtAccesses
      PROVE  /\ Touch("lock") \in Range(Locked(<<a>>))
             /\ Touch("lock") \in Range(Append(Locked(<<a>>), Touch("drop")))
  <2>1. PICK k \in Seq(WdtAccesses) :
           k = Locked(<<a>>) /\ Len(k) = 3 /\ k[3] = Touch("lock")
    <3>1. <<a>> \in Seq(WdtAccesses) /\ Len(<<a>>) = 1
      OBVIOUS
    <3>2. 1 + 2 = 3
      OBVIOUS
    <3>. QED  BY <3>1, <3>2, LockedIs
  <2>2. PICK kd \in Seq(WdtAccesses) :
           kd = Append(k, Touch("drop")) /\ Len(kd) = 4 /\ kd[3] = k[3]
    <3>. DEFINE kd == Append(k, Touch("drop"))
    <3>1. Touch("drop") \in WdtAccesses /\ 3 + 1 = 4 /\ 3 \in 1..3
      BY AccessKinds
    <3>2. /\ kd \in Seq(WdtAccesses) /\ Len(kd) = Len(k) + 1
          /\ \A i \in 1..Len(k) : kd[i] = k[i]
      BY <3>1, OneAfter
    <3>. QED  BY <2>1, <3>1, <3>2
  <2>3. 3 \in 1..Len(k) /\ 3 \in 1..Len(kd)
    BY <2>1, <2>2
  <2>4. Touch("lock") \in Range(k) /\ Touch("lock") \in Range(kd)
    BY <2>1, <2>2, <2>3, <1>l
  <2>. QED  BY <2>1, <2>2, <2>4
<1>2. CASE WdtModify
  <2>1. PICK f \in {"en", "imsk"}, b \in BOOLEAN :
            WdtCall(Locked(<<WriteCr([wdtCr EXCEPT ![f] = b])>>),
                    [wdtAsked EXCEPT ![f] = b], wdtMs)
    BY <1>2 DEF WdtModify
  <2>2. PICK cr \in WdtControls : cr = [wdtAsked EXCEPT ![f] = b]
    BY <1>b DEF WdtControls
  <2>3. /\ wdtAsked' = cr /\ wdtTodo' = Locked(<<WriteCr(cr)>>)
        /\ wdtOwner' = IF Touch("lock") \in Range(Locked(<<WriteCr(cr)>>)) THEN "scoped"
                       ELSE wdtOwner
    BY <2>1, <2>2, <1>b DEF WdtCall
  <2>. QED  BY <2>3, <1>1, <1>k, AccessKinds
<1>3. CASE feed
  <2>1. /\ wdtAsked' = wdtAsked /\ wdtTodo' = Locked(<<Touch("restart")>>)
        /\ wdtOwner' = IF Touch("lock") \in Range(Locked(<<Touch("restart")>>))
                       THEN "scoped" ELSE wdtOwner
    BY <1>3 DEF feed, WdtCall
  <2>. QED  BY <2>1, <1>1, <1>k, <1>b, AccessKinds
<1>4. CASE WdtDrop
  <2>1. PICK cr \in WdtControls : cr = [wdtAsked EXCEPT !.en = FALSE]
    BY <1>b DEF WdtControls
  <2>2. /\ wdtAsked' = cr /\ wdtTodo' = Append(Locked(<<WriteCr(cr)>>), Touch("drop"))
        /\ wdtOwner' = IF Touch("lock")
                            \in Range(Append(Locked(<<WriteCr(cr)>>), Touch("drop")))
                       THEN "scoped" ELSE wdtOwner
    BY <1>4, <2>1, <1>b DEF WdtDrop, WdtCall
  <2>. QED  BY <2>2, <1>1, <1>k, AccessKinds
<1>. QED
  BY <1>2, <1>3, <1>4
\* configure asks for a load and a control value, and brackets both.
LEMMA WdtConfiguring ==
    ASSUME WdtInv, configure
    PROVE  WdtInv'
<1>1. PICK ms \in {t \in WdtInputs : from_ms(t)}, rst \in BOOLEAN, double \in BOOLEAN :
         LET cr == [en |-> TRUE, rst |-> rst, imsk |-> TRUE, double |-> double]
         IN  WdtCall(ConfigureAccesses(ms, cr), cr, ms)
  BY DEF configure
<1>2. PICK cr \in WdtControls :
         cr = [en |-> TRUE, rst |-> rst, imsk |-> TRUE, double |-> double]
  BY DEF WdtControls
<1>3. WdtCall(ConfigureAccesses(ms, cr), cr, ms)
  BY <1>1, <1>2
<1>4. PICK load \in 0..WDT_MAX_LOAD : load = load_field(ms)
  BY LoadCovers, WdtAssumption
<1>. DEFINE body == <<WriteLoad(load), WriteCr(cr), Touch("latch"), Touch("poll")>>
<1>5. /\ body \in Seq(WdtAccesses) /\ Len(body) = 4
      /\ body[1] = WriteLoad(load) /\ body[2] = WriteCr(cr)
      /\ body[3] = Touch("latch") /\ body[4] = Touch("poll")
  <2>1. /\ WriteLoad(load) \in WdtAccesses /\ WriteCr(cr) \in WdtAccesses
        /\ Touch("latch") \in WdtAccesses /\ Touch("poll") \in WdtAccesses
    BY AccessKinds
  <2>. QED  BY <2>1
<1>6. ConfigureAccesses(ms, cr) = Locked(body)
  BY <1>4 DEF ConfigureAccesses
<1>. HIDE DEF body
<1>7. 4 + 2 = 6 /\ 1 + 1 = 2 /\ 2 + 1 = 3 /\ 3 + 1 = 4 /\ 4 + 1 = 5
      /\ 1 \in 1..4 /\ 2 \in 1..4 /\ 3 \in 1..4 /\ 4 \in 1..4
  OBVIOUS
<1>8. PICK k \in Seq(WdtAccesses) :
         /\ k = Locked(body) /\ Len(k) = 6 /\ k[1] = Touch("unlock")
         /\ k[2] = WriteLoad(load) /\ k[3] = WriteCr(cr)
         /\ k[4] = Touch("latch") /\ k[5] = Touch("poll") /\ k[6] = Touch("lock")
  <2>1. /\ Locked(body) \in Seq(WdtAccesses)
        /\ Len(Locked(body)) = Len(body) + 2
        /\ Locked(body)[1] = Touch("unlock")
        /\ \A i \in 1..Len(body) : Locked(body)[i + 1] = body[i]
        /\ Locked(body)[Len(body) + 2] = Touch("lock")
    BY <1>5, LockedIs
  <2>. QED  BY <1>5, <1>7, <2>1
<1>9. Touch("lock") \in Range(k)
  <2>1. 6 \in 1..Len(k)
    BY <1>8
  <2>. QED  BY <1>8, <2>1 DEF Range
<1>10. /\ wdtTodo = <<>> /\ wdtOwner' = "scoped" /\ wdtTodo' = k
       /\ wdtAsked' = cr /\ wdtMs' = ms /\ wdtResult' = "none"
       /\ UNCHANGED <<wdtLocked, wdtHardware, wdtWedged, wdtBit>>
  BY <1>3, <1>6, <1>8, <1>9 DEF WdtCall
<1>11. /\ wdtTodo' \in Seq(WdtAccesses) /\ Len(wdtTodo') = 6
       /\ wdtTodo'[1].reg = "unlock"
       /\ wdtTodo'[2].reg = "load" /\ wdtTodo'[2].load = load
       /\ wdtTodo'[3].reg = "cr" /\ wdtTodo'[3].cr = cr
       /\ wdtTodo'[4].reg = "latch" /\ wdtTodo'[5].reg = "poll"
       /\ wdtTodo'[6].reg = "lock"
  BY <1>8, <1>10, AccessKinds
<1>12. /\ \A i \in 1..Len(wdtTodo') : i \in {1, 2, 3, 4, 5, 6}
       /\ \A i \in 2..Len(wdtTodo') : i \in {2, 3, 4, 5, 6}
       /\ 2 \in 1..Len(wdtTodo') /\ 3 \in 1..Len(wdtTodo') /\ 6 \in 2..Len(wdtTodo')
  <2>1. /\ \A i \in 1..6 : i \in {1, 2, 3, 4, 5, 6}
        /\ \A i \in 2..6 : i \in {2, 3, 4, 5, 6}
        /\ 2 \in 1..6 /\ 3 \in 1..6 /\ 6 \in 2..6
    OBVIOUS
  <2>. QED  BY <1>11, <2>1
<1>13. WdtBracketed'
  <2>1. \A i \in 2..Len(wdtTodo') :
              /\ wdtTodo'[i].reg # "unlock"
              /\ wdtTodo'[i].reg \in {"cr", "load", "lock"} => i <= 6
              /\ wdtTodo'[i].reg = "lock" => i = 6
              /\ wdtTodo'[i].reg = "drop" => i = Len(wdtTodo')
    BY <1>11, <1>12
  <2>. QED  BY <1>10, <1>11, <1>12, <2>1, WdtLocking
<1>14. WdtPromised'
  <2>1. WdtDue("cr")' /\ WdtDue("load")'
    BY <1>11, <1>12 DEF WdtDue
  <2>2. \A i \in 1..Len(wdtTodo') :
           /\ wdtTodo'[i].reg = "cr" => wdtTodo'[i].cr = wdtAsked'
           /\ wdtTodo'[i].reg = "load" => wdtTodo'[i].load = load_field(ms)
    BY <1>4, <1>10, <1>11, <1>12
  <2>. QED  BY <1>10, <2>1, <2>2 DEF WdtPromised
<1>. QED
  BY <1>10, <1>13, <1>14, WdtBeginning

\* The calls that do not write need no unlocking.
LEMMA WdtReads ==
    ASSUME WdtInv, counter_value \/ clear_interrupt \/ into_armed
    PROVE  WdtInv'
<1>b. /\ wdtCr = wdtAsked /\ wdtLoad = load_field(wdtMs)
      /\ wdtOwner \in {"none", "scoped"} => wdtLocked
      /\ wdtAsked \in WdtControls /\ wdtMs \in WdtInputs \cup {0}
      /\ wdtMs # 0 => wdtMs \in WdtInputs /\ from_ms(wdtMs)
  BY WdtBetween DEF counter_value, clear_interrupt, into_armed, WdtCall
<1>1. CASE counter_value \/ clear_interrupt
  <2>. DEFINE two == <<Touch("latch"), Touch("poll")>>
              one == <<Touch("eoi")>>
  <2>1. /\ two \in Seq(WdtAccesses) /\ Len(two) = 2
        /\ two[1].reg = "latch" /\ two[2].reg = "poll"
        /\ one \in Seq(WdtAccesses) /\ Len(one) = 1 /\ one[1].reg = "eoi"
        /\ Touch("lock").reg = "lock"
    <3>1. /\ Touch("latch") \in WdtAccesses /\ Touch("poll") \in WdtAccesses
          /\ Touch("eoi") \in WdtAccesses
      BY AccessKinds
    <3>2. /\ two \in Seq(WdtAccesses) /\ Len(two) = 2
          /\ two[1] = Touch("latch") /\ two[2] = Touch("poll")
          /\ one \in Seq(WdtAccesses) /\ Len(one) = 1 /\ one[1] = Touch("eoi")
      BY <3>1
    <3>. QED  BY <3>2, AccessKinds
  <2>. HIDE DEF one, two
  <2>2. wdtTodo' \in {one, two}
    BY <1>1 DEF counter_value, clear_interrupt, WdtCall, one, two
  <2>3. /\ wdtTodo' \in Seq(WdtAccesses)
        /\ \A i \in 1..Len(wdtTodo') : wdtTodo'[i].reg \in {"latch", "poll", "eoi"}
    <3>1. \A i \in 1..Len(two) : i = 1 \/ i = 2
      BY <2>1
    <3>2. \A i \in 1..Len(one) : i = 1
      BY <2>1
    <3>. QED  BY <2>1, <2>2, <3>1, <3>2
  <2>4. Touch("lock") \notin Range(wdtTodo')
    <3>1. DOMAIN wdtTodo' = 1..Len(wdtTodo')
      BY <2>3
    <3>. QED  BY <2>1, <2>3, <3>1 DEF Range
  <2>5. /\ wdtTodo = <<>> /\ wdtOwner' = wdtOwner /\ wdtOwner \in {"new", "scoped"}
        /\ wdtAsked' = wdtAsked /\ wdtMs' = wdtMs /\ wdtResult' = "none"
        /\ UNCHANGED <<wdtLocked, wdtHardware, wdtWedged, wdtBit>>
    BY <1>1, <2>4 DEF counter_value, clear_interrupt, WdtCall
  <2>6. WdtBracketed'
    BY <1>b, <2>3, <2>5 DEF WdtBracketed, WdtDue
  <2>7. WdtPromised'
    BY <1>b, <2>3, <2>5 DEF WdtPromised, wdtHardware
  <2>. QED  BY <1>b, <2>5, <2>6, <2>7, WdtBeginning
<1>2. CASE into_armed
  <2>1. /\ wdtTodo = <<>> /\ wdtOwner' = "armed"
        /\ UNCHANGED <<wdtTodo, wdtResult, wdtLocked, wdtHardware, wdtWedged, wdtBit,
                       wdtAsked, wdtMs>>
    BY <1>2 DEF into_armed
  <2>2. Len(wdtTodo) = 0 /\ wdtTodo \in Seq(WdtAccesses)
    BY <2>1, NothingYet, EmptySeq
  <2>3. WdtBracketed'
    BY <2>1, <2>2 DEF WdtBracketed
  <2>. QED
    BY <2>1, <2>3
    DEF WdtInv, WdtTypeOK, WdtPromised, WdtDue, WdtTimed, WdtCounted, wdtHardware
<1>. QED
  BY <1>1, <1>2

\* What one access leaves to be done.
LEMMA WdtRest ==
    ASSUME wdtTodo \in Seq(WdtAccesses), wdtTodo # <<>>, wdtTodo' = Tail(wdtTodo)
    PROVE  /\ Len(wdtTodo) \in Nat \ {0} /\ wdtTodo[1] \in WdtAccesses
           /\ wdtTodo' \in Seq(WdtAccesses) /\ Len(wdtTodo') = Len(wdtTodo) - 1
           /\ \A i \in 1..Len(wdtTodo') :
                 i + 1 \in 1..Len(wdtTodo) /\ wdtTodo'[i] = wdtTodo[i + 1]
           /\ \A reg : WdtDue(reg) => wdtTodo[1].reg = reg \/ WdtDue(reg)'
           /\ \A reg : WdtDue(reg)' => WdtDue(reg)
<1>1. /\ Len(wdtTodo) \in Nat \ {0} /\ wdtTodo[1] \in WdtAccesses
      /\ wdtTodo' \in Seq(WdtAccesses) /\ Len(wdtTodo') = Len(wdtTodo) - 1
      /\ \A i \in 1..Len(wdtTodo') : wdtTodo'[i] = wdtTodo[i + 1]
  OBVIOUS
<1>2. \A i \in 1..Len(wdtTodo') : i + 1 \in 1..Len(wdtTodo)
  BY <1>1
<1>3. ASSUME NEW reg, WdtDue(reg), wdtTodo[1].reg # reg
      PROVE  WdtDue(reg)'
  <2>1. PICK i \in 1..Len(wdtTodo) : wdtTodo[i].reg = reg
    BY <1>3 DEF WdtDue
  <2>2. i # 1
    BY <1>3, <2>1
  <2>3. i - 1 \in 1..Len(wdtTodo') /\ (i - 1) + 1 = i
    BY <1>1, <2>1, <2>2
  <2>4. wdtTodo'[i - 1].reg = reg
    BY <1>1, <2>1, <2>3
  <2>. QED  BY <2>3, <2>4 DEF WdtDue
<1>4. ASSUME NEW reg, WdtDue(reg)'
      PROVE  WdtDue(reg)
  <2>1. PICK i \in 1..Len(wdtTodo') : wdtTodo'[i].reg = reg
    BY <1>4 DEF WdtDue
  <2>. QED  BY <1>1, <1>2, <2>1 DEF WdtDue
<1>. QED
  BY <1>1, <1>2, <1>3, <1>4

\* The brackets survive every access.
LEMMA WdtStaysBracketed ==
    ASSUME WdtInv, wdtTodo # <<>>, wdtTodo' = Tail(wdtTodo),
           wdtLocked' = CASE wdtTodo[1].reg = "unlock" -> FALSE
                          [] wdtTodo[1].reg = "lock" -> TRUE
                          [] OTHER -> wdtLocked,
           wdtOwner' = IF wdtTodo[1].reg = "drop" THEN "none" ELSE wdtOwner
    PROVE  WdtBracketed'
<1>t. WdtBracketed
  BY DEF WdtInv
<1>1. /\ Len(wdtTodo) \in Nat \ {0} /\ wdtTodo[1] \in WdtAccesses
      /\ wdtTodo' \in Seq(WdtAccesses) /\ Len(wdtTodo') = Len(wdtTodo) - 1
      /\ \A i \in 1..Len(wdtTodo') :
            i + 1 \in 1..Len(wdtTodo) /\ wdtTodo'[i] = wdtTodo[i + 1]
  BY <1>t, WdtRest DEF WdtBracketed
<1>2. /\ WdtDue("lock") => wdtTodo[1].reg = "lock" \/ WdtDue("lock")'
      /\ WdtDue("unlock")' => WdtDue("unlock")
  BY <1>t, WdtRest DEF WdtBracketed
<1>3. ~ WdtDue("unlock")'
  <2>1. \A i \in 1..Len(wdtTodo') : wdtTodo'[i].reg # "unlock"
    <3>1. \A i \in 1..Len(wdtTodo') : i + 1 # 1
      OBVIOUS
    <3>. QED  BY <1>1, <3>1, <1>t DEF WdtBracketed
  <2>. QED  BY <2>1 DEF WdtDue
<1>4. 1 \in 1..Len(wdtTodo)
  BY <1>1
<1>5. wdtTodo[1].reg = "drop" => wdtTodo' = <<>> /\ wdtLocked
  <2>. SUFFICES ASSUME wdtTodo[1].reg = "drop"
                PROVE  wdtTodo' = <<>> /\ wdtLocked
    OBVIOUS
  <2>1. Len(wdtTodo) = 1 /\ wdtOwner = "scoped"
    BY <1>4, <1>t DEF WdtBracketed
  <2>2. wdtTodo' = <<>>
    BY <1>1, <2>1, EmptySeq
  <2>3. \A i \in 1..Len(wdtTodo) : i = 1
    BY <2>1
  <2>4. ~ WdtDue("lock")
    BY <2>3 DEF WdtDue
  <2>. QED  BY <2>1, <2>2, <2>4, <1>t DEF WdtBracketed
<1>6. ASSUME NEW i \in 1..Len(wdtTodo')
      PROVE  /\ wdtTodo'[i].reg # "unlock"
             /\ wdtTodo'[i].reg \in {"cr", "load"} =>
                  ~ wdtLocked' /\ \A j \in 1..i : wdtTodo'[j].reg # "lock"
             /\ wdtTodo'[i].reg = "drop" => i = Len(wdtTodo') /\ wdtOwner' = "scoped"
  <2>1. i + 1 \in 1..Len(wdtTodo) /\ wdtTodo'[i] = wdtTodo[i + 1] /\ i \in Nat
        /\ i + 1 # 1
    BY <1>1
  <2>2. wdtTodo'[i].reg # "unlock"
    BY <1>3 DEF WdtDue
  <2>3. ASSUME wdtTodo'[i].reg \in {"cr", "load"}
        PROVE  ~ wdtLocked' /\ \A j \in 1..i : wdtTodo'[j].reg # "lock"
    <3>1. /\ ~ wdtLocked \/ wdtTodo[1].reg = "unlock"
          /\ \A j \in 1..(i + 1) : wdtTodo[j].reg # "lock"
      BY <2>1, <2>3, <1>t DEF WdtBracketed
    <3>2. \A j \in 1..i : j + 1 \in 1..(i + 1) /\ j \in 1..Len(wdtTodo')
      BY <2>1, <1>1
    <3>3. wdtTodo[1].reg # "lock"
      BY <3>1, <2>1
    <3>4. ~ wdtLocked'
      BY <3>1, <3>3
    <3>. QED  BY <3>1, <3>2, <3>4, <1>1
  <2>4. wdtTodo'[i].reg = "drop" => i = Len(wdtTodo') /\ wdtOwner = "scoped"
    BY <2>1, <1>1, <1>t DEF WdtBracketed
  <2>5. wdtTodo[1].reg # "drop"
    <3>1. wdtTodo' # <<>>
      BY NothingYet
    <3>. QED  BY <1>5, <3>1
  <2>. QED  BY <2>2, <2>3, <2>4, <2>5
<1>7. wdtOwner' \in {"none", "scoped"} => WdtDue("lock")' \/ wdtLocked'
  <2>1. CASE wdtTodo[1].reg = "drop"
    BY <1>5, <2>1
  <2>2. CASE wdtTodo[1].reg = "lock"
    BY <2>2
  <2>3. CASE wdtTodo[1].reg \notin {"drop", "lock"}
    <3>. SUFFICES ASSUME wdtOwner \in {"none", "scoped"}
                  PROVE  WdtDue("lock")' \/ wdtLocked'
      BY <2>3
    <3>1. WdtDue("lock") \/ (wdtLocked /\ ~ WdtDue("unlock"))
      BY <1>t DEF WdtBracketed
    <3>2. wdtTodo[1].reg = "unlock" => WdtDue("unlock")
      BY <1>4 DEF WdtDue
    <3>3. wdtTodo[1].reg # "unlock" => wdtLocked' = wdtLocked
      BY <2>3
    <3>. QED  BY <2>3, <3>1, <3>2, <3>3, <1>2
  <2>. QED  BY <2>1, <2>2, <2>3
<1>8. wdtOwner' \in {"none", "armed"} => wdtTodo' = <<>>
  BY <1>5, <1>t DEF WdtBracketed
<1>. QED
  BY <1>1, <1>3, <1>6, <1>7, <1>8 DEF WdtBracketed

\* A write happens as it was promised.
LEMMA WdtStaysPromised ==
    ASSUME WdtInv, wdtTodo # <<>>, wdtTodo' = Tail(wdtTodo),
           wdtCr' = IF Write("cr") THEN wdtTodo[1].cr ELSE wdtCr,
           wdtLoad' = IF Write("load") THEN wdtTodo[1].load ELSE wdtLoad,
           UNCHANGED <<wdtAsked, wdtMs>>
    PROVE  WdtPromised' /\ wdtCr' \in WdtControls /\ wdtLoad' \in 0..WDT_MAX_LOAD
<1>t. WdtBracketed /\ WdtPromised /\ WdtTypeOK
  BY DEF WdtInv
<1>1. /\ Len(wdtTodo) \in Nat \ {0} /\ wdtTodo[1] \in WdtAccesses
      /\ \A i \in 1..Len(wdtTodo') :
            i + 1 \in 1..Len(wdtTodo) /\ wdtTodo'[i] = wdtTodo[i + 1]
  BY <1>t, WdtRest DEF WdtBracketed
<1>2. /\ WdtDue("cr") => wdtTodo[1].reg = "cr" \/ WdtDue("cr")'
      /\ WdtDue("load") => wdtTodo[1].reg = "load" \/ WdtDue("load")'
  BY <1>t, WdtRest DEF WdtBracketed
<1>3. 1 \in 1..Len(wdtTodo)
  BY <1>1
<1>4. wdtTodo[1].reg \in {"cr", "load"} => ~ wdtLocked
  BY <1>3, <1>t DEF WdtBracketed
<1>5. /\ wdtTodo[1].reg = "cr" => wdtCr' = wdtAsked
      /\ wdtTodo[1].reg # "cr" => wdtCr' = wdtCr
      /\ wdtTodo[1].reg = "load" => wdtLoad' = load_field(wdtMs)
      /\ wdtTodo[1].reg # "load" => wdtLoad' = wdtLoad
  BY <1>3, <1>4, <1>t DEF Write, WdtPromised
<1>6. wdtCr' \in WdtControls /\ wdtLoad' \in 0..WDT_MAX_LOAD
  BY <1>1, <1>3, <1>4, <1>t, AccessFields DEF Write, WdtTypeOK
<1>7. WdtPromised'
  <2>1. WdtDue("cr")' \/ wdtCr' = wdtAsked
    BY <1>2, <1>5, <1>t DEF WdtPromised
  <2>2. WdtDue("load")' \/ wdtLoad' = load_field(wdtMs)
    BY <1>2, <1>5, <1>t DEF WdtPromised
  <2>3. \A i \in 1..Len(wdtTodo') :
           /\ wdtTodo'[i].reg = "cr" => wdtTodo'[i].cr = wdtAsked
           /\ wdtTodo'[i].reg = "load" => wdtTodo'[i].load = load_field(wdtMs)
    BY <1>1, <1>t DEF WdtPromised
  <2>. QED  BY <2>1, <2>2, <2>3, <1>t DEF WdtPromised
<1>. QED
  BY <1>6, <1>7

\* One access, or the end of a poll.
LEMMA WdtAccessing ==
    ASSUME WdtInv, ~ wdtBit, WdtAccess \/ request_counter
    PROVE  WdtInv'
<1>t. WdtTypeOK /\ WdtBracketed /\ WdtTimed
  BY DEF WdtInv
<1>1. CASE WdtAccess
  <2>1. /\ wdtTodo # <<>> /\ wdtTodo' = Tail(wdtTodo)
        /\ wdtLocked' = CASE wdtTodo[1].reg = "unlock" -> FALSE
                          [] wdtTodo[1].reg = "lock" -> TRUE
                          [] OTHER -> wdtLocked
        /\ wdtCr' = IF Write("cr") THEN wdtTodo[1].cr ELSE wdtCr
        /\ wdtLoad' = IF Write("load") THEN wdtTodo[1].load ELSE wdtLoad
        /\ wdtOwner' = IF wdtTodo[1].reg = "drop" THEN "none" ELSE wdtOwner
        /\ wdtLatch' = IF wdtTodo[1].reg = "latch" THEN "asked" ELSE wdtLatch
        /\ UNCHANGED <<wdtResult, wdtWedged, wdtBit, wdtAsked, wdtMs>>
    BY <1>1 DEF WdtAccess
  <2>2. WdtBracketed'
    BY <2>1, WdtStaysBracketed
  <2>3. WdtPromised' /\ wdtCr' \in WdtControls /\ wdtLoad' \in 0..WDT_MAX_LOAD
    BY <2>1, WdtStaysPromised
  <2>n. PICK n \in Nat : n = wdtLoad' /\ n <= WDT_MAX_LOAD
    BY <2>3, WdtAssumption
  <2>4. PICK full \in Nat : full = wdtLoad' * WdtReserve
    <3>1. n * WdtReserve \in Nat
      BY WdtAssumption
    <3>. QED  BY <2>n, <3>1
  <2>5. full <= WDT_MAX_LOAD * WdtReserve /\ WDT_MAX_LOAD * WdtReserve \in Nat
        /\ WdtBound \in Nat
    <3>1. n * WdtReserve <= WDT_MAX_LOAD * WdtReserve
      BY <2>n, LongerTakesMore, WdtAssumption
    <3>2. WDT_MAX_LOAD * WdtReserve \in Nat /\ WdtBound \in Nat
      BY WdtAssumption DEF WdtBound
    <3>. QED  BY <2>n, <2>4, <3>1, <3>2
  <2>6. /\ WdtTimed' /\ wdtCount' \in 0..(WDT_MAX_LOAD * WdtReserve)
        /\ wdtSince' \in 0..WdtBound /\ wdtStage' \in 0..2
    <3>1. CASE Write("restart") \/ Write("load")
      <4>1. wdtCount' = full /\ wdtStage' = 0 /\ wdtSince' = 0
        BY <1>1, <2>4, <3>1 DEF WdtAccess
      <4>2. WdtTimed'
        BY <2>1, <2>4, <4>1 DEF WdtTimed, WdtCounted
      <4>. QED  BY <2>5, <4>1, <4>2
    <3>2. CASE ~ (Write("restart") \/ Write("load"))
      <4>1. /\ wdtStage' = IF wdtTodo[1].reg = "eoi" THEN 0 ELSE wdtStage
            /\ UNCHANGED <<wdtCount, wdtSince, wdtLoad, wdtBit>>
        BY <1>1, <2>1, <3>2 DEF WdtAccess
      <4>2. wdtCount \in Nat /\ wdtStage \in {0, 1, 2} /\ wdtSince \in Nat
        BY <1>t, <2>5, WdtAssumption DEF WdtTypeOK
      <4>3. /\ wdtCount <= full
            /\ wdtSince = WdtBound \/ wdtSince >= WdtCounted(full, wdtStage)
        BY <2>4, <4>1, <1>t DEF WdtTimed, WdtCounted
      <4>4. wdtSince >= WdtCounted(full, wdtStage) => wdtSince >= WdtCounted(full, 0)
        BY <4>2, <4>3 DEF WdtCounted
      <4>6. WdtTimed'
        BY <2>4, <4>1, <4>3, <4>4 DEF WdtTimed, WdtCounted
      <4>. QED  BY <4>1, <4>6, <1>t DEF WdtTypeOK
    <3>. QED  BY <3>1, <3>2
  <2>7. \A i \in DOMAIN wdtTodo' : wdtTodo'[i] \in WdtAccesses
    BY <2>2 DEF WdtBracketed
  <2>8. wdtLocked' \in BOOLEAN
    BY <2>1, <1>t DEF WdtTypeOK
  <2>9. WdtTypeOK'
    BY <2>1, <2>3, <2>6, <2>7, <2>8, <1>t, AccessFields DEF WdtTypeOK
  <2>. QED  BY <2>2, <2>3, <2>6, <2>9 DEF WdtInv
<1>2. CASE request_counter
  <2>1. /\ wdtTodo # <<>> /\ wdtTodo[1].reg = "poll" /\ wdtTodo' = Tail(wdtTodo)
        /\ wdtResult' \in {"ok", "busy"}
        /\ UNCHANGED <<wdtOwner, wdtLocked, wdtHardware, wdtWedged, wdtBit, wdtAsked, wdtMs>>
    BY <1>2 DEF request_counter
  <2>2. WdtBracketed'
    BY <2>1, WdtStaysBracketed
  <2>3. ~ Write("cr") /\ ~ Write("load") /\ wdtCr' = wdtCr /\ wdtLoad' = wdtLoad
    BY <2>1 DEF Write, wdtHardware
  <2>4. WdtPromised'
    BY <2>1, <2>3, WdtStaysPromised
  <2>5. \A i \in DOMAIN wdtTodo' : wdtTodo'[i] \in WdtAccesses
    BY <2>2 DEF WdtBracketed
  <2>6. WdtTypeOK'
    BY <2>1, <2>5, <1>t, AccessFields DEF WdtTypeOK, wdtHardware
  <2>7. WdtTimed'
    BY <2>1, <1>t DEF WdtTimed, WdtCounted, wdtHardware
  <2>. QED  BY <2>2, <2>4, <2>6, <2>7 DEF WdtInv
<1>. QED
  BY <1>1, <1>2

\* The counter runs down, interrupts, and at last resets the chip.
LEMMA WdtTicking ==
    ASSUME WdtInv, ~ wdtBit, WdtTick
    PROVE  WdtInv'
<1>t. WdtTypeOK /\ WdtTimed
  BY DEF WdtInv
<1>1. /\ wdtCr.en
      /\ wdtSince' = IF wdtSince < WdtBound THEN wdtSince + 1 ELSE wdtSince
      /\ UNCHANGED <<wdtOwner, wdtTodo, wdtResult, wdtLocked, wdtCr, wdtLoad, wdtLatch,
                     wdtWedged, wdtAsked, wdtMs>>
  BY DEF WdtTick
<1>2. PICK full \in Nat : full = wdtLoad * WdtReserve
  BY <1>t, WdtAssumption DEF WdtTypeOK
<1>3. PICK most \in Nat : most = WDT_MAX_LOAD * WdtReserve
  BY WdtAssumption
<1>4. full <= most
  <2>1. PICK n \in Nat : n = wdtLoad /\ n <= WDT_MAX_LOAD
    BY <1>t, WdtAssumption DEF WdtTypeOK
  <2>2. n * WdtReserve <= WDT_MAX_LOAD * WdtReserve
    BY <2>1, LongerTakesMore, WdtAssumption
  <2>. QED  BY <1>2, <1>3, <2>1, <2>2
<1>5. WdtBound = most + most + most
  <2>1. \A a \in Nat, b \in Nat : 3 * a * b = (a * b) + (a * b) + (a * b)
    BY SMTT(30)
  <2>. QED  BY <1>3, <2>1, WdtAssumption DEF WdtBound
<1>6. wdtCount \in Nat /\ wdtStage \in {0, 1, 2} /\ wdtSince \in Nat /\ wdtSince <= WdtBound
  BY <1>3, <1>5, <1>t DEF WdtTypeOK
<1>7. /\ wdtCount <= full
      /\ wdtSince = WdtBound \/ wdtSince >= WdtCounted(full, wdtStage)
  BY <1>2, <1>t DEF WdtTimed, WdtCounted
<1>8. /\ wdtSince' \in 0..WdtBound
      /\ wdtSince' = WdtBound \/ wdtSince' = wdtSince + 1
      /\ wdtSince = WdtBound => wdtSince' = WdtBound
  BY <1>1, <1>5, <1>6
<1>9. CASE wdtCount > 1
  <2>1. wdtCount' = wdtCount - 1 /\ UNCHANGED <<wdtStage, wdtBit>>
    BY <1>9 DEF WdtTick
  <2>2. wdtSince' = WdtBound \/ wdtSince' >= WdtCounted(full, wdtStage)'
    BY <1>6, <1>7, <1>8, <2>1 DEF WdtCounted
  <2>3. WdtTimed'
    BY <1>1, <1>2, <1>6, <1>7, <1>9, <2>1, <2>2 DEF WdtTimed, WdtCounted
  <2>4. wdtCount' \in 0..most
    BY <1>4, <1>6, <1>7, <1>9, <2>1
  <2>5. WdtTypeOK'
    BY <1>1, <1>3, <1>8, <2>1, <2>4, <1>t DEF WdtTypeOK, WdtBound
  <2>. QED
    BY <1>1, <2>3, <2>5 DEF WdtInv, WdtBracketed, WdtPromised, WdtDue
<1>10. CASE ~ (wdtCount > 1)
  <2>1. /\ wdtCount' = full
        /\ wdtBit' = (wdtCr.rst /\ wdtStage >= WdtInterrupts)
        /\ wdtStage' = IF wdtStage < WdtInterrupts THEN wdtStage + 1 ELSE wdtStage
    BY <1>2, <1>10 DEF WdtTick
  <2>2. WdtInterrupts = IF wdtCr.double THEN 2 ELSE 1
    BY DEF WdtInterrupts
  <2>3. wdtStage' \in {0, 1, 2} /\ wdtStage' <= wdtStage + 1
    BY <1>6, <2>1, <2>2
  <2>4. wdtSince' = WdtBound \/ wdtSince' >= WdtCounted(full, wdtStage)'
    BY <1>6, <1>7, <1>8, <1>10, <2>1, <2>3 DEF WdtCounted
  <2>5. wdtBit' =>
          /\ wdtCr.rst
          /\ wdtSince' >= (IF wdtCr.double THEN 3 ELSE 2) * full
    <3>. SUFFICES ASSUME wdtCr.rst /\ wdtStage >= WdtInterrupts
                  PROVE  wdtSince' >= (IF wdtCr.double THEN 3 ELSE 2) * full
      BY <2>1
    <3>1. CASE wdtCr.double
      <4>1. wdtStage = 2
        BY <1>6, <2>2, <3>1
      <4>2. wdtSince' >= full + full + full
        BY <1>4, <1>5, <1>6, <1>7, <1>8, <1>10, <4>1 DEF WdtCounted
      <4>. QED  BY <3>1, <4>2
    <3>2. CASE ~ wdtCr.double
      <4>1. wdtStage \in {1, 2}
        BY <1>6, <2>2, <3>2
      <4>2. wdtSince' >= full + full
        BY <1>4, <1>5, <1>6, <1>7, <1>8, <1>10, <4>1 DEF WdtCounted
      <4>. QED  BY <3>2, <4>2
    <3>. QED  BY <3>1, <3>2
  <2>6. WdtTimed'
    BY <1>1, <1>2, <2>1, <2>4, <2>5 DEF WdtTimed, WdtCounted
  <2>7. wdtCount' \in 0..most
    BY <1>4, <2>1
  <2>8. wdtBit' \in BOOLEAN
    BY <2>1
  <2>9. WdtTypeOK'
    BY <1>1, <1>3, <1>8, <2>3, <2>7, <2>8, <1>t DEF WdtTypeOK, WdtBound
  <2>. QED
    BY <1>1, <2>6, <2>9 DEF WdtInv, WdtBracketed, WdtPromised, WdtDue
<1>. QED
  BY <1>9, <1>10

LEMMA WdtStep == WdtInv /\ [WdtNext]_wdtVars => WdtInv'
<1>1. WdtInv /\ (WdtLatches \/ UNCHANGED wdtVars) => WdtInv'
  BY DEF WdtLatches, wdtVars, WdtInv, WdtTypeOK, WdtBracketed, WdtPromised, WdtTimed,
     WdtCounted, WdtDue
<1>. QED
  BY <1>1, WdtTakes, WdtWrites, WdtConfiguring, WdtReads, WdtAccessing, WdtTicking
  DEF WdtNext

\* The watchdog is set as the calls asked for, is locked between them, and bites
\* no sooner than after the timeout asked for: for any clock rate, resolution,
\* register width and timeouts.
THEOREM WatchdogTrue == WdtSpec => []WdtSafe
<1>1. WdtInv => WdtSafe
  <2>. SUFFICES ASSUME WdtInv
                PROVE  WdtSafe
    OBVIOUS
  <2>t. WdtTypeOK /\ WdtTimed
    BY DEF WdtInv
  <2>1. WdtSettled
    BY WdtBetween DEF WdtSettled
  <2>2. wdtTodo = <<>> => wdtCr = wdtAsked /\ wdtLoad = load_field(wdtMs)
    BY WdtBetween
  <2>3. ASSUME wdtBit, wdtTodo = <<>>
        PROVE  /\ wdtAsked.rst /\ wdtAsked.en
               /\ wdtSince >= (IF wdtAsked.double THEN 3 ELSE 2)
                              * (wdtMs * WdtTicksPerMs - (WdtReserve - 1))
    <3>1. /\ wdtAsked.en /\ wdtAsked.rst
          /\ wdtSince >= (IF wdtAsked.double THEN 3 ELSE 2) * (wdtLoad * WdtReserve)
      BY <2>2, <2>3, <2>t DEF WdtTimed
    <3>2. wdtMs \in Nat /\ (wdtMs # 0 => from_ms(wdtMs))
      <4>1. wdtMs \in WdtInputs \cup {0} /\ (wdtMs # 0 => from_ms(wdtMs))
        BY <2>3, WdtBetween
      <4>. QED  BY <4>1, WdtAssumption
    <3>3. PICK full \in Nat, least \in Int :
             /\ full = wdtLoad * WdtReserve
             /\ least = wdtMs * WdtTicksPerMs - (WdtReserve - 1)
      BY <2>t, <3>2, WdtAssumption DEF WdtTypeOK
    <3>4. full >= least
      BY <2>2, <2>3, <3>2, <3>3, LoadCovers
    <3>5. wdtSince \in Int
      BY <2>t, WdtAssumption DEF WdtTypeOK
    <3>6. wdtSince >= (IF wdtAsked.double THEN 3 ELSE 2) * least
      BY <3>1, <3>3, <3>4, <3>5
    <3>. QED  BY <3>1, <3>3, <3>6
  <2>4. WdtBitesLate
    BY <2>3 DEF WdtBitesLate
  <2>. QED  BY <2>1, <2>4 DEF WdtSafe
<1>. QED
  BY <1>1, WdtInitInv, WdtStep, PTL DEF WdtSpec

-----------------------------------------------------------------------------
(* Blocking SPI: SpiInv is inductive.                                       *)

\* The divider is even, and the nearest that is not too fast.
LEMMA DividerFits ==
    ASSUME NEW hz \in Nat, try_from_hz(hz)
    PROVE  /\ sckdv(hz) \in 2..SckdvMax /\ sckdv(hz) % 2 = 0
           /\ sckdv(hz) * hz <= SPI_CLOCK_HZ
           /\ SPI_CLOCK_HZ < (sckdv(hz) + 2) * hz
<1>. DEFINE div == SPI_CLOCK_HZ \div hz
            even == div - (div % 2)
<1>1. hz # 0 /\ div >= 2 /\ div <= SckdvMax
  BY DEF try_from_hz
<1>2. div \in Nat /\ SPI_CLOCK_HZ < (div + 1) * hz /\ div * hz <= SPI_CLOCK_HZ
  <2>1. SPI_CLOCK_HZ \in Nat /\ hz \in Nat \ {0}
    BY <1>1, SpiAssumption
  <2>. QED  BY <2>1, SMTT(30)
<1>3. sckdv(hz) = even
  BY <1>1, <1>2, SpiAssumption DEF sckdv
<1>. HIDE DEF div
<1>4. even \in Nat /\ even <= div /\ div <= even + 1 /\ even % 2 = 0 /\ even >= 2
  BY <1>1, <1>2
<1>. HIDE DEF even
<1>5. PICK d \in Nat, e \in Nat : d = div /\ e = even
  BY <1>2, <1>4
<1>6. e * hz <= d * hz
  BY <1>4, <1>5, SMTT(30)
<1>7. (d + 1) * hz <= (e + 2) * hz
  BY <1>4, <1>5, SMTT(30)
<1>8. e * hz \in Nat /\ d * hz \in Nat /\ (e + 2) * hz \in Nat /\ (d + 1) * hz \in Nat
  BY <1>5
<1>. QED
  BY <1>1, <1>2, <1>3, <1>4, <1>5, <1>6, <1>7, <1>8, SpiAssumption

\* Sequences of six and of five.
LEMMA SixLong ==
    ASSUME NEW T, NEW a \in T, NEW b \in T, NEW c \in T, NEW d \in T, NEW e \in T, NEW f \in T
    PROVE  /\ <<a, b, c, d, e, f>> \in Seq(T) /\ Len(<<a, b, c, d, e, f>>) = 6
           /\ <<a, b, c, d, e, f>>[1] = a /\ <<a, b, c, d, e, f>>[2] = b
           /\ <<a, b, c, d, e, f>>[3] = c /\ <<a, b, c, d, e, f>>[4] = d
           /\ <<a, b, c, d, e, f>>[5] = e /\ <<a, b, c, d, e, f>>[6] = f
OBVIOUS

LEMMA FiveLong ==
    ASSUME NEW T, NEW a \in T, NEW b \in T, NEW c \in T, NEW d \in T, NEW e \in T
    PROVE  /\ <<a, b, c, d, e>> \in Seq(T) /\ Len(<<a, b, c, d, e>>) = 5
           /\ <<a, b, c, d, e>>[1] = a /\ <<a, b, c, d, e>>[2] = b
           /\ <<a, b, c, d, e>>[3] = c /\ <<a, b, c, d, e>>[4] = d
           /\ <<a, b, c, d, e>>[5] = e
OBVIOUS

\* One after the other.
LEMMA SixAndFive ==
    ASSUME NEW T, NEW s \in Seq(T), NEW t \in Seq(T), Len(s) = 6, Len(t) = 5
    PROVE  /\ s \o t \in Seq(T) /\ Len(s \o t) = 11
           /\ \A i \in 1..6 : (s \o t)[i] = s[i]
           /\ \A i \in 1..5 : (s \o t)[6 + i] = t[i]
<1>0. 6 + 5 = 11
  OBVIOUS
<1>1. /\ s \o t \in Seq(T) /\ Len(s \o t) = Len(s) + Len(t)
      /\ \A i \in 1..(Len(s) + Len(t)) :
            (s \o t)[i] = IF i <= Len(s) THEN s[i] ELSE t[i - Len(s)]
  BY ConcatProperties
<1>2. \A i \in 1..11 : (s \o t)[i] = IF i <= 6 THEN s[i] ELSE t[i - 6]
  BY <1>0, <1>1
<1>3. \A i \in 1..6 : i \in 1..11 /\ i <= 6
  OBVIOUS
<1>4. \A i \in 1..5 : 6 + i \in 1..11 /\ ~ (6 + i <= 6) /\ (6 + i) - 6 = i
  OBVIOUS
<1>5. s \o t \in Seq(T) /\ Len(s \o t) = 11
  BY <1>0, <1>1
<1>6. \A i \in 1..6 : (s \o t)[i] = s[i]
  BY <1>2, <1>3, Zenon
<1>7. \A i \in 1..5 : (s \o t)[6 + i] = t[i]
  <2>. TAKE i \in 1..5
  <2>1. (s \o t)[6 + i] = t[(6 + i) - 6]
    BY <1>2, <1>4, Zenon
  <2>. QED  BY <1>4, <2>1, Zenon
<1>. QED
  BY <1>5, <1>6, <1>7, Zenon

\* Each is a register with its value.
LEMMA AccessesAre ==
    ASSUME NEW brs \in Int, NEW bits \in Int
    PROVE  /\ <<"load", FALSE>> \in SpiAccesses /\ <<"load", TRUE>> \in SpiAccesses
           /\ <<"gate", FALSE>> \in SpiAccesses /\ <<"gate", TRUE>> \in SpiAccesses
           /\ <<"div", 3>> \in SpiAccesses /\ <<"pll", TRUE>> \in SpiAccesses
           /\ <<"er", FALSE>> \in SpiAccesses /\ <<"brs", brs>> \in SpiAccesses
           /\ <<"bits", bits>> \in SpiAccesses /\ <<"slave", TRUE>> \in SpiAccesses
           /\ <<"er", TRUE>> \in SpiAccesses
<1>1. \A reg \in {"load", "div", "gate", "pll", "er", "brs", "bits", "slave"},
         value \in BOOLEAN \cup Int : <<reg, value>> \in SpiAccesses
  BY DEF SpiAccesses
<1>2. FALSE \in BOOLEAN \cup Int /\ TRUE \in BOOLEAN \cup Int
  BY Zenon
<1>3. 3 \in BOOLEAN \cup Int /\ brs \in BOOLEAN \cup Int /\ bits \in BOOLEAN \cup Int
  OBVIOUS
<1>. QED
  BY <1>1, <1>2, <1>3, Zenon

LEMMA ClockAccesses ==
    /\ configure_spi_source_clock \in Seq(SpiAccesses) /\ Len(configure_spi_source_clock) = 6
    /\ configure_spi_source_clock[1] = <<"load", FALSE>>
    /\ configure_spi_source_clock[2] = <<"div", 3>>
    /\ configure_spi_source_clock[3] = <<"load", TRUE>>
    /\ configure_spi_source_clock[4] = <<"gate", FALSE>>
    /\ configure_spi_source_clock[5] = <<"pll", TRUE>>
    /\ configure_spi_source_clock[6] = <<"gate", TRUE>>
<1>. DEFINE a == <<"load", FALSE>>
            b == <<"div", 3>>
            c == <<"load", TRUE>>
            d == <<"gate", FALSE>>
            e == <<"pll", TRUE>>
            f == <<"gate", TRUE>>
<1>1. /\ a \in SpiAccesses /\ b \in SpiAccesses /\ c \in SpiAccesses /\ d \in SpiAccesses
      /\ e \in SpiAccesses /\ f \in SpiAccesses
  <2>1. 0 \in Int
    OBVIOUS
  <2>. QED  BY <2>1, AccessesAre
<1>2. configure_spi_source_clock = <<a, b, c, d, e, f>>
  BY DEF configure_spi_source_clock
<1>3. /\ configure_spi_source_clock \in Seq(SpiAccesses) /\ Len(configure_spi_source_clock) = 6
      /\ configure_spi_source_clock[1] = a /\ configure_spi_source_clock[2] = b
      /\ configure_spi_source_clock[3] = c /\ configure_spi_source_clock[4] = d
      /\ configure_spi_source_clock[5] = e /\ configure_spi_source_clock[6] = f
  <2>. HIDE DEF a, b, c, d, e, f
  <2>. QED  BY <1>1, <1>2, SixLong
<1>. QED
  BY <1>3

\* The register accesses of the constructor.
LEMMA SpiAccessesAre ==
    ASSUME NEW c \in [hz : Nat, bits : Int], try_from_hz(c.hz)
    PROVE  /\ configure_spi(c) \in Seq(SpiAccesses) /\ Len(configure_spi(c)) = 11
           /\ configure_spi(c)[1] = <<"load", FALSE>> /\ configure_spi(c)[2] = <<"div", 3>>
           /\ configure_spi(c)[3] = <<"load", TRUE>> /\ configure_spi(c)[4] = <<"gate", FALSE>>
           /\ configure_spi(c)[5] = <<"pll", TRUE>> /\ configure_spi(c)[6] = <<"gate", TRUE>>
           /\ configure_spi(c)[7] = <<"er", FALSE>>
           /\ configure_spi(c)[8] = <<"brs", sckdv(c.hz)>>
           /\ configure_spi(c)[9] = <<"bits", c.bits - 1>>
           /\ configure_spi(c)[10] = <<"slave", TRUE>> /\ configure_spi(c)[11] = <<"er", TRUE>>
<1>. DEFINE off == <<"er", FALSE>>
            brs == <<"brs", sckdv(c.hz)>>
            bits == <<"bits", c.bits - 1>>
            slave == <<"slave", TRUE>>
            on == <<"er", TRUE>>
            own == <<off, brs, bits, slave, on>>
<1>1. sckdv(c.hz) \in Int /\ c.bits - 1 \in Int
  <2>1. SPI_CLOCK_HZ \div c.hz \in Int /\ c.hz # 0 /\ c.bits \in Int
    BY SpiAssumption DEF try_from_hz
  <2>. QED  BY <2>1, SpiAssumption DEF sckdv
<1>2. /\ off \in SpiAccesses /\ brs \in SpiAccesses /\ bits \in SpiAccesses
      /\ slave \in SpiAccesses /\ on \in SpiAccesses
  <2>. DEFINE n == sckdv(c.hz)
              m == c.bits - 1
  <2>1. n \in Int /\ m \in Int
    BY <1>1
  <2>. HIDE DEF n, m
  <2>2. /\ <<"er", FALSE>> \in SpiAccesses /\ <<"brs", n>> \in SpiAccesses
        /\ <<"bits", m>> \in SpiAccesses /\ <<"slave", TRUE>> \in SpiAccesses
        /\ <<"er", TRUE>> \in SpiAccesses
    BY <2>1, AccessesAre
  <2>. QED  BY <2>2 DEF n, m
<1>3. configure_spi(c) = configure_spi_source_clock \o own
  BY DEF configure_spi
<1>4. /\ own \in Seq(SpiAccesses) /\ Len(own) = 5
      /\ own[1] = off /\ own[2] = brs /\ own[3] = bits /\ own[4] = slave /\ own[5] = on
  <2>. HIDE DEF off, brs, bits, slave, on
  <2>. QED  BY <1>2, FiveLong
<1>. HIDE DEF own
<1>5. /\ configure_spi(c) \in Seq(SpiAccesses) /\ Len(configure_spi(c)) = 11
      /\ \A i \in 1..6 : configure_spi(c)[i] = configure_spi_source_clock[i]
      /\ \A i \in 1..5 : configure_spi(c)[6 + i] = own[i]
  <2>. DEFINE clock == configure_spi_source_clock
  <2>1. clock \in Seq(SpiAccesses) /\ Len(clock) = 6
    BY ClockAccesses
  <2>2. own \in Seq(SpiAccesses) /\ Len(own) = 5
    BY <1>4
  <2>3. configure_spi(c) = clock \o own
    BY <1>3
  <2>. HIDE DEF clock
  <2>4. /\ clock \o own \in Seq(SpiAccesses) /\ Len(clock \o own) = 11
        /\ \A i \in 1..6 : (clock \o own)[i] = clock[i]
        /\ \A i \in 1..5 : (clock \o own)[6 + i] = own[i]
    BY <2>1, <2>2, SixAndFive, SMTT(30)
  <2>. QED  BY <2>3, <2>4, Zenon DEF clock
<1>6. /\ configure_spi(c)[7] = own[1] /\ configure_spi(c)[8] = own[2]
      /\ configure_spi(c)[9] = own[3] /\ configure_spi(c)[10] = own[4]
      /\ configure_spi(c)[11] = own[5]
  <2>1. 6 + 1 = 7 /\ 6 + 2 = 8 /\ 6 + 3 = 9 /\ 6 + 4 = 10 /\ 6 + 5 = 11
    OBVIOUS
  <2>2. 1 \in 1..5 /\ 2 \in 1..5 /\ 3 \in 1..5 /\ 4 \in 1..5 /\ 5 \in 1..5
    OBVIOUS
  <2>. QED  BY <1>5, <2>1, <2>2
<1>7. /\ configure_spi(c)[1] = <<"load", FALSE>> /\ configure_spi(c)[2] = <<"div", 3>>
      /\ configure_spi(c)[3] = <<"load", TRUE>> /\ configure_spi(c)[4] = <<"gate", FALSE>>
      /\ configure_spi(c)[5] = <<"pll", TRUE>> /\ configure_spi(c)[6] = <<"gate", TRUE>>
  <2>1. 1 \in 1..6 /\ 2 \in 1..6 /\ 3 \in 1..6 /\ 4 \in 1..6 /\ 5 \in 1..6 /\ 6 \in 1..6
    OBVIOUS
  <2>. QED  BY <1>5, <2>1, ClockAccesses
<1>. QED
  BY <1>4, <1>5, <1>6, <1>7

LEMMA SpiInitInv == SpiInit => SpiInv
<1>. SUFFICES ASSUME SpiInit
              PROVE  SpiInv
  OBVIOUS
<1>1. <<>> \in Seq(SpiAccesses) /\ <<>> \in Seq(Nat) /\ Len(<<>>) = 0
  OBVIOUS
<1>2. SpiTyped
  BY <1>1 DEF SpiInit, SpiTyped, NoSpiCall
<1>3. SpiBuilding
  BY <1>1 DEF SpiInit, SpiBuilding
<1>4. SpiInCall /\ SpiAnswers /\ SpiSent
  BY DEF SpiInit, SpiInCall, SpiAnswers, SpiSent, NoSpiCall, SpiBuilt, SpiStages
<1>. QED
  BY <1>2, <1>3, <1>4 DEF SpiInv

LEMMA SpiNewing == SpiInv /\ NewSpi => SpiInv'
<1>. SUFFICES ASSUME SpiInv, NewSpi
              PROVE  SpiInv'
  OBVIOUS
<1>t. SpiTyped /\ SpiBuilding /\ SpiInCall
  BY DEF SpiInv
<1>1. PICK hz \in SpiHz, bits \in SpiBits :
         /\ try_from_hz(hz) /\ spAsked' = [hz |-> hz, bits |-> bits]
         /\ spTodo' = configure_spi([hz |-> hz, bits |-> bits])
  BY DEF NewSpi
<1>. DEFINE c == [hz |-> hz, bits |-> bits]
<1>2. c \in [hz : Nat, bits : Int] /\ try_from_hz(c.hz) /\ spAsked' = c
  BY <1>1, SpiAssumption
<1>3. spTodo' = configure_spi(c)
  BY <1>1
<1>. HIDE DEF c
<1>4. spTodo' \in Seq(SpiAccesses) /\ Len(spTodo') = 11
  BY <1>2, <1>3, SpiAccessesAre
<1>5. SpiTyped'
  BY <1>2, <1>4, <1>t DEF NewSpi, SpiTyped, NoSpiCall, spiFifos
<1>6. SpiBuilding'
  <2>1. \A i \in 1..11 : (11 - 11) + i = i
    OBVIOUS
  <2>2. \A i \in 1..11 : spTodo'[i] = configure_spi(spAsked')[(11 - 11) + i]
    BY <1>2, <1>3, <2>1
  <2>3. spTree' = spTree /\ spRegs' = spRegs /\ Len(spTodo) = 0
    BY DEF NewSpi
  <2>4. spTree.load = TRUE /\ spTree.gate = TRUE
    BY <2>3, <1>t DEF SpiBuilding
  <2>5. spTree'.load = TRUE /\ spTree'.gate = TRUE /\ try_from_hz(spAsked'.hz)
    BY <1>2, <2>3, <2>4
  <2>6. 11 \notin {9, 10} /\ 11 \notin {6, 7} /\ 11 \notin 1..4
    OBVIOUS
  <2>7. ~ (11 <= 9) /\ ~ (11 <= 6) /\ ~ (11 <= 3) /\ ~ (11 <= 2) /\ 11 <= 11
    OBVIOUS
  <2>. QED  BY <1>4, <2>2, <2>5, <2>6, <2>7, Zenon DEF SpiBuilding
<1>7. SpiInCall' /\ SpiAnswers' /\ SpiSent'
  BY <1>t DEF NewSpi, SpiInCall, SpiAnswers, SpiSent, NoSpiCall, SpiStages
<1>. QED
  BY <1>5, <1>6, <1>7 DEF SpiInv

\* What a register access of the constructor changes.
LEMMA SpiWriteEffect ==
    ASSUME SpiTyped, SpiWrite
    PROVE  /\ DOMAIN spRegs' = DOMAIN spRegs /\ DOMAIN spTree' = DOMAIN spTree
           /\ \A reg \in {"load", "div", "gate", "pll"} :
                 spTree'[reg] = IF reg = spTodo[1][1] THEN spTodo[1][2] ELSE spTree[reg]
           /\ \A reg \in {"er", "brs", "bits", "slave"} :
                 spRegs'[reg] = IF reg = spTodo[1][1] THEN spTodo[1][2] ELSE spRegs[reg]
BY DEF SpiTyped, SpiWrite

\* The access that is next, and those after it.
LEMMA SpiNextAccess ==
    ASSUME SpiTyped, SpiBuilding, SpiWrite
    PROVE  /\ Len(spTodo) \in 1..11 /\ Len(spTodo') = Len(spTodo) - 1
           /\ spTodo' \in Seq(SpiAccesses)
           /\ spTodo[1] = configure_spi(spAsked)[12 - Len(spTodo)]
           /\ \A i \in 1..Len(spTodo') :
                 spTodo'[i] = configure_spi(spAsked)[(11 - Len(spTodo')) + i]
<1>1. spTodo \in Seq(SpiAccesses) /\ spTodo # <<>> /\ spTodo' = Tail(spTodo)
  BY DEF SpiTyped, SpiWrite
<1>2. Len(spTodo) \in 1..11
  <2>1. Len(spTodo) \in Nat /\ Len(spTodo) # 0
    BY <1>1, EmptySeq, LenProperties
  <2>2. Len(spTodo) <= 11
    BY DEF SpiBuilding
  <2>3. \A n \in Nat : n # 0 /\ n <= 11 => n \in 1..11
    OBVIOUS
  <2>. QED  BY <2>1, <2>2, <2>3, Zenon
<1>3. /\ spTodo' \in Seq(SpiAccesses) /\ Len(spTodo') = Len(spTodo) - 1
      /\ \A i \in 1..Len(spTodo') : spTodo'[i] = spTodo[i + 1]
  BY <1>1
<1>4. \A i \in 1..Len(spTodo) : spTodo[i] = configure_spi(spAsked)[(11 - Len(spTodo)) + i]
  BY DEF SpiBuilding
<1>5. PICK n \in 1..11 : n = Len(spTodo)
  BY <1>2
<1>6. (11 - n) + 1 = 12 - n /\ 1 \in 1..n
  BY <1>5
<1>7. \A i \in 1..(n - 1) : i + 1 \in 1..n /\ (11 - n) + (i + 1) = (11 - (n - 1)) + i
  BY <1>5
<1>8. \A i \in 1..(n - 1) : spTodo'[i] = configure_spi(spAsked)[(11 - (n - 1)) + i]
  BY <1>3, <1>4, <1>5, <1>7
<1>. QED
  BY <1>2, <1>3, <1>4, <1>5, <1>6, <1>8

\* Which access is next, by how many are left.
LEMMA SpiFirstAccess ==
    ASSUME SpiTyped, SpiBuilding, spTodo # <<>>,
           NEW n \in 1..11, n = Len(spTodo)
    PROVE  LET c == spAsked IN
      \/ n = 1 /\ spTodo[1][1] = "er" /\ spTodo[1][2] = TRUE
      \/ n = 2 /\ spTodo[1][1] = "slave" /\ spTodo[1][2] = TRUE
      \/ n = 3 /\ spTodo[1][1] = "bits" /\ spTodo[1][2] = c.bits - 1
      \/ n = 4 /\ spTodo[1][1] = "brs" /\ spTodo[1][2] = sckdv(c.hz)
      \/ n = 5 /\ spTodo[1][1] = "er" /\ spTodo[1][2] = FALSE
      \/ n = 6 /\ spTodo[1][1] = "gate" /\ spTodo[1][2] = TRUE
      \/ n = 7 /\ spTodo[1][1] = "pll" /\ spTodo[1][2] = TRUE
      \/ n = 8 /\ spTodo[1][1] = "gate" /\ spTodo[1][2] = FALSE
      \/ n = 9 /\ spTodo[1][1] = "load" /\ spTodo[1][2] = TRUE
      \/ n = 10 /\ spTodo[1][1] = "div" /\ spTodo[1][2] = 3
      \/ n = 11 /\ spTodo[1][1] = "load" /\ spTodo[1][2] = FALSE
<1>. DEFINE c == spAsked
<1>3. try_from_hz(c.hz) /\ c \in [hz : Nat, bits : Int]
  <2>1. Len(spTodo) # 0
    OBVIOUS
  <2>. QED  BY <2>1 DEF SpiBuilding, SpiTyped
<1>2. spTodo[1] = configure_spi(c)[12 - n]
  <2>1. (11 - n) + 1 = 12 - n /\ 1 \in 1..n
    OBVIOUS
  <2>2. spTodo[1] = configure_spi(spAsked)[(11 - n) + 1]
    BY <2>1 DEF SpiBuilding
  <2>. QED  BY <2>1, <2>2
<1>4. /\ configure_spi(c)[1] = <<"load", FALSE>> /\ configure_spi(c)[2] = <<"div", 3>>
      /\ configure_spi(c)[3] = <<"load", TRUE>> /\ configure_spi(c)[4] = <<"gate", FALSE>>
      /\ configure_spi(c)[5] = <<"pll", TRUE>> /\ configure_spi(c)[6] = <<"gate", TRUE>>
      /\ configure_spi(c)[7] = <<"er", FALSE>>
      /\ configure_spi(c)[8] = <<"brs", sckdv(c.hz)>>
      /\ configure_spi(c)[9] = <<"bits", c.bits - 1>>
      /\ configure_spi(c)[10] = <<"slave", TRUE>> /\ configure_spi(c)[11] = <<"er", TRUE>>
  BY <1>3, SpiAccessesAre
<1>6. \/ n = 1 /\ spTodo[1][1] = "er" /\ spTodo[1][2] = TRUE
      \/ n = 2 /\ spTodo[1][1] = "slave" /\ spTodo[1][2] = TRUE
      \/ n = 3 /\ spTodo[1][1] = "bits" /\ spTodo[1][2] = c.bits - 1
      \/ n = 4 /\ spTodo[1][1] = "brs" /\ spTodo[1][2] = sckdv(c.hz)
      \/ n = 5 /\ spTodo[1][1] = "er" /\ spTodo[1][2] = FALSE
      \/ n = 6 /\ spTodo[1][1] = "gate" /\ spTodo[1][2] = TRUE
      \/ n = 7 /\ spTodo[1][1] = "pll" /\ spTodo[1][2] = TRUE
      \/ n = 8 /\ spTodo[1][1] = "gate" /\ spTodo[1][2] = FALSE
      \/ n = 9 /\ spTodo[1][1] = "load" /\ spTodo[1][2] = TRUE
      \/ n = 10 /\ spTodo[1][1] = "div" /\ spTodo[1][2] = 3
      \/ n = 11 /\ spTodo[1][1] = "load" /\ spTodo[1][2] = FALSE
  <2>1. CASE n = 1
    <3>1. 12 - n = 11
      BY <2>1
    <3>2. spTodo[1] = <<"er", TRUE>>
      BY <1>2, <1>4, <3>1, Zenon
    <3>3. spTodo[1][1] = "er" /\ spTodo[1][2] = TRUE
      BY <3>2
    <3>. QED  BY <2>1, <3>3, Zenon
  <2>2. CASE n = 2
    <3>1. 12 - n = 10
      BY <2>2
    <3>2. spTodo[1] = <<"slave", TRUE>>
      BY <1>2, <1>4, <3>1, Zenon
    <3>3. spTodo[1][1] = "slave" /\ spTodo[1][2] = TRUE
      BY <3>2
    <3>. QED  BY <2>2, <3>3, Zenon
  <2>3. CASE n = 3
    <3>1. 12 - n = 9
      BY <2>3
    <3>2. spTodo[1] = <<"bits", c.bits - 1>>
      BY <1>2, <1>4, <3>1, Zenon
    <3>3. spTodo[1][1] = "bits" /\ spTodo[1][2] = c.bits - 1
      BY <3>2
    <3>. QED  BY <2>3, <3>3, Zenon
  <2>4. CASE n = 4
    <3>1. 12 - n = 8
      BY <2>4
    <3>2. spTodo[1] = <<"brs", sckdv(c.hz)>>
      BY <1>2, <1>4, <3>1, Zenon
    <3>3. spTodo[1][1] = "brs" /\ spTodo[1][2] = sckdv(c.hz)
      BY <3>2
    <3>. QED  BY <2>4, <3>3, Zenon
  <2>5. CASE n = 5
    <3>1. 12 - n = 7
      BY <2>5
    <3>2. spTodo[1] = <<"er", FALSE>>
      BY <1>2, <1>4, <3>1, Zenon
    <3>3. spTodo[1][1] = "er" /\ spTodo[1][2] = FALSE
      BY <3>2
    <3>. QED  BY <2>5, <3>3, Zenon
  <2>6. CASE n = 6
    <3>1. 12 - n = 6
      BY <2>6
    <3>2. spTodo[1] = <<"gate", TRUE>>
      BY <1>2, <1>4, <3>1, Zenon
    <3>3. spTodo[1][1] = "gate" /\ spTodo[1][2] = TRUE
      BY <3>2
    <3>. QED  BY <2>6, <3>3, Zenon
  <2>7. CASE n = 7
    <3>1. 12 - n = 5
      BY <2>7
    <3>2. spTodo[1] = <<"pll", TRUE>>
      BY <1>2, <1>4, <3>1, Zenon
    <3>3. spTodo[1][1] = "pll" /\ spTodo[1][2] = TRUE
      BY <3>2
    <3>. QED  BY <2>7, <3>3, Zenon
  <2>8. CASE n = 8
    <3>1. 12 - n = 4
      BY <2>8
    <3>2. spTodo[1] = <<"gate", FALSE>>
      BY <1>2, <1>4, <3>1, Zenon
    <3>3. spTodo[1][1] = "gate" /\ spTodo[1][2] = FALSE
      BY <3>2
    <3>. QED  BY <2>8, <3>3, Zenon
  <2>9. CASE n = 9
    <3>1. 12 - n = 3
      BY <2>9
    <3>2. spTodo[1] = <<"load", TRUE>>
      BY <1>2, <1>4, <3>1, Zenon
    <3>3. spTodo[1][1] = "load" /\ spTodo[1][2] = TRUE
      BY <3>2
    <3>. QED  BY <2>9, <3>3, Zenon
  <2>10. CASE n = 10
    <3>1. 12 - n = 2
      BY <2>10
    <3>2. spTodo[1] = <<"div", 3>>
      BY <1>2, <1>4, <3>1, Zenon
    <3>3. spTodo[1][1] = "div" /\ spTodo[1][2] = 3
      BY <3>2
    <3>. QED  BY <2>10, <3>3, Zenon
  <2>11. CASE n = 11
    <3>1. 12 - n = 1
      BY <2>11
    <3>2. spTodo[1] = <<"load", FALSE>>
      BY <1>2, <1>4, <3>1, Zenon
    <3>3. spTodo[1][1] = "load" /\ spTodo[1][2] = FALSE
      BY <3>2
    <3>. QED  BY <2>11, <3>3, Zenon
  <2>12. \A i \in 1..11 :
           \/ i = 1 \/ i = 2 \/ i = 3 \/ i = 4 \/ i = 5 \/ i = 6 \/ i = 7
           \/ i = 8 \/ i = 9 \/ i = 10 \/ i = 11
    OBVIOUS
  <2>. QED  BY <2>1, <2>2, <2>3, <2>4, <2>5, <2>6, <2>7, <2>8, <2>9, <2>10, <2>11, <2>12, Zenon
<1>. QED
  BY <1>6

LEMMA SpiWriting == SpiInv /\ SpiWrite => SpiInv'
<1>. SUFFICES ASSUME SpiInv, SpiWrite
              PROVE  SpiInv'
  OBVIOUS
<1>t. SpiTyped /\ SpiBuilding /\ SpiInCall
  BY DEF SpiInv
<1>1. PICK n \in 1..11 : n = Len(spTodo)
  BY <1>t, SpiNextAccess
<1>2. /\ Len(spTodo') = n - 1 /\ spTodo' \in Seq(SpiAccesses)
      /\ spTodo[1] = configure_spi(spAsked)[12 - n]
      /\ \A i \in 1..(n - 1) : spTodo'[i] = configure_spi(spAsked)[(11 - (n - 1)) + i]
  BY <1>1, <1>t, SpiNextAccess
<1>3. /\ try_from_hz(spAsked.hz) /\ spAsked' = spAsked /\ spTodo # <<>>
      /\ spAsked \in [hz : Nat, bits : Int]
  <2>1. Len(spTodo) # 0
    BY <1>1
  <2>. QED  BY <1>t, <2>1 DEF SpiBuilding, SpiWrite, SpiTyped
<1>. DEFINE c == spAsked
<1>5. sckdv(c.hz) \in Nat
  BY <1>3, DividerFits, SpiAssumption
<1>6. \/ n = 1 /\ spTodo[1][1] = "er" /\ spTodo[1][2] = TRUE
      \/ n = 2 /\ spTodo[1][1] = "slave" /\ spTodo[1][2] = TRUE
      \/ n = 3 /\ spTodo[1][1] = "bits" /\ spTodo[1][2] = c.bits - 1
      \/ n = 4 /\ spTodo[1][1] = "brs" /\ spTodo[1][2] = sckdv(c.hz)
      \/ n = 5 /\ spTodo[1][1] = "er" /\ spTodo[1][2] = FALSE
      \/ n = 6 /\ spTodo[1][1] = "gate" /\ spTodo[1][2] = TRUE
      \/ n = 7 /\ spTodo[1][1] = "pll" /\ spTodo[1][2] = TRUE
      \/ n = 8 /\ spTodo[1][1] = "gate" /\ spTodo[1][2] = FALSE
      \/ n = 9 /\ spTodo[1][1] = "load" /\ spTodo[1][2] = TRUE
      \/ n = 10 /\ spTodo[1][1] = "div" /\ spTodo[1][2] = 3
      \/ n = 11 /\ spTodo[1][1] = "load" /\ spTodo[1][2] = FALSE
  BY <1>1, <1>3, <1>t, SpiFirstAccess
<1>7. /\ DOMAIN spRegs' = DOMAIN spRegs /\ DOMAIN spTree' = DOMAIN spTree
      /\ spTree'.load = (IF "load" = spTodo[1][1] THEN spTodo[1][2] ELSE spTree.load)
      /\ spTree'.div = (IF "div" = spTodo[1][1] THEN spTodo[1][2] ELSE spTree.div)
      /\ spTree'.gate = (IF "gate" = spTodo[1][1] THEN spTodo[1][2] ELSE spTree.gate)
      /\ spTree'.pll = (IF "pll" = spTodo[1][1] THEN spTodo[1][2] ELSE spTree.pll)
      /\ spRegs'.er = (IF "er" = spTodo[1][1] THEN spTodo[1][2] ELSE spRegs.er)
      /\ spRegs'.brs = (IF "brs" = spTodo[1][1] THEN spTodo[1][2] ELSE spRegs.brs)
      /\ spRegs'.bits = (IF "bits" = spTodo[1][1] THEN spTodo[1][2] ELSE spRegs.bits)
  BY <1>t, SpiWriteEffect
<1>8. SpiTyped'
  <2>1. spRegs'.brs \in Nat
    BY <1>5, <1>6, <1>7, <1>t DEF SpiTyped
  <2>2. spTx' \in Seq(Nat) /\ spShift' \in Seq(Nat) /\ spRx' \in Seq(Nat)
    <3>1. \/ spTx' = <<>> /\ spShift' = <<>> /\ spRx' = <<>>
          \/ spTx' = spTx /\ spShift' = spShift /\ spRx' = spRx
      BY DEF SpiWrite, spiFifos
    <3>2. <<>> \in Seq(Nat)
      OBVIOUS
    <3>. QED  BY <1>t, <3>1, <3>2, Zenon DEF SpiTyped
  <2>3. spTree' \in [load : BOOLEAN, div : Nat, gate : BOOLEAN, pll : BOOLEAN]
    <3>1. spTree' = [load |-> spTree'.load, div |-> spTree'.div, gate |-> spTree'.gate,
                     pll |-> spTree'.pll]
      BY <1>t DEF SpiWrite, SpiTyped
    <3>2. spTree'.load \in BOOLEAN /\ spTree'.gate \in BOOLEAN /\ spTree'.pll \in BOOLEAN
      <4>1. spTree'.load \in BOOLEAN
        BY <1>6, <1>7, <1>t DEF SpiTyped
      <4>2. spTree'.gate \in BOOLEAN
        BY <1>6, <1>7, <1>t DEF SpiTyped
      <4>3. spTree'.pll \in BOOLEAN
        BY <1>6, <1>7, <1>t DEF SpiTyped
      <4>. QED  BY <4>1, <4>2, <4>3
    <3>3. spTree'.div \in Nat
      BY <1>6, <1>7, <1>t DEF SpiTyped
    <3>. QED  BY <3>1, <3>2, <3>3
  <2>. QED  BY <1>2, <1>7, <1>t, <2>1, <2>2, <2>3 DEF SpiTyped, SpiWrite
<1>9. /\ spTree.load = (IF n \in {9, 10} THEN FALSE ELSE TRUE)
      /\ spTree.gate = (IF n \in {6, 7} THEN FALSE ELSE TRUE)
      /\ n \in 1..4 => ~ spRegs.er
      /\ n <= 9 => spTree.div = 3
      /\ n <= 6 => spTree.pll = TRUE
      /\ n <= 3 => spRegs.brs = sckdv(spAsked.hz)
      /\ n <= 2 => spRegs.bits = spAsked.bits - 1
  <2>1. n # 0
    OBVIOUS
  <2>2. /\ spTree.load = (IF n \in {9, 10} THEN FALSE ELSE TRUE)
        /\ spTree.gate = (IF n \in {6, 7} THEN FALSE ELSE TRUE)
        /\ n \in 1..4 => ~ spRegs.er
    BY <1>1, <1>t, Zenon DEF SpiBuilding
  <2>3. spRegs.er \/ n # 0 =>
          /\ n <= 9 => spTree.div = 3
          /\ n <= 6 => spTree.pll = TRUE
          /\ n <= 3 => spRegs.brs = sckdv(spAsked.hz)
          /\ n <= 2 => spRegs.bits = spAsked.bits - 1
    BY <1>1, <1>t, Zenon DEF SpiBuilding
  <2>. QED  BY <2>1, <2>2, <2>3, Zenon
<1>10. SpiBuilding'
  <2>. DEFINE m == n - 1
  <2>1. m \in 0..10
    OBVIOUS
  <2>2. /\ spTree'.load = (IF m \in {9, 10} THEN FALSE ELSE TRUE)
        /\ spTree'.gate = (IF m \in {6, 7} THEN FALSE ELSE TRUE)
    <3>1. spTree'.load = (IF m \in {9, 10} THEN FALSE ELSE TRUE)
      <4>1. CASE n = 11
        <5>1. spTodo[1][1] = "load" /\ spTodo[1][2] = FALSE /\ m \in {9, 10}
          BY <1>6, <4>1
        <5>. QED  BY <1>7, <5>1, Zenon
      <4>2. CASE n = 9
        <5>1. spTodo[1][1] = "load" /\ spTodo[1][2] = TRUE /\ m \notin {9, 10}
          BY <1>6, <4>2
        <5>. QED  BY <1>7, <5>1, Zenon
      <4>3. CASE n # 11 /\ n # 9
        <5>1. "load" # spTodo[1][1] /\ (m \in {9, 10} <=> n \in {9, 10})
          BY <1>6, <4>3
        <5>. QED  BY <1>7, <1>9, <5>1, Zenon
      <4>. QED  BY <4>1, <4>2, <4>3
    <3>2. spTree'.gate = (IF m \in {6, 7} THEN FALSE ELSE TRUE)
      <4>1. CASE n = 8
        <5>1. spTodo[1][1] = "gate" /\ spTodo[1][2] = FALSE /\ m \in {6, 7}
          BY <1>6, <4>1
        <5>. QED  BY <1>7, <5>1, Zenon
      <4>2. CASE n = 6
        <5>1. spTodo[1][1] = "gate" /\ spTodo[1][2] = TRUE /\ m \notin {6, 7}
          BY <1>6, <4>2
        <5>. QED  BY <1>7, <5>1, Zenon
      <4>3. CASE n # 8 /\ n # 6
        <5>1. "gate" # spTodo[1][1] /\ (m \in {6, 7} <=> n \in {6, 7})
          BY <1>6, <4>3
        <5>. QED  BY <1>7, <1>9, <5>1, Zenon
      <4>. QED  BY <4>1, <4>2, <4>3
    <3>. QED  BY <3>1, <3>2
  <2>3. m \in 1..4 => ~ spRegs'.er
    BY <1>6, <1>7, <1>9
  <2>4. /\ m <= 9 => spTree'.div = 3
        /\ m <= 6 => spTree'.pll = TRUE
    BY <1>6, <1>7, <1>9
  <2>5. /\ m <= 3 => spRegs'.brs = sckdv(spAsked.hz)
        /\ m <= 2 => spRegs'.bits = spAsked.bits - 1
    BY <1>6, <1>7, <1>9
  <2>6. /\ Len(spTodo') = m
        /\ \A i \in 1..m : spTodo'[i] = configure_spi(spAsked')[(11 - m) + i]
    BY <1>2, <1>3
  <2>. HIDE DEF m
  <2>7. m <= 11
    BY <2>1
  <2>. QED  BY <1>3, <2>2, <2>3, <2>4, <2>5, <2>6, <2>7, Zenon DEF SpiBuilding
<1>11. SpiInCall' /\ SpiAnswers' /\ SpiSent'
  BY <1>3, <1>t DEF SpiWrite, SpiInCall, SpiAnswers, SpiSent, NoSpiCall, SpiStages, SpiBuilt
<1>. QED
  BY <1>8, <1>10, <1>11 DEF SpiInv

\* Calls and the controller leave what the constructor has set up.
LEMMA SpiStaysBuilt ==
    ASSUME SpiInv, UNCHANGED spiBuild
    PROVE  SpiBuilding' /\ (SpiBuilt' <=> SpiBuilt)
BY DEF SpiInv, SpiBuilding, SpiBuilt, spiBuild

LEMMA SpiCalling == SpiInv /\ SpiCall => SpiInv'
<1>. SUFFICES ASSUME SpiInv, SpiCall
              PROVE  SpiInv'
  OBVIOUS
<1>t. SpiTyped /\ SpiInCall
  BY DEF SpiInv
<1>1. UNCHANGED spiBuild /\ SpiBuilding' /\ (SpiBuilt' <=> SpiBuilt) /\ SpiBuilt
  BY SpiStaysBuilt DEF SpiCall
<1>2. PICK op \in {"transfer", "write", "wait_idle"}, w \in SpiLengths, r \in SpiLengths :
         spCall' = [op |-> op, write |-> w, read |-> r]
  BY DEF SpiCall
<1>3. w \in Nat /\ r \in Nat
  BY <1>2, SpiAssumption
<1>4. spCall' \in [op : {"none", "transfer", "write", "wait_idle"}, write : Nat, read : Nat]
  BY <1>2, <1>3
<1>5. /\ spAt' = SpiStage(spCall', 0)
      /\ spResult' = (IF spAt' = "idle" THEN "ok" ELSE "none")
      /\ spCount' = 0 /\ spGot' = <<>> /\ spNext' = spNext
      /\ spTx' = spTx /\ spShift' = spShift /\ spRx' = spRx
      /\ (spOwed' <=> (spTx # <<>> \/ spShift # <<>> \/ spRx # <<>>))
  BY DEF SpiCall, spiFifos
<1>6. SpiLength(spCall') \in Nat
  BY <1>4 DEF SpiLength, SpiMax
<1>7. /\ spCall'.op = "wait_idle" => spAt' = "empty"
      /\ spCall'.op # "wait_idle" =>
            spAt' = (IF 0 < SpiLength(spCall') THEN "room" ELSE "idle")
  BY <1>5 DEF SpiStage
<1>8. <<>> \in Seq(Nat) /\ Len(<<>>) = 0
  OBVIOUS
<1>9. SpiTyped'
  BY <1>1, <1>4, <1>5, <1>8, <1>t DEF SpiTyped, spiBuild
<1>10. SpiInCall'
  BY <1>1, <1>5, <1>7 DEF SpiInCall, SpiStages
<1>11. SpiAnswers'
  <2>. SUFFICES ASSUME spCall'.op = "transfer", ~ spOwed', spResult' # "timeout"
                PROVE  SpiAnswers'
    BY DEF SpiAnswers
  <2>1. spTx' = <<>> /\ spShift' = <<>> /\ spRx' = <<>>
    BY <1>5
  <2>2. \/ spAt' = "room" /\ 0 < SpiLength(spCall')
        \/ spAt' = "idle" /\ SpiLength(spCall') = 0 /\ spResult' = "ok"
    BY <1>5, <1>6, <1>7
  <2>3. Len(spGot') = 0 /\ SpiMin(0, spCall'.read) = 0
    BY <1>4, <1>5, <1>8 DEF SpiMin
  <2>. QED  BY <1>5, <2>1, <2>2, <2>3 DEF SpiAnswers
<1>12. SpiSent'
  BY <1>5, <1>7 DEF SpiSent
<1>. QED
  BY <1>1, <1>9, <1>10, <1>11, <1>12 DEF SpiInv

LEMMA SpiWaiting == SpiInv /\ wait_until => SpiInv'
<1>. SUFFICES ASSUME SpiInv, wait_until
              PROVE  SpiInv'
  OBVIOUS
<1>t. SpiTyped /\ SpiInCall /\ SpiAnswers /\ SpiSent
  BY DEF SpiInv
<1>1. UNCHANGED spiBuild /\ SpiBuilding' /\ (SpiBuilt' <=> SpiBuilt)
  BY SpiStaysBuilt DEF wait_until
<1>2. /\ spCall' = spCall /\ spCount' = spCount /\ spGot' = spGot /\ spNext' = spNext
      /\ spOwed' = spOwed /\ spTx' = spTx /\ spShift' = spShift /\ spRx' = spRx
      /\ spAt \in {"room", "answer", "empty", "quiet"}
  BY DEF wait_until, spiFifos
<1>3. \/ spAt' = "idle" /\ spResult' = "timeout"
      \/ spAt = "room" /\ spAt' = "push" /\ spResult' = "none"
      \/ spAt = "answer" /\ spAt' = "pop" /\ spResult' = "none" /\ spRx # <<>>
      \/ spAt = "empty" /\ spAt' = "quiet" /\ spResult' = "none" /\ spTx = <<>>
      \/ spAt = "quiet" /\ spAt' = "idle" /\ spResult' = "ok" /\ spShift = <<>>
  BY DEF wait_until, AfterWait, SpiReady
<1>4. SpiTyped'
  BY <1>1, <1>2, <1>t DEF SpiTyped, spiBuild
<1>5. SpiInCall'
  BY <1>1, <1>2, <1>3, <1>t DEF SpiInCall, SpiStages
<1>6. SpiAnswers'
  <2>. SUFFICES ASSUME spCall.op = "transfer", ~ spOwed, spResult' # "timeout"
                PROVE  SpiAnswers'
    BY <1>2 DEF SpiAnswers
  <2>1. spResult # "timeout"
    BY <1>2, <1>t DEF SpiInCall
  <2>2. \/ spAt = "room" /\ spAt' = "push"
        \/ spAt = "answer" /\ spAt' = "pop"
    BY <1>3, <1>t, <2>1 DEF SpiAnswers
  <2>. QED  BY <1>2, <1>t, <2>1, <2>2 DEF SpiAnswers, SpiAlone
<1>7. SpiSent'
  BY <1>2, <1>3, <1>t DEF SpiSent, SpiInCall
<1>. QED
  BY <1>1, <1>4, <1>5, <1>6, <1>7 DEF SpiInv

LEMMA SpiPushing == SpiInv /\ Push => SpiInv'
<1>. SUFFICES ASSUME SpiInv, Push
              PROVE  SpiInv'
  OBVIOUS
<1>t. SpiTyped /\ SpiInCall /\ SpiAnswers /\ SpiSent
  BY DEF SpiInv
<1>1. UNCHANGED spiBuild /\ SpiBuilding' /\ (SpiBuilt' <=> SpiBuilt)
  BY SpiStaysBuilt DEF Push
<1>2. /\ spAt = "push" /\ spCall' = spCall /\ spGot' = spGot /\ spOwed' = spOwed
      /\ spShift' = spShift /\ spRx' = spRx /\ spTx' = Append(spTx, spNext)
      /\ spNext' = spNext + 1 /\ spCount' = spCount + 1
      /\ spResult' = (IF spAt' = "idle" THEN "ok" ELSE "none")
  BY DEF Push
<1>3. /\ spCall.op = "transfer" => spAt' = "answer"
      /\ spCall.op # "wait_idle" /\ spAt' \in {"room", "answer", "idle"}
  BY <1>2, <1>t DEF Push, AfterPush, SpiStage, SpiSent
<1>4. SpiTyped'
  <2>1. spTx' \in Seq(Nat) /\ spNext' \in Nat /\ spCount' \in Nat
    BY <1>2, <1>t DEF SpiTyped
  <2>. QED  BY <1>1, <1>2, <1>t, <2>1 DEF SpiTyped, spiBuild
<1>5. SpiInCall'
  BY <1>1, <1>2, <1>3, <1>t DEF SpiInCall, SpiStages
<1>6. SpiAnswers'
  <2>. SUFFICES ASSUME spCall.op = "transfer", ~ spOwed
                PROVE  SpiAnswers'
    BY <1>2 DEF SpiAnswers
  <2>1. /\ spTx = <<>> /\ spShift = <<>> /\ spRx = <<>> /\ spCount < SpiLength(spCall)
        /\ Len(spGot) = SpiMin(spCount, spCall.read)
        /\ \A k \in 1..Len(spGot) : spGot[k] = spNext - spCount + k - 1
    BY <1>2, <1>t DEF SpiAnswers, SpiInCall
  <2>2. spCount \in Nat /\ spNext \in Nat /\ SpiLength(spCall) \in Nat
    BY <1>t DEF SpiTyped, SpiLength, SpiMax
  <2>3. spNext' - 1 = spNext /\ spCount' - 1 = spCount /\ spNext' - spCount' = spNext - spCount
    BY <1>2, <2>2
  <2>4. spTx' = <<spNext' - 1>> /\ spShift' = <<>> /\ spRx' = <<>>
    BY <1>2, <2>1, <2>3
  <2>5. spCount' \in 1..SpiLength(spCall)
    BY <1>2, <2>1, <2>2
  <2>6. \A k \in 1..Len(spGot) : spGot[k] = spNext' - spCount' + k - 1
    BY <2>1, <2>3
  <2>. QED  BY <1>2, <1>3, <2>1, <2>3, <2>4, <2>5, <2>6 DEF SpiAnswers, SpiAlone
<1>7. SpiSent'
  BY <1>2, <1>3 DEF SpiSent
<1>. QED
  BY <1>1, <1>4, <1>5, <1>6, <1>7 DEF SpiInv

LEMMA SpiPopping == SpiInv /\ Pop => SpiInv'
<1>. SUFFICES ASSUME SpiInv, Pop
              PROVE  SpiInv'
  OBVIOUS
<1>t. SpiTyped /\ SpiInCall /\ SpiAnswers /\ SpiSent
  BY DEF SpiInv
<1>1. UNCHANGED spiBuild /\ SpiBuilding' /\ (SpiBuilt' <=> SpiBuilt)
  BY SpiStaysBuilt DEF Pop
<1>2. /\ spAt = "pop" /\ spCall' = spCall /\ spOwed' = spOwed /\ spNext' = spNext
      /\ spShift' = spShift /\ spRx' = Tail(spRx) /\ spTx' = spTx /\ spCount' = spCount
      /\ spGot' = (IF spCount <= spCall.read THEN Append(spGot, Head(spRx)) ELSE spGot)
      /\ spResult' = (IF spAt' = "idle" THEN "ok" ELSE "none")
      /\ spAt' = SpiStage(spCall, spCount)
  BY DEF Pop
<1>3. /\ spCall.op # "wait_idle"
      /\ spAt' = (IF spCount < SpiLength(spCall) THEN "room" ELSE "idle")
  BY <1>2, <1>t DEF SpiStage, SpiSent
<1>4. spRx \in Seq(Nat) /\ spRx # <<>>
  BY <1>2, <1>t DEF SpiTyped, SpiInCall
<1>5. SpiTyped'
  <2>1. Tail(spRx) \in Seq(Nat) /\ Head(spRx) \in Nat
    BY <1>4
  <2>2. spGot' \in Seq(Nat)
    BY <1>2, <2>1, <1>t, OneAfter DEF SpiTyped
  <2>. QED  BY <1>1, <1>2, <1>t, <2>1, <2>2 DEF SpiTyped, spiBuild
<1>6. SpiInCall'
  BY <1>1, <1>2, <1>3, <1>t DEF SpiInCall, SpiStages
<1>7. SpiAnswers'
  <2>. SUFFICES ASSUME spCall.op = "transfer", ~ spOwed
                PROVE  SpiAnswers'
    BY <1>2 DEF SpiAnswers
  <2>1. /\ SpiAlone(spNext - 1) /\ spCount \in 1..SpiLength(spCall)
        /\ Len(spGot) = SpiMin(spCount - 1, spCall.read)
        /\ \A k \in 1..Len(spGot) : spGot[k] = spNext - spCount + k - 1
    BY <1>2, <1>t DEF SpiAnswers, SpiInCall
  <2>2. /\ spCount \in Nat /\ spNext \in Nat /\ SpiLength(spCall) \in Nat /\ spCall.read \in Nat
        /\ spGot \in Seq(Nat)
    BY <1>t DEF SpiTyped, SpiLength, SpiMax
  <2>3. spTx = <<>> /\ spShift = <<>> /\ spRx = <<spNext - 1>>
    BY <1>4, <2>1 DEF SpiAlone
  <2>4. spRx' = <<>> /\ Head(spRx) = spNext - 1 /\ Head(spRx) \in Nat
    BY <1>2, <1>4, <2>3
  <2>5. /\ Len(spGot') = SpiMin(spCount, spCall.read)
        /\ \A k \in 1..Len(spGot') : spGot'[k] = spNext - spCount + k - 1
    <3>1. CASE spCount <= spCall.read
      <4>1. Len(spGot) = spCount - 1
        BY <2>1, <2>2, <3>1 DEF SpiMin
      <4>2. spGot' = Append(spGot, spNext - 1)
        BY <1>2, <2>4, <3>1
      <4>3. spNext - 1 \in Nat
        BY <2>4
      <4>4. /\ Len(spGot') = Len(spGot) + 1
            /\ \A k \in 1..Len(spGot) : spGot'[k] = spGot[k]
            /\ spGot'[Len(spGot) + 1] = spNext - 1
        BY <2>2, <4>2, <4>3, OneAfter
      <4>5. Len(spGot') = spCount /\ spGot'[spCount] = spNext - spCount + spCount - 1
        BY <2>2, <4>1, <4>4
      <4>6. \A k \in 1..spCount : k = spCount \/ k \in 1..Len(spGot)
        BY <2>2, <4>1
      <4>7. \A k \in 1..spCount : spGot'[k] = spNext - spCount + k - 1
        BY <2>1, <4>4, <4>5, <4>6
      <4>8. SpiMin(spCount, spCall.read) = spCount
        BY <2>2, <3>1 DEF SpiMin
      <4>. QED  BY <4>5, <4>7, <4>8
    <3>2. CASE ~ (spCount <= spCall.read)
      <4>1. SpiMin(spCount - 1, spCall.read) = SpiMin(spCount, spCall.read)
        BY <2>1, <2>2, <3>2 DEF SpiMin
      <4>. QED  BY <1>2, <2>1, <3>2, <4>1
    <3>. QED  BY <3>1, <3>2
  <2>6. \/ spAt' = "room" /\ spCount < SpiLength(spCall)
        \/ spAt' = "idle" /\ spCount = SpiLength(spCall) /\ spResult' = "ok"
    BY <1>2, <1>3, <2>1, <2>2
  <2>. QED  BY <1>2, <2>3, <2>4, <2>5, <2>6 DEF SpiAnswers
<1>8. SpiSent'
  BY <1>2, <1>3 DEF SpiSent
<1>. QED
  BY <1>1, <1>5, <1>6, <1>7, <1>8 DEF SpiInv

LEMMA SpiShifting == SpiInv /\ (ShiftOut \/ ShiftIn \/ SpiSticks) => SpiInv'
<1>. SUFFICES ASSUME SpiInv, ShiftOut \/ ShiftIn \/ SpiSticks
              PROVE  SpiInv'
  OBVIOUS
<1>t. SpiTyped /\ SpiInCall /\ SpiAnswers /\ SpiSent
  BY DEF SpiInv
<1>0. UNCHANGED <<spiBuild, spCall, spAt, spCount, spGot, spResult, spNext, spOwed>>
  BY DEF ShiftOut, ShiftIn, SpiSticks
<1>1. UNCHANGED spiBuild /\ SpiBuilding' /\ (SpiBuilt' <=> SpiBuilt)
  BY <1>0, SpiStaysBuilt
<1>2. \/ /\ spShift = <<>> /\ spTx # <<>> /\ spRx' = spRx
         /\ spShift' = <<Head(spTx)>> /\ spTx' = Tail(spTx)
      \/ /\ spShift # <<>> /\ spShift' = <<>> /\ spTx' = spTx
         /\ spRx' = IF Len(spRx) < SpiDepth THEN spRx \o spShift ELSE spRx
      \/ spTx' = spTx /\ spShift' = spShift /\ spRx' = spRx
  BY DEF ShiftOut, ShiftIn, SpiSticks, spiFifos
<1>3. spTx \in Seq(Nat) /\ spShift \in Seq(Nat) /\ spRx \in Seq(Nat)
  BY <1>t DEF SpiTyped
<1>4. spRx \o spShift \in Seq(Nat) /\ Len(spRx \o spShift) = Len(spRx) + Len(spShift)
  BY <1>3, ConcatProperties
<1>5. spTx' \in Seq(Nat) /\ spShift' \in Seq(Nat) /\ spRx' \in Seq(Nat)
  <2>1. spTx # <<>> => Tail(spTx) \in Seq(Nat) /\ <<Head(spTx)>> \in Seq(Nat)
    BY <1>3
  <2>2. <<>> \in Seq(Nat)
    OBVIOUS
  <2>. QED  BY <1>2, <1>3, <1>4, <2>1, <2>2
<1>6. SpiTyped'
  BY <1>0, <1>5, <1>t DEF SpiTyped, spiBuild
<1>7. spRx # <<>> => spRx' # <<>>
  <2>1. spRx # <<>> => Len(spRx) # 0 /\ Len(spRx) \in Nat /\ Len(spShift) \in Nat
    BY <1>3, EmptySeq, LenProperties
  <2>2. Len(<<>>) = 0
    OBVIOUS
  <2>3. spRx # <<>> => Len(spRx) + Len(spShift) # 0
    BY <2>1
  <2>. QED  BY <1>2, <1>4, <2>2, <2>3
<1>8. SpiInCall'
  BY <1>0, <1>1, <1>7, <1>t DEF SpiInCall, spiBuild
<1>9. SpiAnswers'
  <2>. SUFFICES ASSUME spCall.op = "transfer", ~ spOwed, spResult # "timeout"
                PROVE  SpiAnswers'
    BY <1>0 DEF SpiAnswers
  <2>1. CASE spAt \in {"answer", "pop"}
    <3>1. SpiAlone(spNext - 1) /\ spNext \in Nat
      BY <2>1, <1>t DEF SpiAnswers, SpiTyped
    <3>2. PICK f \in Int : f = spNext - 1 /\ SpiAlone(f)
      BY <3>1
    <3>3. /\ Head(<<f>>) = f /\ Tail(<<f>>) = <<>> /\ <<f>> # <<>> /\ Len(<<>>) < SpiDepth
      BY SpiAssumption
    <3>4. spShift = <<f>> => <<>> \o spShift = <<f>>
      BY <1>3, ConcatEmptySeq
    <3>5. SpiAlone(f)'
      BY <1>2, <3>2, <3>3, <3>4 DEF SpiAlone
    <3>6. SpiAlone(spNext - 1)'
      BY <1>0, <3>2, <3>5 DEF SpiAlone
    <3>. QED  BY <1>0, <1>t, <2>1, <3>6 DEF SpiAnswers
  <2>2. CASE spAt \notin {"answer", "pop"}
    <3>1. spTx = <<>> /\ spShift = <<>> /\ spRx = <<>>
      BY <2>2, <1>t DEF SpiAnswers
    <3>2. spTx' = <<>> /\ spShift' = <<>> /\ spRx' = <<>>
      BY <1>2, <3>1
    <3>. QED  BY <1>0, <1>t, <2>2, <3>2 DEF SpiAnswers
  <2>. QED  BY <2>1, <2>2
<1>10. SpiSent'
  BY <1>0, <1>2, <1>t DEF SpiSent
<1>. QED
  BY <1>1, <1>6, <1>8, <1>9, <1>10 DEF SpiInv

LEMMA SpiStep == SpiInv /\ [SpiNext]_spiVars => SpiInv'
<1>1. SpiInv /\ UNCHANGED spiVars => SpiInv'
  <2>. SUFFICES ASSUME SpiInv, UNCHANGED spiVars
                PROVE  SpiInv'
    OBVIOUS
  <2>1. UNCHANGED spiBuild /\ SpiBuilding' /\ (SpiBuilt' <=> SpiBuilt)
    BY SpiStaysBuilt DEF spiVars
  <2>2. SpiTyped' /\ SpiInCall' /\ SpiSent'
    BY <2>1 DEF SpiInv, spiVars, spiFifos, spiBuild, SpiTyped, SpiInCall, SpiSent
  <2>3. SpiAnswers'
    BY DEF SpiInv, spiVars, spiFifos, SpiAnswers, SpiAlone
  <2>. QED  BY <2>1, <2>2, <2>3 DEF SpiInv
<1>. QED
  BY <1>1, SpiNewing, SpiWriting, SpiCalling, SpiWaiting, SpiPushing, SpiPopping, SpiShifting
  DEF SpiNext

\* The blocking SPI master is set up as it was asked to be and in the order the clock tree
\* needs, a transfer reads the answers to its own frames, and the bus is silent when
\* wait_idle says so: for any clocks, dividers, FIFO depth and lengths.
THEOREM SpiAsPromised == SpiSpec => []SpiSafe
<1>1. SpiInv => SpiSafe
  <2>. SUFFICES ASSUME SpiInv
                PROVE  SpiSafe
    OBVIOUS
  <2>t. SpiTyped /\ SpiBuilding /\ SpiInCall /\ SpiAnswers /\ SpiSent
    BY DEF SpiInv
  <2>1. SpiAsAsked
    <3>1. ASSUME SpiBuilt
          PROVE  /\ spRegs.bits + 1 = spAsked.bits
                 /\ spRegs.brs \in 2..SckdvMax /\ spRegs.brs % 2 = 0
                 /\ spRegs.brs * spAsked.hz <= SPI_CLOCK_HZ
                 /\ SPI_CLOCK_HZ < (spRegs.brs + 2) * spAsked.hz
                 /\ spTree = [load |-> TRUE, div |-> 3, gate |-> TRUE, pll |-> TRUE]
      <4>1. Len(spTodo) = 0 /\ spRegs.er
        BY <3>1 DEF SpiBuilt
      <4>2. /\ try_from_hz(spAsked.hz) /\ spTree.div = 3 /\ spTree.pll = TRUE
            /\ spTree.load = TRUE /\ spTree.gate = TRUE
            /\ spRegs.brs = sckdv(spAsked.hz) /\ spRegs.bits = spAsked.bits - 1
        BY <4>1, <2>t DEF SpiBuilding
      <4>3. spAsked.hz \in Nat /\ spAsked.bits \in Int
        BY <2>t DEF SpiTyped
      <4>4. spRegs.bits + 1 = spAsked.bits
        BY <4>2, <4>3
      <4>5. spTree = [load |-> TRUE, div |-> 3, gate |-> TRUE, pll |-> TRUE]
        BY <4>2, <2>t DEF SpiTyped
      <4>. QED  BY <4>2, <4>3, <4>4, <4>5, DividerFits
    <3>2. ASSUME spTodo # <<>>
          PROVE  /\ spTodo[1][1] = "div" => ~ spTree.load
                 /\ spTodo[1][1] = "pll" => ~ spTree.gate
                 /\ spTodo[1][1] \in {"brs", "bits"} => ~ spRegs.er
      <4>1. PICK n \in 1..11 : n = Len(spTodo)
        <5>1. Len(spTodo) \in Nat /\ Len(spTodo) # 0 /\ Len(spTodo) <= 11
          BY <3>2, <2>t, EmptySeq, LenProperties DEF SpiTyped, SpiBuilding
        <5>2. \A i \in Nat : i # 0 /\ i <= 11 => i \in 1..11
          OBVIOUS
        <5>. QED  BY <5>1, <5>2, Zenon
      <4>2. /\ spTodo[1][1] = "div" => n = 10
            /\ spTodo[1][1] = "pll" => n = 7
            /\ spTodo[1][1] \in {"brs", "bits"} => n \in 3..4
        <5>1. \/ n = 1 /\ spTodo[1][1] = "er"
              \/ n = 2 /\ spTodo[1][1] = "slave"
              \/ n = 3 /\ spTodo[1][1] = "bits"
              \/ n = 4 /\ spTodo[1][1] = "brs"
              \/ n = 5 /\ spTodo[1][1] = "er"
              \/ n = 6 /\ spTodo[1][1] = "gate"
              \/ n = 7 /\ spTodo[1][1] = "pll"
              \/ n = 8 /\ spTodo[1][1] = "gate"
              \/ n = 9 /\ spTodo[1][1] = "load"
              \/ n = 10 /\ spTodo[1][1] = "div"
              \/ n = 11 /\ spTodo[1][1] = "load"
          BY <2>t, <3>2, <4>1, SpiFirstAccess, Zenon
        <5>. QED  BY <5>1
      <4>. QED  BY <2>t, <4>1, <4>2 DEF SpiBuilding
    <3>. QED  BY <3>1, <3>2 DEF SpiAsAsked
  <2>2. SpiOwnAnswers
    <3>. SUFFICES ASSUME spCall.op = "transfer", spResult = "ok", ~ spOwed
                  PROVE  spGot = [k \in 1..spCall.read |->
                                     (spNext - SpiLength(spCall)) + k - 1]
      BY DEF SpiOwnAnswers
    <3>1. /\ spCount = SpiLength(spCall) /\ Len(spGot) = SpiMin(spCount, spCall.read)
          /\ \A k \in 1..Len(spGot) : spGot[k] = spNext - spCount + k - 1
      BY <2>t DEF SpiAnswers, SpiInCall
    <3>2. spCall.read \in Nat /\ spCall.write \in Nat /\ spGot \in Seq(Nat)
      BY <2>t DEF SpiTyped
    <3>3. Len(spGot) = spCall.read
      BY <3>1, <3>2 DEF SpiMin, SpiMax, SpiLength
    <3>4. spGot = [k \in 1..Len(spGot) |-> spGot[k]]
      BY <3>2
    <3>. QED  BY <3>1, <3>3, <3>4
  <2>3. SpiIdleMeansSent
    BY <2>t DEF SpiIdleMeansSent, SpiSent
  <2>. QED  BY <2>1, <2>2, <2>3 DEF SpiSafe
<1>. QED
  BY <1>1, SpiInitInv, SpiStep, PTL DEF SpiSpec
=================================================================================
