------------------------------ MODULE ListLemmas ------------------------------
(***************************************************************************)
(* Facts about sequences and numbers that the proofs about the drivers'    *)
(* models share.                                                           *)
(***************************************************************************)
EXTENDS Integers, SequencesExt, SequenceTheorems, FiniteSetTheorems,
        WellFoundedInduction, TLAPS

-----------------------------------------------------------------------------
(* Induction over the natural numbers, for sets: the library's theorem      *)
(* takes a predicate as a parameter.                                        *)

\* Every inhabited set of natural numbers has a least element.
LEMMA LeastNat ==
    ASSUME NEW T, T \subseteq Nat, T # {}
    PROVE  \E x \in T : \A y \in T : x <= y
<1>. DEFINE R == {ss \in Nat \X Nat : ss[1] < ss[2]}
<1>1. IsWellFoundedOn(R, Nat)
  BY NatLessThanWellFounded DEF OpToRel
<1>2. PICK x \in T : \A y \in T : <<y, x>> \notin R
  <2>. HIDE DEF R
  <2>. QED  BY <1>1, WFMin
<1>3. ASSUME NEW y \in T
      PROVE  x <= y
  <2>1. <<y, x>> \in Nat \X Nat /\ <<y, x>>[1] = y /\ <<y, x>>[2] = x
    OBVIOUS
  <2>. QED  BY <1>2, <2>1
<1>. QED
  BY <1>3

\* What holds of 0, and of n + 1 whenever of n, holds of every number.
LEMMA NatSetInduction ==
    ASSUME NEW S, 0 \in S, \A n \in Nat : n \in S => n + 1 \in S
    PROVE  Nat \subseteq S
<1>. SUFFICES ASSUME Nat \ S # {}
              PROVE  FALSE
  OBVIOUS
<1>1. PICK x \in Nat \ S : \A y \in Nat \ S : x <= y
  BY LeastNat
<1>2. x # 0 /\ x - 1 \in Nat
  BY <1>1
<1>3. x - 1 \in S
  BY <1>1, <1>2
<1>. QED
  BY <1>1, <1>2, <1>3

-----------------------------------------------------------------------------
(* Sequences that are put together. *)

\* The sequence of nothing.
LEMMA NothingYet == Len(<<>>) = 0 /\ DOMAIN <<>> = {}
OBVIOUS

\* One element before a sequence.
LEMMA OneBefore ==
    ASSUME NEW T, NEW u \in T, NEW s \in Seq(T)
    PROVE  /\ <<u>> \o s \in Seq(T) /\ Len(<<u>> \o s) = Len(s) + 1
           /\ (<<u>> \o s)[1] = u
           /\ \A i \in 1..Len(s) : (<<u>> \o s)[i + 1] = s[i]
<1>1. <<u>> \in Seq(T) /\ Len(<<u>>) = 1 /\ <<u>>[1] = u /\ Len(s) \in Nat
  OBVIOUS
<1>2. \A i \in 1..Len(s) : i + 1 \in 1..(1 + Len(s)) /\ ~ (i + 1 <= 1) /\ (i + 1) - 1 = i
  BY <1>1
<1>3. 1 \in 1..(1 + Len(s)) /\ 1 + Len(s) = Len(s) + 1
  BY <1>1
<1>. QED
  BY <1>1, <1>2, <1>3, ConcatProperties

\* And after it.
LEMMA OneAfter ==
    ASSUME NEW T, NEW s \in Seq(T), NEW e \in T
    PROVE  /\ Append(s, e) \in Seq(T) /\ Len(Append(s, e)) = Len(s) + 1
           /\ \A i \in 1..Len(s) : Append(s, e)[i] = s[i]
           /\ Append(s, e)[Len(s) + 1] = e
OBVIOUS

\* One sequence after another.
LEMMA Joined ==
    ASSUME NEW T, NEW s \in Seq(T), NEW t \in Seq(T)
    PROVE  /\ s \o t \in Seq(T) /\ Len(s \o t) = Len(s) + Len(t)
           /\ \A i \in 1..Len(s) : (s \o t)[i] = s[i]
           /\ \A i \in 1..Len(t) : (s \o t)[Len(s) + i] = t[i]
<1>. DEFINE m == Len(s)
            n == Len(t)
<1>0. m \in Nat /\ n \in Nat
  BY LenProperties
<1>1. /\ s \o t \in Seq(T) /\ Len(s \o t) = m + n
      /\ \A i \in 1..(m + n) : (s \o t)[i] = IF i <= m THEN s[i] ELSE t[i - m]
  BY ConcatProperties
<1>. HIDE DEF m, n
<1>2. \A i \in 1..m : i \in 1..(m + n) /\ i <= m
  BY <1>0
<1>3. \A i \in 1..n : m + i \in 1..(m + n) /\ ~ (m + i <= m) /\ (m + i) - m = i
  BY <1>0
<1>4. /\ s \o t \in Seq(T) /\ Len(s \o t) = m + n
      /\ \A i \in 1..m : (s \o t)[i] = s[i]
      /\ \A i \in 1..n : (s \o t)[m + i] = t[i]
  BY <1>1, <1>2, <1>3
<1>. QED
  BY <1>4 DEF m, n

\* What is put before a sequence is its head, and the sequence its tail.
LEMMA HeadBefore ==
    ASSUME NEW T, NEW u \in T, NEW s \in Seq(T)
    PROVE  /\ <<u>> \o s \in Seq(T) /\ <<u>> \o s # <<>>
           /\ Head(<<u>> \o s) = u /\ Tail(<<u>> \o s) = s
<1>. DEFINE whole == <<u>> \o s
<1>1. /\ whole \in Seq(T) /\ Len(whole) = Len(s) + 1 /\ whole[1] = u
      /\ \A i \in 1..Len(s) : whole[i + 1] = s[i]
  BY OneBefore
<1>2. Len(s) \in Nat
  BY LenProperties
<1>. HIDE DEF whole
<1>3. whole # <<>>
  BY <1>1, <1>2, NothingYet
<1>4. Head(whole) = u
  BY <1>1, <1>3
<1>5. /\ Tail(whole) \in Seq(T) /\ Len(Tail(whole)) = Len(whole) - 1
      /\ \A i \in 1..Len(Tail(whole)) : Tail(whole)[i] = whole[i + 1]
  BY <1>1, <1>3, HeadTailProperties
<1>6. Len(Tail(whole)) = Len(s)
  BY <1>1, <1>2, <1>5
<1>7. \A i \in 1..Len(s) : Tail(whole)[i] = s[i]
  BY <1>1, <1>5, <1>6
<1>8. Tail(whole) = s
  BY <1>5, <1>6, <1>7, SeqEqual
<1>. QED
  BY <1>1, <1>3, <1>4, <1>8 DEF whole

\* Two are put before a sequence one after the other.
LEMMA TwoBefore ==
    ASSUME NEW T, NEW u \in T, NEW v \in T, NEW s \in Seq(T)
    PROVE  <<u, v>> \o s = <<u>> \o (<<v>> \o s)
<1>1. /\ <<u>> \in Seq(T) /\ Len(<<u>>) = 1 /\ <<u>>[1] = u
      /\ <<v>> \in Seq(T) /\ Len(<<v>>) = 1 /\ <<v>>[1] = v
      /\ <<u, v>> \in Seq(T) /\ Len(<<u, v>>) = 2 /\ <<u, v>>[1] = u /\ <<u, v>>[2] = v
  OBVIOUS
<1>2. /\ <<u>> \o <<v>> \in Seq(T) /\ Len(<<u>> \o <<v>>) = 2
      /\ (<<u>> \o <<v>>)[1] = u /\ (<<u>> \o <<v>>)[2] = v
  BY <1>1, OneBefore
<1>3. <<u, v>> = <<u>> \o <<v>>
  <2>1. \A i \in 1..2 : i = 1 \/ i = 2
    OBVIOUS
  <2>. QED  BY <1>1, <1>2, <2>1, SeqEqual
<1>4. (<<u>> \o <<v>>) \o s = <<u>> \o (<<v>> \o s)
  BY <1>1, ConcatAssociative
<1>. QED
  BY <1>3, <1>4

-----------------------------------------------------------------------------
(* FlattenSeq. *)

\* The recursive function that FlattenSeq is defined by exists: its k-th value
\* puts the first k sequences one after the other.
LEMMA FlattenExists ==
    ASSUME NEW T, NEW seqs \in Seq(Seq(T))
    PROVE  \E f \in [1..Len(seqs) -> Seq(T)] :
              \A i \in 1..Len(seqs) :
                 f[i] = IF i = 1 THEN seqs[i] ELSE f[i - 1] \o seqs[i]
<1>. DEFINE Upto(f, m) == \A i \in 1..m :
                 f[i] = IF i = 1 THEN seqs[i] ELSE f[i - 1] \o seqs[i]
            P(m) == m <= Len(seqs) => \E f \in [1..m -> Seq(T)] : Upto(f, m)
            S == {m \in Nat : P(m)}
<1>t. Len(seqs) \in Nat /\ \A i \in 1..Len(seqs) : seqs[i] \in Seq(T)
  BY LenProperties, ElementOfSeq
<1>1. P(0)
  <2>1. [i \in 1..0 |-> <<>>] \in [1..0 -> Seq(T)]
    OBVIOUS
  <2>2. Upto([i \in 1..0 |-> <<>>], 0)
    OBVIOUS
  <2>. QED  BY <2>1, <2>2
<1>2. ASSUME NEW m \in Nat, P(m), m + 1 <= Len(seqs)
      PROVE  \E f \in [1..(m + 1) -> Seq(T)] : Upto(f, m + 1)
  <2>0. m <= Len(seqs)
    BY <1>2, <1>t
  <2>1. PICK f \in [1..m -> Seq(T)] : Upto(f, m)
    <3>. HIDE DEF Upto
    <3>. QED  BY <1>2, <2>0
  <2>. DEFINE last == IF m = 0 THEN seqs[1] ELSE f[m] \o seqs[m + 1]
              g == [i \in 1..(m + 1) |-> IF i = m + 1 THEN last ELSE f[i]]
  <2>2. last \in Seq(T)
    <3>1. CASE m = 0
      BY <3>1, <1>2, <1>t
    <3>2. CASE m # 0
      <4>1. f[m] \in Seq(T) /\ seqs[m + 1] \in Seq(T)
        BY <3>2, <1>2, <1>t
      <4>. QED  BY <3>2, <4>1, ConcatProperties
    <3>. QED  BY <3>1, <3>2
  <2>3. g \in [1..(m + 1) -> Seq(T)]
    <3>. HIDE DEF last
    <3>. QED  BY <2>2
  <2>4. ASSUME NEW i \in 1..(m + 1)
        PROVE  g[i] = IF i = 1 THEN seqs[i] ELSE g[i - 1] \o seqs[i]
    <3>1. CASE i = m + 1
      BY <3>1
    <3>2. CASE i # m + 1
      <4>1. i \in 1..m /\ g[i] = f[i] /\ (i # 1 => g[i - 1] = f[i - 1])
        BY <3>2
      <4>. QED  BY <2>1, <4>1
    <3>. QED  BY <3>1, <3>2
  <2>. QED  BY <2>3, <2>4
<1>3. \A m \in Nat : P(m) => P(m + 1)
  BY <1>2
<1>4. \A m \in Nat : P(m)
  <2>. HIDE DEF P
  <2>1. 0 \in S /\ \A m \in Nat : m \in S => m + 1 \in S
    BY <1>1, <1>3
  <2>. QED  BY <2>1, NatSetInduction
<1>5. P(Len(seqs))
  BY <1>4, <1>t
<1>6. Len(seqs) <= Len(seqs)
  BY <1>t
<1>. QED
  BY <1>5, <1>6

\* FlattenSeq is the last of those values.
LEMMA FlattenSteps ==
    ASSUME NEW T, NEW seqs \in Seq(Seq(T)), seqs # <<>>
    PROVE  \E f \in [1..Len(seqs) -> Seq(T)] :
              /\ FlattenSeq(seqs) = f[Len(seqs)]
              /\ \A i \in 1..Len(seqs) :
                    f[i] = IF i = 1 THEN seqs[i] ELSE f[i - 1] \o seqs[i]
<1>. DEFINE n == Len(seqs)
            Step(h) == [i \in 1..n |-> IF i = 1 THEN seqs[i] ELSE h[i - 1] \o seqs[i]]
            f == CHOOSE h : h = Step(h)
<1>t. n \in Nat /\ n # 0
  BY LenProperties, EmptySeq
<1>1. PICK e \in [1..n -> Seq(T)] :
        \A i \in 1..n : e[i] = IF i = 1 THEN seqs[i] ELSE e[i - 1] \o seqs[i]
  BY FlattenExists
<1>2. e = Step(e)
  BY <1>1
<1>3. f = Step(f)
  BY <1>2
<1>4. FlattenSeq(seqs) = f[n]
  BY <1>t DEF FlattenSeq
<1>. HIDE DEF f
<1>5. \A i \in 1..n : f[i] = IF i = 1 THEN seqs[i] ELSE f[i - 1] \o seqs[i]
  BY <1>3
<1>. DEFINE S == {m \in Nat : m \in 1..n => f[m] = e[m]}
<1>6. 0 \in S
  OBVIOUS
<1>7. ASSUME NEW m \in Nat, m \in S, m + 1 \in 1..n
      PROVE  f[m + 1] = e[m + 1]
  <2>1. f[m + 1] = IF m = 0 THEN seqs[1] ELSE f[m] \o seqs[m + 1]
    BY <1>5, <1>7
  <2>2. e[m + 1] = IF m = 0 THEN seqs[1] ELSE e[m] \o seqs[m + 1]
    <3>1. (m + 1) - 1 = m /\ (m + 1 = 1 <=> m = 0)
      OBVIOUS
    <3>. QED  BY <1>1, <1>7, <3>1
  <2>3. m # 0 => f[m] = e[m]
    BY <1>7, <1>t
  <2>. QED  BY <2>1, <2>2, <2>3
<1>8. Nat \subseteq S
  <2>1. \A m \in Nat : m \in S => m + 1 \in S
    BY <1>7
  <2>. HIDE DEF S
  <2>. QED  BY <1>6, <2>1, NatSetInduction
<1>9. f = e
  <2>1. \A i \in 1..n : f[i] = e[i]
    BY <1>8, <1>t
  <2>2. f = [i \in 1..n |-> f[i]]
    BY <1>3
  <2>3. e = [i \in 1..n |-> e[i]]
    OBVIOUS
  <2>. QED  BY <2>1, <2>2, <2>3
<1>. QED
  BY <1>1, <1>4, <1>9

\* It is a sequence of what they are sequences of.
LEMMA FlattenTyped ==
    ASSUME NEW T, NEW seqs \in Seq(Seq(T))
    PROVE  FlattenSeq(seqs) \in Seq(T)
<1>1. CASE seqs = <<>>
  <2>1. FlattenSeq(seqs) = <<>>
    BY <1>1, NothingYet DEF FlattenSeq
  <2>. QED  BY <2>1
<1>2. CASE seqs # <<>>
  <2>1. \E f \in [1..Len(seqs) -> Seq(T)] : FlattenSeq(seqs) = f[Len(seqs)]
    BY <1>2, FlattenSteps
  <2>2. Len(seqs) \in 1..Len(seqs)
    BY <1>2, LenProperties, EmptySeq
  <2>. QED  BY <2>1, <2>2
<1>. QED
  BY <1>1, <1>2

\* FlattenSeq takes a list from its front as well.
LEMMA FlattenFirst ==
    ASSUME NEW T, NEW seqs \in Seq(Seq(T)), seqs # <<>>
    PROVE  FlattenSeq(seqs) = seqs[1] \o FlattenSeq(Tail(seqs))
<1>. DEFINE rest == Tail(seqs)
            n == Len(rest)
<1>1. /\ rest \in Seq(Seq(T)) /\ n \in Nat /\ Len(seqs) = n + 1
      /\ \A i \in 1..n : rest[i] = seqs[i + 1] /\ rest[i] \in Seq(T)
      /\ seqs[1] \in Seq(T)
  <2>1. rest \in Seq(Seq(T)) /\ n = Len(seqs) - 1 /\ \A i \in 1..n : rest[i] = seqs[i + 1]
    BY HeadTailProperties
  <2>2. n \in Nat /\ Len(seqs) \in Nat /\ Len(seqs) # 0
    BY <2>1, LenProperties, EmptySeq
  <2>. QED  BY <2>1, <2>2, ElementOfSeq
<1>a. PICK f \in [1..Len(seqs) -> Seq(T)] :
        /\ FlattenSeq(seqs) = f[Len(seqs)]
        /\ \A i \in 1..Len(seqs) :
              f[i] = IF i = 1 THEN seqs[i] ELSE f[i - 1] \o seqs[i]
  BY FlattenSteps
<1>2. /\ FlattenSeq(seqs) = f[n + 1]
      /\ \A i \in 1..(n + 1) : f[i] = IF i = 1 THEN seqs[i] ELSE f[i - 1] \o seqs[i]
  <2>. HIDE DEF n
  <2>. QED  BY <1>1, <1>a
<1>3. CASE n = 0
  <2>1. f[1] = seqs[1] /\ FlattenSeq(seqs) = f[1]
    <3>. HIDE DEF n
    <3>1. n + 1 = 1 /\ 1 \in 1..(n + 1)
      BY <1>3
    <3>. QED  BY <1>2, <3>1
  <2>2. rest = <<>>
    BY <1>1, <1>3, EmptySeq
  <2>3. FlattenSeq(rest) = <<>>
    BY <2>2, NothingYet DEF FlattenSeq
  <2>4. seqs[1] \o <<>> = seqs[1]
    BY <1>1, ConcatEmptySeq
  <2>. HIDE DEF rest
  <2>5. seqs[1] \o FlattenSeq(rest) = seqs[1]
    BY <2>3, <2>4
  <2>. QED  BY <2>1, <2>5 DEF rest
<1>4. CASE n # 0
  <2>1. rest # <<>>
    BY <1>1, <1>4, NothingYet
  <2>2. PICK g \in [1..n -> Seq(T)] :
          /\ FlattenSeq(rest) = g[n]
          /\ \A i \in 1..n : g[i] = IF i = 1 THEN rest[i] ELSE g[i - 1] \o rest[i]
    <3>. HIDE DEF rest
    <3>. QED  BY <1>1, <2>1, FlattenSteps DEF n
  <2>. DEFINE S == {m \in Nat : m \in 1..n => f[m + 1] = seqs[1] \o g[m]}
  <2>3. 0 \in S
    OBVIOUS
  <2>4. ASSUME NEW m \in Nat, m \in S, m + 1 \in 1..n
        PROVE  f[(m + 1) + 1] = seqs[1] \o g[m + 1]
    <3>1. /\ m + 1 \in 1..(n + 1) /\ m + 2 \in 1..(n + 1) /\ (m + 1) + 1 = m + 2
          /\ (m + 2) - 1 = m + 1 /\ (m + 1) - 1 = m /\ m + 2 # 1 /\ (m + 1 = 1 <=> m = 0)
      BY <1>1, <2>4
    <3>. HIDE DEF rest, n
    <3>2. f[m + 2] = f[m + 1] \o seqs[m + 2]
      BY <1>2, <3>1
    <3>3. seqs[m + 2] = rest[m + 1] /\ rest[m + 1] \in Seq(T)
      BY <1>1, <2>4, <3>1
    <3>4. CASE m = 0
      <4>1. f[m + 1] = seqs[1]
        BY <1>2, <3>1, <3>4
      <4>2. g[m + 1] = rest[m + 1]
        <5>1. m + 1 = 1
          BY <3>4
        <5>. QED  BY <2>2, <2>4, <5>1
      <4>. QED  BY <3>1, <3>2, <3>3, <4>1, <4>2
    <3>5. CASE m # 0
      <4>1. m \in 1..n
        BY <1>1, <2>4, <3>5
      <4>2. f[m + 1] = seqs[1] \o g[m] /\ g[m] \in Seq(T)
        BY <2>2, <2>4, <4>1
      <4>3. g[m + 1] = g[m] \o rest[m + 1]
        BY <2>2, <2>4, <3>1, <3>5
      <4>4. ASSUME NEW x \in Seq(T), NEW y \in Seq(T), NEW z \in Seq(T)
            PROVE  (x \o y) \o z = x \o (y \o z)
        BY ConcatAssociative
      <4>5. (seqs[1] \o g[m]) \o rest[m + 1] = seqs[1] \o (g[m] \o rest[m + 1])
        BY <1>1, <3>3, <4>2, <4>4
      <4>. QED  BY <3>1, <3>2, <3>3, <4>2, <4>3, <4>5
    <3>. QED  BY <3>4, <3>5
  <2>5. Nat \subseteq S
    <3>1. \A m \in Nat : m \in S => m + 1 \in S
      <4>1. ASSUME NEW m \in Nat, m \in S
            PROVE  m + 1 \in S
        <5>1. m + 1 \in 1..n => f[(m + 1) + 1] = seqs[1] \o g[m + 1]
          <6>. HIDE DEF S
          <6>. QED  BY <2>4, <4>1
        <5>2. m + 1 \in Nat
          BY <4>1
        <5>. HIDE DEF rest, n
        <5>. QED  BY <5>1, <5>2
      <4>. HIDE DEF S
      <4>. QED  BY <4>1
    <3>. HIDE DEF S
    <3>. QED  BY <2>3, <3>1, NatSetInduction
  <2>6. f[n + 1] = seqs[1] \o g[n]
    <3>1. n \in S /\ n \in 1..n
      <4>. HIDE DEF n, S
      <4>. QED  BY <1>1, <1>4, <2>5
    <3>. QED  BY <3>1
  <2>. HIDE DEF rest, n
  <2>7. FlattenSeq(seqs) = seqs[1] \o FlattenSeq(rest)
    BY <1>2, <2>2, <2>6
  <2>. QED  BY <2>7 DEF rest
<1>. QED
  BY <1>3, <1>4

-----------------------------------------------------------------------------
(* Queues, and plans of which the front is carried out.                     *)

\* What is taken from the front of a queue, and what is left of it.
LEMMA OneLess ==
    ASSUME NEW T, NEW s \in Seq(T), s # <<>>
    PROVE  /\ Len(s) \in Nat /\ Len(s) >= 1 /\ 1 \in 1..Len(s) /\ Head(s) = s[1] /\ s[1] \in T
           /\ Tail(s) \in Seq(T) /\ Len(Tail(s)) = Len(s) - 1
           /\ \A i \in 1..Len(Tail(s)) : i + 1 \in 1..Len(s) /\ Tail(s)[i] = s[i + 1]
<1>1. Len(s) \in Nat /\ Len(s) # 0
  BY EmptySeq, LenProperties
<1>2. /\ Tail(s) \in Seq(T) /\ Len(Tail(s)) = Len(s) - 1
      /\ \A i \in 1..Len(Tail(s)) : Tail(s)[i] = s[i + 1]
  BY HeadTailProperties
<1>3. 1 \in 1..Len(s) /\ Len(s) >= 1
  BY <1>1
<1>4. \A i \in 1..Len(Tail(s)) : i + 1 \in 1..Len(s)
  BY <1>1, <1>2
<1>5. s[1] \in T
  BY <1>3, ElementOfSeq
<1>6. Head(s) = s[1]
  BY <1>3
<1>. QED
  BY <1>1, <1>2, <1>3, <1>4, <1>5, <1>6

\* s is what is left of the plan.
IsRest(s, plan) ==
    /\ Len(s) \in 0..Len(plan)
    /\ \A i \in 1..Len(s) : s[i] = plan[(Len(plan) - Len(s)) + i]

\* At first all of it, and with nothing left there is nothing to say.
LEMMA RestStarts ==
    ASSUME NEW T, NEW plan \in Seq(T)
    PROVE  IsRest(plan, plan) /\ IsRest(<<>>, plan)
<1>1. Len(plan) \in Nat
  BY LenProperties
<1>2. \A i \in 1..Len(plan) : (Len(plan) - Len(plan)) + i = i
  BY <1>1
<1>. QED
  BY <1>1, <1>2, NothingYet DEF IsRest

\* One step of it is taken.
LEMMA RestShrinks ==
    ASSUME NEW T, NEW s \in Seq(T), NEW plan \in Seq(T), s # <<>>, IsRest(s, plan)
    PROVE  /\ IsRest(Tail(s), plan) /\ Tail(s) \in Seq(T)
           /\ Len(s) \in 1..Len(plan) /\ Len(Tail(s)) = Len(s) - 1
           /\ Head(s) = plan[(Len(plan) + 1) - Len(s)]
<1>. DEFINE n == Len(s)
            m == Len(plan)
            t == Tail(s)
<1>1. /\ n \in Nat /\ n >= 1 /\ 1 \in 1..n /\ Head(s) = s[1]
      /\ t \in Seq(T) /\ Len(t) = n - 1
      /\ \A i \in 1..(n - 1) : i + 1 \in 1..n /\ t[i] = s[i + 1]
  BY OneLess
<1>2. /\ m \in Nat /\ n \in 0..m /\ \A i \in 1..n : s[i] = plan[(m - n) + i]
  BY LenProperties DEF IsRest
<1>. HIDE DEF n, m, t
<1>3. \A i \in 1..(n - 1) : (m - n) + (i + 1) = (m - (n - 1)) + i
  BY <1>1, <1>2
<1>4. \A i \in 1..(n - 1) : t[i] = plan[(m - (n - 1)) + i]
  BY <1>1, <1>2, <1>3
<1>5. n - 1 \in 0..m /\ n \in 1..m
  BY <1>1, <1>2
<1>6. (m - n) + 1 = (m + 1) - n
  BY <1>1, <1>2
<1>7. Head(s) = plan[(m + 1) - n]
  BY <1>1, <1>2, <1>6
<1>8. IsRest(t, plan)
  BY <1>1, <1>4, <1>5 DEF IsRest, m
<1>. QED
  BY <1>1, <1>5, <1>7, <1>8 DEF n, m, t

-----------------------------------------------------------------------------
(* A finite set in some order.                                              *)

\* SetToSeq lists members of the set.
LEMMA SetListed ==
    ASSUME NEW S, IsFiniteSet(S)
    PROVE  SetToSeq(S) \in Seq(S)
<1>1. Cardinality(S) \in Nat /\ ExistsBijection(1..Cardinality(S), S)
  BY FS_CardinalityType
<1>2. \E f \in [1..Cardinality(S) -> S] : IsInjective(f)
  BY <1>1 DEF ExistsBijection, Bijection, Injection
<1>3. SetToSeq(S) \in [1..Cardinality(S) -> S]
  <2>1. PICK f \in [1..Cardinality(S) -> S] : IsInjective(f)
    BY <1>2
  <2>2. (CHOOSE g \in [1..Cardinality(S) -> S] : IsInjective(g)) \in [1..Cardinality(S) -> S]
    BY <2>1, Zenon
  <2>. QED  BY <2>2, Zenon DEF SetToSeq
<1>. DEFINE n == Cardinality(S)
            s == SetToSeq(S)
<1>4. n \in Nat /\ s \in [1..n -> S]
  BY <1>1, <1>3
<1>. HIDE DEF n, s
<1>5. s \in Seq(S)
  BY <1>4
<1>. QED
  BY <1>5 DEF s

\* A quotient is a number, and its multiple is the next below.
LEMMA DivRoundsDown ==
    \A x \in Nat, d \in Nat \ {0} :
        x \div d \in Nat /\ d * (x \div d) <= x /\ x < d * (x \div d) + d
BY Z3

\* A sequence that begins with one and goes on with another is the two joined.
LEMMA JoinIs ==
    ASSUME NEW T, NEW p \in Seq(T), NEW q \in Seq(T), NEW w \in Seq(T),
           Len(w) = Len(p) + Len(q), \A i \in 1..Len(p) : w[i] = p[i],
           \A i \in 1..Len(q) : w[Len(p) + i] = q[i]
    PROVE  p \o q = w
<1> DEFINE m == Len(p)
           n == Len(q)
<1>1. m \in Nat /\ n \in Nat
  BY LenProperties
<1>2. PICK z : z = p \o q
  OBVIOUS
<1>3. /\ z \in Seq(T) /\ Len(z) = m + n
      /\ \A i \in 1..m : z[i] = p[i]
      /\ \A i \in 1..n : z[m + i] = q[i]
  BY <1>2, Joined
<1>4. Len(w) = m + n /\ (\A i \in 1..m : w[i] = p[i]) /\ \A i \in 1..n : w[m + i] = q[i]
  OBVIOUS
<1>. HIDE DEF m, n
<1>5. \A i \in 1..(m + n) : w[i] = z[i]
  <2>. SUFFICES ASSUME NEW i \in 1..(m + n) PROVE w[i] = z[i]
    OBVIOUS
  <2>1. CASE i \in 1..m
    BY <1>3, <1>4, <2>1
  <2>2. CASE i \notin 1..m
    <3>1. i - m \in 1..n /\ m + (i - m) = i
      BY <1>1, <2>2
    <3>. QED  BY <1>3, <1>4, <3>1
  <2>. QED  BY <2>1, <2>2
<1>6. w = z
  BY <1>3, <1>4, <1>5, SeqEqual
<1>. QED
  BY <1>2, <1>6

\* Short sequences, joined.
LEMMA JoinOneTwo ==
    ASSUME NEW a, NEW b, NEW c
    PROVE  <<a>> \o <<b, c>> = <<a, b, c>>
<1> DEFINE T == {a, b, c}
<1>1. <<a>> \in Seq(T) /\ <<b, c>> \in Seq(T)
  OBVIOUS
<1>2. <<a, b, c>> \in Seq(T)
  OBVIOUS
<1>. HIDE DEF T
<1>3. /\ Len(<<a, b, c>>) = Len(<<a>>) + Len(<<b, c>>)
      /\ \A i \in 1..Len(<<a>>) : <<a, b, c>>[i] = <<a>>[i]
      /\ \A i \in 1..Len(<<b, c>>) : <<a, b, c>>[Len(<<a>>) + i] = <<b, c>>[i]
  OBVIOUS
<1>. QED
  BY <1>1, <1>2, <1>3, JoinIs, Zenon

LEMMA JoinTwoOne ==
    ASSUME NEW a, NEW b, NEW c
    PROVE  <<a, b>> \o <<c>> = <<a, b, c>>
<1> DEFINE T == {a, b, c}
<1>1. <<a, b>> \in Seq(T) /\ <<c>> \in Seq(T)
  OBVIOUS
<1>2. <<a, b, c>> \in Seq(T)
  OBVIOUS
<1>. HIDE DEF T
<1>3. /\ Len(<<a, b, c>>) = Len(<<a, b>>) + Len(<<c>>)
      /\ \A i \in 1..Len(<<a, b>>) : <<a, b, c>>[i] = <<a, b>>[i]
      /\ \A i \in 1..Len(<<c>>) : <<a, b, c>>[Len(<<a, b>>) + i] = <<c>>[i]
  OBVIOUS
<1>. QED
  BY <1>1, <1>2, <1>3, JoinIs, Zenon

LEMMA JoinTwoTwo ==
    ASSUME NEW a, NEW b, NEW c, NEW d
    PROVE  <<a, b>> \o <<c, d>> = <<a, b, c, d>>
<1> DEFINE T == {a, b, c, d}
<1>1. <<a, b>> \in Seq(T) /\ <<c, d>> \in Seq(T)
  OBVIOUS
<1>2. <<a, b, c, d>> \in Seq(T)
  OBVIOUS
<1>. HIDE DEF T
<1>3. /\ Len(<<a, b, c, d>>) = Len(<<a, b>>) + Len(<<c, d>>)
      /\ \A i \in 1..Len(<<a, b>>) : <<a, b, c, d>>[i] = <<a, b>>[i]
      /\ \A i \in 1..Len(<<c, d>>) : <<a, b, c, d>>[Len(<<a, b>>) + i] = <<c, d>>[i]
  OBVIOUS
<1>. QED
  BY <1>1, <1>2, <1>3, JoinIs, Zenon

LEMMA JoinThreeTwo ==
    ASSUME NEW a, NEW b, NEW c, NEW d, NEW e
    PROVE  <<a, b, c>> \o <<d, e>> = <<a, b, c, d, e>>
<1> DEFINE T == {a, b, c, d, e}
<1>1. <<a, b, c>> \in Seq(T) /\ <<d, e>> \in Seq(T)
  OBVIOUS
<1>2. <<a, b, c, d, e>> \in Seq(T)
  OBVIOUS
<1>. HIDE DEF T
<1>3. /\ Len(<<a, b, c, d, e>>) = Len(<<a, b, c>>) + Len(<<d, e>>)
      /\ \A i \in 1..Len(<<a, b, c>>) : <<a, b, c, d, e>>[i] = <<a, b, c>>[i]
      /\ \A i \in 1..Len(<<d, e>>) : <<a, b, c, d, e>>[Len(<<a, b, c>>) + i] = <<d, e>>[i]
  OBVIOUS
<1>. QED
  BY <1>1, <1>2, <1>3, JoinIs, Zenon
=============================================================================
