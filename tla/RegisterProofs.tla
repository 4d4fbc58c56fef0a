---------------------------- MODULE RegisterProofs ----------------------------
(***************************************************************************)
(* Proofs about the drivers of shared registers: the cache maintenance     *)
(* around DMA, the interrupt controller, PWM channels, eFuse with the key  *)
(* slots, I2S, pads and pins; and that each of them keeps what it promises *)
(* beside the others (MCRegisters).                                        *)
(***************************************************************************)
EXTENDS MCRegisters, ListLemmas

-----------------------------------------------------------------------------
(* DmaCache: what the controller reads and what the CPU reads after a       *)
(* transfer are the last values written, for any memory, line size and      *)
(* buffers.                                                                 *)

\* The copy of a word that the CPU reads is the last value.
SeenByCpu(w) == IF ccLine[LineAt(w)] = "absent" THEN w \in ccRam ELSE w \in ccCached

\* A command for a word's line is still to come.
Awaits(command, w) == \E i \in 1..Len(ccTodo) : ccTodo[i] = <<command, LineAt(w)>>

\* What is left to do is of one kind, and invalidation is of the target's lines only.
TodoFits ==
    /\ ccStage \in {"idle", "run"} => ccTodo = <<>>
    /\ \A i \in 1..Len(ccTodo) :
         /\ ccStage = "clean" => ccTodo[i][1] = "clean"
         /\ ccStage = "flush" => ccTodo[i][1] = "flush"
         /\ ccStage = "settle" => /\ ccTodo[i][1] = "invalidate"
                                  /\ \E w \in Target : LineAt(w) = ccTodo[i][2]

\* A line that is dirty under a target is mixed.
TargetLines ==
    \A w \in Target : ccLine[LineAt(w)] = "dirty" => OnLine(LineAt(w)) \subseteq ccMixed

\* RAM has what is not dirty in the cache.
RamCurrent ==
    \A w \in CcAddresses \ ccMixed : ccLine[LineAt(w)] # "dirty" => w \in ccRam

\* A source that is not in RAM yet will be cleaned before the channel starts.
Cleaning ==
    /\ ccStage = "clean" =>
         \A w \in Source : w \in ccRam \/ w \in ccMixed \/ Awaits("clean", w)
    /\ ccStage = "run" => \A w \in Source : w \in ccRam \/ w \in ccMixed

\* A target of which the CPU has an old copy will be invalidated before it is given back.
Settling ==
    ccStage = "settle" =>
        \A w \in Target : SeenByCpu(w) \/ w \in ccMixed \/ Awaits("invalidate", w)

\* Source and target are apart, and in memory.
CallFits ==
    Source \subseteq CcAddresses /\ Target \subseteq CcAddresses /\ Source \cap Target = {}

CacheInv ==
    /\ CcTypeOK /\ CallFits /\ TodoFits /\ CpuSeesLast /\ TargetLines /\ RamCurrent
    /\ Cleaning /\ Settling

-----------------------------------------------------------------------------
(* Lines and words. *)

\* There is memory, and a line has a word.
LEMMA Sizes == CcWords \in Nat /\ CcWords >= 1 /\ CACHE_LINE \in Nat /\ CACHE_LINE >= 1
<1>1. CcWords \in Nat /\ CcWords # 0 /\ CACHE_LINE \in Nat /\ CACHE_LINE # 0
  BY CacheAssumption
<1>. QED
  BY <1>1

\* Lengths and addresses are numbers.
LEMMA Numbers == (\A n \in CcLengths : n \in Nat) /\ (\A w \in CcAddresses : w \in Nat)
<1>1. \A n \in CcLengths : n \in Nat
  BY CacheAssumption
<1>2. \A w \in CcAddresses : w \in Nat
  BY Sizes DEF CcAddresses
<1>. QED
  BY <1>1, <1>2

\* Of two words the later is on no earlier line.
LEMMA LinesInOrder ==
    \A x, y \in Nat : x <= y => LineAt(x) \in Nat /\ LineAt(y) \in Nat /\ LineAt(x) <= LineAt(y)
<1> SUFFICES ASSUME NEW x \in Nat, NEW y \in Nat, x <= y
             PROVE  LineAt(x) \in Nat /\ LineAt(y) \in Nat /\ LineAt(x) <= LineAt(y)
  OBVIOUS
<1> DEFINE p == x \div CACHE_LINE
           q == y \div CACHE_LINE
<1>1. p \in Nat /\ q \in Nat /\ CACHE_LINE * p <= x /\ y < CACHE_LINE * q + CACHE_LINE
  BY DivRoundsDown, Sizes
<1>2. CACHE_LINE * p < CACHE_LINE * (q + 1)
  BY <1>1, Sizes
<1> HIDE DEF p, q
<1>3. p < q + 1
  BY <1>1, <1>2, Sizes
<1>. QED
  BY <1>1, <1>3 DEF p, q, LineAt

\* A line is that of its first word.
LEMMA FirstWord == \A l, d \in Nat : d # 0 => d * l \in Nat /\ (d * l) \div d = l
BY Z3

\* A line between those of two words has a word between them.
LEMMA LineHasWord ==
    ASSUME NEW a \in Nat, NEW b \in Nat, a <= b, NEW l \in LineAt(a)..LineAt(b)
    PROVE  \E w \in a..b : LineAt(w) = l
<1> DEFINE p == a \div CACHE_LINE
           q == b \div CACHE_LINE
           first == CACHE_LINE * l
<1>1. p \in Nat /\ q \in Nat /\ a < CACHE_LINE * p + CACHE_LINE /\ CACHE_LINE * q <= b
  BY DivRoundsDown, Sizes
<1>2. l \in Nat /\ p <= l /\ l <= q
  BY <1>1 DEF LineAt
<1>3. CASE l = p
  BY <1>3 DEF LineAt
<1>4. CASE l # p
  <2>1. p + 1 <= l
    BY <1>1, <1>2, <1>4
  <2> HIDE DEF p, q
  <2>2. first \in Nat /\ CACHE_LINE * (p + 1) <= first /\ first <= CACHE_LINE * q
    BY <2>1, <1>1, <1>2, Sizes
  <2>3. first \in a..b
    BY <1>1, <2>2, Sizes
  <2>4. LineAt(first) = l
    BY <1>2, FirstWord, Sizes DEF LineAt
  <2>. QED
    BY <2>3, <2>4
<1>. QED
  BY <1>3, <1>4

\* The words of memory are on its lines.
LEMMA LinesOfMemory == \A w \in CcAddresses : LineAt(w) \in CcLines
<1>1. \A w \in CcAddresses : w \in Nat /\ w <= CcWords - 1 /\ CcWords - 1 \in Nat
  BY Sizes DEF CcAddresses
<1>. QED
  BY <1>1, LinesInOrder DEF CcLines

\* One command for each line that has a word of a range, and for no other line.
Covers(todo, command, at, len) ==
    /\ todo \in Seq({"clean", "invalidate", "flush"} \X CcLines)
    /\ \A i \in 1..Len(todo) : /\ todo[i][1] = command
                               /\ \E w \in at..(at + len - 1) : LineAt(w) = todo[i][2]
    /\ \A w \in at..(at + len - 1) : \E i \in 1..Len(todo) : todo[i] = <<command, LineAt(w)>>

\* Maintenance of a range covers it.
LEMMA MaintainsLines ==
    ASSUME NEW command \in {"clean", "invalidate", "flush"}, NEW at \in Nat, NEW len \in Nat,
           at + len <= CcWords
    PROVE  Covers(maintain(command, at, len), command, at, len)
<1>1. CASE len = 0
  BY <1>1 DEF maintain, Covers
<1>2. CASE len # 0
  <2> DEFINE first == LineAt(at)
             last == LineAt(at + len - 1)
             todo == [k \in 1..(last - first + 1) |-> <<command, first + k - 1>>]
  <2>1. maintain(command, at, len) = todo
    BY <1>2 DEF maintain
  <2>2. at + len - 1 \in Nat /\ at <= at + len - 1 /\ at + len - 1 \in CcAddresses
    BY <1>2, Sizes DEF CcAddresses
  <2>3. first \in Nat /\ last \in Nat /\ first <= last /\ last \in CcLines
    BY <2>2, LinesInOrder, LinesOfMemory
  <2>4. CcLines = 0..LineAt(CcWords - 1) /\ LineAt(CcWords - 1) \in Nat
    <3>1. CcWords - 1 \in Nat
      BY Sizes
    <3>. QED
      BY <3>1, LinesInOrder DEF CcLines
  <2>5. \A k \in 1..(last - first + 1) : first + k - 1 \in first..last
    BY <2>3
  <2>6. first..last \subseteq CcLines
    BY <2>3, <2>4
  <2>7. \A w \in at..(at + len - 1) : LineAt(w) \in first..last
    BY <2>2, <2>3, LinesInOrder
  <2>8. \A l \in first..last : \E w \in at..(at + len - 1) : LineAt(w) = l
    BY <2>2, LineHasWord
  <2> HIDE DEF first, last
  <2>9. Len(todo) = last - first + 1 /\ todo \in Seq({"clean", "invalidate", "flush"} \X CcLines)
    BY <2>3, <2>5, <2>6
  <2>10. \A i \in 1..Len(todo) : /\ todo[i][1] = command
                                 /\ \E w \in at..(at + len - 1) : LineAt(w) = todo[i][2]
    BY <2>9, <2>5, <2>8
  <2>11. \A l \in first..last : l - first + 1 \in 1..(last - first + 1)
                                /\ todo[l - first + 1] = <<command, l>>
    BY <2>3
  <2>12. \A w \in at..(at + len - 1) :
           \E i \in 1..Len(todo) : todo[i] = <<command, LineAt(w)>>
    BY <2>7, <2>9, <2>11
  <2>. QED
    BY <2>1, <2>9, <2>10, <2>12 DEF Covers
<1>. QED
  BY <1>1, <1>2

-----------------------------------------------------------------------------
(* The invariant, action by action. *)

\* Source and target are those of the call while it is under way.
LEMMA SameCall ==
    ASSUME UNCHANGED <<ccStage, ccCall>>
    PROVE  Source' = Source /\ Target' = Target
BY DEF Source, Target, SourceOf, TargetOf

\* A read fills a line from RAM.
LEMMA CpuReadKeeps == ASSUME CacheInv, CpuRead PROVE CacheInv'
<1> USE DEF CacheInv
<1>1. PICK r \in CcAddresses \ (Source \cup Target) :
        /\ ccLine[LineAt(r)] = "absent"
        /\ ccLine' = [ccLine EXCEPT ![LineAt(r)] = "clean"]
        /\ ccCached' = Copied(ccCached, ccRam, LineAt(r))
  BY DEF CpuRead
<1>2. UNCHANGED <<ccRam, ccStage, ccTodo, ccCall, ccBeat, ccMixed>>
      /\ Source' = Source /\ Target' = Target
  BY SameCall DEF CpuRead
<1>3. /\ \A w \in CcAddresses : LineAt(w) \in CcLines
      /\ LineAt(r) \in CcLines /\ ccLine \in [CcLines -> {"absent", "clean", "dirty"}]
      /\ ccCached \subseteq CcAddresses /\ ccRam \subseteq CcAddresses
  BY LinesOfMemory DEF CcTypeOK
<1>4. /\ \A w \in CcAddresses :
           /\ LineAt(w) = LineAt(r) => /\ ccLine[LineAt(w)] = "absent"
                                       /\ ccLine'[LineAt(w)] = "clean"
                                       /\ w \in ccCached' <=> w \in ccRam
           /\ LineAt(w) # LineAt(r) => /\ ccLine'[LineAt(w)] = ccLine[LineAt(w)]
                                       /\ w \in ccCached' <=> w \in ccCached
      /\ ccCached' \subseteq CcAddresses
      /\ ccLine' \in [CcLines -> {"absent", "clean", "dirty"}]
  BY <1>1, <1>3 DEF Copied, OnLine
<1>5. CcTypeOK'
  BY <1>2, <1>3, <1>4 DEF CcTypeOK
<1>6. CallFits' /\ TodoFits'
  BY <1>2 DEF CallFits, TodoFits
<1>7. CpuSeesLast'
  BY <1>2, <1>4 DEF CpuSeesLast
<1>8. TargetLines' /\ RamCurrent'
  BY <1>2, <1>4 DEF TargetLines, RamCurrent, CallFits, OnLine
<1>9. Cleaning' 
  BY <1>2 DEF Cleaning, Awaits
<1>10. Settling'
  BY <1>2, <1>4 DEF Settling, SeenByCpu, Awaits, CallFits
<1>. QED
  BY <1>5, <1>6, <1>7, <1>8, <1>9, <1>10

\* A write makes a line dirty; a line that a target is on is mixed from then on.
LEMMA CpuWriteKeeps == ASSUME CacheInv, CpuWrite PROVE CacheInv'
<1> USE DEF CacheInv
<1> DEFINE held(r) == IF ccLine[LineAt(r)] = "absent" THEN Copied(ccCached, ccRam, LineAt(r))
                      ELSE ccCached
<1>1. PICK r \in CcAddresses \ (Source \cup Target) :
        /\ ccLine' = [ccLine EXCEPT ![LineAt(r)] = "dirty"]
        /\ ccCached' = held(r) \cup {r}
        /\ ccRam' = ccRam \ {r}
        /\ ccMixed' = IF OnLine(LineAt(r)) \cap Target # {} THEN ccMixed \cup OnLine(LineAt(r))
                      ELSE ccMixed \ {r}
  BY DEF CpuWrite
<1>2. UNCHANGED <<ccStage, ccTodo, ccCall, ccBeat>> /\ Source' = Source /\ Target' = Target
  BY SameCall DEF CpuWrite
<1>3. /\ \A w \in CcAddresses : LineAt(w) \in CcLines
      /\ ccLine \in [CcLines -> {"absent", "clean", "dirty"}]
      /\ ccCached \subseteq CcAddresses /\ ccRam \subseteq CcAddresses
      /\ ccMixed \subseteq CcAddresses
  BY LinesOfMemory DEF CcTypeOK
<1>4. /\ \A w \in CcAddresses :
           /\ LineAt(w) = LineAt(r) => ccLine'[LineAt(w)] = "dirty"
           /\ LineAt(w) # LineAt(r) => /\ ccLine'[LineAt(w)] = ccLine[LineAt(w)]
                                       /\ w \in ccCached' <=> w \in ccCached
                                       /\ w \in ccMixed' <=> w \in ccMixed
           /\ w # r => w \in ccRam' <=> w \in ccRam
      /\ ccLine' \in [CcLines -> {"absent", "clean", "dirty"}]
      /\ ccCached' \subseteq CcAddresses /\ ccRam' \subseteq CcAddresses
      /\ ccMixed' \subseteq CcAddresses
  BY <1>1, <1>3 DEF Copied, OnLine
<1>5. /\ \A w \in CcAddresses : LineAt(w) = LineAt(r) /\ ccLine[LineAt(w)] = "absent" /\ w # r
                                  => (w \in ccCached' <=> w \in ccRam)
      /\ \A w \in CcAddresses : LineAt(w) = LineAt(r) /\ ccLine[LineAt(w)] # "absent" /\ w # r
                                  => (w \in ccCached' <=> w \in ccCached)
      /\ r \in ccCached'
  BY <1>1, <1>3 DEF Copied, OnLine
<1>6. /\ \A w \in CcAddresses : w # r /\ w \in ccMixed => w \in ccMixed'
      /\ \A w \in Target : LineAt(w) = LineAt(r) => OnLine(LineAt(r)) \subseteq ccMixed'
  BY <1>1, <1>3 DEF OnLine, CallFits
<1>7. CcTypeOK'
  BY <1>2, <1>3, <1>4 DEF CcTypeOK
<1>8. CallFits' /\ TodoFits'
  BY <1>2 DEF CallFits, TodoFits
<1>9. CpuSeesLast'
  BY <1>2, <1>4, <1>5, <1>6 DEF CpuSeesLast
<1>10. TargetLines'
  <2> SUFFICES ASSUME NEW w \in Target, ccLine'[LineAt(w)] = "dirty"
               PROVE  OnLine(LineAt(w)) \subseteq ccMixed'
    BY <1>2 DEF TargetLines, OnLine
  <2>1. CASE LineAt(w) = LineAt(r)
    BY <2>1, <1>6
  <2>2. CASE LineAt(w) # LineAt(r)
    BY <2>2, <1>4 DEF TargetLines, CallFits, OnLine
  <2>. QED
    BY <2>1, <2>2
<1>11. RamCurrent'
  BY <1>2, <1>4, <1>6 DEF RamCurrent
<1>12. Cleaning'
  BY <1>1, <1>2, <1>4, <1>6 DEF Cleaning, Awaits, CallFits
<1>13. Settling'
  BY <1>1, <1>2, <1>3, <1>4, <1>6 DEF Settling, SeenByCpu, Awaits, CallFits, OnLine
<1>. QED
  BY <1>7, <1>8, <1>9, <1>10, <1>11, <1>12, <1>13

\* An eviction writes a dirty line back and drops it.
LEMMA EvictKeeps == ASSUME CacheInv, Evict PROVE CacheInv'
<1> USE DEF CacheInv
<1>1. PICK l \in CcLines :
        /\ ccLine[l] # "absent"
        /\ ccLine' = [ccLine EXCEPT ![l] = "absent"]
        /\ ccRam' = IF ccLine[l] = "dirty" THEN Copied(ccRam, ccCached, l) ELSE ccRam
        /\ ccCached' = ccCached \ OnLine(l)
  BY DEF Evict
<1>2. UNCHANGED <<ccStage, ccTodo, ccCall, ccBeat, ccMixed>>
      /\ Source' = Source /\ Target' = Target
  BY SameCall DEF Evict
<1>3. /\ \A w \in CcAddresses : LineAt(w) \in CcLines
      /\ ccLine \in [CcLines -> {"absent", "clean", "dirty"}]
      /\ ccCached \subseteq CcAddresses /\ ccRam \subseteq CcAddresses
      /\ ccMixed \subseteq CcAddresses
  BY LinesOfMemory DEF CcTypeOK
<1>4. /\ \A w \in CcAddresses :
           /\ LineAt(w) = l => ccLine'[LineAt(w)] = "absent"
           /\ LineAt(w) # l => /\ ccLine'[LineAt(w)] = ccLine[LineAt(w)]
                               /\ w \in ccCached' <=> w \in ccCached
                               /\ w \in ccRam' <=> w \in ccRam
           /\ LineAt(w) = l /\ ccLine[LineAt(w)] = "dirty" => (w \in ccRam' <=> w \in ccCached)
           /\ LineAt(w) = l /\ ccLine[LineAt(w)] # "dirty" => (w \in ccRam' <=> w \in ccRam)
           /\ LineAt(w) = l => w \notin ccCached'
      /\ ccLine' \in [CcLines -> {"absent", "clean", "dirty"}]
      /\ ccCached' \subseteq CcAddresses /\ ccRam' \subseteq CcAddresses
  BY <1>1, <1>3 DEF Copied, OnLine
<1>5. \A w \in CcAddresses \ ccMixed : LineAt(w) = l => w \in ccRam'
  <2> SUFFICES ASSUME NEW w \in CcAddresses \ ccMixed, LineAt(w) = l PROVE w \in ccRam'
    OBVIOUS
  <2>1. CASE ccLine[l] = "dirty"
    <3>1. w \notin Target
      BY <2>1 DEF TargetLines, OnLine
    <3>. QED
      BY <3>1, <2>1, <1>4 DEF CpuSeesLast
  <2>2. CASE ccLine[l] # "dirty"
    BY <2>2, <1>4 DEF RamCurrent
  <2>. QED
    BY <2>1, <2>2
<1>6. CcTypeOK'
  BY <1>2, <1>3, <1>4 DEF CcTypeOK
<1>7. CallFits' /\ TodoFits'
  BY <1>2 DEF CallFits, TodoFits
<1>8. CpuSeesLast' /\ RamCurrent'
  BY <1>2, <1>4, <1>5 DEF CpuSeesLast, RamCurrent
<1>9. TargetLines'
  BY <1>2, <1>4 DEF TargetLines, CallFits, OnLine
<1>10. Cleaning'
  BY <1>2, <1>4, <1>5 DEF Cleaning, Awaits, CallFits
<1>11. Settling'
  BY <1>2, <1>4, <1>5 DEF Settling, SeenByCpu, Awaits, CallFits
<1>. QED
  BY <1>6, <1>7, <1>8, <1>9, <1>10, <1>11

\* What is left of the commands after one of them.
LEMMA CommandDone ==
    ASSUME CcTypeOK, ccTodo # <<>>, ccTodo' = Tail(ccTodo)
    PROVE  /\ ccTodo' \in Seq({"clean", "invalidate", "flush"} \X CcLines)
           /\ \A i \in 1..Len(ccTodo') : i + 1 \in 1..Len(ccTodo) /\ ccTodo'[i] = ccTodo[i + 1]
           /\ 1 \in 1..Len(ccTodo)
           /\ ccTodo[1] = <<ccTodo[1][1], ccTodo[1][2]>> /\ ccTodo[1][2] \in CcLines
           /\ \A command, w : LineAt(w) # ccTodo[1][2] =>
                (Awaits(command, w) => Awaits(command, w)')
<1>1. ccTodo \in Seq({"clean", "invalidate", "flush"} \X CcLines) /\ Len(ccTodo) \in Nat
  BY DEF CcTypeOK
<1>2. /\ ccTodo' \in Seq({"clean", "invalidate", "flush"} \X CcLines)
      /\ Len(ccTodo') = Len(ccTodo) - 1 /\ Len(ccTodo) >= 1
      /\ \A i \in 1..Len(ccTodo') : i + 1 \in 1..Len(ccTodo) /\ ccTodo'[i] = ccTodo[i + 1]
  BY <1>1
<1>3. 1 \in 1..Len(ccTodo)
  BY <1>1, <1>2
<1>4. ccTodo[1] \in {"clean", "invalidate", "flush"} \X CcLines
  BY <1>1, <1>3
<1>5. ASSUME NEW command, NEW w, LineAt(w) # ccTodo[1][2], Awaits(command, w)
      PROVE  Awaits(command, w)'
  <2>1. PICK i \in 1..Len(ccTodo) : ccTodo[i] = <<command, LineAt(w)>>
    BY <1>5 DEF Awaits
  <2>2. i # 1
    BY <2>1, <1>5
  <2>3. i - 1 \in 1..Len(ccTodo') /\ ccTodo'[i - 1] = ccTodo[i]
    BY <2>2, <1>1, <1>2
  <2>. QED
    BY <2>1, <2>3 DEF Awaits, LineAt
<1>. QED
  BY <1>2, <1>3, <1>4, <1>5

\* A cache command loses nothing that is not mixed, and does what it was given for.
LEMMA MaintainKeeps == ASSUME CacheInv, Maintain PROVE CacheInv'
<1> USE DEF CacheInv
<1> DEFINE command == ccTodo[1][1]
           l == ccTodo[1][2]
           cleans == command \in {"clean", "flush"}
           drops == command \in {"invalidate", "flush"}
<1>1. /\ ccTodo # <<>> /\ ccTodo' = Tail(ccTodo)
      /\ ccRam' = IF cleans /\ ccLine[l] = "dirty" THEN Copied(ccRam, ccCached, l) ELSE ccRam
      /\ ccLine' = [ccLine EXCEPT ![l] =
           IF drops THEN "absent" ELSE IF cleans /\ @ = "dirty" THEN "clean" ELSE @]
      /\ ccCached' = IF drops THEN ccCached \ OnLine(l) ELSE ccCached
  BY DEF Maintain
<1>2. UNCHANGED <<ccStage, ccCall, ccBeat, ccMixed>> /\ Source' = Source /\ Target' = Target
  BY SameCall DEF Maintain
<1>3. /\ \A w \in CcAddresses : LineAt(w) \in CcLines
      /\ ccLine \in [CcLines -> {"absent", "clean", "dirty"}]
      /\ ccCached \subseteq CcAddresses /\ ccRam \subseteq CcAddresses
      /\ ccMixed \subseteq CcAddresses
      /\ ccStage \in {"idle", "clean", "run", "settle", "flush"}
  BY LinesOfMemory DEF CcTypeOK
<1>4. /\ ccTodo' \in Seq({"clean", "invalidate", "flush"} \X CcLines)
      /\ \A i \in 1..Len(ccTodo') : i + 1 \in 1..Len(ccTodo) /\ ccTodo'[i] = ccTodo[i + 1]
      /\ 1 \in 1..Len(ccTodo) /\ l \in CcLines
      /\ \A c, w : LineAt(w) # l => (Awaits(c, w) => Awaits(c, w)')
      /\ ccTodo[1] = <<command, l>>
  BY <1>1, CommandDone
<1>5. /\ ccStage \in {"clean", "settle", "flush"}
      /\ ccStage = "clean" => command = "clean"
      /\ ccStage = "flush" => command = "flush" /\ Target = {} /\ Source = {}
      /\ ccStage = "settle" => /\ command = "invalidate"
                               /\ \E w \in Target : LineAt(w) = l
  BY <1>1, <1>3, <1>4 DEF TodoFits, Target, Source
<1> HIDE DEF command, l
<1>6. /\ \A w \in CcAddresses :
           /\ LineAt(w) # l => /\ ccLine'[LineAt(w)] = ccLine[LineAt(w)]
                               /\ w \in ccCached' <=> w \in ccCached
                               /\ w \in ccRam' <=> w \in ccRam
           /\ LineAt(w) = l => /\ drops => /\ ccLine'[LineAt(w)] = "absent"
                                           /\ w \notin ccCached'
                               /\ ~ drops => (w \in ccCached' <=> w \in ccCached)
                               /\ cleans => ccLine'[LineAt(w)] # "dirty"
                               /\ cleans /\ ccLine[LineAt(w)] = "dirty" =>
                                    (w \in ccRam' <=> w \in ccCached)
                               /\ ~ (cleans /\ ccLine[LineAt(w)] = "dirty") =>
                                    (w \in ccRam' <=> w \in ccRam)
                               /\ ~ drops /\ ccLine[LineAt(w)] # "dirty" =>
                                    ccLine'[LineAt(w)] = ccLine[LineAt(w)]
                               /\ ~ drops /\ ccLine[LineAt(w)] = "dirty" =>
                                    ccLine'[LineAt(w)] # "absent"
      /\ ccLine' \in [CcLines -> {"absent", "clean", "dirty"}]
      /\ ccCached' \subseteq CcAddresses /\ ccRam' \subseteq CcAddresses
  BY <1>1, <1>3, <1>4 DEF Copied, OnLine
<1>7. \A w \in CcAddresses \ ccMixed : LineAt(w) = l => w \in ccRam'
  <2> SUFFICES ASSUME NEW w \in CcAddresses \ ccMixed, LineAt(w) = l PROVE w \in ccRam'
    OBVIOUS
  <2>1. CASE ccLine[l] # "dirty"
    BY <2>1, <1>6 DEF RamCurrent
  <2>2. CASE ccLine[l] = "dirty"
    <3>1. ~ \E v \in Target : LineAt(v) = l
      BY <2>2 DEF TargetLines, OnLine
    <3>2. cleans /\ w \notin Target
      BY <3>1, <1>5
    <3>. QED
      BY <3>2, <2>2, <1>6 DEF CpuSeesLast
  <2>. QED
    BY <2>1, <2>2
<1>8. CcTypeOK'
  <2>1. \A w \in ccCached' : ccLine'[LineAt(w)] # "absent"
    BY <1>3, <1>6 DEF CcTypeOK
  <2>. QED
    BY <2>1, <1>2, <1>4, <1>6 DEF CcTypeOK
<1>9. CallFits' /\ TodoFits'
  BY <1>2, <1>4, <1>5 DEF CallFits, TodoFits
<1>10. CpuSeesLast'
  <2> SUFFICES ASSUME NEW w \in CcAddresses \ (Target \cup ccMixed) PROVE SeenByCpu(w)'
    BY <1>2 DEF CpuSeesLast, SeenByCpu, LineAt
  <2>1. SeenByCpu(w)
    BY DEF CpuSeesLast, SeenByCpu
  <2>. QED
    BY <2>1, <1>6, <1>7 DEF SeenByCpu
<1>11. TargetLines'
  BY <1>2, <1>6 DEF TargetLines, CallFits, OnLine
<1>12. RamCurrent'
  BY <1>2, <1>6, <1>7 DEF RamCurrent
<1>13. Cleaning'
  BY <1>2, <1>4, <1>5, <1>6, <1>7 DEF Cleaning, CallFits
<1>14. Settling'
  BY <1>2, <1>4, <1>5, <1>6, <1>7 DEF Settling, SeenByCpu, CallFits
<1>. QED
  BY <1>8, <1>9, <1>10, <1>11, <1>12, <1>13, <1>14

\* A flush of a range begins.
LEMMA FlushRangeKeeps == ASSUME CacheInv, FlushRange PROVE CacheInv'
<1> USE DEF CacheInv
<1>1. PICK at \in CcAddresses, len \in CcLengths :
        at + len <= CcWords /\ ccTodo' = maintain("flush", at, len)
  BY DEF FlushRange, flush_range
<1>2. ccStage = "idle" /\ ccStage' = "flush" /\ UNCHANGED <<ccMemory, ccCall, ccBeat, ccMixed>>
  BY DEF FlushRange
<1>3. at \in Nat /\ len \in Nat /\ at + len <= CcWords
  BY <1>1, Numbers
<1>4. /\ ccTodo' \in Seq({"clean", "invalidate", "flush"} \X CcLines)
      /\ \A i \in 1..Len(ccTodo') : ccTodo'[i][1] = "flush"
  <2>1. Covers(ccTodo', "flush", at, len)
    BY <1>1, <1>3, MaintainsLines
  <2>. QED
    BY <2>1 DEF Covers
<1>5. Source = {} /\ Target = {} /\ Source' = {} /\ Target' = {}
  BY <1>2 DEF Source, Target
<1>6. CcTypeOK'
  BY <1>2, <1>4 DEF CcTypeOK, ccMemory
<1>7. CallFits' /\ TargetLines' /\ Cleaning' /\ Settling'
  BY <1>2, <1>5 DEF CallFits, TargetLines, Cleaning, Settling
<1>8. TodoFits'
  BY <1>2, <1>4 DEF TodoFits
<1>9. CpuSeesLast' /\ RamCurrent'
  BY <1>2, <1>5 DEF CpuSeesLast, RamCurrent, ccMemory
<1>. QED
  BY <1>6, <1>7, <1>8, <1>9

\* A flush of the whole cache.
LEMMA FlushAllKeeps == ASSUME CacheInv, flush_all PROVE CacheInv'
<1> USE DEF CacheInv
<1> DEFINE kept(l) == IF ccLine[l] = "dirty" THEN ccCached \cap OnLine(l)
                      ELSE ccRam \cap OnLine(l)
<1>1. /\ ccStage = "idle" /\ ccRam' = UNION {kept(l) : l \in CcLines}
      /\ ccLine' = [l \in CcLines |-> "absent"] /\ ccCached' = {}
      /\ UNCHANGED <<ccStage, ccTodo, ccCall, ccBeat, ccMixed>>
  BY DEF flush_all
<1>2. Source = {} /\ Target = {} /\ Source' = {} /\ Target' = {}
  BY <1>1 DEF Source, Target
<1>3. ccRam' \subseteq CcAddresses
  BY <1>1 DEF OnLine
<1>4. \A w \in CcAddresses : LineAt(w) \in CcLines /\ ccLine'[LineAt(w)] = "absent"
  BY <1>1, LinesOfMemory
<1>5. \A w \in CcAddresses \ ccMixed : w \in ccRam'
  <2> SUFFICES ASSUME NEW w \in CcAddresses \ ccMixed PROVE w \in ccRam'
    OBVIOUS
  <2>1. w \in kept(LineAt(w))
    BY <1>2 DEF OnLine, CpuSeesLast, RamCurrent
  <2>. QED
    BY <2>1, <1>1, <1>4
<1>6. CcTypeOK'
  BY <1>1, <1>3 DEF CcTypeOK
<1>7. CallFits' /\ TargetLines' /\ Cleaning' /\ Settling'
  BY <1>1, <1>2 DEF CallFits, TargetLines, Cleaning, Settling
<1>8. TodoFits'
  BY <1>1, <1>2 DEF TodoFits
<1>9. CpuSeesLast' /\ RamCurrent'
  BY <1>1, <1>2, <1>4, <1>5 DEF CpuSeesLast, RamCurrent
<1>. QED
  BY <1>6, <1>7, <1>8, <1>9

\* A call begins: its source is to be cleaned, and the dirty lines under its target are mixed.
LEMMA LaunchKeeps == ASSUME CacheInv, Launch PROVE CacheInv'
<1> USE DEF CacheInv
<1>1. PICK k \in CcKinds, src \in CcAddresses, dst \in CcAddresses, len \in CcLengths :
        LET c == [kind |-> k, src |-> src, dst |-> dst, len |-> len]
        IN /\ IF ReadsMemory(k) THEN src + len <= CcWords ELSE src = 0
           /\ IF WritesMemory(k) THEN dst + len <= CcWords ELSE dst = 0
           /\ SourceOf(c) \cap TargetOf(c) = {}
           /\ ccCall' = c
           /\ ccTodo' = BeforeLaunch(c)
           /\ ccMixed' = ccMixed \cup
                OnLines({l \in CcLines : ccLine[l] = "dirty" /\ OnLine(l) \cap TargetOf(c) # {}})
  BY DEF Launch
<1> DEFINE c == [kind |-> k, src |-> src, dst |-> dst, len |-> len]
<1>2. ccStage = "idle" /\ ccStage' = "clean" /\ ccBeat' = 0 /\ UNCHANGED ccMemory
  BY DEF Launch
<1>3. src \in Nat /\ dst \in Nat /\ len \in Nat /\ ccCall' = c
      /\ c \in [kind : CcKinds \cup {"none"}, src : Nat, dst : Nat, len : Nat]
  BY <1>1, Numbers
<1>4. Source' = SourceOf(c) /\ Target' = TargetOf(c) /\ Target = {}
  BY <1>1, <1>2 DEF Source, Target, SourceOf, TargetOf
<1>5. SourceOf(c) \subseteq CcAddresses /\ TargetOf(c) \subseteq CcAddresses
  BY <1>1, <1>3, Sizes DEF SourceOf, TargetOf, CcAddresses
<1>6. /\ ccTodo' \in Seq({"clean", "invalidate", "flush"} \X CcLines)
      /\ \A i \in 1..Len(ccTodo') : ccTodo'[i][1] = "clean"
      /\ \A w \in SourceOf(c) : \E i \in 1..Len(ccTodo') : ccTodo'[i] = <<"clean", LineAt(w)>>
  <2>1. CASE ReadsMemory(k)
    <3>1. ccTodo' = maintain("clean", src, len) /\ SourceOf(c) = src..(src + len - 1)
      BY <2>1, <1>1 DEF BeforeLaunch, clean_range, SourceOf
    <3>2. src + len <= CcWords
      BY <2>1, <1>1
    <3>3. Covers(ccTodo', "clean", src, len)
      BY <3>1, <3>2, <1>3, MaintainsLines
    <3>. QED
      BY <3>1, <3>3 DEF Covers
  <2>2. CASE ~ ReadsMemory(k)
    BY <2>2, <1>1 DEF BeforeLaunch, SourceOf
  <2>. QED
    BY <2>1, <2>2
<1>7. /\ ccMixed' \subseteq CcAddresses /\ ccMixed \subseteq ccMixed'
      /\ \A w \in TargetOf(c) : ccLine[LineAt(w)] = "dirty" => OnLine(LineAt(w)) \subseteq ccMixed'
  <2>1. ccMixed \subseteq CcAddresses
    BY DEF CcTypeOK
  <2>2. ASSUME NEW w \in TargetOf(c), ccLine[LineAt(w)] = "dirty", NEW v \in OnLine(LineAt(w))
        PROVE  v \in ccMixed'
    <3>1. LineAt(w) \in CcLines /\ w \in OnLine(LineAt(w)) /\ v \in CcAddresses
          /\ LineAt(v) = LineAt(w)
      BY <1>5, LinesOfMemory DEF OnLine
    <3>. QED
      BY <3>1, <2>2, <1>1 DEF OnLines
  <2>. QED
    BY <2>1, <2>2, <1>1 DEF OnLines
<1> HIDE DEF c
<1>8. CcTypeOK'
  BY <1>2, <1>3, <1>6, <1>7 DEF CcTypeOK, ccMemory
<1>9. CallFits'
  BY <1>1, <1>4, <1>5 DEF CallFits, c
<1>10. TodoFits'
  BY <1>2, <1>6 DEF TodoFits
<1>11. CpuSeesLast'
  BY <1>2, <1>4, <1>7 DEF CpuSeesLast, ccMemory
<1>12. TargetLines'
  BY <1>2, <1>4, <1>7 DEF TargetLines, ccMemory, OnLine
<1>13. RamCurrent'
  BY <1>2, <1>7 DEF RamCurrent, ccMemory
<1>14. Cleaning' /\ Settling'
  BY <1>2, <1>4, <1>6 DEF Cleaning, Settling, Awaits, LineAt
<1>. QED
  BY <1>8, <1>9, <1>10, <1>11, <1>12, <1>13, <1>14

\* The channel starts once every source line is clean.
LEMMA ConfigureKeeps == ASSUME CacheInv, Configure PROVE CacheInv'
<1> USE DEF CacheInv
<1>1. /\ ccStage = "clean" /\ ccTodo = <<>> /\ ccStage' = "run"
      /\ UNCHANGED <<ccMemory, ccTodo, ccCall, ccBeat, ccMixed>>
  BY DEF Configure
<1>2. Source' = Source /\ Target' = Target
  BY <1>1 DEF Source, Target, SourceOf, TargetOf
<1>3. CcTypeOK' /\ TodoFits' /\ CallFits'
  BY <1>1, <1>2 DEF CcTypeOK, TodoFits, CallFits, ccMemory
<1>4. CpuSeesLast' /\ TargetLines' /\ RamCurrent'
  BY <1>1, <1>2 DEF CpuSeesLast, TargetLines, RamCurrent, ccMemory, OnLine
<1>5. Cleaning' /\ Settling'
  BY <1>1, <1>2 DEF Cleaning, Settling, Awaits, ccMemory
<1>. QED
  BY <1>3, <1>4, <1>5

\* A beat changes words of the target only.
LEMMA BeatKeeps == ASSUME CacheInv, Beat PROVE CacheInv'
<1> USE DEF CacheInv
<1> DEFINE at == ccCall.dst + ccBeat
<1>1. /\ ccStage = "run" /\ ccBeat < ccCall.len /\ ccBeat' = ccBeat + 1
      /\ ccRam' = IF WritesMemory(ccCall.kind) THEN ccRam \cup {at} ELSE ccRam
      /\ ccCached' = IF WritesMemory(ccCall.kind) THEN ccCached \ {at} ELSE ccCached
      /\ UNCHANGED <<ccLine, ccStage, ccTodo, ccCall, ccMixed>>
  BY DEF Beat
<1>2. Source' = Source /\ Target' = Target
  BY <1>1, SameCall
<1>3. ccBeat \in Nat /\ ccBeat' \in Nat /\ ccCall.dst \in Nat /\ ccCall.len \in Nat
  BY <1>1 DEF CcTypeOK
<1>4. WritesMemory(ccCall.kind) => at \in Target
  BY <1>1, <1>3 DEF Target, TargetOf
<1>5. /\ \A w \in CcAddresses \ Target : w \in ccCached' <=> w \in ccCached
      /\ ccRam \subseteq ccRam' /\ ccRam' \subseteq CcAddresses /\ ccCached' \subseteq ccCached
      /\ ccCached \subseteq CcAddresses
  BY <1>1, <1>4 DEF CallFits, CcTypeOK
<1> HIDE DEF at
<1>6. CcTypeOK'
  BY <1>1, <1>3, <1>5 DEF CcTypeOK
<1>7. CallFits' /\ TodoFits' /\ TargetLines'
  BY <1>1, <1>2 DEF CallFits, TodoFits, TargetLines, OnLine
<1>8. RamCurrent' /\ Cleaning' /\ Settling'
  BY <1>1, <1>2, <1>5 DEF RamCurrent, Cleaning, Settling
<1>9. CpuSeesLast'
  <2> SUFFICES ASSUME NEW w \in CcAddresses \ (Target \cup ccMixed) PROVE SeenByCpu(w)'
    BY <1>1, <1>2 DEF CpuSeesLast, SeenByCpu
  <2>1. SeenByCpu(w)
    BY DEF CpuSeesLast, SeenByCpu
  <2>. QED
    BY <2>1, <1>1, <1>5 DEF SeenByCpu
<1>. QED
  BY <1>6, <1>7, <1>8, <1>9

\* When the wait is over the target is to be invalidated, or is not for the CPU to see.
LEMMA WaitOverKeeps == ASSUME CacheInv, WaitOver PROVE CacheInv'
<1> USE DEF CacheInv
<1>1. PICK result \in {"ok", "timeout", "dropped"} :
        /\ ccTodo' = AfterWait(ccCall, result)
        /\ ccMixed' = IF result = "ok" \/ ccTodo' # <<>> THEN ccMixed ELSE ccMixed \cup Target
  BY DEF WaitOver
<1>2. ccStage = "run" /\ ccStage' = "settle" /\ UNCHANGED <<ccMemory, ccCall, ccBeat>>
  BY DEF WaitOver
<1>3. Source' = Source /\ Target' = Target
  BY <1>2 DEF Source, Target, SourceOf, TargetOf
<1>4. /\ ccCall.dst \in Nat /\ ccCall.len \in Nat /\ Target = TargetOf(ccCall)
      /\ Target \subseteq CcAddresses /\ ccMixed \subseteq CcAddresses
  BY <1>2 DEF CcTypeOK, CallFits, Target
<1>5. ccMixed \subseteq ccMixed' /\ ccMixed' \subseteq CcAddresses
  BY <1>1, <1>4
<1>6. \/ Target \subseteq ccMixed' /\ ccTodo' = <<>>
      \/ Covers(ccTodo', "invalidate", ccCall.dst, ccCall.len)
         /\ Target = ccCall.dst..(ccCall.dst + ccCall.len - 1)
  <2>1. CASE Target = {}
    <3>1. ccTodo' = <<>>
      <4>1. CASE WritesMemory(ccCall.kind)
        <5>1. ccCall.dst..(ccCall.dst + ccCall.len - 1) = {}
          BY <2>1, <4>1, <1>4 DEF TargetOf
        <5>2. ccCall.len = 0
          BY <5>1, <1>4
        <5>. QED
          BY <5>2, <1>1 DEF AfterWait, invalidate_range, maintain
      <4>2. CASE ~ WritesMemory(ccCall.kind)
        BY <4>2, <1>1 DEF AfterWait
      <4>. QED
        BY <4>1, <4>2
    <3>. QED
      BY <3>1, <2>1
  <2>2. CASE Target # {} /\ AfterWait(ccCall, result) = invalidate_range(ccCall.dst, ccCall.len)
    <3>1. Target = ccCall.dst..(ccCall.dst + ccCall.len - 1)
      BY <2>2, <1>4 DEF TargetOf
    <3>2. ccCall.dst + ccCall.len - 1 \in Target
      BY <3>1, <2>2, <1>4
    <3>3. ccCall.dst + ccCall.len <= CcWords
      BY <3>2, <1>4, Sizes DEF CcAddresses
    <3>4. ccTodo' = maintain("invalidate", ccCall.dst, ccCall.len)
      BY <2>2, <1>1 DEF invalidate_range
    <3>. QED
      BY <3>1, <3>3, <3>4, <1>4, MaintainsLines
  <2>3. CASE Target # {} /\ AfterWait(ccCall, result) # invalidate_range(ccCall.dst, ccCall.len)
    <3>1. WritesMemory(ccCall.kind)
      BY <2>3, <1>4 DEF TargetOf
    <3>2. AfterWait(ccCall, result) = <<>> /\ result # "ok"
      BY <3>1, <2>3 DEF AfterWait
    <3>. QED
      BY <3>2, <1>1
  <2>. QED
    BY <2>1, <2>2, <2>3
<1>7. /\ ccTodo' \in Seq({"clean", "invalidate", "flush"} \X CcLines)
      /\ \A i \in 1..Len(ccTodo') : /\ ccTodo'[i][1] = "invalidate"
                                    /\ \E w \in Target : LineAt(w) = ccTodo'[i][2]
      /\ \A w \in Target : \/ w \in ccMixed'
                           \/ \E i \in 1..Len(ccTodo') : ccTodo'[i] = <<"invalidate", LineAt(w)>>
  <2>1. CASE Target \subseteq ccMixed' /\ ccTodo' = <<>>
    BY <2>1
  <2>2. CASE /\ Covers(ccTodo', "invalidate", ccCall.dst, ccCall.len)
             /\ Target = ccCall.dst..(ccCall.dst + ccCall.len - 1)
    BY <2>2 DEF Covers
  <2>. QED
    BY <2>1, <2>2, <1>6
<1>8. CcTypeOK'
  BY <1>2, <1>5, <1>7 DEF CcTypeOK, ccMemory
<1>9. CallFits'
  BY <1>3 DEF CallFits
<1>10. TodoFits'
  BY <1>2, <1>3, <1>7 DEF TodoFits, LineAt
<1>11. CpuSeesLast' /\ RamCurrent'
  BY <1>2, <1>3, <1>5 DEF CpuSeesLast, RamCurrent, ccMemory
<1>12. TargetLines'
  BY <1>2, <1>3, <1>5 DEF TargetLines, ccMemory, OnLine
<1>13. Cleaning' /\ Settling'
  BY <1>2, <1>3, <1>7 DEF Cleaning, Settling, Awaits, LineAt
<1>. QED
  BY <1>8, <1>9, <1>10, <1>11, <1>12, <1>13

\* The target is the CPU's again.
LEMMA CallOverKeeps == ASSUME CacheInv, CallOver PROVE CacheInv'
<1> USE DEF CacheInv
<1>1. /\ ccStage \in {"settle", "flush"} /\ ccTodo = <<>> /\ ccStage' = "idle" /\ ccBeat' = 0
      /\ ccCall' = [kind |-> "none", src |-> 0, dst |-> 0, len |-> 0]
      /\ UNCHANGED <<ccMemory, ccTodo, ccMixed>>
  BY DEF CallOver
<1>2. Source' = {} /\ Target' = {}
  BY <1>1 DEF Source, Target
<1>3. \A w \in Target : SeenByCpu(w) \/ w \in ccMixed
  <2>1. CASE ccStage = "settle"
    BY <2>1, <1>1 DEF Settling, Awaits
  <2>2. CASE ccStage = "flush"
    BY <2>2 DEF Target
  <2>. QED
    BY <2>1, <2>2, <1>1
<1>4. CcTypeOK'
  BY <1>1 DEF CcTypeOK, ccMemory
<1>5. CallFits' /\ TargetLines' /\ Cleaning' /\ Settling'
  BY <1>1, <1>2 DEF CallFits, TargetLines, Cleaning, Settling
<1>6. TodoFits'
  BY <1>1, <1>2 DEF TodoFits
<1>7. RamCurrent'
  BY <1>1 DEF RamCurrent, ccMemory
<1>8. CpuSeesLast'
  BY <1>1, <1>2, <1>3 DEF CpuSeesLast, SeenByCpu, ccMemory
<1>. QED
  BY <1>4, <1>5, <1>6, <1>7, <1>8

-----------------------------------------------------------------------------
(* The theorems. *)

\* At the start nothing is cached.
LEMMA CacheInit == CcInit => CacheInv
<1> SUFFICES ASSUME CcInit PROVE CacheInv
  OBVIOUS
<1> USE DEF CcInit
<1>1. Source = {} /\ Target = {}
  BY DEF Source, Target
<1>2. \A w \in CcAddresses : LineAt(w) \in CcLines
  BY LinesOfMemory
<1>. QED
  BY <1>1, <1>2 DEF CacheInv, CcTypeOK, CallFits, TodoFits, CpuSeesLast, TargetLines, RamCurrent,
     Cleaning, Settling

\* Every step keeps the invariant.
LEMMA CacheStep == CacheInv /\ [CcNext]_ccVars => CacheInv'
<1> SUFFICES ASSUME CacheInv, [CcNext]_ccVars PROVE CacheInv'
  OBVIOUS
<1>1. CASE CpuRead
  BY <1>1, CpuReadKeeps
<1>2. CASE CpuWrite
  BY <1>2, CpuWriteKeeps
<1>3. CASE Evict
  BY <1>3, EvictKeeps
<1>4. CASE Maintain
  BY <1>4, MaintainKeeps
<1>5. CASE FlushRange
  BY <1>5, FlushRangeKeeps
<1>6. CASE flush_all
  BY <1>6, FlushAllKeeps
<1>7. CASE Launch
  BY <1>7, LaunchKeeps
<1>8. CASE Configure
  BY <1>8, ConfigureKeeps
<1>9. CASE Beat
  BY <1>9, BeatKeeps
<1>10. CASE WaitOver
  BY <1>10, WaitOverKeeps
<1>11. CASE CallOver
  BY <1>11, CallOverKeeps
<1>12. CASE UNCHANGED ccVars
  <2>1. UNCHANGED <<ccLine, ccCached, ccRam, ccStage, ccTodo, ccCall, ccBeat, ccMixed>>
        /\ Source' = Source /\ Target' = Target
    BY <1>12, SameCall DEF ccVars, ccMemory
  <2>. QED
    BY <2>1 DEF CacheInv, CcTypeOK, CallFits, TodoFits, CpuSeesLast, TargetLines, RamCurrent,
       Cleaning, Settling, SeenByCpu, Awaits, OnLine
<1>. QED
  BY <1>1, <1>2, <1>3, <1>4, <1>5, <1>6, <1>7, <1>8, <1>9, <1>10, <1>11, <1>12 DEF CcNext

\* Whatever is evicted, written and flushed around the calls of the DMA drivers, the CPU
\* reads the last value of every word that is not lent to a receive or on a mixed line:
\* dma.rs:746.
THEOREM CpuAlwaysSeesLast == CcSpec => []CpuSeesLast
<1>1. CacheInv => CpuSeesLast
  BY DEF CacheInv
<1>. QED
  BY <1>1, CacheInit, CacheStep, PTL DEF CcSpec

\* And the controller reads what the CPU has written: cache.rs:62.
THEOREM SourceAlwaysInRam == CcSpec => []SourceInRam
<1>1. CacheInv => SourceInRam
  BY DEF CacheInv, Cleaning, SourceInRam, Source
<1>. QED
  BY <1>1, CacheInit, CacheStep, PTL DEF CcSpec

-----------------------------------------------------------------------------
(* InterruptControl: the controller is as the calls have asked, for any     *)
(* lines, priorities and thresholds.                                        *)

\* The frames, with their calls' accesses.
IcFrames == [irq : IcIrqs \cup {0}, todo : Seq(IcOps), saved : Seq(BOOLEAN)]

\* No two lines share a field or an enable bit.
LEMMA FieldsApart ==
    ASSUME NEW m \in IcIrqs, NEW n \in IcIrqs
    PROVE  /\ LocipriField(m) = LocipriField(n) => m = n
           /\ IsLocal(m) /\ IsLocal(n) /\ LocienBit(m) = LocienBit(n) => m = n
           /\ LocipriField(n)[1] \in LocipriRegs /\ LocipriField(n)[2] \in LocipriShifts
           /\ LocienBit(n) \in Int \X Int
<1>1. m \in 26..127 /\ n \in 26..127
  BY IcAssumption
<1>2. ASSUME LocipriField(m) = LocipriField(n)
      PROVE  m = n
  <2>1. /\ (m - 26) \div 8 = (n - 26) \div 8
        /\ ((m - 26) % 8) * 4 = ((n - 26) % 8) * 4
    BY <1>2 DEF LocipriField, SYS_VECTOR_CNT, LOCIPRI_IRQ_NUM, LOCIPRI_IRQ_BITS
  <2>. QED  BY <1>1, <2>1
<1>3. ASSUME LocienBit(m) = LocienBit(n)
      PROVE  m = n
  <2>1. /\ (m - 32) \div 32 = (n - 32) \div 32
        /\ (m - 32) % 32 = (n - 32) % 32
    BY <1>3 DEF LocienBit, LOCAL_IRQ_VECTOR_CNT, LOCIEN_IRQ_NUM
  <2>. QED  BY <1>1, <2>1
<1>4. LocipriField(n)[1] \in LocipriRegs
  BY DEF LocipriRegs
<1>5. LocipriField(n)[2] \in LocipriShifts
  <2>1. (n - 26) % 8 \in 0..7 /\ LocipriField(n)[2] = 4 * ((n - 26) % 8)
    BY <1>1 DEF LocipriField, SYS_VECTOR_CNT, LOCIPRI_IRQ_NUM, LOCIPRI_IRQ_BITS
  <2>. QED  BY <2>1 DEF LocipriShifts, LOCIPRI_IRQ_BITS
<1>6. LocienBit(n) \in Int \X Int
  BY <1>1 DEF LocienBit, LOCAL_IRQ_VECTOR_CNT, LOCIEN_IRQ_NUM
<1>. QED
  BY <1>2, <1>3, <1>4, <1>5, <1>6

\* What a field holds.
LEMMA FieldHolds ==
    ASSUME IcTyped, NEW n \in IcIrqs
    PROVE  LocipriOf(n) \in 0..7
BY FieldsApart DEF IcTyped, LocipriOf

\* Among the lines that may be taken there is a first one.
LEMMA FirstOfIs ==
    ASSUME IcTyped, Deliverable # {}
    PROVE  FirstOf(Deliverable) \in Deliverable
<1>. DEFINE Ranks == {7 - LocipriOf(n) : n \in Deliverable}
<1>1. Deliverable \subseteq IcIrqs /\ IcIrqs \subseteq Nat
  BY IcAssumption DEF Deliverable
<1>2. \A n \in Deliverable : LocipriOf(n) \in 0..7
  BY <1>1, FieldHolds
<1>3. Ranks \subseteq Nat /\ Ranks # {}
  BY <1>2
<1>4. PICK r \in Ranks : \A q \in Ranks : r <= q
  <2>. HIDE DEF Ranks
  <2>. QED  BY <1>3, LeastNat
<1>. DEFINE Top == {n \in Deliverable : 7 - LocipriOf(n) = r}
<1>5. Top \subseteq Nat /\ Top # {}
  BY <1>1
<1>6. PICK n \in Top : \A o \in Top : n <= o
  <2>. HIDE DEF Top
  <2>. QED  BY <1>5, LeastNat
<1>7. ASSUME NEW o \in Deliverable
      PROVE  \/ LocipriOf(n) > LocipriOf(o)
             \/ LocipriOf(n) = LocipriOf(o) /\ n <= o
  <2>1. r <= 7 - LocipriOf(o) /\ 7 - LocipriOf(n) = r
    BY <1>4
  <2>2. LocipriOf(o) \in 0..7 /\ LocipriOf(n) \in 0..7
    BY <1>2
  <2>3. CASE o \in Top
    BY <1>6, <2>1, <2>2, <2>3
  <2>4. CASE o \notin Top
    BY <2>1, <2>2, <2>4
  <2>. QED  BY <2>3, <2>4
<1>. QED
  BY <1>7 DEF FirstOf

\* The accesses of the calls.
LEMMA Pieces ==
    ASSUME NEW n \in IcIrqs, NEW v \in 0..7
    PROVE  /\ locipri_set_field(n, v) \in Seq(IcOps) /\ Len(locipri_set_field(n, v)) = 2
           /\ locipri_set_field(n, v)[1] = Do("priClear", n, 0)
           /\ locipri_set_field(n, v)[2] = Do("priSet", n, v)
           /\ DisableOps(n) \in Seq(IcOps) /\ Len(DisableOps(n)) = 2
           /\ DisableOps(n)[1] = Do("off", n, 0) /\ DisableOps(n)[2] = Do("clear", n, 0)
           /\ clear_interrupt_ops \in Seq(IcOps) /\ Len(clear_interrupt_ops) = 2
           /\ clear_interrupt_ops[1] = Do("siClr", SOFT_INT0, 0)
           /\ clear_interrupt_ops[2] = Do("clear", SOFT_INT0, 0)
BY IcAssumption DEF locipri_set_field, DisableOps, clear_interrupt_ops, Do, IcOps

\* The accesses of enable.
LEMMA EnableOpsAre ==
    ASSUME NEW n \in IcIrqs
    PROVE  /\ EnableOps(n) \in Seq(IcOps) /\ Len(EnableOps(n)) = 3
           /\ EnableOps(n)[1] = Do("on", n, 0) /\ EnableOps(n)[2] = Do("priClear", n, 0)
           /\ EnableOps(n)[3] = Do("priSet", n, 1)
<1>. DEFINE s == locipri_set_field(n, 1)
            d == Do("on", n, 0)
<1>1. /\ s \in Seq(IcOps) /\ Len(s) = 2 /\ s[1] = Do("priClear", n, 0)
      /\ s[2] = Do("priSet", n, 1)
  BY Pieces
<1>2. d \in IcOps
  BY DEF Do, IcOps
<1>3. EnableOps(n) = <<d>> \o s
  BY DEF EnableOps
<1>. HIDE DEF s, d
<1>4. /\ <<d>> \o s \in Seq(IcOps) /\ Len(<<d>> \o s) = Len(s) + 1 /\ (<<d>> \o s)[1] = d
      /\ \A i \in 1..Len(s) : (<<d>> \o s)[i + 1] = s[i]
  <2>1. s \in Seq(IcOps)
    BY <1>1
  <2>. QED  BY <1>2, <2>1, OneBefore
<1>5. 1 + 1 = 2 /\ 2 + 1 = 3 /\ 1 \in 1..2 /\ 2 \in 1..2
  OBVIOUS
<1>. QED
  BY <1>1, <1>3, <1>4, <1>5 DEF d

SoftNewOps == clear_interrupt_ops \o <<Do("siEn", SOFT_INT0, 1)>> \o EnableOps(SOFT_INT0)
SoftDropOps == DisableOps(SOFT_INT0) \o <<Do("siEn", SOFT_INT0, 0)>> \o clear_interrupt_ops

\* The accesses of new.
LEMMA SoftNewOpsAre ==
    /\ SoftNewOps \in Seq(IcOps) /\ Len(SoftNewOps) = 6
    /\ SoftNewOps[1] = Do("siClr", SOFT_INT0, 0) /\ SoftNewOps[2] = Do("clear", SOFT_INT0, 0)
    /\ SoftNewOps[3] = Do("siEn", SOFT_INT0, 1) /\ SoftNewOps[4] = Do("on", SOFT_INT0, 0)
    /\ SoftNewOps[5] = Do("priClear", SOFT_INT0, 0)
    /\ SoftNewOps[6] = Do("priSet", SOFT_INT0, 1)
<1>. DEFINE a == clear_interrupt_ops
            d == Do("siEn", SOFT_INT0, 1)
            b == <<d>>
            c == EnableOps(SOFT_INT0)
            ab == a \o b
            abc == ab \o c
<1>0. SOFT_INT0 \in IcIrqs /\ 0 \in 0..7
  BY IcAssumption
<1>1. /\ a \in Seq(IcOps) /\ Len(a) = 2 /\ a[1] = Do("siClr", SOFT_INT0, 0)
      /\ a[2] = Do("clear", SOFT_INT0, 0)
  BY <1>0, Pieces
<1>2. /\ c \in Seq(IcOps) /\ Len(c) = 3 /\ c[1] = Do("on", SOFT_INT0, 0)
      /\ c[2] = Do("priClear", SOFT_INT0, 0) /\ c[3] = Do("priSet", SOFT_INT0, 1)
  BY <1>0, EnableOpsAre
<1>3. b \in Seq(IcOps) /\ Len(b) = 1 /\ b[1] = d
  <2>1. d \in IcOps
    BY <1>0 DEF Do, IcOps
  <2>. HIDE DEF d
  <2>. QED  BY <2>1
<1>4. SoftNewOps = abc
  BY DEF SoftNewOps
<1>. HIDE DEF a, b, c
<1>5. /\ ab \in Seq(IcOps) /\ Len(ab) = 2 + 1
      /\ \A i \in 1..2 : ab[i] = a[i]
      /\ \A i \in 1..1 : ab[2 + i] = b[i]
  <2>1. a \in Seq(IcOps) /\ b \in Seq(IcOps)
    BY <1>1, <1>2, <1>3
  <2>2. /\ a \o b \in Seq(IcOps) /\ Len(a \o b) = Len(a) + Len(b)
        /\ \A i \in 1..Len(a) : (a \o b)[i] = a[i]
        /\ \A i \in 1..Len(b) : (a \o b)[Len(a) + i] = b[i]
    BY <2>1, Joined
  <2>3. Len(a) = 2 /\ Len(b) = 1
    BY <1>1, <1>2, <1>3
  <2>. QED  BY <2>2, <2>3
<1>6. 2 + 1 = 3 /\ 3 + 1 = 4 /\ 3 + 2 = 5 /\ 3 + 3 = 6
  OBVIOUS
<1>. HIDE DEF ab
<1>7. /\ abc \in Seq(IcOps) /\ Len(abc) = 3 + 3
      /\ \A i \in 1..3 : abc[i] = ab[i]
      /\ \A i \in 1..3 : abc[3 + i] = c[i]
  <2>1. ab \in Seq(IcOps) /\ c \in Seq(IcOps)
    BY <1>1, <1>2, <1>3, <1>5
  <2>2. /\ ab \o c \in Seq(IcOps) /\ Len(ab \o c) = Len(ab) + Len(c)
        /\ \A i \in 1..Len(ab) : (ab \o c)[i] = ab[i]
        /\ \A i \in 1..Len(c) : (ab \o c)[Len(ab) + i] = c[i]
    BY <2>1, Joined
  <2>3. Len(ab) = 3 /\ Len(c) = 3
    BY <1>1, <1>2, <1>3, <1>5, <1>6
  <2>. QED  BY <2>2, <2>3
<1>8. 1 \in 1..1 /\ 1 \in 1..2 /\ 2 \in 1..2 /\ 1 \in 1..3 /\ 2 \in 1..3 /\ 3 \in 1..3
  OBVIOUS
<1>. HIDE DEF abc
<1>9. abc[1] = a[1] /\ abc[2] = a[2] /\ abc[3] = d
  BY <1>3, <1>5, <1>6, <1>7, <1>8
<1>10. abc[4] = c[1] /\ abc[5] = c[2] /\ abc[6] = c[3]
  BY <1>6, <1>7, <1>8
<1>. QED
  BY <1>1, <1>2, <1>4, <1>6, <1>7, <1>9, <1>10

\* The accesses of drop.
LEMMA SoftDropOpsAre ==
    /\ SoftDropOps \in Seq(IcOps) /\ Len(SoftDropOps) = 5
    /\ SoftDropOps[1] = Do("off", SOFT_INT0, 0) /\ SoftDropOps[2] = Do("clear", SOFT_INT0, 0)
    /\ SoftDropOps[3] = Do("siEn", SOFT_INT0, 0) /\ SoftDropOps[4] = Do("siClr", SOFT_INT0, 0)
    /\ SoftDropOps[5] = Do("clear", SOFT_INT0, 0)
<1>. DEFINE a == DisableOps(SOFT_INT0)
            d == Do("siEn", SOFT_INT0, 0)
            b == <<d>>
            c == clear_interrupt_ops
            ab == a \o b
            abc == ab \o c
<1>0. SOFT_INT0 \in IcIrqs /\ 0 \in 0..7
  BY IcAssumption
<1>1. /\ a \in Seq(IcOps) /\ Len(a) = 2 /\ a[1] = Do("off", SOFT_INT0, 0)
      /\ a[2] = Do("clear", SOFT_INT0, 0)
  BY <1>0, Pieces
<1>2. /\ c \in Seq(IcOps) /\ Len(c) = 2 /\ c[1] = Do("siClr", SOFT_INT0, 0)
      /\ c[2] = Do("clear", SOFT_INT0, 0)
  BY <1>0, Pieces
<1>3. b \in Seq(IcOps) /\ Len(b) = 1 /\ b[1] = d
  <2>1. d \in IcOps
    BY <1>0 DEF Do, IcOps
  <2>. HIDE DEF d
  <2>. QED  BY <2>1
<1>4. SoftDropOps = abc
  BY DEF SoftDropOps
<1>. HIDE DEF a, b, c
<1>5. /\ ab \in Seq(IcOps) /\ Len(ab) = 2 + 1
      /\ \A i \in 1..2 : ab[i] = a[i]
      /\ \A i \in 1..1 : ab[2 + i] = b[i]
  <2>1. a \in Seq(IcOps) /\ b \in Seq(IcOps)
    BY <1>1, <1>2, <1>3
  <2>2. /\ a \o b \in Seq(IcOps) /\ Len(a \o b) = Len(a) + Len(b)
        /\ \A i \in 1..Len(a) : (a \o b)[i] = a[i]
        /\ \A i \in 1..Len(b) : (a \o b)[Len(a) + i] = b[i]
    BY <2>1, Joined
  <2>3. Len(a) = 2 /\ Len(b) = 1
    BY <1>1, <1>2, <1>3
  <2>. QED  BY <2>2, <2>3
<1>6. 2 + 1 = 3 /\ 3 + 1 = 4 /\ 3 + 2 = 5
  OBVIOUS
<1>. HIDE DEF ab
<1>7. /\ abc \in Seq(IcOps) /\ Len(abc) = 3 + 2
      /\ \A i \in 1..3 : abc[i] = ab[i]
      /\ \A i \in 1..2 : abc[3 + i] = c[i]
  <2>1. ab \in Seq(IcOps) /\ c \in Seq(IcOps)
    BY <1>1, <1>2, <1>3, <1>5
  <2>2. /\ ab \o c \in Seq(IcOps) /\ Len(ab \o c) = Len(ab) + Len(c)
        /\ \A i \in 1..Len(ab) : (ab \o c)[i] = ab[i]
        /\ \A i \in 1..Len(c) : (ab \o c)[Len(ab) + i] = c[i]
    BY <2>1, Joined
  <2>3. Len(ab) = 3 /\ Len(c) = 2
    BY <1>1, <1>2, <1>3, <1>5, <1>6
  <2>. QED  BY <2>2, <2>3
<1>8. 1 \in 1..1 /\ 1 \in 1..2 /\ 2 \in 1..2 /\ 1 \in 1..3 /\ 2 \in 1..3 /\ 3 \in 1..3
  OBVIOUS
<1>. HIDE DEF abc
<1>9. abc[1] = a[1] /\ abc[2] = a[2] /\ abc[3] = d
  BY <1>3, <1>5, <1>6, <1>7, <1>8
<1>10. abc[4] = c[1] /\ abc[5] = c[2]
  BY <1>6, <1>7, <1>8
<1>. QED
  BY <1>1, <1>2, <1>4, <1>6, <1>7, <1>9, <1>10

-----------------------------------------------------------------------------
(* Frames. *)

\* The frame that runs takes up other accesses.
LEMMA TodoChanges ==
    ASSUME IcTyped, IcNested, NEW ops \in Seq(IcOps),
           icFrames' = [icFrames EXCEPT ![1].todo = ops]
    PROVE  /\ icFrames' \in Seq(IcFrames) /\ Len(icFrames') = Len(icFrames)
           /\ Current'.todo = ops /\ Current'.irq = Current.irq
           /\ Current'.saved = Current.saved
           /\ Len(icFrames) = 1 => IcThread' = Current' /\ IcThread = Current
           /\ Len(icFrames) = 2 => IcThread' = IcThread
<1>1. icFrames \in Seq(IcFrames) /\ Len(icFrames) \in {1, 2}
  BY DEF IcTyped, IcNested, IcFrames
<1>2. 1 \in 1..Len(icFrames) /\ icFrames[1] \in IcFrames
  BY <1>1
<1>3. [icFrames[1] EXCEPT !.todo = ops] \in IcFrames
  BY <1>2 DEF IcFrames
<1>4. icFrames' = [icFrames EXCEPT ![1] = [icFrames[1] EXCEPT !.todo = ops]]
  OBVIOUS
<1>5. /\ icFrames' \in Seq(IcFrames) /\ Len(icFrames') = Len(icFrames)
      /\ icFrames'[1] = [icFrames[1] EXCEPT !.todo = ops]
      /\ Len(icFrames) = 2 => icFrames'[2] = icFrames[2]
  BY <1>1, <1>2, <1>3, <1>4
<1>6. /\ icFrames'[1].todo = ops /\ icFrames'[1].irq = icFrames[1].irq
      /\ icFrames'[1].saved = icFrames[1].saved
  BY <1>2, <1>5 DEF IcFrames
<1>. QED
  BY <1>5, <1>6 DEF Current, IcThread

\* The frame that runs enters or leaves a section.
LEMMA SavedChanges ==
    ASSUME IcTyped, IcNested, NEW saved \in Seq(BOOLEAN),
           icFrames' = [icFrames EXCEPT ![1].saved = saved]
    PROVE  /\ icFrames' \in Seq(IcFrames) /\ Len(icFrames') = Len(icFrames)
           /\ Current'.saved = saved /\ Current'.irq = Current.irq
           /\ Current'.todo = Current.todo
           /\ IcThread'.todo = IcThread.todo /\ IcThread'.irq = IcThread.irq
           /\ Len(icFrames) = 2 => IcThread' = IcThread
<1>1. icFrames \in Seq(IcFrames) /\ Len(icFrames) \in {1, 2}
  BY DEF IcTyped, IcNested, IcFrames
<1>2. 1 \in 1..Len(icFrames) /\ icFrames[1] \in IcFrames
  BY <1>1
<1>3. [icFrames[1] EXCEPT !.saved = saved] \in IcFrames
  BY <1>2 DEF IcFrames
<1>4. icFrames' = [icFrames EXCEPT ![1] = [icFrames[1] EXCEPT !.saved = saved]]
  OBVIOUS
<1>5. /\ icFrames' \in Seq(IcFrames) /\ Len(icFrames') = Len(icFrames)
      /\ icFrames'[1] = [icFrames[1] EXCEPT !.saved = saved]
      /\ Len(icFrames) = 2 => icFrames'[2] = icFrames[2]
  BY <1>1, <1>2, <1>3, <1>4
<1>6. /\ icFrames'[1].saved = saved /\ icFrames'[1].irq = icFrames[1].irq
      /\ icFrames'[1].todo = icFrames[1].todo
  BY <1>2, <1>5 DEF IcFrames
<1>. QED
  BY <1>1, <1>5, <1>6 DEF Current, IcThread

\* Who runs.
LEMMA FramesAre ==
    ASSUME IcTyped, IcNested
    PROVE  /\ icFrames \in Seq(IcFrames) /\ Len(icFrames) \in {1, 2}
           /\ Current \in IcFrames /\ IcThread \in IcFrames
           /\ Len(icFrames) = 1 => IcThread = Current
           /\ Current.todo \in Seq(IcOps) /\ IcThread.todo \in Seq(IcOps)
           /\ Current.saved \in Seq(BOOLEAN) /\ Len(Current.todo) \in Nat
           /\ InThread => Len(icFrames) = 1
<1>1. icFrames \in Seq(IcFrames) /\ Len(icFrames) \in {1, 2}
  BY DEF IcTyped, IcNested, IcFrames
<1>2. Current \in IcFrames /\ IcThread \in IcFrames
  BY <1>1 DEF Current, IcThread
<1>3. InThread => Len(icFrames) = 1
  BY DEF IcNested, InThread
<1>4. Current.todo \in Seq(IcOps) /\ IcThread.todo \in Seq(IcOps) /\ Current.saved \in Seq(BOOLEAN)
  BY <1>2 DEF IcFrames
<1>. QED
  BY <1>1, <1>2, <1>3, <1>4 DEF Current, IcThread

\* With no call of the thread under way nothing is due.
LEMMA NothingDue ==
    ASSUME IcThread.todo = <<>>
    PROVE  \A kinds, n : ~ IcDue(kinds, n)
BY DEF IcDue

\* Between calls every line is what it is asked to be.
LEMMA BetweenCalls ==
    ASSUME IcInv, IcThread.todo = <<>>
    PROVE  /\ \A n \in IcIrqs : /\ is_enabled(n) <=> icAsked[n].on
                                /\ LocipriOf(n) = icAsked[n].pri
           /\ ~ siOwned => ~ siSrc /\ ~ is_pending(SOFT_INT0)
<1>1. \A kinds, n : ~ IcDue(kinds, n)
  BY NothingDue
<1>. QED
  BY <1>1 DEF IcInv, IcKept, IcCleared

\* A step that touches no line and nothing of the thread's call.
LEMMA LinesAlone ==
    ASSUME IcPlanned, IcKept, IcThread'.todo = IcThread.todo,
           UNCHANGED <<icMie, icLocien, icLocipri, icAsked>>
    PROVE  IcPlanned' /\ IcKept'
<1>1. \A n : LocipriOf(n)' = LocipriOf(n)
  BY DEF LocipriOf
<1>2. \A n : is_enabled(n)' <=> is_enabled(n)
  BY DEF is_enabled
<1>3. \A kinds, n : IcDue(kinds, n)' <=> IcDue(kinds, n)
  BY DEF IcDue
<1>4. IcPlanned'
  BY <1>1 DEF IcPlanned
<1>5. IcKept'
  BY <1>1, <1>2, <1>3 DEF IcKept
<1>. QED
  BY <1>4, <1>5

\* A step that raises no software interrupt, and touches nothing of the thread's call.
LEMMA SoftAlone ==
    ASSUME IcCleared, IcThread'.todo = IcThread.todo, siOwned' = siOwned,
           siSrc' => siSrc, is_pending(SOFT_INT0)' => is_pending(SOFT_INT0) \/ siSrc
    PROVE  IcCleared'
<1>1. \A kinds, n : IcDue(kinds, n)' <=> IcDue(kinds, n)
  BY DEF IcDue
<1>2. ASSUME ~ siOwned
      PROVE  siSrc => IcDue({"clear"}, SOFT_INT0)
  <2>1. ASSUME siSrc
        PROVE  IcDue({"clear"}, SOFT_INT0)
    <3>1. PICK i \in 1..Len(IcThread.todo) : IcThread.todo[i].op = "siClr"
      BY <1>2, <2>1 DEF IcCleared, IcDue
    <3>2. PICK j \in (i + 1)..Len(IcThread.todo) :
             IcThread.todo[j].op = "clear" /\ IcThread.todo[j].irq = SOFT_INT0
      BY <1>2, <3>1 DEF IcCleared
    <3>3. j \in 1..Len(IcThread.todo)
      OBVIOUS
    <3>. QED  BY <3>2, <3>3 DEF IcDue
  <2>. QED  BY <2>1
<1>3. ASSUME ~ siOwned'
      PROVE  /\ siSrc' => IcDue({"siClr"}, SOFT_INT0)'
             /\ is_pending(SOFT_INT0)' => IcDue({"clear"}, SOFT_INT0)'
  BY <1>1, <1>2, <1>3 DEF IcCleared
<1>. QED
  BY <1>3 DEF IcCleared

\* A call that begins does to one line what it is asked for.
LEMMA CallPlanned ==
    ASSUME IcInv, AtCall, InThread, NEW n \in IcIrqs, NEW ops \in Seq(IcOps),
           Begin(ops), UNCHANGED <<icRegs, icLeft, siEn, siSrc>>, siOwned' \in BOOLEAN,
           icAsked' \in [IcIrqs -> [on : BOOLEAN, pri : 0..7, was : 0..7]],
           \A m \in IcIrqs : m # n => icAsked'[m] = icAsked[m],
           \A i \in 1..Len(ops) :
               /\ ops[i].irq = n
               /\ ops[i].op = "on" => icAsked'[n].on
               /\ ops[i].op = "off" => ~ icAsked'[n].on
               /\ ops[i].op = "priClear" => i < Len(ops) /\ ops[i + 1].op = "priSet"
               /\ ops[i].op = "priSet" =>
                    ops[i].val = icAsked'[n].pri /\ i # 1 /\ i - 1 \in 1..Len(ops)
                                       /\ ops[i - 1].op = "priClear",
           icAsked'[n].on = icAsked[n].on \/ \E i \in 1..Len(ops) : ops[i].op \in {"on", "off"},
           icAsked'[n].pri = icAsked[n].pri \/
             (icAsked'[n].was = icAsked[n].pri /\ \E i \in 1..Len(ops) : ops[i].op = "priSet")
    PROVE  /\ IcTyped' /\ IcNested' /\ IcPlanned' /\ IcKept'
           /\ IcThread.todo = <<>> /\ IcThread'.todo = ops
<1>1. IcTyped /\ IcNested /\ IcPlanned /\ IcKept
  BY DEF IcInv
<1>2. Len(icFrames) = 1 /\ IcThread = Current /\ icFrames \in Seq(IcFrames)
  BY <1>1, FramesAre
<1>3. IcThread.todo = <<>>
  BY <1>2 DEF AtCall
<1>4. /\ icFrames' \in Seq(IcFrames) /\ Len(icFrames') = 1
      /\ Current'.todo = ops /\ Current'.irq = Current.irq
      /\ Current'.saved = Current.saved /\ IcThread' = Current'
  BY <1>1, <1>2, TodoChanges DEF Begin
<1>5. \A m \in IcIrqs : (is_enabled(m) <=> icAsked[m].on) /\ LocipriOf(m) = icAsked[m].pri
  BY <1>3, BetweenCalls
<1>6. \A m : LocipriOf(m)' = LocipriOf(m)
  BY DEF LocipriOf, icRegs
<1>7. \A m : is_enabled(m)' <=> is_enabled(m)
  BY DEF is_enabled, icRegs
<1>9. \A m \in IcIrqs : m # n => icAsked'[m] = icAsked[m]
  OBVIOUS
<1>10. IcTyped'
  BY <1>1, <1>4 DEF IcTyped, IcFrames, icRegs
<1>11. IcNested'
  BY <1>1, <1>2, <1>4 DEF IcNested, InThread, icRegs
<1>12. IcPlanned'
  <2>1. ASSUME NEW i \in 1..Len(ops)
        PROVE  /\ ops[i].irq = n
               /\ ops[i].op = "on" => icAsked'[n].on
               /\ ops[i].op = "off" => ~ icAsked'[n].on
               /\ ops[i].op = "priClear" =>
                    i < Len(ops) /\ ops[i + 1].op = "priSet" /\ ops[i + 1].irq = n
               /\ ops[i].op = "priSet" =>
                    /\ ops[i].val = icAsked'[n].pri
                    /\ i # 1 /\ ops[i - 1].op = "priClear" /\ ops[i - 1].irq = n
    <3>1. ops[i].op = "priClear" => i + 1 \in 1..Len(ops)
      OBVIOUS
    <3>. QED  BY <1>9, <3>1
  <2>2. IcThread'.todo = ops
    BY <1>4
  <2>. QED  BY <2>1, <2>2 DEF IcPlanned
<1>13. IcKept'
  <2>1. ASSUME NEW m \in IcIrqs, m # n
        PROVE  (is_enabled(m)' <=> icAsked'[m].on) /\ LocipriOf(m)' = icAsked'[m].pri
    BY <1>5, <1>6, <1>7, <1>9, <2>1
  <2>2. IcDue({"on", "off"}, n)' \/ (is_enabled(n)' <=> icAsked'[n].on)
    <3>1. CASE icAsked'[n].on = icAsked[n].on
      BY <1>5, <1>7, <1>9, <3>1
    <3>2. CASE \E i \in 1..Len(ops) : ops[i].op \in {"on", "off"}
      BY <1>4, <3>2 DEF IcDue
    <3>. QED  BY <3>1, <3>2
  <2>3. (IcDue({"priSet"}, n)' \/ LocipriOf(n)' = icAsked'[n].pri)
          /\ LocipriOf(n)' \in {icAsked'[n].pri, icAsked'[n].was}
    <3>1. CASE icAsked'[n].pri = icAsked[n].pri
      BY <1>5, <1>6, <1>9, <3>1
    <3>2. CASE icAsked'[n].was = icAsked[n].pri /\ \E i \in 1..Len(ops) : ops[i].op = "priSet"
      <4>1. IcDue({"priSet"}, n)'
        BY <1>4, <3>2 DEF IcDue
      <4>. QED  BY <1>5, <1>6, <1>9, <3>2, <4>1
    <3>. QED  BY <3>1, <3>2
  <2>. QED  BY <2>1, <2>2, <2>3 DEF IcKept
<1>. QED
  BY <1>3, <1>4, <1>10, <1>11, <1>12, <1>13

\* After reset nothing is asked for, enabled or pending.
LEMMA IcInitInv == IcInit => IcInv
<1>. SUFFICES ASSUME IcInit
              PROVE  IcInv
  OBVIOUS
<1>1. /\ icFrames = <<[irq |-> 0, todo |-> <<>>, saved |-> <<>>]>>
      /\ Len(icFrames) = 1 /\ icFrames[1] = [irq |-> 0, todo |-> <<>>, saved |-> <<>>]
  BY DEF IcInit
<1>2. IcThread = icFrames[1] /\ Current = icFrames[1]
  BY <1>1 DEF IcThread, Current
<1>3. /\ IcThread.irq = 0 /\ IcThread.todo = <<>> /\ Current.saved = <<>>
      /\ Len(IcThread.todo) = 0 /\ Len(Current.saved) = 0
  BY <1>1, <1>2
<1>4. \A n \in IcIrqs : LocipriOf(n) = 0
  BY FieldsApart DEF IcInit, LocipriOf
<1>5. IcTyped
  <2>1. icFrames \in Seq([irq : IcIrqs \cup {0}, todo : Seq(IcOps), saved : Seq(BOOLEAN)])
    <3>1. <<>> \in Seq(IcOps) /\ <<>> \in Seq(BOOLEAN)
      OBVIOUS
    <3>. DEFINE f == [irq |-> 0, todo |-> <<>>, saved |-> <<>>]
    <3>2. f \in [irq : IcIrqs \cup {0}, todo : Seq(IcOps), saved : Seq(BOOLEAN)]
      BY <3>1
    <3>3. icFrames = <<f>>
      BY <1>1
    <3>. HIDE DEF f
    <3>. QED  BY <3>2, <3>3
  <2>2. icLocipri \in [LocipriRegs -> [LocipriShifts -> 0..7]]
    BY DEF IcInit
  <2>3. icAsked \in [IcIrqs -> [on : BOOLEAN, pri : 0..7, was : 0..7]]
    BY DEF IcInit
  <2>4. icMie = {} /\ icLocien = {} /\ icPending = {} /\ icPrithd = 0
    BY DEF IcInit
  <2>5. icMstatus \in BOOLEAN /\ siOwned \in BOOLEAN /\ siEn \in BOOLEAN /\ siSrc \in BOOLEAN
    BY DEF IcInit
  <2>. QED  BY <2>1, <2>2, <2>3, <2>4, <2>5 DEF IcTyped
<1>6. IcNested
  BY <1>1, <1>3 DEF IcNested, IcInit
<1>7. IcPlanned
  BY <1>3 DEF IcPlanned
<1>8. IcKept
  <2>1. ASSUME NEW n \in IcIrqs
        PROVE  /\ is_enabled(n) <=> icAsked[n].on
               /\ LocipriOf(n) = icAsked[n].pri
    BY <1>4 DEF IcInit, is_enabled
  <2>. QED  BY <2>1 DEF IcKept
<1>9. IcCleared
  BY <1>3 DEF IcCleared, IcInit, is_pending
<1>. QED
  BY <1>5, <1>6, <1>7, <1>8, <1>9 DEF IcInv

\* What is asked for a line, and the accesses by number.
LEMMA Asked ==
    ASSUME IcTyped, NEW n \in IcIrqs
    PROVE  /\ icAsked[n] \in [on : BOOLEAN, pri : 0..7, was : 0..7]
           /\ icAsked[n].on \in BOOLEAN /\ icAsked[n].pri \in 0..7 /\ icAsked[n].was \in 0..7
<1>1. icAsked[n] \in [on : BOOLEAN, pri : 0..7, was : 0..7]
  BY DEF IcTyped
<1>. QED
  BY <1>1

\* The parts of an access.
LEMMA DoIs ==
    ASSUME NEW op, NEW n, NEW v
    PROVE  Do(op, n, v).op = op /\ Do(op, n, v).irq = n /\ Do(op, n, v).val = v
BY DEF Do

\* A call that begins without anything to clear leaves nothing behind.
LEMMA CallCleared ==
    ASSUME IcInv, AtCall, InThread, siOwned' = siOwned, UNCHANGED <<icPending, siSrc>>,
           \A i \in 1..Len(IcThread'.todo) : IcThread'.todo[i].op # "siClr"
    PROVE  IcCleared'
<1>1. IcThread.todo = <<>>
  BY FramesAre DEF IcInv, AtCall
<1>2. ~ siOwned => ~ siSrc /\ ~ is_pending(SOFT_INT0)
  BY <1>1, BetweenCalls
<1>. QED
  BY <1>2 DEF IcCleared, is_pending

\* One lemma per call of the thread, each an instance of CallPlanned: IcInv is kept.
LEMMA EnableInv ==
    ASSUME IcInv, NEW n \in IcIrqs, IcEnable(n)
    PROVE  IcInv'
<1>. DEFINE ops == EnableOps(n)
<1>1. /\ AtCall /\ InThread /\ Begin(ops) /\ UNCHANGED <<icRegs, icLeft, siEn, siSrc>>
      /\ siOwned' = siOwned /\ siOwned \in BOOLEAN /\ icAsked[n].pri \in 0..7
      /\ UNCHANGED <<icPending, siSrc>>
  BY Asked DEF IcEnable, IcCall, IcInv, IcTyped, icRegs
<1>2. icAsked \in [IcIrqs -> [on : BOOLEAN, pri : 0..7, was : 0..7]]
  BY DEF IcInv, IcTyped
<1>3. /\ icAsked' \in [IcIrqs -> [on : BOOLEAN, pri : 0..7, was : 0..7]]
      /\ icAsked'[n].on /\ icAsked'[n].pri = 1 /\ icAsked'[n].was = icAsked[n].pri
      /\ \A m \in IcIrqs : m # n => icAsked'[m] = icAsked[m]
  <2>. DEFINE b == [on |-> TRUE, pri |-> 1, was |-> icAsked[n].pri]
  <2>1. b \in [on : BOOLEAN, pri : 0..7, was : 0..7] /\ b.on /\ b.pri = 1 /\ b.was = icAsked[n].pri
    BY <1>1
  <2>2. icAsked' = [icAsked EXCEPT ![n] = b]
    BY DEF IcEnable
  <2>. HIDE DEF b
  <2>3. icAsked'[n] = b
    BY <1>2, <2>2
  <2>. QED  BY <1>2, <2>1, <2>2, <2>3
<1>4. ops \in Seq(IcOps) /\ Len(ops) = 3
  BY EnableOpsAre
<1>5. /\ ops[1].op = "on" /\ ops[2].op = "priClear" /\ ops[3].op = "priSet"
      /\ ops[1].irq = n /\ ops[2].irq = n /\ ops[3].irq = n /\ ops[3].val = 1
  BY EnableOpsAre, DoIs
<1>. HIDE DEF ops
<1>6. \A i \in 1..3 : i = 1 \/ i = 2 \/ i = 3
  OBVIOUS
<1>7. ASSUME NEW i \in 1..Len(ops)
      PROVE  /\ ops[i].irq = n
             /\ ops[i].op = "on" => icAsked'[n].on
             /\ ops[i].op = "off" => ~ icAsked'[n].on
             /\ ops[i].op = "priClear" => i < Len(ops) /\ ops[i + 1].op = "priSet"
             /\ ops[i].op = "priSet" =>
                  ops[i].val = icAsked'[n].pri /\ i # 1 /\ i - 1 \in 1..Len(ops)
                                     /\ ops[i - 1].op = "priClear"
             /\ ops[i].op # "siClr"
  <2>1. CASE i = 1
    BY <1>3, <1>4, <1>5, <2>1
  <2>2. CASE i = 2
    BY <1>3, <1>4, <1>5, <2>2
  <2>3. CASE i = 3
    BY <1>3, <1>4, <1>5, <2>3
  <2>. QED  BY <1>4, <1>6, <2>1, <2>2, <2>3
<1>8. siOwned' \in BOOLEAN /\ 1 \in 1..Len(ops) /\ 3 \in 1..Len(ops)
  BY <1>1, <1>4
<1>9. \E i \in 1..Len(ops) : ops[i].op \in {"on", "off"}
  BY <1>5, <1>8
<1>10. \E i \in 1..Len(ops) : ops[i].op = "priSet"
  BY <1>5, <1>8
<1>11. IcTyped' /\ IcNested' /\ IcPlanned' /\ IcKept' /\ IcThread'.todo = ops
  <2>1. /\ ops \in Seq(IcOps) /\ AtCall /\ InThread /\ Begin(ops)
        /\ UNCHANGED <<icRegs, icLeft, siEn, siSrc>> /\ siOwned' \in BOOLEAN
        /\ icAsked' \in [IcIrqs -> [on : BOOLEAN, pri : 0..7, was : 0..7]]
        /\ \A m \in IcIrqs : m # n => icAsked'[m] = icAsked[m]
    BY <1>1, <1>3, <1>4, <1>8
  <2>2. \A i \in 1..Len(ops) :
           /\ ops[i].irq = n
           /\ ops[i].op = "on" => icAsked'[n].on
           /\ ops[i].op = "off" => ~ icAsked'[n].on
           /\ ops[i].op = "priClear" => i < Len(ops) /\ ops[i + 1].op = "priSet"
           /\ ops[i].op = "priSet" =>
                ops[i].val = icAsked'[n].pri /\ i # 1 /\ i - 1 \in 1..Len(ops)
                                   /\ ops[i - 1].op = "priClear"
    BY <1>7
  <2>3. icAsked'[n].on = icAsked[n].on \/ \E i \in 1..Len(ops) : ops[i].op \in {"on", "off"}
    BY <1>9
  <2>4. icAsked'[n].pri = icAsked[n].pri \/
          (icAsked'[n].was = icAsked[n].pri /\ \E i \in 1..Len(ops) : ops[i].op = "priSet")
    BY <1>3, <1>10
  <2>. QED  BY <2>1, <2>2, <2>3, <2>4, CallPlanned
<1>12. IcCleared'
  BY <1>1, <1>7, <1>11, CallCleared
<1>. QED
  BY <1>11, <1>12 DEF IcInv

LEMMA DisableInv ==
    ASSUME IcInv, NEW n \in IcIrqs, IcDisable(n)
    PROVE  IcInv'
<1>. DEFINE ops == DisableOps(n)
<1>1. /\ AtCall /\ InThread /\ Begin(ops) /\ UNCHANGED <<icRegs, icLeft, siEn, siSrc>>
      /\ siOwned' = siOwned /\ siOwned \in BOOLEAN
      /\ UNCHANGED <<icPending, siSrc>>
  BY DEF IcDisable, IcCall, IcInv, IcTyped, icRegs
<1>2. icAsked \in [IcIrqs -> [on : BOOLEAN, pri : 0..7, was : 0..7]]
  BY DEF IcInv, IcTyped
<1>4. /\ icAsked' \in [IcIrqs -> [on : BOOLEAN, pri : 0..7, was : 0..7]]
      /\ ~ icAsked'[n].on /\ icAsked'[n].pri = icAsked[n].pri
      /\ \A m \in IcIrqs : m # n => icAsked'[m] = icAsked[m]
  BY <1>2 DEF IcDisable
<1>5. ops \in Seq(IcOps) /\ Len(ops) = 2
  BY IcAssumption, Pieces
<1>6. ops[1].op = "off" /\ ops[2].op = "clear" /\ ops[1].irq = n /\ ops[2].irq = n
  <2>1. 0 \in 0..7
    OBVIOUS
  <2>. QED  BY <2>1, Pieces, DoIs
<1>. HIDE DEF ops
<1>7. \A i \in 1..2 : i = 1 \/ i = 2
  OBVIOUS
<1>8. ASSUME NEW i \in 1..Len(ops)
      PROVE  /\ ops[i].irq = n
             /\ ops[i].op = "on" => icAsked'[n].on
             /\ ops[i].op = "off" => ~ icAsked'[n].on
             /\ ops[i].op = "priClear" => i < Len(ops) /\ ops[i + 1].op = "priSet"
             /\ ops[i].op = "priSet" =>
                  ops[i].val = icAsked'[n].pri /\ i # 1 /\ i - 1 \in 1..Len(ops)
                                     /\ ops[i - 1].op = "priClear"
             /\ ops[i].op # "siClr"
  BY <1>4, <1>5, <1>6, <1>7
<1>9. siOwned' \in BOOLEAN /\ 1 \in 1..Len(ops)
  BY <1>1, <1>5
<1>10. \E i \in 1..Len(ops) : ops[i].op \in {"on", "off"}
  BY <1>6, <1>9
<1>11. IcTyped' /\ IcNested' /\ IcPlanned' /\ IcKept' /\ IcThread'.todo = ops
  <2>1. /\ ops \in Seq(IcOps) /\ AtCall /\ InThread /\ Begin(ops)
        /\ UNCHANGED <<icRegs, icLeft, siEn, siSrc>> /\ siOwned' \in BOOLEAN
        /\ icAsked' \in [IcIrqs -> [on : BOOLEAN, pri : 0..7, was : 0..7]]
        /\ \A m \in IcIrqs : m # n => icAsked'[m] = icAsked[m]
    BY <1>1, <1>4, <1>5, <1>9
  <2>2. \A i \in 1..Len(ops) :
           /\ ops[i].irq = n
           /\ ops[i].op = "on" => icAsked'[n].on
           /\ ops[i].op = "off" => ~ icAsked'[n].on
           /\ ops[i].op = "priClear" => i < Len(ops) /\ ops[i + 1].op = "priSet"
           /\ ops[i].op = "priSet" =>
                ops[i].val = icAsked'[n].pri /\ i # 1 /\ i - 1 \in 1..Len(ops)
                                   /\ ops[i - 1].op = "priClear"
    BY <1>8
  <2>3. icAsked'[n].on = icAsked[n].on \/ \E i \in 1..Len(ops) : ops[i].op \in {"on", "off"}
    BY <1>10
  <2>4. icAsked'[n].pri = icAsked[n].pri \/
          (icAsked'[n].was = icAsked[n].pri /\ \E i \in 1..Len(ops) : ops[i].op = "priSet")
    BY <1>4
  <2>. QED  BY <2>1, <2>2, <2>3, <2>4, CallPlanned
<1>12. IcCleared'
  BY <1>1, <1>8, <1>11, CallCleared
<1>. QED
  BY <1>11, <1>12 DEF IcInv

LEMMA PriorityInv ==
    ASSUME IcInv, NEW n \in IcIrqs, NEW p \in IcPriorities, set_priority(n, p)
    PROVE  IcInv'
<1>. DEFINE ops == locipri_set_field(n, p)
<1>0. p \in 0..7
  BY IcAssumption
<1>1. /\ AtCall /\ InThread /\ Begin(ops) /\ UNCHANGED <<icRegs, icLeft, siEn, siSrc>>
      /\ siOwned' = siOwned /\ siOwned \in BOOLEAN
      /\ UNCHANGED <<icPending, siSrc>>
  BY DEF set_priority, IcCall, IcInv, IcTyped, icRegs
<1>2. icAsked \in [IcIrqs -> [on : BOOLEAN, pri : 0..7, was : 0..7]]
  BY DEF IcInv, IcTyped
<1>4. /\ icAsked' \in [IcIrqs -> [on : BOOLEAN, pri : 0..7, was : 0..7]]
      /\ icAsked'[n].on = icAsked[n].on /\ icAsked'[n].pri = p
      /\ icAsked'[n].was = icAsked[n].pri
      /\ \A m \in IcIrqs : m # n => icAsked'[m] = icAsked[m]
  BY <1>0, <1>2 DEF set_priority
<1>5. ops \in Seq(IcOps) /\ Len(ops) = 2
  BY <1>0, Pieces
<1>6. /\ ops[1].op = "priClear" /\ ops[2].op = "priSet" /\ ops[1].irq = n
      /\ ops[2].irq = n /\ ops[2].val = p
  BY <1>0, Pieces, DoIs
<1>. HIDE DEF ops
<1>7. \A i \in 1..2 : i = 1 \/ i = 2
  OBVIOUS
<1>8. ASSUME NEW i \in 1..Len(ops)
      PROVE  /\ ops[i].irq = n
             /\ ops[i].op = "on" => icAsked'[n].on
             /\ ops[i].op = "off" => ~ icAsked'[n].on
             /\ ops[i].op = "priClear" => i < Len(ops) /\ ops[i + 1].op = "priSet"
             /\ ops[i].op = "priSet" =>
                  ops[i].val = icAsked'[n].pri /\ i # 1 /\ i - 1 \in 1..Len(ops)
                                     /\ ops[i - 1].op = "priClear"
             /\ ops[i].op # "siClr"
  <2>1. CASE i = 1
    BY <1>4, <1>5, <1>6, <2>1
  <2>2. CASE i = 2
    BY <1>4, <1>5, <1>6, <2>2
  <2>. QED  BY <1>5, <1>7, <2>1, <2>2
<1>9. siOwned' \in BOOLEAN /\ 2 \in 1..Len(ops)
  BY <1>1, <1>5
<1>10. \E i \in 1..Len(ops) : ops[i].op = "priSet"
  BY <1>6, <1>9
<1>11. IcTyped' /\ IcNested' /\ IcPlanned' /\ IcKept' /\ IcThread'.todo = ops
  <2>1. /\ ops \in Seq(IcOps) /\ AtCall /\ InThread /\ Begin(ops)
        /\ UNCHANGED <<icRegs, icLeft, siEn, siSrc>> /\ siOwned' \in BOOLEAN
        /\ icAsked' \in [IcIrqs -> [on : BOOLEAN, pri : 0..7, was : 0..7]]
        /\ \A m \in IcIrqs : m # n => icAsked'[m] = icAsked[m]
    BY <1>1, <1>4, <1>5, <1>9
  <2>2. \A i \in 1..Len(ops) :
           /\ ops[i].irq = n
           /\ ops[i].op = "on" => icAsked'[n].on
           /\ ops[i].op = "off" => ~ icAsked'[n].on
           /\ ops[i].op = "priClear" => i < Len(ops) /\ ops[i + 1].op = "priSet"
           /\ ops[i].op = "priSet" =>
                ops[i].val = icAsked'[n].pri /\ i # 1 /\ i - 1 \in 1..Len(ops)
                                   /\ ops[i - 1].op = "priClear"
    BY <1>8
  <2>3. icAsked'[n].on = icAsked[n].on \/ \E i \in 1..Len(ops) : ops[i].op \in {"on", "off"}
    BY <1>4
  <2>4. icAsked'[n].pri = icAsked[n].pri \/
          (icAsked'[n].was = icAsked[n].pri /\ \E i \in 1..Len(ops) : ops[i].op = "priSet")
    BY <1>4, <1>10
  <2>. QED  BY <2>1, <2>2, <2>3, <2>4, CallPlanned
<1>12. IcCleared'
  BY <1>1, <1>8, <1>11, CallCleared
<1>. QED
  BY <1>11, <1>12 DEF IcInv

LEMMA SoftNewInv ==
    ASSUME IcInv, SoftNew
    PROVE  IcInv'
<1>. DEFINE n == SOFT_INT0
            ops == SoftNewOps
<1>0. n \in IcIrqs
  BY IcAssumption
<1>1. /\ AtCall /\ InThread /\ Begin(ops) /\ UNCHANGED <<icRegs, icLeft, siEn, siSrc>>
      /\ siOwned' = TRUE /\ siOwned' \in BOOLEAN /\ icAsked[n].pri \in 0..7
  BY <1>0, Asked DEF SoftNew, SoftNewOps, IcCall, IcInv
<1>2. icAsked \in [IcIrqs -> [on : BOOLEAN, pri : 0..7, was : 0..7]]
  BY DEF IcInv, IcTyped
<1>3. /\ icAsked' \in [IcIrqs -> [on : BOOLEAN, pri : 0..7, was : 0..7]]
      /\ icAsked'[n].on /\ icAsked'[n].pri = 1 /\ icAsked'[n].was = icAsked[n].pri
      /\ \A m \in IcIrqs : m # n => icAsked'[m] = icAsked[m]
  <2>. DEFINE b == [on |-> TRUE, pri |-> 1, was |-> icAsked[n].pri]
  <2>1. b \in [on : BOOLEAN, pri : 0..7, was : 0..7] /\ b.on /\ b.pri = 1
        /\ b.was = icAsked[n].pri
    BY <1>1
  <2>2. icAsked' = [icAsked EXCEPT ![n] = b]
    BY DEF SoftNew
  <2>. HIDE DEF b
  <2>3. icAsked'[n] = b
    BY <1>0, <1>2, <2>2
  <2>. QED  BY <1>2, <2>1, <2>2, <2>3
<1>4. ops \in Seq(IcOps) /\ Len(ops) = 6
  BY SoftNewOpsAre
<1>5. /\ ops[1].op = "siClr" /\ ops[2].op = "clear" /\ ops[3].op = "siEn"
      /\ ops[4].op = "on" /\ ops[5].op = "priClear" /\ ops[6].op = "priSet"
      /\ ops[1].irq = n /\ ops[2].irq = n /\ ops[3].irq = n
      /\ ops[4].irq = n /\ ops[5].irq = n /\ ops[6].irq = n /\ ops[6].val = 1
  BY SoftNewOpsAre, DoIs
<1>. HIDE DEF ops, n
<1>6. \A i \in 1..6 : i = 1 \/ i = 2 \/ i = 3 \/ i = 4 \/ i = 5 \/ i = 6
  OBVIOUS
<1>7. ASSUME NEW i \in 1..Len(ops)
      PROVE  /\ ops[i].irq = n
             /\ ops[i].op = "on" => icAsked'[n].on
             /\ ops[i].op = "off" => ~ icAsked'[n].on
             /\ ops[i].op = "priClear" => i < Len(ops) /\ ops[i + 1].op = "priSet"
             /\ ops[i].op = "priSet" =>
                  ops[i].val = icAsked'[n].pri /\ i # 1 /\ i - 1 \in 1..Len(ops)
                                     /\ ops[i - 1].op = "priClear"
  <2>1. CASE i = 1 \/ i = 2 \/ i = 3 \/ i = 4
    BY <1>3, <1>5, <2>1
  <2>2. CASE i = 5
    BY <1>4, <1>5, <2>2
  <2>3. CASE i = 6
    BY <1>3, <1>4, <1>5, <2>3
  <2>. QED  BY <1>4, <1>6, <2>1, <2>2, <2>3
<1>8. 4 \in 1..Len(ops) /\ 6 \in 1..Len(ops)
  BY <1>4
<1>9. \E i \in 1..Len(ops) : ops[i].op \in {"on", "off"}
  BY <1>5, <1>8
<1>10. \E i \in 1..Len(ops) : ops[i].op = "priSet"
  BY <1>5, <1>8
<1>11. IcTyped' /\ IcNested' /\ IcPlanned' /\ IcKept'
  <2>1. /\ ops \in Seq(IcOps) /\ AtCall /\ InThread /\ Begin(ops)
        /\ UNCHANGED <<icRegs, icLeft, siEn, siSrc>> /\ siOwned' \in BOOLEAN
        /\ icAsked' \in [IcIrqs -> [on : BOOLEAN, pri : 0..7, was : 0..7]]
        /\ \A m \in IcIrqs : m # n => icAsked'[m] = icAsked[m]
    BY <1>1, <1>3, <1>4
  <2>2. \A i \in 1..Len(ops) :
           /\ ops[i].irq = n
           /\ ops[i].op = "on" => icAsked'[n].on
           /\ ops[i].op = "off" => ~ icAsked'[n].on
           /\ ops[i].op = "priClear" => i < Len(ops) /\ ops[i + 1].op = "priSet"
           /\ ops[i].op = "priSet" =>
                ops[i].val = icAsked'[n].pri /\ i # 1 /\ i - 1 \in 1..Len(ops)
                                   /\ ops[i - 1].op = "priClear"
    BY <1>7
  <2>3. icAsked'[n].on = icAsked[n].on \/ \E i \in 1..Len(ops) : ops[i].op \in {"on", "off"}
    BY <1>9
  <2>4. icAsked'[n].pri = icAsked[n].pri \/
          (icAsked'[n].was = icAsked[n].pri /\ \E i \in 1..Len(ops) : ops[i].op = "priSet")
    BY <1>3, <1>10
  <2>. QED  BY <1>0, <2>1, <2>2, <2>3, <2>4, CallPlanned
<1>12. IcCleared'
  BY <1>1 DEF IcCleared
<1>. QED
  BY <1>11, <1>12 DEF IcInv

LEMMA SoftDropInv ==
    ASSUME IcInv, SoftDrop
    PROVE  IcInv'
<1>. DEFINE n == SOFT_INT0
            ops == SoftDropOps
<1>0. n \in IcIrqs
  BY IcAssumption
<1>1. /\ AtCall /\ InThread /\ Begin(ops) /\ UNCHANGED <<icRegs, icLeft, siEn, siSrc>>
      /\ siOwned' = FALSE /\ siOwned' \in BOOLEAN
  BY DEF SoftDrop, SoftDropOps, IcCall
<1>2. icAsked \in [IcIrqs -> [on : BOOLEAN, pri : 0..7, was : 0..7]]
  BY DEF IcInv, IcTyped
<1>3. /\ icAsked' \in [IcIrqs -> [on : BOOLEAN, pri : 0..7, was : 0..7]]
      /\ ~ icAsked'[n].on /\ icAsked'[n].pri = icAsked[n].pri
      /\ \A m \in IcIrqs : m # n => icAsked'[m] = icAsked[m]
  BY <1>0, <1>2 DEF SoftDrop
<1>4. ops \in Seq(IcOps) /\ Len(ops) = 5
  BY SoftDropOpsAre
<1>5. /\ ops[1].op = "off" /\ ops[2].op = "clear" /\ ops[3].op = "siEn"
      /\ ops[4].op = "siClr" /\ ops[5].op = "clear"
      /\ ops[1].irq = n /\ ops[2].irq = n /\ ops[3].irq = n
      /\ ops[4].irq = n /\ ops[5].irq = n
  BY SoftDropOpsAre, DoIs
<1>. HIDE DEF ops
<1>6. \A i \in 1..5 : i = 1 \/ i = 2 \/ i = 3 \/ i = 4 \/ i = 5
  OBVIOUS
<1>7. ASSUME NEW i \in 1..Len(ops)
      PROVE  /\ ops[i].irq = n /\ ops[i].op \in {"off", "clear", "siEn", "siClr"}
             /\ ops[i].op = "siClr" => i = 4
  BY <1>4, <1>5, <1>6
<1>8. 1 \in 1..Len(ops) /\ 4 \in 1..Len(ops) /\ 5 \in 1..Len(ops) /\ 5 \in (4 + 1)..Len(ops)
  BY <1>4
<1>9. \E i \in 1..Len(ops) : ops[i].op \in {"on", "off"}
  BY <1>5, <1>8
<1>10. IcTyped' /\ IcNested' /\ IcPlanned' /\ IcKept' /\ IcThread'.todo = ops
  <2>1. /\ ops \in Seq(IcOps) /\ AtCall /\ InThread /\ Begin(ops)
        /\ UNCHANGED <<icRegs, icLeft, siEn, siSrc>> /\ siOwned' \in BOOLEAN
        /\ icAsked' \in [IcIrqs -> [on : BOOLEAN, pri : 0..7, was : 0..7]]
        /\ \A m \in IcIrqs : m # n => icAsked'[m] = icAsked[m]
    BY <1>1, <1>3, <1>4
  <2>2. \A i \in 1..Len(ops) :
           /\ ops[i].irq = n
           /\ ops[i].op = "on" => icAsked'[n].on
           /\ ops[i].op = "off" => ~ icAsked'[n].on
           /\ ops[i].op = "priClear" => i < Len(ops) /\ ops[i + 1].op = "priSet"
           /\ ops[i].op = "priSet" =>
                ops[i].val = icAsked'[n].pri /\ i # 1 /\ i - 1 \in 1..Len(ops)
                                   /\ ops[i - 1].op = "priClear"
    BY <1>3, <1>7
  <2>3. icAsked'[n].on = icAsked[n].on \/ \E i \in 1..Len(ops) : ops[i].op \in {"on", "off"}
    BY <1>9
  <2>4. icAsked'[n].pri = icAsked[n].pri \/
          (icAsked'[n].was = icAsked[n].pri /\ \E i \in 1..Len(ops) : ops[i].op = "priSet")
    BY <1>3
  <2>. QED  BY <1>0, <2>1, <2>2, <2>3, <2>4, CallPlanned
<1>11. IcCleared'
  <2>1. IcDue({"siClr"}, n)' /\ IcDue({"clear"}, n)'
    BY <1>5, <1>8, <1>10 DEF IcDue
  <2>2. ASSUME NEW i \in 1..Len(ops), ops[i].op = "siClr"
        PROVE  /\ ops[i].irq = n
               /\ \E j \in (i + 1)..Len(ops) : ops[j].op = "clear" /\ ops[j].irq = n
    BY <1>5, <1>7, <1>8, <2>2
  <2>. QED  BY <1>10, <2>1, <2>2 DEF IcCleared
<1>. QED
  BY <1>10, <1>11 DEF IcInv

\* A call that is done in one access.
LEMMA AtOnce ==
    ASSUME IcInv, IcCall(<<>>)
    PROVE  /\ icFrames' \in Seq(IcFrames) /\ Len(icFrames) = 1 /\ Len(icFrames') = 1
           /\ IcThread.todo = <<>> /\ IcThread'.todo = <<>> /\ IcThread'.irq = 0
           /\ Current'.saved = Current.saved /\ Current'.irq = 0 /\ Current.irq = 0
<1>1. IcTyped /\ IcNested /\ <<>> \in Seq(IcOps)
  BY DEF IcInv
<1>2. Len(icFrames) = 1 /\ IcThread = Current /\ icFrames \in Seq(IcFrames)
  BY <1>1, FramesAre DEF IcCall
<1>3. /\ icFrames' \in Seq(IcFrames) /\ Len(icFrames') = 1
      /\ Current'.todo = <<>> /\ Current'.irq = Current.irq
      /\ Current'.saved = Current.saved /\ IcThread' = Current'
  BY <1>1, <1>2, TodoChanges DEF Begin, IcCall
<1>. QED
  BY <1>2, <1>3 DEF IcCall, AtCall, InThread

LEMMA ThresholdInv ==
    ASSUME IcInv, NEW t \in IcThresholds, set_threshold(t)
    PROVE  IcInv'
<1>1. IcTyped /\ IcNested /\ IcPlanned /\ IcKept /\ IcCleared
  BY DEF IcInv
<1>2. /\ icFrames' \in Seq(IcFrames) /\ Len(icFrames) = 1 /\ Len(icFrames') = 1
      /\ IcThread.todo = <<>> /\ IcThread'.todo = <<>> /\ IcThread'.irq = 0
      /\ Current'.saved = Current.saved
  BY AtOnce DEF set_threshold
<1>3. IcTyped'
  <2>1. icPrithd' \in 0..7
    BY IcAssumption DEF set_threshold
  <2>. QED  BY <1>1, <1>2, <2>1 DEF IcTyped, IcFrames, set_threshold
<1>4. IcNested'
  BY <1>1, <1>2 DEF IcNested, set_threshold
<1>5. IcPlanned' /\ IcKept'
  BY <1>1, <1>2, LinesAlone DEF set_threshold
<1>6. IcCleared'
  BY <1>1, <1>2, SoftAlone DEF set_threshold, is_pending
<1>. QED
  BY <1>3, <1>4, <1>5, <1>6 DEF IcInv

LEMMA DefaultsInv ==
    ASSUME IcInv, IcSetDefaults
    PROVE  IcInv'
<1>1. IcTyped /\ IcNested /\ IcPlanned /\ IcKept /\ IcCleared
  BY DEF IcInv
<1>2. /\ icFrames' \in Seq(IcFrames) /\ Len(icFrames) = 1 /\ Len(icFrames') = 1
      /\ IcThread.todo = <<>> /\ IcThread'.todo = <<>> /\ IcThread'.irq = 0
      /\ Current'.saved = Current.saved
  BY AtOnce DEF IcSetDefaults
<1>3. icLocipri \in [LocipriRegs -> [LocipriShifts -> 0..7]]
  BY <1>1 DEF IcTyped
<1>4. icLocipri' = [r \in LocipriRegs |-> [s \in LocipriShifts |-> 1]]
  BY <1>3 DEF IcSetDefaults
<1>5. icAsked \in [IcIrqs -> [on : BOOLEAN, pri : 0..7, was : 0..7]]
  BY <1>1 DEF IcTyped
<1>6. ASSUME NEW n \in IcIrqs
      PROVE  /\ icAsked'[n] \in [on : BOOLEAN, pri : 0..7, was : 0..7]
             /\ icAsked'[n].on = icAsked[n].on /\ icAsked'[n].pri = 1
             /\ LocipriOf(n)' = 1
  <2>1. icAsked'[n] = [icAsked[n] EXCEPT !.pri = 1]
    BY DEF IcSetDefaults
  <2>2. LocipriOf(n)' = 1
    BY <1>4, FieldsApart DEF LocipriOf
  <2>. QED  BY <1>5, <2>1, <2>2
<1>7. IcTyped'
  <2>1. icLocipri' \in [LocipriRegs -> [LocipriShifts -> 0..7]]
    BY <1>4
  <2>2. icAsked' \in [IcIrqs -> [on : BOOLEAN, pri : 0..7, was : 0..7]]
    BY <1>6 DEF IcSetDefaults
  <2>. QED  BY <1>1, <1>2, <2>1, <2>2 DEF IcTyped, IcFrames, IcSetDefaults
<1>8. IcNested'
  BY <1>1, <1>2 DEF IcNested, IcSetDefaults
<1>9. IcPlanned'
  BY <1>2 DEF IcPlanned
<1>10. IcKept'
  <2>1. \A n \in IcIrqs : is_enabled(n) <=> icAsked[n].on
    BY <1>2, BetweenCalls
  <2>2. \A n \in IcIrqs : is_enabled(n)' <=> is_enabled(n)
    BY DEF is_enabled, IcSetDefaults
  <2>. QED  BY <1>6, <2>1, <2>2 DEF IcKept
<1>11. IcCleared'
  BY <1>1, <1>2, SoftAlone DEF IcSetDefaults, is_pending
<1>. QED
  BY <1>7, <1>8, <1>9, <1>10, <1>11 DEF IcInv

LEMMA GlobalInv ==
    ASSUME IcInv, NEW b \in BOOLEAN, IcGlobal(b)
    PROVE  IcInv'
<1>1. IcTyped /\ IcNested /\ IcPlanned /\ IcKept /\ IcCleared
  BY DEF IcInv
<1>2. /\ icFrames' \in Seq(IcFrames) /\ Len(icFrames) = 1 /\ Len(icFrames') = 1
      /\ IcThread.todo = <<>> /\ IcThread'.todo = <<>> /\ IcThread'.irq = 0
      /\ Current'.saved = Current.saved /\ Current.saved = <<>>
  BY AtOnce DEF IcGlobal
<1>3. IcTyped'
  <2>1. icMstatus' \in BOOLEAN
    BY DEF IcGlobal
  <2>. QED  BY <1>1, <1>2, <2>1 DEF IcTyped, IcFrames, IcGlobal
<1>4. IcNested'
  BY <1>2 DEF IcNested
<1>5. IcPlanned' /\ IcKept'
  BY <1>1, <1>2, LinesAlone DEF IcGlobal
<1>6. IcCleared'
  BY <1>1, <1>2, SoftAlone DEF IcGlobal, is_pending
<1>. QED
  BY <1>3, <1>4, <1>5, <1>6 DEF IcInv

\* Sections: a second one saves FALSE, so the outermost alone may set MIE.
LEMMA EnterInv ==
    ASSUME IcInv, FreeEnter
    PROVE  IcInv'
<1>. DEFINE saved == Current.saved
            new == <<icMstatus>> \o saved
<1>1. IcTyped /\ IcNested /\ IcPlanned /\ IcKept /\ IcCleared
  BY DEF IcInv
<1>2. /\ icFrames \in Seq(IcFrames) /\ Len(icFrames) \in {1, 2} /\ saved \in Seq(BOOLEAN)
      /\ icMstatus \in BOOLEAN
  BY <1>1, FramesAre DEF IcTyped
<1>. HIDE DEF saved
<1>3. /\ new \in Seq(BOOLEAN) /\ Len(new) = Len(saved) + 1 /\ new[1] = icMstatus
      /\ \A i \in 1..Len(saved) : new[i + 1] = saved[i]
  <2>1. saved \in Seq(BOOLEAN) /\ icMstatus \in BOOLEAN
    BY <1>2
  <2>. QED  BY <2>1, OneBefore
<1>4. icFrames' = [icFrames EXCEPT ![1].saved = new]
  BY DEF FreeEnter, saved, Current
<1>. HIDE DEF new
<1>5. /\ icFrames' \in Seq(IcFrames) /\ Len(icFrames') = Len(icFrames)
      /\ Current'.saved = new /\ Current'.irq = Current.irq
      /\ Current'.todo = Current.todo
      /\ IcThread'.todo = IcThread.todo /\ IcThread'.irq = IcThread.irq
      /\ Len(icFrames) = 2 => IcThread' = IcThread
  BY <1>1, <1>3, <1>4, SavedChanges
<1>6. IcTyped'
  <2>1. icMstatus' \in BOOLEAN
    BY DEF FreeEnter
  <2>. QED  BY <1>1, <1>5, <2>1 DEF IcTyped, IcFrames, FreeEnter
<1>7. Len(saved) \in Nat
  BY <1>2
<1>8. icMstatus => saved = <<>>
  BY <1>1 DEF IcNested, saved
<1>9. \A i \in 1..(Len(new) - 1) : ~ new[i]
  <2>1. ASSUME NEW i \in 1..(Len(new) - 1)
        PROVE  ~ new[i]
    <3>1. i \in 1..Len(saved) /\ Len(saved) # 0
      BY <1>3, <1>7
    <3>2. ~ icMstatus
      BY <1>8, <3>1
    <3>3. CASE i = 1
      BY <1>3, <3>2, <3>3
    <3>4. CASE i # 1
      <4>1. i - 1 \in 1..Len(saved) /\ i - 1 \in 1..(Len(saved) - 1) /\ (i - 1) + 1 = i
        BY <1>7, <3>1, <3>4
      <4>2. ~ saved[i - 1]
        BY <1>1, <4>1 DEF IcNested, saved
      <4>. QED  BY <1>3, <4>1, <4>2
    <3>. QED  BY <3>3, <3>4
  <2>. QED  BY <2>1
<1>10. Len(icFrames) = 2 => \A i \in 1..Len(new) : ~ new[i]
  <2>1. ASSUME Len(icFrames) = 2, NEW i \in 1..Len(new)
        PROVE  ~ new[i]
    <3>1. ~ icMstatus /\ \A j \in 1..Len(saved) : ~ saved[j]
      BY <1>1, <2>1 DEF IcNested, saved
    <3>2. CASE i = 1
      BY <1>3, <3>1, <3>2
    <3>3. CASE i # 1
      <4>1. i - 1 \in 1..Len(saved) /\ (i - 1) + 1 = i
        BY <1>3, <1>7, <2>1, <3>3
      <4>. QED  BY <1>3, <3>1, <4>1
    <3>. QED  BY <3>2, <3>3
  <2>. QED  BY <2>1
<1>11. IcNested'
  <2>1. ~ icMstatus'
    BY DEF FreeEnter
  <2>2. Len(icFrames) = 2 => /\ Current'.irq # 0 /\ IcThread'.saved = <<>>
                             /\ \A i \in 1..Len(Current'.todo) :
                                  Current'.todo[i].op \in {"siClr", "clear"}
                             /\ \A i \in 1..Len(Current'.saved) : ~ Current'.saved[i]
    BY <1>1, <1>5, <1>10 DEF IcNested
  <2>3. IcThread'.irq = 0 /\ Len(icFrames') \in {1, 2}
    BY <1>1, <1>2, <1>5 DEF IcNested
  <2>4. \A i \in 1..(Len(Current'.saved) - 1) : ~ Current'.saved[i]
    BY <1>5, <1>9
  <2>. QED  BY <1>5, <2>1, <2>2, <2>3, <2>4 DEF IcNested
<1>12. IcPlanned' /\ IcKept'
  BY <1>1, <1>5, LinesAlone DEF FreeEnter
<1>13. IcCleared'
  BY <1>1, <1>5, SoftAlone DEF FreeEnter, is_pending
<1>. QED
  BY <1>6, <1>11, <1>12, <1>13 DEF IcInv

LEMMA LeaveInv ==
    ASSUME IcInv, FreeLeave
    PROVE  IcInv'
<1>. DEFINE saved == Current.saved
            new == Tail(saved)
<1>1. IcTyped /\ IcNested /\ IcPlanned /\ IcKept /\ IcCleared
  BY DEF IcInv
<1>2. /\ icFrames \in Seq(IcFrames) /\ Len(icFrames) \in {1, 2} /\ saved \in Seq(BOOLEAN)
      /\ icMstatus \in BOOLEAN
  BY <1>1, FramesAre DEF IcTyped
<1>3. saved # <<>>
  BY DEF FreeLeave
<1>4. icFrames' = [icFrames EXCEPT ![1].saved = new]
  BY DEF FreeLeave, Current
<1>5. icMstatus' = (icMstatus \/ saved[1])
  BY DEF FreeLeave
<1>6. /\ \A i \in 1..(Len(saved) - 1) : ~ saved[i]
      /\ icMstatus => saved = <<>>
      /\ Len(icFrames) = 2 => ~ icMstatus /\ \A i \in 1..Len(saved) : ~ saved[i]
  <2>1. Len(icFrames) = 2 => Len(icFrames) # 1
    OBVIOUS
  <2>. QED  BY <1>1, <2>1 DEF IcNested
<1>. HIDE DEF saved
<1>7. /\ new \in Seq(BOOLEAN) /\ Len(new) = Len(saved) - 1 /\ Len(saved) \in Nat
      /\ Len(saved) >= 1 /\ \A i \in 1..Len(new) : new[i] = saved[i + 1]
  BY <1>2, <1>3
<1>. HIDE DEF new
<1>8. /\ icFrames' \in Seq(IcFrames) /\ Len(icFrames') = Len(icFrames)
      /\ Current'.saved = new /\ Current'.irq = Current.irq
      /\ Current'.todo = Current.todo
      /\ IcThread'.todo = IcThread.todo /\ IcThread'.irq = IcThread.irq
      /\ Len(icFrames) = 2 => IcThread' = IcThread
  BY <1>1, <1>4, <1>7, SavedChanges
<1>9. IcTyped'
  <2>1. icMstatus' \in BOOLEAN
    <3>1. 1 \in 1..Len(saved)
      BY <1>7
    <3>2. saved[1] \in BOOLEAN
      BY <1>2, <3>1
    <3>. QED  BY <1>5, Zenon
  <2>. QED  BY <1>1, <1>8, <2>1 DEF IcTyped, IcFrames, FreeLeave
<1>10. \A i \in 1..(Len(new) - 1) : ~ new[i]
  <2>1. ASSUME NEW i \in 1..(Len(new) - 1)
        PROVE  ~ new[i]
    <3>1. i \in 1..Len(new) /\ i + 1 \in 1..(Len(saved) - 1)
      BY <1>7
    <3>. QED  BY <1>6, <1>7, <3>1
  <2>. QED  BY <2>1
<1>11. Len(icFrames) = 2 => ~ icMstatus' /\ \A i \in 1..Len(new) : ~ new[i]
  <2>1. ASSUME Len(icFrames) = 2
        PROVE  ~ icMstatus'
    <3>1. 1 \in 1..Len(saved)
      BY <1>7
    <3>. QED  BY <1>5, <1>6, <2>1, <3>1
  <2>2. ASSUME Len(icFrames) = 2, NEW i \in 1..Len(new)
        PROVE  ~ new[i]
    <3>1. i + 1 \in 1..Len(saved)
      BY <1>7
    <3>. QED  BY <1>6, <1>7, <2>2, <3>1
  <2>. QED  BY <2>1, <2>2
<1>12. icMstatus' => new = <<>>
  <2>1. ASSUME icMstatus'
        PROVE  new = <<>>
    <3>1. saved[1]
      BY <1>3, <1>5, <1>6, <2>1
    <3>2. ~ (1 \in 1..(Len(saved) - 1))
      BY <1>6, <3>1
    <3>3. Len(new) = 0
      BY <1>7, <3>2
    <3>. QED  BY <1>7, <3>3
  <2>. QED  BY <2>1
<1>13. IcNested'
  <2>1. Len(icFrames) = 2 => /\ Current'.irq # 0 /\ IcThread'.saved = <<>>
                             /\ \A i \in 1..Len(Current'.todo) :
                                  Current'.todo[i].op \in {"siClr", "clear"}
                             /\ \A i \in 1..Len(Current'.saved) : ~ Current'.saved[i]
    BY <1>1, <1>8, <1>11 DEF IcNested
  <2>2. IcThread'.irq = 0 /\ Len(icFrames') \in {1, 2}
    BY <1>1, <1>2, <1>8 DEF IcNested
  <2>3. /\ \A i \in 1..(Len(Current'.saved) - 1) : ~ Current'.saved[i]
        /\ icMstatus' => Current'.saved = <<>>
    BY <1>8, <1>10, <1>12
  <2>. QED  BY <1>8, <1>11, <2>1, <2>2, <2>3 DEF IcNested
<1>14. IcPlanned' /\ IcKept'
  BY <1>1, <1>8, LinesAlone DEF FreeLeave
<1>15. IcCleared'
  BY <1>1, <1>8, SoftAlone DEF FreeLeave, is_pending
<1>. QED
  BY <1>9, <1>13, <1>14, <1>15 DEF IcInv

LEMMA PendInv ==
    ASSUME IcInv, pend_interrupt
    PROVE  IcInv'
<1>1. IcTyped /\ IcNested /\ IcPlanned /\ IcKept /\ IcCleared
  BY DEF IcInv
<1>2. IcThread' = IcThread /\ Current' = Current /\ icFrames' = icFrames
  BY DEF pend_interrupt, IcThread, Current
<1>3. IcTyped'
  <2>1. icPending' \subseteq IcIrqs
    BY <1>1, IcAssumption DEF IcTyped, pend_interrupt
  <2>2. siSrc' \in BOOLEAN
    BY DEF pend_interrupt
  <2>. QED  BY <1>1, <1>2, <2>1, <2>2 DEF IcTyped, pend_interrupt
<1>4. IcNested'
  BY <1>1, <1>2 DEF IcNested, pend_interrupt
<1>5. IcPlanned' /\ IcKept'
  BY <1>1, <1>2, LinesAlone DEF pend_interrupt
<1>6. IcCleared'
  BY DEF IcCleared, pend_interrupt
<1>. QED
  BY <1>3, <1>4, <1>5, <1>6 DEF IcInv

LEMMA RaiseInv ==
    ASSUME IcInv, NEW n \in IcIrqs, IcRaise(n)
    PROVE  IcInv'
<1>1. IcTyped /\ IcNested /\ IcPlanned /\ IcKept /\ IcCleared
  BY DEF IcInv
<1>2. IcThread' = IcThread /\ Current' = Current /\ icFrames' = icFrames
  BY DEF IcRaise, IcThread, Current
<1>3. IcTyped'
  <2>1. icPending' \subseteq IcIrqs
    BY <1>1 DEF IcTyped, IcRaise
  <2>. QED  BY <1>1, <1>2, <2>1 DEF IcTyped, IcRaise
<1>4. IcNested'
  BY <1>1, <1>2 DEF IcNested, IcRaise
<1>5. IcPlanned' /\ IcKept'
  BY <1>1, <1>2, LinesAlone DEF IcRaise
<1>6. IcCleared'
  BY <1>1, <1>2, SoftAlone DEF IcRaise, is_pending
<1>. QED
  BY <1>3, <1>4, <1>5, <1>6 DEF IcInv

\* The line that is taken is one that may be taken, and the thread waits below it.
LEMMA TrapTakes ==
    ASSUME IcInv, Trap
    PROVE  /\ Len(icFrames) = 1 /\ Len(icFrames') = 2 /\ icFrames' \in Seq(IcFrames)
           /\ Current'.irq \in Deliverable /\ icFrames'[1] = Current'
           /\ Current'.saved = <<>> /\ IcThread' = IcThread
           /\ \A i \in 1..Len(Current'.todo) : Current'.todo[i].op \in {"siClr", "clear"}
           /\ icMstatus /\ ~ icMstatus'
<1>. DEFINE n == FirstOf(Deliverable)
            todo == IF n = SOFT_INT0 THEN clear_interrupt_ops ELSE <<Do("clear", n, 0)>>
            f == [irq |-> n, saved |-> <<>>, todo |-> todo]
<1>1. IcTyped /\ IcNested
  BY DEF IcInv
<1>2. n \in Deliverable /\ n \in IcIrqs /\ icMstatus
  BY <1>1, FirstOfIs DEF Trap, Deliverable
<1>3. /\ todo \in Seq(IcOps)
      /\ \A i \in 1..Len(todo) : todo[i].op \in {"siClr", "clear"}
  <2>. HIDE DEF n
  <2>1. CASE n = SOFT_INT0
    <3>1. /\ clear_interrupt_ops \in Seq(IcOps) /\ Len(clear_interrupt_ops) = 2
          /\ clear_interrupt_ops[1].op = "siClr" /\ clear_interrupt_ops[2].op = "clear"
      <4>1. 0 \in 0..7
        OBVIOUS
      <4>. QED  BY <1>2, <4>1, Pieces, DoIs
    <3>2. \A i \in 1..2 : i = 1 \/ i = 2
      OBVIOUS
    <3>. QED  BY <2>1, <3>1, <3>2
  <2>2. CASE n # SOFT_INT0
    <3>. DEFINE d == Do("clear", n, 0)
    <3>1. d \in IcOps /\ d.op = "clear"
      BY <1>2 DEF Do, IcOps
    <3>2. todo = <<d>>
      BY <2>2
    <3>. HIDE DEF d
    <3>3. <<d>> \in Seq(IcOps) /\ Len(<<d>>) = 1 /\ <<d>>[1] = d /\ \A i \in 1..1 : i = 1
      BY <3>1
    <3>. QED  BY <3>1, <3>2, <3>3
  <2>. QED  BY <2>1, <2>2
<1>4. f \in IcFrames /\ f.irq = n /\ f.saved = <<>> /\ f.todo = todo
  <2>. HIDE DEF n, todo
  <2>1. <<>> \in Seq(BOOLEAN)
    OBVIOUS
  <2>. QED  BY <1>2, <1>3, <2>1 DEF IcFrames
<1>5. icFrames' = <<f>> \o icFrames /\ ~ icMstatus'
  BY DEF Trap
<1>. HIDE DEF f, todo, n
<1>6. Len(icFrames) = 1 /\ icFrames \in Seq(IcFrames)
  BY <1>1, <1>2, FramesAre DEF IcNested
<1>7. /\ <<f>> \o icFrames \in Seq(IcFrames)
      /\ Len(<<f>> \o icFrames) = Len(icFrames) + 1 /\ (<<f>> \o icFrames)[1] = f
      /\ \A i \in 1..Len(icFrames) : (<<f>> \o icFrames)[i + 1] = icFrames[i]
  <2>1. f \in IcFrames /\ icFrames \in Seq(IcFrames)
    BY <1>4, <1>6
  <2>. QED  BY <2>1, OneBefore
<1>8. 1 \in 1..1 /\ 1 + 1 = 2
  OBVIOUS
<1>9. Len(icFrames') = 2 /\ icFrames'[1] = f /\ icFrames'[2] = icFrames[1]
  BY <1>5, <1>6, <1>7, <1>8
<1>. QED
  BY <1>2, <1>3, <1>4, <1>5, <1>6, <1>7, <1>9 DEF IcThread, Current

\* A handler begins.
LEMMA TrapInv ==
    ASSUME IcInv, Trap
    PROVE  IcInv'
<1>1. IcTyped /\ IcNested /\ IcPlanned /\ IcKept /\ IcCleared
  BY DEF IcInv
<1>2. /\ Len(icFrames) = 1 /\ Len(icFrames') = 2 /\ icFrames' \in Seq(IcFrames)
      /\ Current'.irq \in Deliverable
      /\ Current'.saved = <<>> /\ IcThread' = IcThread
      /\ \A i \in 1..Len(Current'.todo) : Current'.todo[i].op \in {"siClr", "clear"}
      /\ icMstatus /\ ~ icMstatus'
  BY TrapTakes
<1>3. IcTyped'
  <2>1. icMstatus' \in BOOLEAN
    BY DEF Trap
  <2>. QED  BY <1>1, <1>2, <2>1 DEF IcTyped, IcFrames, Trap
<1>4. IcNested'
  <2>1. Current'.irq # 0
    BY <1>2, IcAssumption DEF Deliverable
  <2>2. IcThread = Current
    BY <1>1, <1>2, FramesAre
  <2>3. IcThread'.saved = <<>> /\ IcThread'.irq = 0
    BY <1>1, <1>2, <2>2 DEF IcNested
  <2>4. Len(<<>>) = 0 /\ \A i : i \notin 1..0 /\ i \notin 1..(0 - 1)
    OBVIOUS
  <2>5. /\ \A i \in 1..Len(Current'.saved) : ~ Current'.saved[i]
        /\ \A i \in 1..(Len(Current'.saved) - 1) : ~ Current'.saved[i]
    BY <1>2, <2>4
  <2>. QED  BY <1>2, <2>1, <2>3, <2>5 DEF IcNested
<1>5. IcPlanned' /\ IcKept'
  BY <1>1, <1>2, LinesAlone DEF Trap
<1>6. IcCleared'
  BY <1>1, <1>2, SoftAlone DEF Trap, is_pending
<1>. QED
  BY <1>3, <1>4, <1>5, <1>6 DEF IcInv

\* A handler returns to a thread in no section.
LEMMA MretInv ==
    ASSUME IcInv, Mret
    PROVE  IcInv' /\ Len(icFrames') < Len(icFrames)
<1>1. IcTyped /\ IcNested /\ IcPlanned /\ IcKept /\ IcCleared
  BY DEF IcInv
<1>2. /\ icFrames \in Seq(IcFrames) /\ Len(icFrames) \in {1, 2}
      /\ Len(icFrames) = 1 => IcThread = Current
  BY <1>1, FramesAre
<1>3. Len(icFrames) = 2
  <2>1. IcThread.irq = 0 /\ Current.irq # 0
    BY <1>1 DEF IcNested, Mret, InThread
  <2>. QED  BY <1>2, <2>1
<1>4. icFrames' = Tail(icFrames) /\ icMstatus'
  BY DEF Mret
<1>5. icFrames' \in Seq(IcFrames) /\ Len(icFrames') = 1 /\ icFrames'[1] = icFrames[2]
  BY <1>2, <1>3, <1>4
<1>6. IcThread' = IcThread /\ Current' = IcThread
  BY <1>3, <1>5 DEF IcThread, Current
<1>7. IcTyped'
  <2>1. icMstatus' \in BOOLEAN
    BY DEF Mret
  <2>. QED  BY <1>1, <1>5, <2>1 DEF IcTyped, IcFrames, Mret
<1>8. IcNested'
  <2>1. IcThread.saved = <<>> /\ IcThread.irq = 0
    BY <1>1, <1>3 DEF IcNested
  <2>2. Len(<<>>) = 0 /\ \A i : i \notin 1..(0 - 1)
    OBVIOUS
  <2>. QED  BY <1>5, <1>6, <2>1, <2>2 DEF IcNested
<1>9. IcPlanned' /\ IcKept'
  BY <1>1, <1>6, LinesAlone DEF Mret
<1>10. IcCleared'
  BY <1>1, <1>6, SoftAlone DEF Mret, is_pending
<1>. QED
  BY <1>3, <1>5, <1>7, <1>8, <1>9, <1>10 DEF IcInv

\* What an access does to the lines: it touches its own alone.
LEMMA AccessTouches ==
    ASSUME IcTyped, IcAccess, NEW do \in IcOps, do = Current.todo[1]
    PROVE  /\ \A m \in IcIrqs \ {do.irq} : (is_enabled(m)' <=> is_enabled(m))
                                           /\ LocipriOf(m)' = LocipriOf(m)
           /\ is_enabled(do.irq)' <=>
                (is_enabled(do.irq) /\ do.op # "off") \/ do.op = "on"
           /\ LocipriOf(do.irq)' = NewField(do)
           /\ NewField(do) \in 0..7
           /\ icLocipri' = [icLocipri EXCEPT ![LocipriField(do.irq)[1]]
                                              [LocipriField(do.irq)[2]] = NewField(do)]
<1>. DEFINE n == do.irq
            reg == LocipriField(n)[1]
            shift == LocipriField(n)[2]
            v == NewField(do)
<1>1. n \in IcIrqs /\ do.val \in 0..7
  BY DEF IcOps
<1>2. do.op \in {"on", "off", "priClear", "priSet", "siEn", "siClr", "clear"}
  BY DEF IcOps
<1>3. icLocipri \in [LocipriRegs -> [LocipriShifts -> 0..7]]
  BY DEF IcTyped
<1>4. icLocipri' = [icLocipri EXCEPT ![reg][shift] = v]
  BY DEF IcAccess
<1>5. v \in 0..7
  <2>1. LocipriOf(n) \in 0..7
    BY <1>1, FieldHolds
  <2>. QED  BY <1>1, <1>2, <2>1 DEF NewField
<1>6. reg \in LocipriRegs /\ shift \in LocipriShifts
  BY <1>1, FieldsApart
<1>7. /\ icMie' = IF IsLocal(n) THEN icMie
                  ELSE CASE do.op = "on" -> icMie \cup {n}
                         [] do.op = "off" -> icMie \ {n}
                         [] OTHER -> icMie
      /\ icLocien' = IF ~ IsLocal(n) THEN icLocien
                     ELSE CASE do.op = "on" -> icLocien \cup {LocienBit(n)}
                            [] do.op = "off" -> icLocien \ {LocienBit(n)}
                            [] OTHER -> icLocien
  BY DEF IcAccess
<1>. HIDE DEF v
<1>8. LocipriOf(n)' = v
  <2>1. LocipriOf(n)' = icLocipri'[reg][shift]
    BY DEF LocipriOf
  <2>. HIDE DEF reg, shift
  <2>. QED  BY <1>3, <1>4, <1>6, <2>1
<1>9. ASSUME NEW m \in IcIrqs \ {n}
      PROVE  LocipriOf(m)' = LocipriOf(m)
  <2>1. LocipriField(m) # LocipriField(n)
    BY <1>1, FieldsApart
  <2>2. LocipriField(m)[1] # reg \/ LocipriField(m)[2] # shift
    BY <2>1 DEF LocipriField
  <2>3. LocipriField(m)[1] \in LocipriRegs /\ LocipriField(m)[2] \in LocipriShifts
    BY FieldsApart
  <2>. HIDE DEF reg, shift
  <2>. QED  BY <1>3, <1>4, <1>6, <2>2, <2>3 DEF LocipriOf
<1>10. ASSUME NEW m \in IcIrqs \ {n}
       PROVE  is_enabled(m)' <=> is_enabled(m)
  <2>1. IsLocal(m) /\ IsLocal(n) => LocienBit(m) # LocienBit(n)
    BY <1>1, FieldsApart
  <2>2. CASE IsLocal(m)
    <3>1. LocienBit(m) \in icLocien' <=> LocienBit(m) \in icLocien
      BY <1>7, <2>1, <2>2
    <3>. QED  BY <2>2, <3>1 DEF is_enabled
  <2>3. CASE ~ IsLocal(m)
    <3>1. m \in icMie' <=> m \in icMie
      BY <1>7
    <3>. QED  BY <2>3, <3>1 DEF is_enabled
  <2>. QED  BY <2>2, <2>3
<1>11. is_enabled(n)' <=> (is_enabled(n) /\ do.op # "off") \/ do.op = "on"
  <2>. HIDE DEF n
  <2>1. CASE IsLocal(n)
    <3>1. LocienBit(n) \in icLocien' <=>
            (LocienBit(n) \in icLocien /\ do.op # "off") \/ do.op = "on"
      BY <1>2, <1>7, <2>1
    <3>. QED  BY <2>1, <3>1 DEF is_enabled
  <2>2. CASE ~ IsLocal(n)
    <3>1. n \in icMie' <=> (n \in icMie /\ do.op # "off") \/ do.op = "on"
      BY <1>2, <1>7, <2>2
    <3>. QED  BY <2>2, <3>1 DEF is_enabled
  <2>. QED  BY <2>1, <2>2
<1>12. /\ \A m \in IcIrqs \ {n} : (is_enabled(m)' <=> is_enabled(m))
                                 /\ LocipriOf(m)' = LocipriOf(m)
       /\ is_enabled(n)' <=> (is_enabled(n) /\ do.op # "off") \/ do.op = "on"
       /\ LocipriOf(n)' = v /\ v \in 0..7
       /\ icLocipri' = [icLocipri EXCEPT ![reg][shift] = v]
  BY <1>4, <1>5, <1>8, <1>9, <1>10, <1>11
<1>. QED
  BY <1>12 DEF v

\* The type is kept, and the access is the next of the frame that runs.
LEMMA AccessTyped ==
    ASSUME IcTyped, IcNested, IcAccess
    PROVE  /\ IcTyped' /\ IcNested' /\ Len(icFrames') = Len(icFrames)
           /\ Current.todo[1] \in IcOps /\ Len(Current.todo) \in Nat /\ Len(Current.todo) >= 1
           /\ Current'.todo = Tail(Current.todo)
           /\ Len(Current'.todo) = Len(Current.todo) - 1
           /\ \A i \in 1..(Len(Current.todo) - 1) : Current'.todo[i] = Current.todo[i + 1]
           /\ Len(icFrames) = 1 => IcThread' = Current' /\ IcThread = Current
           /\ Len(icFrames) = 2 => IcThread' = IcThread
<1>. DEFINE todo == Current.todo
            rest == Tail(todo)
<1>1. /\ Current.todo \in Seq(IcOps) /\ Len(icFrames) \in {1, 2}
  BY FramesAre
<1>2. todo # <<>> /\ icFrames' = [icFrames EXCEPT ![1].todo = rest]
  BY DEF IcAccess, Current
<1>3. todo \in Seq(IcOps)
  BY <1>1
<1>. HIDE DEF todo
<1>4. /\ todo[1] \in IcOps /\ Len(todo) \in Nat /\ Len(todo) >= 1
      /\ rest \in Seq(IcOps) /\ Len(rest) = Len(todo) - 1
      /\ \A i \in 1..(Len(todo) - 1) : rest[i] = todo[i + 1]
  BY <1>2, <1>3
<1>. HIDE DEF rest
<1>5. /\ icFrames' \in Seq(IcFrames) /\ Len(icFrames') = Len(icFrames)
      /\ Current'.todo = rest /\ Current'.irq = Current.irq
      /\ Current'.saved = Current.saved
      /\ Len(icFrames) = 1 => IcThread' = Current' /\ IcThread = Current
      /\ Len(icFrames) = 2 => IcThread' = IcThread
  BY <1>2, <1>4, TodoChanges
<1>6. /\ todo[1].irq \in IcIrqs
      /\ todo[1].op \in {"on", "off", "priClear", "priSet", "siEn", "siClr", "clear"}
  BY <1>4 DEF IcOps
<1>7. IcTyped'
  <2>. DEFINE do == Current.todo[1]
              n == do.irq
  <2>1. icMie' \subseteq Int
    <3>0. n \in IcIrqs /\ icMie \subseteq Int
      BY <1>6 DEF IcTyped, todo
    <3>1. n \in Int
      <4>1. IcIrqs \subseteq Int
        <5>1. 26..127 \subseteq Int
          OBVIOUS
        <5>. QED  BY <5>1, IcAssumption
      <4>. HIDE DEF n
      <4>. QED  BY <3>0, <4>1
    <3>2. icMie' \subseteq icMie \cup {n}
      BY DEF IcAccess
    <3>. HIDE DEF n
    <3>. QED  BY <3>0, <3>1, <3>2
  <2>2. icLocien' \subseteq Int \X Int
    <3>1. icLocien \subseteq Int \X Int /\ LocienBit(n) \in Int \X Int
      BY <1>6, FieldsApart DEF IcTyped, todo
    <3>2. icLocien' \subseteq icLocien \cup {LocienBit(n)}
      BY DEF IcAccess
    <3>. HIDE DEF n
    <3>. QED  BY <3>1, <3>2
  <2>3. icPending' \subseteq IcIrqs
    BY IcAssumption DEF IcTyped, IcAccess
  <2>4. icLocipri' \in [LocipriRegs -> [LocipriShifts -> 0..7]]
    <3>0. do \in IcOps /\ do = Current.todo[1]
      BY <1>4 DEF todo
    <3>1. /\ NewField(do) \in 0..7
          /\ icLocipri' = [icLocipri EXCEPT ![LocipriField(n)[1]][LocipriField(n)[2]]
                                            = NewField(do)]
      BY <3>0, AccessTouches
    <3>. HIDE DEF do
    <3>2. LocipriField(n)[1] \in LocipriRegs /\ LocipriField(n)[2] \in LocipriShifts
      BY <1>6, FieldsApart DEF todo, do
    <3>3. icLocipri \in [LocipriRegs -> [LocipriShifts -> 0..7]]
      BY DEF IcTyped
    <3>. HIDE DEF do, n
    <3>. QED  BY <3>1, <3>2, <3>3
  <2>5. siSrc' \in BOOLEAN
    BY DEF IcAccess
  <2>6. siEn' \in BOOLEAN
    <3>1. siEn \in BOOLEAN
      BY DEF IcTyped
    <3>2. siEn' = siEn \/ siEn' = TRUE \/ siEn' = FALSE
      BY DEF IcAccess
    <3>. QED  BY <3>1, <3>2
  <2>. QED  BY <1>5, <2>1, <2>2, <2>3, <2>4, <2>5, <2>6 DEF IcTyped, IcFrames, IcAccess
<1>8. IcNested'
  <2>1. Len(icFrames) = 2 => Len(icFrames) # 1
    OBVIOUS
  <2>2. IcThread'.irq = 0
    BY <1>1, <1>5 DEF IcNested
  <2>3. Len(icFrames) = 2 =>
           /\ ~ icMstatus' /\ Current'.irq # 0 /\ IcThread'.saved = <<>>
           /\ \A i \in 1..Len(Current'.saved) : ~ Current'.saved[i]
    BY <1>5, <2>1 DEF IcNested, IcAccess
  <2>4. Len(icFrames) = 2 =>
           \A i \in 1..Len(Current'.todo) : Current'.todo[i].op \in {"siClr", "clear"}
    <3>1. ASSUME Len(icFrames) = 2, NEW i \in 1..Len(rest)
          PROVE  rest[i].op \in {"siClr", "clear"}
      <4>1. i + 1 \in 1..Len(todo) /\ rest[i] = todo[i + 1]
        BY <1>4
      <4>. QED  BY <2>1, <3>1, <4>1 DEF IcNested, todo
    <3>. QED  BY <1>5, <3>1
  <2>5. /\ icMstatus' => Current'.saved = <<>>
        /\ \A i \in 1..(Len(Current'.saved) - 1) : ~ Current'.saved[i]
    BY <1>5 DEF IcNested, IcAccess
  <2>. QED  BY <1>1, <1>5, <2>2, <2>3, <2>4, <2>5 DEF IcNested
<1>. QED
  BY <1>4, <1>5, <1>7, <1>8 DEF todo, rest

\* What an access leaves due of the thread's call.
LEMMA DueAfter ==
    ASSUME IcTyped, IcNested, IcAccess, Len(icFrames) = 1, NEW kinds, NEW n,
           IcDue(kinds, n), ~ (Current.todo[1].op \in kinds /\ Current.todo[1].irq = n)
    PROVE  IcDue(kinds, n)'
<1>1. /\ IcThread' = Current' /\ IcThread = Current
      /\ Len(Current.todo) \in Nat /\ Len(Current'.todo) = Len(Current.todo) - 1
      /\ \A i \in 1..(Len(Current.todo) - 1) : Current'.todo[i] = Current.todo[i + 1]
  BY AccessTyped
<1>2. PICK i \in 1..Len(Current.todo) : Current.todo[i].op \in kinds /\ Current.todo[i].irq = n
  BY <1>1 DEF IcDue
<1>3. i # 1
  BY <1>2
<1>4. i - 1 \in 1..(Len(Current.todo) - 1) /\ (i - 1) + 1 = i
  BY <1>1, <1>3
<1>5. i - 1 \in 1..Len(IcThread'.todo) /\ IcThread'.todo[i - 1] = Current.todo[i]
  BY <1>1, <1>4
<1>. QED
  BY <1>2, <1>5 DEF IcDue

\* An access of the thread does what its call is for; one of a handler clears interrupts.
LEMMA AccessInv ==
    ASSUME IcInv, IcAccess
    PROVE  IcInv' /\ Len(icFrames') = Len(icFrames)
<1>1. IcTyped /\ IcNested /\ IcPlanned /\ IcKept /\ IcCleared
  BY DEF IcInv
<1>2. /\ IcTyped' /\ IcNested' /\ Len(icFrames') = Len(icFrames)
      /\ Current.todo[1] \in IcOps /\ Len(Current.todo) \in Nat /\ Len(Current.todo) >= 1
      /\ Len(Current'.todo) = Len(Current.todo) - 1
      /\ \A i \in 1..(Len(Current.todo) - 1) : Current'.todo[i] = Current.todo[i + 1]
      /\ Len(icFrames) = 1 => IcThread' = Current' /\ IcThread = Current
      /\ Len(icFrames) = 2 => IcThread' = IcThread
  BY <1>1, AccessTyped
<1>3. PICK do \in IcOps : do = Current.todo[1]
  BY <1>2
<1>4. /\ \A m \in IcIrqs \ {do.irq} : (is_enabled(m)' <=> is_enabled(m))
                                      /\ LocipriOf(m)' = LocipriOf(m)
      /\ is_enabled(do.irq)' <=> (is_enabled(do.irq) /\ do.op # "off") \/ do.op = "on"
      /\ LocipriOf(do.irq)' = NewField(do)
      /\ NewField(do) \in 0..7
      /\ icLocipri' = [icLocipri EXCEPT ![LocipriField(do.irq)[1]]
                                         [LocipriField(do.irq)[2]] = NewField(do)]
  <2>1. IcTyped /\ do \in IcOps /\ do = Current.todo[1]
    BY <1>1, <1>3
  <2>. QED  BY <2>1, AccessTouches
<1>5. /\ do.irq \in IcIrqs /\ do.val \in 0..7
      /\ do.op \in {"on", "off", "priClear", "priSet", "siEn", "siClr", "clear"}
  BY DEF IcOps
<1>6. /\ siSrc' => siSrc /\ do.op # "siClr"
      /\ is_pending(SOFT_INT0)' =>
           siSrc' \/ (is_pending(SOFT_INT0) /\ ~ (do.op = "clear" /\ do.irq = SOFT_INT0))
  BY <1>3 DEF IcAccess, is_pending
<1>7. UNCHANGED <<icPrithd, icMstatus, icLeft, siOwned, icAsked>>
  BY DEF IcAccess
<1>8. Len(icFrames) \in {1, 2}
  BY <1>1, FramesAre
<1>9. CASE Len(icFrames) = 2
  <2>1. do.op \in {"siClr", "clear"}
    <3>1. Len(icFrames) # 1 /\ 1 \in 1..Len(Current.todo)
      BY <1>2, <1>9
    <3>. QED  BY <1>1, <1>3, <3>1 DEF IcNested
  <2>2. icMie' = icMie /\ icLocien' = icLocien
    BY <1>3, <2>1 DEF IcAccess
  <2>3. icLocipri' = icLocipri
    <3>1. NewField(do) = icLocipri[LocipriField(do.irq)[1]][LocipriField(do.irq)[2]]
      BY <2>1 DEF NewField, LocipriOf
    <3>2. icLocipri \in [LocipriRegs -> [LocipriShifts -> 0..7]]
      BY <1>1 DEF IcTyped
    <3>3. LocipriField(do.irq)[1] \in LocipriRegs /\ LocipriField(do.irq)[2] \in LocipriShifts
      BY <1>5, FieldsApart
    <3>. QED  BY <1>4, <3>1, <3>2, <3>3
  <2>4. IcPlanned' /\ IcKept'
    BY <1>1, <1>2, <1>7, <1>9, <2>2, <2>3, LinesAlone
  <2>5. IcCleared'
    BY <1>1, <1>2, <1>6, <1>7, <1>9, SoftAlone
  <2>. QED  BY <1>2, <2>4, <2>5 DEF IcInv
<1>10. CASE Len(icFrames) = 1
  <2>0. /\ IcThread' = Current' /\ IcThread = Current
        /\ \A i \in 1..Len(IcThread'.todo) :
             /\ i + 1 \in 1..Len(IcThread.todo) /\ IcThread'.todo[i] = IcThread.todo[i + 1]
        /\ Len(IcThread'.todo) = Len(IcThread.todo) - 1 /\ Len(IcThread.todo) \in Nat
        /\ IcThread.todo[1] = do /\ 1 \in 1..Len(IcThread.todo)
    BY <1>2, <1>3, <1>10
  <2>1. /\ do.op = "on" => icAsked[do.irq].on
        /\ do.op = "off" => ~ icAsked[do.irq].on
        /\ do.op = "priClear" => /\ 1 < Len(IcThread.todo) /\ IcThread.todo[2].op = "priSet"
                                 /\ IcThread.todo[2].irq = do.irq
        /\ do.op = "priSet" => do.val = icAsked[do.irq].pri /\ LocipriOf(do.irq) = 0
    <3>1. 1 + 1 = 2
      OBVIOUS
    <3>. QED  BY <1>1, <2>0, <3>1 DEF IcPlanned
  <2>2. IcPlanned'
    <3>1. ASSUME NEW i \in 1..Len(IcThread'.todo)
          PROVE  LET now == IcThread'.todo
                     n == now[i].irq
                 IN  /\ now[i].op = "on" => icAsked[n].on
                     /\ now[i].op = "off" => ~ icAsked[n].on
                     /\ now[i].op = "priClear" =>
                          i < Len(now) /\ now[i + 1].op = "priSet" /\ now[i + 1].irq = n
                     /\ now[i].op = "priSet" =>
                          /\ now[i].val = icAsked[n].pri
                          /\ IF i = 1 THEN do.op = "priClear" /\ do.irq = n
                             ELSE now[i - 1].op = "priClear" /\ now[i - 1].irq = n
      <4>. DEFINE old == IcThread.todo
                  now == IcThread'.todo
                  n == old[i + 1].irq
      <4>1. i + 1 \in 1..Len(old) /\ now[i] = old[i + 1] /\ i + 1 # 1 /\ (i + 1) - 1 = i
        BY <2>0
      <4>2. /\ old[i + 1].op = "on" => icAsked[n].on
            /\ old[i + 1].op = "off" => ~ icAsked[n].on
            /\ old[i + 1].op = "priClear" =>
                 i + 1 < Len(old) /\ old[(i + 1) + 1].op = "priSet" /\ old[(i + 1) + 1].irq = n
            /\ old[i + 1].op = "priSet" =>
                 /\ old[i + 1].val = icAsked[n].pri
                 /\ old[i].op = "priClear" /\ old[i].irq = n
        <5>1. PICK j \in 1..Len(old) : j = i + 1
          BY <4>1
        <5>2. LET m == old[j].irq
              IN  /\ old[j].op = "on" => icAsked[m].on
                  /\ old[j].op = "off" => ~ icAsked[m].on
                  /\ old[j].op = "priClear" =>
                       j < Len(old) /\ old[j + 1].op = "priSet" /\ old[j + 1].irq = m
                  /\ old[j].op = "priSet" =>
                       /\ old[j].val = icAsked[m].pri
                       /\ IF j = 1 THEN LocipriOf(m) = 0
                          ELSE old[j - 1].op = "priClear" /\ old[j - 1].irq = m
          BY <1>1, Zenon DEF IcPlanned
        <5>. HIDE DEF old
        <5>. QED  BY <4>1, <5>1, <5>2
      <4>3. i + 1 < Len(old) => i < Len(now) /\ now[i + 1] = old[(i + 1) + 1]
        BY <2>0
      <4>4. i # 1 => now[i - 1] = old[i]
        <5>0. i \in 1..Len(now) /\ Len(now) \in Nat
          BY <2>0, LenProperties
        <5>. HIDE DEF now
        <5>1. i # 1 => i - 1 \in 1..Len(now) /\ (i - 1) + 1 = i
          BY <5>0
        <5>. USE DEF now
        <5>. QED  BY <2>0, <5>1
      <4>5. i = 1 => old[i] = do
        BY <2>0
      <4>. HIDE DEF old, now
      <4>6. CASE i = 1
        BY <4>1, <4>2, <4>3, <4>5, <4>6 DEF now
      <4>7. CASE i # 1
        BY <4>1, <4>2, <4>3, <4>4, <4>7 DEF now
      <4>. QED  BY <4>6, <4>7
    <3>2. do.op = "priClear" => LocipriOf(do.irq)' = 0
      BY <1>4 DEF NewField
    <3>. QED  BY <1>7, <3>1, <3>2 DEF IcPlanned
  <2>3. IcKept'
    <3>1. ASSUME NEW m \in IcIrqs
          PROVE  /\ IcDue({"on", "off"}, m)' \/ (is_enabled(m)' <=> icAsked[m].on)
                 /\ IcDue({"priSet"}, m)' \/ LocipriOf(m)' = icAsked[m].pri
                 /\ LocipriOf(m)' \in {0, icAsked[m].pri, icAsked[m].was}
      <4>1. /\ IcDue({"on", "off"}, m) \/ (is_enabled(m) <=> icAsked[m].on)
            /\ IcDue({"priSet"}, m) \/ LocipriOf(m) = icAsked[m].pri
            /\ LocipriOf(m) \in {0, icAsked[m].pri, icAsked[m].was}
        BY <1>1 DEF IcKept
      <4>2. /\ IcDue({"on", "off"}, m) /\ ~ (do.op \in {"on", "off"} /\ do.irq = m)
                 => IcDue({"on", "off"}, m)'
            /\ IcDue({"priSet"}, m) /\ ~ (do.op = "priSet" /\ do.irq = m)
                 => IcDue({"priSet"}, m)'
        <5>1. do.op = "priSet" <=> do.op \in {"priSet"}
          OBVIOUS
        <5>. QED  BY <1>1, <1>3, <1>10, <5>1, DueAfter
      <4>3. CASE m # do.irq
        <5>1. (is_enabled(m)' <=> is_enabled(m)) /\ LocipriOf(m)' = LocipriOf(m)
          BY <1>4, <4>3
        <5>. QED  BY <4>1, <4>2, <4>3, <5>1
      <4>4. CASE m = do.irq
        <5>1. /\ is_enabled(m)' <=> (is_enabled(m) /\ do.op # "off") \/ do.op = "on"
              /\ LocipriOf(m)' = NewField(do)
          BY <1>4, <4>4
        <5>2. IcDue({"on", "off"}, m)' \/ (is_enabled(m)' <=> icAsked[m].on)
          <6>1. CASE do.op = "on"
            BY <2>1, <4>4, <5>1, <6>1
          <6>2. CASE do.op = "off"
            BY <2>1, <4>4, <5>1, <6>2
          <6>3. CASE do.op # "on" /\ do.op # "off"
            BY <4>1, <4>2, <5>1, <6>3
          <6>. QED  BY <6>1, <6>2, <6>3
        <5>3. /\ IcDue({"priSet"}, m)' \/ LocipriOf(m)' = icAsked[m].pri
              /\ LocipriOf(m)' \in {0, icAsked[m].pri, icAsked[m].was}
          <6>1. CASE do.op = "priSet"
            <7>1. NewField(do) = do.val
              BY <1>5, <2>1, <6>1 DEF NewField
            <7>. QED  BY <2>1, <4>4, <5>1, <6>1, <7>1
          <6>2. CASE do.op = "priClear"
            <7>1. LocipriOf(m)' = 0
              BY <5>1, <6>2 DEF NewField
            <7>2. 1 \in 1..Len(IcThread'.todo) /\ IcThread'.todo[1] = IcThread.todo[2]
              <8>1. 1 \in 1..Len(IcThread'.todo) /\ 1 + 1 = 2
                BY <2>0, <2>1, <6>2
              <8>. QED  BY <2>0, <8>1
            <7>3. IcDue({"priSet"}, m)'
              BY <2>1, <4>4, <6>2, <7>2 DEF IcDue
            <7>. QED  BY <7>1, <7>3
          <6>3. CASE do.op # "priSet" /\ do.op # "priClear"
            <7>1. NewField(do) = LocipriOf(m)
              BY <1>5, <4>4, <6>3 DEF NewField
            <7>. QED  BY <4>1, <4>2, <5>1, <6>3, <7>1
          <6>. QED  BY <6>1, <6>2, <6>3
        <5>. QED  BY <5>2, <5>3
      <4>. QED  BY <4>3, <4>4
    <3>. QED  BY <1>7, <3>1 DEF IcKept
  <2>4. IcCleared'
    <3>1. ASSUME ~ siOwned
          PROVE  /\ siSrc' => IcDue({"siClr"}, SOFT_INT0)'
                 /\ is_pending(SOFT_INT0)' => IcDue({"clear"}, SOFT_INT0)'
                 /\ \A i \in 1..Len(IcThread'.todo) :
                      IcThread'.todo[i].op = "siClr" =>
                        /\ IcThread'.todo[i].irq = SOFT_INT0
                        /\ \E j \in (i + 1)..Len(IcThread'.todo) :
                             IcThread'.todo[j].op = "clear" /\ IcThread'.todo[j].irq = SOFT_INT0
      <4>1. /\ siSrc => IcDue({"siClr"}, SOFT_INT0)
            /\ is_pending(SOFT_INT0) => IcDue({"clear"}, SOFT_INT0)
            /\ \A i \in 1..Len(IcThread.todo) :
                 IcThread.todo[i].op = "siClr" =>
                   /\ IcThread.todo[i].irq = SOFT_INT0
                   /\ \E j \in (i + 1)..Len(IcThread.todo) :
                        IcThread.todo[j].op = "clear" /\ IcThread.todo[j].irq = SOFT_INT0
        BY <1>1, <3>1 DEF IcCleared
      <4>2. siSrc' => IcDue({"siClr"}, SOFT_INT0)'
        <5>1. do.op # "siClr" => ~ (do.op \in {"siClr"} /\ do.irq = SOFT_INT0)
          OBVIOUS
        <5>. QED  BY <1>1, <1>3, <1>6, <1>10, <4>1, <5>1, DueAfter
      <4>3. ASSUME NEW i \in 1..Len(IcThread'.todo), IcThread'.todo[i].op = "siClr"
            PROVE  /\ IcThread'.todo[i].irq = SOFT_INT0
                   /\ \E j \in (i + 1)..Len(IcThread'.todo) :
                        IcThread'.todo[j].op = "clear" /\ IcThread'.todo[j].irq = SOFT_INT0
        <5>1. i + 1 \in 1..Len(IcThread.todo) /\ IcThread'.todo[i] = IcThread.todo[i + 1]
          BY <2>0
        <5>2. PICK j \in ((i + 1) + 1)..Len(IcThread.todo) :
                 IcThread.todo[j].op = "clear" /\ IcThread.todo[j].irq = SOFT_INT0
          BY <4>1, <4>3, <5>1
        <5>3. j - 1 \in (i + 1)..Len(IcThread'.todo) /\ j - 1 \in 1..Len(IcThread'.todo)
                /\ (j - 1) + 1 = j
          BY <2>0
        <5>4. IcThread'.todo[j - 1] = IcThread.todo[j]
          BY <2>0, <5>3
        <5>. QED  BY <4>1, <4>3, <5>1, <5>2, <5>3, <5>4
      <4>4. is_pending(SOFT_INT0)' => IcDue({"clear"}, SOFT_INT0)'
        <5>1. ASSUME is_pending(SOFT_INT0), ~ (do.op = "clear" /\ do.irq = SOFT_INT0)
              PROVE  IcDue({"clear"}, SOFT_INT0)'
          <6>1. ~ (do.op \in {"clear"} /\ do.irq = SOFT_INT0)
            BY <5>1
          <6>. QED  BY <1>1, <1>3, <1>10, <4>1, <5>1, <6>1, DueAfter
        <5>2. ASSUME siSrc'
              PROVE  IcDue({"clear"}, SOFT_INT0)'
          <6>1. PICK i \in 1..Len(IcThread'.todo) : IcThread'.todo[i].op = "siClr"
            BY <4>2, <5>2 DEF IcDue
          <6>2. PICK j \in (i + 1)..Len(IcThread'.todo) :
                   IcThread'.todo[j].op = "clear" /\ IcThread'.todo[j].irq = SOFT_INT0
            BY <4>3, <6>1
          <6>3. j \in 1..Len(IcThread'.todo)
            OBVIOUS
          <6>. QED  BY <6>2, <6>3 DEF IcDue
        <5>. QED  BY <1>6, <5>1, <5>2
      <4>. QED  BY <4>2, <4>3, <4>4
    <3>. QED  BY <1>7, <3>1 DEF IcCleared
  <2>. QED  BY <1>2, <2>2, <2>3, <2>4 DEF IcInv
<1>. QED
  BY <1>2, <1>8, <1>9, <1>10

\* The calls that begin start no handler.
LEMMA CallsTrapNothing ==
    ASSUME IcInv, NEW ops \in Seq(IcOps), Begin(ops)
    PROVE  Len(icFrames') = Len(icFrames)
BY TodoChanges DEF IcInv, Begin

\* Every step keeps IcInv.
LEMMA IcNextInv ==
    ASSUME IcInv, [IcNext]_icVars
    PROVE  IcInv'
<1>1. ASSUME NEW n \in IcIrqs, IcEnable(n) \/ IcDisable(n) \/ IcRaise(n)
      PROVE  IcInv'
  BY <1>1, EnableInv, DisableInv, RaiseInv
<1>2. ASSUME NEW n \in IcIrqs, NEW p \in IcPriorities, set_priority(n, p)
      PROVE  IcInv'
  BY <1>2, PriorityInv
<1>3. ASSUME NEW t \in IcThresholds, set_threshold(t)
      PROVE  IcInv'
  BY <1>3, ThresholdInv
<1>4. ASSUME NEW b \in BOOLEAN, IcGlobal(b)
      PROVE  IcInv'
  BY <1>4, GlobalInv
<1>5. ASSUME IcSetDefaults \/ FreeEnter \/ FreeLeave \/ SoftNew \/ pend_interrupt \/ SoftDrop
      PROVE  IcInv'
  BY <1>5, DefaultsInv, EnterInv, LeaveInv, SoftNewInv, PendInv, SoftDropInv
<1>6. ASSUME IcAccess \/ Trap \/ Mret
      PROVE  IcInv'
  BY <1>6, AccessInv, TrapInv, MretInv
<1>7. ASSUME UNCHANGED icVars
      PROVE  IcInv'
  <2>1. IcThread' = IcThread /\ Current' = Current /\ icFrames' = icFrames
    BY <1>7 DEF icVars, IcThread, Current
  <2>2. IcTyped' /\ IcNested'
    BY <1>7, <2>1 DEF icVars, icRegs, IcInv, IcTyped, IcNested
  <2>3. IcPlanned' /\ IcKept'
    BY <1>7, <2>1, LinesAlone DEF icVars, icRegs, IcInv
  <2>4. IcCleared'
    BY <1>7, <2>1, SoftAlone DEF icVars, icRegs, IcInv, is_pending
  <2>. QED  BY <2>2, <2>3, <2>4 DEF IcInv
<1>. QED
  BY <1>1, <1>2, <1>3, <1>4, <1>5, <1>6, <1>7 DEF IcNext

\* IcInv is enough.
LEMMA IcInvSafe == IcInv => IcSafe
<1>. SUFFICES ASSUME IcInv
              PROVE  IcSafe
  OBVIOUS
<1>1. IcTyped /\ IcNested
  BY DEF IcInv
<1>2. IcSettled
  <2>1. ASSUME IcThread.todo = <<>>, NEW n \in IcIrqs
        PROVE  is_enabled(n) = icAsked[n].on /\ LocipriOf(n) = icAsked[n].pri
    <3>1. (is_enabled(n) <=> icAsked[n].on) /\ LocipriOf(n) = icAsked[n].pri
      BY <2>1, BetweenCalls
    <3>2. icAsked[n].on \in BOOLEAN
      BY <1>1, Asked
    <3>3. is_enabled(n) \in BOOLEAN
      <4>1. CASE IsLocal(n)
        <5>1. is_enabled(n) = (LocienBit(n) \in icLocien)
          BY <4>1 DEF is_enabled
        <5>. QED  BY <5>1
      <4>2. CASE ~ IsLocal(n)
        <5>1. is_enabled(n) = (n \in icMie)
          BY <4>2 DEF is_enabled
        <5>. QED  BY <5>1
      <4>. QED  BY <4>1, <4>2
    <3>. QED  BY <3>1, <3>2, <3>3
  <2>. QED  BY <2>1 DEF IcSettled, IcThread
<1>3. SectionsKept
  <2>1. Len(icFrames) \in {1, 2} /\ (Len(icFrames) = 1 => IcThread = Current)
    BY <1>1, FramesAre
  <2>2. icMstatus => Current.saved = <<>> /\ InThread
    <3>1. ASSUME icMstatus
          PROVE  InThread
      BY <1>1, <2>1, <3>1 DEF IcNested, InThread
    <3>. QED  BY <1>1, <3>1 DEF IcNested
  <2>3. Len(icFrames) <= 2
    <3>1. Len(icFrames) = 1 \/ Len(icFrames) = 2
      BY <2>1
    <3>2. 1 <= 2 /\ 2 <= 2
      OBVIOUS
    <3>. QED  BY <3>1, <3>2
  <2>. QED  BY <2>2, <2>3, Zenon DEF SectionsKept
<1>4. NothingStale
  BY BetweenCalls DEF NothingStale, IcThread
<1>. QED
  BY <1>2, <1>3, <1>4 DEF IcSafe

\* Between calls each line is enabled and has the priority that the latest calls for
\* it asked for, no handler starts in a section or another handler, and a dropped
\* software interrupt leaves nothing: for any lines, priorities and thresholds and
\* any number of raised interrupts (IcSafe, interrupt.rs and software_interrupt.rs).
THEOREM InterruptsAsAsked == IcSpec => []IcSafe
<1>1. IcInv /\ [IcNext]_icVars => IcInv'
  BY IcNextInv
<1>. QED
  BY <1>1, IcInitInv, IcInvSafe, PTL DEF IcSpec

\* What the hart takes it may take.
LEMMA TrapAllowed ==
    ASSUME IcInv, Trap
    PROVE  LET a == icAsked[icFrames'[1].irq]
               settled == icFrames[Len(icFrames)].todo = <<>>
           IN  /\ a.on \/ ~ settled
               /\ a.pri > icPrithd \/ (a.was > icPrithd /\ ~ settled)
<1>1. PICK n : n = icFrames'[1].irq
  OBVIOUS
<1>2. n \in Deliverable
  BY <1>1, TrapTakes
<1>3. n \in IcIrqs /\ is_enabled(n) /\ LocipriOf(n) > icPrithd
  BY <1>2 DEF Deliverable
<1>4. IcTyped /\ icPrithd \in 0..7 /\ LocipriOf(n) \in {0, icAsked[n].pri, icAsked[n].was}
  BY <1>3 DEF IcInv, IcTyped, IcKept
<1>5. CASE IcThread.todo = <<>>
  <2>1. icAsked[n].on /\ LocipriOf(n) = icAsked[n].pri
    BY <1>3, <1>5, BetweenCalls
  <2>. QED  BY <1>1, <1>3, <1>5, <2>1 DEF IcThread
<1>6. CASE IcThread.todo # <<>>
  <2>1. icAsked[n].pri > icPrithd \/ icAsked[n].was > icPrithd
    BY <1>3, <1>4
  <2>. QED  BY <1>1, <1>6, <2>1 DEF IcThread
<1>. QED
  BY <1>5, <1>6

\* What TakenAsAllowed says of a step.
HandlerAllowed ==
    Len(icFrames') > Len(icFrames) =>
        LET a == icAsked[icFrames'[1].irq]
            settled == icFrames[Len(icFrames)].todo = <<>>
        IN  /\ a.on \/ ~ settled
            /\ a.pri > icPrithd \/ (a.was > icPrithd /\ ~ settled)

LEMMA HandlerStarts == ASSUME IcInv, IcNext PROVE HandlerAllowed
<1>. SUFFICES ASSUME IcInv, IcNext, Len(icFrames') > Len(icFrames)
              PROVE  Trap
  BY TrapAllowed DEF HandlerAllowed
<1>1. Len(icFrames) \in {1, 2}
  BY FramesAre DEF IcInv
<1>2. ASSUME NEW ops \in Seq(IcOps), Begin(ops)
      PROVE  FALSE
  BY <1>1, <1>2, CallsTrapNothing
<1>3. ASSUME NEW n \in IcIrqs, IcEnable(n) \/ IcDisable(n) \/ IcRaise(n)
      PROVE  FALSE
  <2>1. EnableOps(n) \in Seq(IcOps) /\ DisableOps(n) \in Seq(IcOps)
    <3>1. 0 \in 0..7
      OBVIOUS
    <3>. QED  BY <3>1, EnableOpsAre, Pieces
  <2>2. CASE IcRaise(n)
    BY <1>1, <2>2 DEF IcRaise
  <2>. QED  BY <1>2, <1>3, <2>1, <2>2 DEF IcEnable, IcDisable, IcCall
<1>4. ASSUME NEW n \in IcIrqs, NEW p \in IcPriorities, set_priority(n, p)
      PROVE  FALSE
  <2>1. p \in 0..7
    BY IcAssumption
  <2>2. locipri_set_field(n, p) \in Seq(IcOps)
    BY <2>1, Pieces
  <2>. QED  BY <1>2, <1>4, <2>2 DEF set_priority, IcCall
<1>5. ASSUME (\E t \in IcThresholds : set_threshold(t)) \/ (\E b \in BOOLEAN : IcGlobal(b))
               \/ IcSetDefaults
      PROVE  FALSE
  <2>1. <<>> \in Seq(IcOps)
    OBVIOUS
  <2>. QED  BY <1>2, <1>5, <2>1 DEF set_threshold, IcGlobal, IcSetDefaults, IcCall
<1>6. ASSUME SoftNew \/ SoftDrop
      PROVE  FALSE
  <2>1. SoftNewOps \in Seq(IcOps) /\ SoftDropOps \in Seq(IcOps)
    BY SoftNewOpsAre, SoftDropOpsAre
  <2>. QED  BY <1>2, <1>6, <2>1 DEF SoftNew, SoftDrop, SoftNewOps, SoftDropOps, IcCall
<1>7. ~ FreeEnter /\ ~ FreeLeave
  <2>1. ASSUME NEW s, icFrames' = [icFrames EXCEPT ![1].saved = s]
        PROVE  FALSE
    <3>1. icFrames \in Seq(IcFrames)
      BY FramesAre DEF IcInv
    <3>2. Len(icFrames') = Len(icFrames)
      BY <1>1, <2>1, <3>1
    <3>. QED  BY <1>1, <3>2
  <2>. QED  BY <2>1 DEF FreeEnter, FreeLeave
<1>8. ~ pend_interrupt
  BY <1>1 DEF pend_interrupt
<1>9. ~ IcAccess /\ ~ Mret
  BY <1>1, AccessInv, MretInv
<1>. QED  BY <1>3, <1>4, <1>5, <1>6, <1>7, <1>8, <1>9 DEF IcNext

\* A handler starts only for a line that is enabled, or just being disabled, with a
\* priority above the threshold that is asked for, or was until the call under way:
\* never for what the field holds between its two writes (interrupt.rs:15-16).
THEOREM HandlersAsAllowed == IcSpec => TakenAsAllowed
<1>1. IcInv /\ [IcNext]_icVars => IcInv'
  BY IcNextInv
<1>2. IcInv /\ [IcNext]_icVars => [HandlerAllowed]_icVars
  BY HandlerStarts
<1>3. IcSpec => [][HandlerAllowed]_icVars
  BY <1>1, <1>2, IcInitInv, PTL DEF IcSpec
<1>. QED
  BY <1>3 DEF TakenAsAllowed, HandlerAllowed

-----------------------------------------------------------------------------
(* PwmChannels: a channel has the wave that was last asked for, and ends with its *)
(* handles, for any handles, channels, clock and width of the registers.       *)

\* The types that the steps rely on; the values fit the registers.
PwmTyped ==
    /\ pwmOf \in [PwmHandles -> PwmChannelIds \cup {NoPwm}]
    /\ pwmPeriod \in [PwmChannelIds -> 0..PwmMax16]
    /\ pwmDuty \in [PwmChannelIds -> 0..PwmMax16]
    /\ pwmAsked \in [PwmChannelIds -> [period : 0..PwmMax16, duty : 0..PwmMax16]]
    /\ pwmEn \subseteq PwmChannelIds
    /\ pwmClock \in {"off", "gated on", "divided"}

\* The clock that a period needs.
Clocked(c) == pwmPeriod[c] # 0 => pwmClock = "divided"

\* A channel has what was asked of it.
WaveOf(c) ==
    /\ pwmPeriod[c] = pwmAsked[c].period /\ pwmDuty[c] = pwmAsked[c].duty
    /\ pwmDuty[c] <= pwmPeriod[c]
    /\ Clocked(c)

\* The writes left of a call for channel c are a tail of configure's, with the values
\* asked; what they rely on has been written.
Setting(c) ==
    LET a == pwmAsked[c]
        writes == ConfigureOps(c, a.period, a.duty)
    IN  /\ a.duty <= a.period
        /\ Clocked(c)
        /\ \/ pwmTodo = writes
           \/ pwmTodo = <<writes[2], writes[3], writes[4]>>
           \/ pwmTodo = <<writes[3], writes[4]>> /\ pwmClock = "divided"
           \/ pwmTodo = <<writes[4]>> /\ pwmPeriod[c] = a.period

\* Every channel has its wave, but for the one that a call is setting.
Waves ==
    \/ pwmTodo = <<>> /\ \A c \in PwmChannelIds : WaveOf(c)
    \/ \E c \in PwmChannelIds : Setting(c) /\ \A d \in PwmChannelIds \ {c} : WaveOf(d)

PwmInv == PwmTyped /\ Waves /\ PwmScoped

\* A duty in percent of a period is within the period.
LEMMA DutyWithin ==
    ASSUME NEW period \in Nat, NEW percent \in Nat, percent <= 100
    PROVE  /\ (period * percent) \div 100 \in 0..period
<1>. DEFINE product == period * percent
<1>1. product \in Nat /\ product <= period * 100
  BY SMT
<1>. HIDE DEF product
<1>2. product \div 100 \in 0..period
  BY <1>1, SMT
<1>. QED
  BY <1>2 DEF product

\* A value that fits a register is written as it is.
LEMMA HalfFits == ASSUME NEW n \in 0..PwmMax16 PROVE Half(n) = n
BY PwmAssumption DEF Half

\* The periods that a program can hold fit the register.
LEMMA PeriodsFit == PwmPeriods \subseteq 0..PwmMax16
<1>1. \A hz \in PwmHz : try_from_hz(hz) \subseteq 0..PwmMax16
  BY PwmAssumption DEF try_from_hz
<1>. QED
  BY <1>1 DEF PwmPeriods

\* A call may begin only between calls, when every channel has its wave.
LEMMA PwmBetweenCalls == ASSUME Waves, pwmTodo = <<>> PROVE \A c \in PwmChannelIds : WaveOf(c)
<1>1. ASSUME NEW c \in PwmChannelIds PROVE ~ Setting(c)
  BY DEF Setting, ConfigureOps
<1>. QED
  BY <1>1 DEF Waves

\* Nothing is asked of any channel at first.
LEMMA PwmStarts == PwmInit => PwmInv
BY PwmAssumption DEF PwmInit, PwmInv, PwmTyped, Waves, WaveOf, Clocked, PwmScoped

\* configure asks for a period and a duty within it, and has all four writes to go.
LEMMA PwmConfigureKeeps ==
    ASSUME PwmInv, NEW h \in PwmHandles, PwmConfigure(h)
    PROVE  PwmInv'
<1>0. PwmIdle(h)
  BY DEF PwmConfigure
<1>2. PICK c \in PwmChannelIds : c = pwmOf[h] /\ pwmTodo = <<>>
  BY <1>0 DEF PwmInv, PwmTyped, PwmIdle
<1>1. PICK period \in PwmPeriods, percent \in {p \in PwmPercents : from_percent(p)} :
        /\ pwmTodo' = ConfigureOps(c, period, duty_count(period, percent))
        /\ pwmAsked' = [pwmAsked EXCEPT ![c] =
               [period |-> period, duty |-> (period * percent) \div 100]]
        /\ UNCHANGED <<pwmOf, pwmPeriod, pwmDuty, pwmEn, pwmClock, pwmLeft>>
  BY <1>2 DEF PwmConfigure
<1>3. /\ period \in 0..PwmMax16 /\ period \in Nat /\ percent \in Nat /\ percent <= 100
      /\ duty_count(period, percent) = (period * percent) \div 100
  BY PeriodsFit, PwmAssumption DEF from_percent, duty_count
<1>4. duty_count(period, percent) \in 0..period
  BY <1>3, DutyWithin
<1>. DEFINE duty == duty_count(period, percent)
<1>5. pwmAsked' = [pwmAsked EXCEPT ![c] = [period |-> period, duty |-> duty]]
  BY <1>1, <1>3
<1>. HIDE DEF duty
<1>6. PwmTyped'
  <2>1. [period |-> period, duty |-> duty] \in [period : 0..PwmMax16, duty : 0..PwmMax16]
    BY <1>3, <1>4, PwmAssumption DEF duty
  <2>2. pwmAsked' \in [PwmChannelIds -> [period : 0..PwmMax16, duty : 0..PwmMax16]]
    BY <1>2, <1>5, <2>1 DEF PwmInv, PwmTyped
  <2>. QED  BY <1>1, <2>2, Zenon DEF PwmInv, PwmTyped
<1>7. Setting(c)'
  <2>1. pwmAsked'[c] = [period |-> period, duty |-> duty]
    BY <1>2, <1>5 DEF PwmInv, PwmTyped
  <2>2. Clocked(c)'
    BY <1>1, <1>2, PwmBetweenCalls DEF PwmInv, WaveOf, Clocked
  <2>3. pwmTodo' = ConfigureOps(c, period, duty)
    BY <1>1 DEF duty
  <2>. QED  BY <1>4, <2>1, <2>2, <2>3 DEF Setting, duty
<1>8. \A d \in PwmChannelIds \ {c} : WaveOf(d)'
  BY <1>1, <1>2, <1>5, PwmBetweenCalls DEF PwmInv, PwmTyped, WaveOf, Clocked
<1>. QED
  BY <1>1, <1>2, <1>6, <1>7, <1>8 DEF PwmInv, Waves, PwmScoped

\* A duty cycle that is taken is within the period in the register.
LEMMA SetDutyKeeps ==
    ASSUME PwmInv, NEW h \in PwmHandles, NEW duty \in PwmCounts \cap 0..PwmMax16,
           set_duty_cycle(h, duty)
    PROVE  PwmInv'
<1>0. PwmIdle(h)
  BY DEF set_duty_cycle
<1>1. PICK c \in PwmChannelIds : c = pwmOf[h] /\ pwmTodo = <<>>
  BY <1>0 DEF PwmInv, PwmTyped, PwmIdle
<1>4. UNCHANGED <<pwmOf, pwmPeriod, pwmDuty, pwmEn, pwmClock, pwmLeft>>
  BY DEF set_duty_cycle
<1>2. \A d \in PwmChannelIds : WaveOf(d)
  BY <1>1, PwmBetweenCalls DEF PwmInv
<1>3. CASE DutyFits(c, duty)
  <2>1. /\ pwmTodo' = <<Reg("duty", c, duty)>> /\ duty <= pwmPeriod[c]
        /\ pwmAsked' = [pwmAsked EXCEPT ![c].duty = duty]
    BY <1>1, <1>3 DEF set_duty_cycle, DutyFits
  <2>2. PwmTyped'
    BY <1>1, <1>4, <2>1 DEF PwmInv, PwmTyped
  <2>3. pwmAsked'[c].duty = duty /\ pwmAsked'[c].period = pwmPeriod[c]
    BY <1>1, <1>2, <1>4, <2>1 DEF PwmInv, PwmTyped, WaveOf
  <2>4. Setting(c)'
    <3>1. ConfigureOps(c, pwmAsked'[c].period, pwmAsked'[c].duty)[4] = Reg("duty", c, duty)
      BY <2>3 DEF ConfigureOps
    <3>2. Clocked(c)'
      BY <1>1, <1>2, <1>4 DEF WaveOf, Clocked
    <3>. QED  BY <1>4, <2>1, <2>3, <3>1, <3>2 DEF Setting
  <2>5. \A d \in PwmChannelIds \ {c} : WaveOf(d)'
    BY <1>1, <1>2, <1>4, <2>1 DEF PwmInv, PwmTyped, WaveOf, Clocked
  <2>. QED  BY <1>4, <2>2, <2>4, <2>5 DEF PwmInv, Waves, PwmScoped
<1>5. CASE ~ DutyFits(c, duty)
  BY <1>1, <1>4, <1>5 DEF set_duty_cycle, PwmInv, PwmTyped, Waves, WaveOf, Clocked, Setting,
     PwmScoped
<1>. QED
  BY <1>3, <1>5

\* The other calls leave the wave alone: they make and forget handles, and switch outputs.
LEMMA HandlesKeep ==
    ASSUME PwmInv, NEW h \in PwmHandles,
           \/ \E c \in PwmChannelIds : PwmNew(h, c)
           \/ PwmEnable(h) \/ PwmDisable(h) \/ into_running(h) \/ PwmDrop(h)
    PROVE  PwmInv'
<1>1. UNCHANGED <<pwmPeriod, pwmDuty, pwmAsked, pwmClock, pwmTodo>>
  BY DEF PwmNew, PwmEnable, PwmDisable, into_running, PwmDrop
<1>2. PwmTyped'
  <2>1. pwmOf' \in [PwmHandles -> PwmChannelIds \cup {NoPwm}]
    BY DEF PwmInv, PwmTyped, PwmNew, PwmEnable, PwmDisable, into_running, PwmDrop
  <2>2. pwmEn' \subseteq PwmChannelIds
    <3>1. PwmIdle(h) => pwmOf[h] \in PwmChannelIds
      BY DEF PwmInv, PwmTyped, PwmIdle
    <3>2. \/ pwmEn' \subseteq pwmEn
          \/ PwmIdle(h) /\ pwmEn' = pwmEn \cup {pwmOf[h]}
      BY DEF PwmNew, PwmEnable, PwmDisable, into_running, PwmDrop
    <3>. QED  BY <3>1, <3>2 DEF PwmInv, PwmTyped
  <2>. QED  BY <1>1, <2>1, <2>2 DEF PwmInv, PwmTyped
<1>3. Waves'
  BY <1>1 DEF PwmInv, Waves, WaveOf, Clocked, Setting
<1>4. PwmScoped'
  <2>n. NoPwm \notin PwmChannelIds
    BY PwmAssumption DEF NoPwm
  <2>1. ASSUME NEW c \in PwmChannelIds, PwmNew(h, c)
        PROVE  PwmScoped'
    <3>1. pwmOf[h] = NoPwm /\ pwmOf' = [pwmOf EXCEPT ![h] = c] /\ UNCHANGED <<pwmEn, pwmLeft>>
      BY <2>1 DEF PwmNew
    <3>. QED  BY <3>1, <2>n DEF PwmInv, PwmTyped, PwmScoped
  <2>2. CASE PwmEnable(h)
    BY <2>2 DEF PwmEnable, PwmInv, PwmScoped
  <2>3. CASE PwmDisable(h)
    BY <2>3 DEF PwmDisable, PwmInv, PwmScoped
  <2>4. CASE into_running(h)
    BY <2>4 DEF into_running, PwmInv, PwmTyped, PwmScoped
  <2>5. CASE PwmDrop(h)
    BY <2>5 DEF PwmDrop, PwmInv, PwmTyped, PwmScoped
  <2>. QED  BY <2>1, <2>2, <2>3, <2>4, <2>5
<1>. QED
  BY <1>2, <1>3, <1>4 DEF PwmInv

\* Each write of a call brings its channel nearer to its wave, and touches no other.
LEMMA PwmWriteKeeps ==
    ASSUME PwmInv, PwmWrite
    PROVE  PwmInv'
<1>1. /\ pwmTodo # <<>> /\ pwmTodo' = Tail(pwmTodo)
      /\ UNCHANGED <<pwmOf, pwmEn, pwmLeft, pwmAsked>>
  BY DEF PwmWrite
<1>2. PICK c \in PwmChannelIds : Setting(c) /\ \A d \in PwmChannelIds \ {c} : WaveOf(d)
  BY <1>1 DEF PwmInv, Waves
<1>. DEFINE a == pwmAsked[c]
<1>3. a.period \in 0..PwmMax16 /\ a.duty \in 0..PwmMax16 /\ pwmAsked'[c] = a
  BY <1>1 DEF PwmInv, PwmTyped
<1>4. Half(a.period) = a.period /\ Half(a.duty) = a.duty
  BY <1>3, HalfFits
<1>. HIDE DEF a
<1>5. /\ a.duty <= a.period /\ Clocked(c)
      /\ \/ pwmTodo = <<Reg("gate", c, 0), Reg("divide", c, 0), Reg("freq", c, a.period),
                        Reg("duty", c, a.duty)>>
         \/ pwmTodo = <<Reg("divide", c, 0), Reg("freq", c, a.period), Reg("duty", c, a.duty)>>
         \/ /\ pwmTodo = <<Reg("freq", c, a.period), Reg("duty", c, a.duty)>>
            /\ pwmClock = "divided"
         \/ pwmTodo = <<Reg("duty", c, a.duty)>> /\ pwmPeriod[c] = a.period
  BY <1>2 DEF Setting, ConfigureOps, a
\* What a step has to show once its effect is known.
<1>6. ASSUME pwmPeriod' \in [PwmChannelIds -> 0..PwmMax16],
             pwmDuty' \in [PwmChannelIds -> 0..PwmMax16],
             pwmClock' \in {"off", "gated on", "divided"},
             \A d \in PwmChannelIds \ {c} :
                pwmPeriod'[d] = pwmPeriod[d] /\ pwmDuty'[d] = pwmDuty[d],
             pwmClock = "divided" => pwmClock' = "divided",
             \/ Setting(c)'
             \/ pwmTodo' = <<>> /\ WaveOf(c)'
      PROVE  PwmInv'
  <2>1. PwmTyped'
    BY <1>1, <1>6 DEF PwmInv, PwmTyped
  <2>2. \A d \in PwmChannelIds \ {c} : WaveOf(d)'
    BY <1>1, <1>2, <1>6 DEF WaveOf, Clocked
  <2>3. Waves'
    BY <1>6, <2>2 DEF Waves
  <2>. QED  BY <1>1, <2>1, <2>3 DEF PwmInv, PwmScoped
<1>7. CASE pwmTodo = <<Reg("gate", c, 0), Reg("divide", c, 0), Reg("freq", c, a.period),
                       Reg("duty", c, a.duty)>>
  <2>1. Head(pwmTodo).reg = "gate"
    BY <1>7 DEF Reg
  <2>2. /\ UNCHANGED <<pwmPeriod, pwmDuty>>
        /\ pwmClock' = IF pwmClock = "off" THEN "gated on" ELSE pwmClock
    BY <2>1 DEF PwmWrite
  <2>3. pwmTodo' = <<Reg("divide", c, 0), Reg("freq", c, a.period), Reg("duty", c, a.duty)>>
    BY <1>1, <1>7
  <2>4. Setting(c)'
    BY <1>3, <1>5, <2>2, <2>3 DEF Setting, ConfigureOps, Clocked
  <2>. QED  BY <1>6, <2>2, <2>4 DEF PwmInv, PwmTyped
<1>8. CASE pwmTodo = <<Reg("divide", c, 0), Reg("freq", c, a.period), Reg("duty", c, a.duty)>>
  <2>1. Head(pwmTodo).reg = "divide"
    BY <1>8 DEF Reg
  <2>2. UNCHANGED <<pwmPeriod, pwmDuty>> /\ pwmClock' = "divided"
    BY <2>1 DEF PwmWrite
  <2>3. pwmTodo' = <<Reg("freq", c, a.period), Reg("duty", c, a.duty)>>
    BY <1>1, <1>8
  <2>4. Setting(c)'
    BY <1>3, <1>5, <2>2, <2>3 DEF Setting, ConfigureOps, Clocked
  <2>. QED  BY <1>6, <2>2, <2>4 DEF PwmInv, PwmTyped
<1>9. CASE /\ pwmTodo = <<Reg("freq", c, a.period), Reg("duty", c, a.duty)>>
           /\ pwmClock = "divided"
  <2>1. /\ Head(pwmTodo).reg = "freq" /\ Head(pwmTodo).ch = c
        /\ Head(pwmTodo).val = a.period
    BY <1>9 DEF Reg
  <2>2. /\ pwmPeriod' = [pwmPeriod EXCEPT ![c] = a.period]
        /\ UNCHANGED <<pwmDuty, pwmClock>>
    BY <1>4, <2>1 DEF PwmWrite
  <2>3. pwmTodo' = <<Reg("duty", c, a.duty)>>
    BY <1>1, <1>9
  <2>t. pwmPeriod'[c] = a.period
    BY <2>2 DEF PwmInv, PwmTyped
  <2>4. Setting(c)'
    BY <1>3, <1>5, <1>9, <2>2, <2>3, <2>t DEF Setting, ConfigureOps, Clocked
  <2>. QED  BY <1>3, <1>6, <2>2, <2>4 DEF PwmInv, PwmTyped
<1>10. CASE pwmTodo = <<Reg("duty", c, a.duty)>> /\ pwmPeriod[c] = a.period
  <2>1. /\ Head(pwmTodo).reg = "duty" /\ Head(pwmTodo).ch = c
        /\ Head(pwmTodo).val = a.duty
    BY <1>10 DEF Reg
  <2>2. /\ pwmDuty' = [pwmDuty EXCEPT ![c] = a.duty]
        /\ UNCHANGED <<pwmPeriod, pwmClock>>
    BY <1>4, <2>1 DEF PwmWrite
  <2>3. pwmTodo' = <<>>
    BY <1>1, <1>10
  <2>t. pwmDuty'[c] = a.duty
    BY <2>2 DEF PwmInv, PwmTyped
  <2>4. WaveOf(c)'
    BY <1>3, <1>5, <1>10, <2>2, <2>t DEF WaveOf, Clocked
  <2>. QED  BY <1>3, <1>6, <2>2, <2>3, <2>4 DEF PwmInv, PwmTyped
<1>. QED
  BY <1>5, <1>7, <1>8, <1>9, <1>10

LEMMA PwmSteps == PwmInv /\ [PwmNext]_pwmVars => PwmInv'
<1>. SUFFICES ASSUME PwmInv, [PwmNext]_pwmVars
              PROVE  PwmInv'
  OBVIOUS
<1>1. CASE PwmNext
  BY <1>1, HandlesKeep, PwmConfigureKeeps, SetDutyKeeps, PwmWriteKeeps DEF PwmNext
<1>2. CASE UNCHANGED pwmVars
  BY <1>2 DEF pwmVars, PwmInv, PwmTyped, Waves, WaveOf, Clocked, Setting, PwmScoped
<1>. QED
  BY <1>1, <1>2

\* PwmInv is enough.
LEMMA PwmPromise == PwmInv => PwmSafe
<1>. SUFFICES ASSUME PwmInv
              PROVE  PwmSafe
  OBVIOUS
<1>1. ASSUME pwmTodo = <<>>
      PROVE  \A c \in PwmChannelIds : WaveOf(c)
  BY <1>1, PwmBetweenCalls DEF PwmInv
<1>. QED  BY <1>1 DEF PwmSafe, PwmAsAsked, PwmInv, WaveOf, Clocked

\* Whatever the channels, handles and values, between calls every channel has the period and
\* duty last asked of it, on a WS63 with the gate of the clock open and, for channel 0, its
\* divider loaded; and no output outlives its handles unasked (pwm.rs:8-11, 118-119, 383).
THEOREM WavesAsAsked == PwmSpec => []PwmSafe
BY PwmStarts, PwmSteps, PwmPromise, PTL DEF PwmSpec

-----------------------------------------------------------------------------
(* Efuse: cells, voltage and lock answers are those of the call that asked, for any size  *)
(* of the array and any length of a read.                                                *)

\* The accesses of the byte at address a, within the array or not.
ByteAt(a) == IF a < OtpBytes THEN read_byte(a) ELSE << <<"err", 0>> >>

\* Register accesses of a read.
ReadOps == {<<"magic", "read">>, <<"err", 0>>} \cup {<<"load", a>> : a \in Nat}

\* What a read has left to do when it has read the first k bytes, and what it has found.
ReadGoesOn ==
    LET k == Len(efBuffer)
        here == efCall.at + k
        left == efCall.count - k
    IN  /\ efCall.at \in Addresses /\ efCall.count \in Nat
        /\ efBuffer \in Seq(SUBSET OtpBits)
        /\ k <= efCall.count
        /\ \A j \in 1..k : /\ efCall.at + j - 1 \in Addresses
                           /\ efBuffer[j] = efOtp[efCall.at + j - 1]
        /\ efAvdd = "down" /\ efOtp = efAsked
        /\ \/ efResult = "ok" /\ efTodo = read_buffer(here, left)
           \/ /\ efResult = "ok" /\ left > 0 /\ here \in Addresses /\ efMode = "read"
              /\ efTodo = << <<"load", here>> >> \o read_buffer(here + 1, left - 1)
           \/ efResult = "out of range" /\ left > 0 /\ here >= OtpBytes /\ efTodo = <<>>

\* The cells with one more byte written.
Burnt(a, value) == [efOtp EXCEPT ![a] = @ \cup value]

\* Before its programming access a write has its byte to burn; the voltage follows the place.
WriteGoesOn(a, value) ==
    LET w == write_byte(a, value)
    IN  \/ /\ efAsked = Burnt(a, value)
           /\ \/ efTodo = w /\ efAvdd = "down"
              \/ /\ efMode = "write"
                 /\ \/ efTodo = <<w[2], w[3], w[4], w[5], w[6]>> /\ efAvdd = "down"
                    \/ efTodo = <<w[3], w[4], w[5], w[6]>> /\ efAvdd = "rising"
                    \/ efTodo = <<w[4], w[5], w[6]>> /\ efAvdd = "up"
        \/ /\ efAsked = efOtp
           /\ \/ efTodo = <<w[5], w[6]>> /\ efAvdd = "up"
              \/ efTodo = <<w[6]>> /\ efAvdd = "falling"
              \/ efTodo = <<>> /\ efAvdd = "down"

EfuseInv ==
    /\ efOtp \in [Addresses -> SUBSET OtpBits] /\ efAsked \in [Addresses -> SUBSET OtpBits]
    /\ \/ efCall.op = "none" /\ efTodo = <<>> /\ efAvdd = "down" /\ efAsked = efOtp
       \/ efCall.op = "read" /\ ReadGoesOn
       \/ /\ efCall.op = "write"
          /\ \E a \in Addresses, value \in SUBSET OtpBits : WriteGoesOn(a, value)

\* The accesses of a byte are those of a read.
LEMMA BytesAre == ASSUME NEW a \in Nat PROVE ByteAt(a) \in Seq(ReadOps) /\ ByteAt(a) # <<>>
<1>1. /\ <<"magic", "read">> \in ReadOps /\ <<"err", 0>> \in ReadOps /\ <<"load", a>> \in ReadOps
  BY DEF ReadOps
<1>. DEFINE m == <<"magic", "read">>
            e == <<"err", 0>>
            l == <<"load", a>>
<1>. HIDE DEF m, e, l
<1>2. <<m, l>> \in Seq(ReadOps) /\ <<e>> \in Seq(ReadOps) /\ Len(<<m, l>>) = 2 /\ Len(<<e>>) = 1
  BY <1>1 DEF m, e, l
<1>. QED
  BY <1>2, NothingYet DEF ByteAt, read_byte, m, e, l

\* A read of nothing does nothing; a longer one begins with the byte at its address.
LEMMA ReadInSteps ==
    ASSUME NEW a \in Nat, NEW n \in Nat
    PROVE  /\ read_buffer(a, n) \in Seq(ReadOps)
           /\ n = 0 => read_buffer(a, n) = <<>>
           /\ n > 0 => read_buffer(a, n) = ByteAt(a) \o read_buffer(a + 1, n - 1)
<1>. DEFINE list(b, m) == [k \in 1..m |-> ByteAt(b + k - 1)]
<1>1. \A b \in Nat, m \in Nat : read_buffer(b, m) = FlattenSeq(list(b, m))
  BY DEF read_buffer, ByteAt
<1>2. \A b \in Nat, m \in Nat :
        /\ list(b, m) \in Seq(Seq(ReadOps)) /\ Len(list(b, m)) = m
        /\ \A k \in 1..m : list(b, m)[k] = ByteAt(b + k - 1)
  <2>. SUFFICES ASSUME NEW b \in Nat, NEW m \in Nat
                PROVE  list(b, m) \in Seq(Seq(ReadOps)) /\ Len(list(b, m)) = m
    OBVIOUS
  <2>1. \A k \in 1..m : ByteAt(b + k - 1) \in Seq(ReadOps)
    BY BytesAre
  <2>. HIDE DEF ByteAt
  <2>. QED  BY <2>1
<1>. HIDE DEF list
<1>3. read_buffer(a, n) \in Seq(ReadOps)
  BY <1>1, <1>2, FlattenTyped
<1>4. ASSUME n = 0
      PROVE  read_buffer(a, n) = <<>>
  <2>1. list(a, n) = <<>>
    BY <1>2, <1>4, EmptySeq
  <2>2. FlattenSeq(<<>>) = <<>>
    BY NothingYet DEF FlattenSeq
  <2>. QED  BY <1>1, <2>1, <2>2
<1>5. ASSUME n > 0
      PROVE  read_buffer(a, n) = ByteAt(a) \o read_buffer(a + 1, n - 1)
  <2>0. n - 1 \in Nat /\ a + 1 \in Nat /\ 1 \in 1..n /\ a + 1 - 1 = a
    BY <1>5
  <2>1. list(a, n) # <<>> /\ list(a, n)[1] = ByteAt(a)
    <3>1. Len(list(a, n)) = n /\ list(a, n)[1] = ByteAt(a + 1 - 1)
      BY <1>2, <2>0
    <3>. QED  BY <1>5, <2>0, <3>1, NothingYet
  <2>2. Tail(list(a, n)) = list(a + 1, n - 1)
    <3>1. /\ Tail(list(a, n)) \in Seq(Seq(ReadOps)) /\ Len(Tail(list(a, n))) = n - 1
          /\ \A k \in 1..(n - 1) : Tail(list(a, n))[k] = list(a, n)[k + 1]
      BY <1>2, <2>1, HeadTailProperties
    <3>2. /\ list(a + 1, n - 1) \in Seq(Seq(ReadOps)) /\ Len(list(a + 1, n - 1)) = n - 1
          /\ \A k \in 1..(n - 1) : list(a + 1, n - 1)[k] = ByteAt(a + 1 + k - 1)
      BY <1>2, <2>0
    <3>3. ASSUME NEW k \in 1..(n - 1)
          PROVE  Tail(list(a, n))[k] = list(a + 1, n - 1)[k]
      <4>1. k + 1 \in 1..n /\ a + (k + 1) - 1 = a + 1 + k - 1
        BY <1>5
      <4>2. list(a, n)[k + 1] = ByteAt(a + (k + 1) - 1)
        BY <1>2, <4>1
      <4>3. Tail(list(a, n))[k] = ByteAt(a + 1 + k - 1)
        BY <3>1, <4>1, <4>2
      <4>. QED  BY <3>2, <4>3
    <3>. QED  BY <3>1, <3>2, <3>3, SeqEqual
  <2>3. FlattenSeq(list(a, n)) = ByteAt(a) \o FlattenSeq(list(a + 1, n - 1))
    <3>1. ASSUME NEW s \in Seq(Seq(ReadOps)), s # <<>>
          PROVE  FlattenSeq(s) = s[1] \o FlattenSeq(Tail(s))
      BY <3>1, FlattenFirst
    <3>. QED  BY <1>2, <2>1, <2>2, <3>1
  <2>. QED  BY <1>1, <2>0, <2>3
<1>. QED
  BY <1>3, <1>4, <1>5

\* The accesses that a read of at least one byte begins with.
LEMMA ReadBegins ==
    ASSUME NEW a \in Nat, NEW n \in Nat, n > 0
    PROVE  LET todo == read_buffer(a, n)
               rest == read_buffer(a + 1, n - 1)
           IN  /\ todo # <<>> /\ rest \in Seq(ReadOps)
               /\ a < OtpBytes => /\ Head(todo) = <<"magic", "read">>
                                  /\ Tail(todo) = << <<"load", a>> >> \o rest
               /\ a >= OtpBytes => Head(todo) = <<"err", 0>>
               /\ << <<"load", a>> >> \o rest # <<>>
               /\ Head(<< <<"load", a>> >> \o rest) = <<"load", a>>
               /\ Tail(<< <<"load", a>> >> \o rest) = rest
<1>. DEFINE todo == read_buffer(a, n)
            rest == read_buffer(a + 1, n - 1)
            m == <<"magic", "read">>
            e == <<"err", 0>>
            l == <<"load", a>>
<1>1. a + 1 \in Nat /\ n - 1 \in Nat
  OBVIOUS
<1>2. rest \in Seq(ReadOps) /\ todo = ByteAt(a) \o rest
  BY <1>1, ReadInSteps
<1>3. m \in ReadOps /\ e \in ReadOps /\ l \in ReadOps
  BY DEF ReadOps
<1>4. ByteAt(a) = IF a < OtpBytes THEN <<m, l>> ELSE <<e>>
  BY DEF ByteAt, read_byte
<1>. HIDE DEF todo, rest, m, e, l
<1>5. /\ <<l>> \o rest \in Seq(ReadOps) /\ <<l>> \o rest # <<>>
      /\ Head(<<l>> \o rest) = l /\ Tail(<<l>> \o rest) = rest
  BY <1>2, <1>3, HeadBefore
<1>6. ASSUME a < OtpBytes
      PROVE  todo # <<>> /\ Head(todo) = m /\ Tail(todo) = <<l>> \o rest
  <2>1. todo = <<m>> \o (<<l>> \o rest)
    BY <1>2, <1>3, <1>4, <1>6, TwoBefore
  <2>. QED  BY <1>3, <1>5, <2>1, HeadBefore
<1>7. ASSUME a >= OtpBytes
      PROVE  todo # <<>> /\ Head(todo) = e
  <2>1. todo = <<e>> \o rest
    BY <1>2, <1>4, <1>7, EfuseAssumption
  <2>. QED  BY <1>2, <1>3, <2>1, HeadBefore
<1>8. a < OtpBytes \/ a >= OtpBytes
  BY EfuseAssumption
<1>. QED
  BY <1>2, <1>5, <1>6, <1>7, <1>8 DEF todo, rest, m, e, l

\* Between calls the voltage is down and every byte asked for has been written.
LEMMA EfBetween ==
    ASSUME EfuseInv, efTodo = <<>>
    PROVE  efAvdd = "down" /\ efAsked = efOtp
<1>1. ASSUME NEW a \in Addresses, NEW value \in SUBSET OtpBits, WriteGoesOn(a, value)
      PROVE  efAvdd = "down" /\ efAsked = efOtp
  BY <1>1 DEF WriteGoesOn, write_byte
<1>2. efCall.op = "read" /\ ReadGoesOn => efAvdd = "down" /\ efAsked = efOtp
  BY DEF ReadGoesOn
<1>. QED
  BY <1>1, <1>2 DEF EfuseInv

LEMMA EfStarts == EfInit => EfuseInv
BY DEF EfInit, EfuseInv

LEMMA EfCallsKeep == EfuseInv /\ EfCalls => EfuseInv'
<1>. SUFFICES ASSUME EfuseInv, EfCalls
              PROVE  EfuseInv'
  OBVIOUS
<1>1. efTodo = <<>> /\ efAvdd = "down" /\ efAsked = efOtp
  BY EfBetween DEF EfCalls
<1>2. /\ efBuffer' = <<>> /\ efResult' = "ok" /\ UNCHANGED <<efMode, efAvdd, efOtp>>
  BY DEF EfCalls
<1>3. ASSUME NEW at \in Addresses, NEW count \in 0..EfMaxRead,
             efTodo' = read_buffer(at, count), UNCHANGED efAsked,
             efCall' = [op |-> "read", at |-> at, count |-> count]
      PROVE  EfuseInv'
  <2>1. /\ count \in Nat /\ at \in Nat /\ at + 0 = at /\ count - 0 = count
    BY EfuseAssumption DEF Addresses
  <2>2. Len(efBuffer') = 0 /\ efBuffer' \in Seq(SUBSET OtpBits)
    BY <1>2, NothingYet
  <2>3. ReadGoesOn'
    BY <1>1, <1>2, <1>3, <2>1, <2>2 DEF ReadGoesOn
  <2>. QED  BY <1>2, <1>3, <2>3 DEF EfuseInv
<1>4. ASSUME NEW at \in Addresses, NEW value \in SUBSET OtpBits,
             efTodo' = write_byte(at, value),
             efAsked' = [efAsked EXCEPT ![at] = @ \cup value],
             efCall' = [op |-> "write"]
      PROVE  EfuseInv'
  <2>1. efAsked' = Burnt(at, value)'
    BY <1>1, <1>2, <1>4 DEF Burnt
  <2>2. WriteGoesOn(at, value)'
    BY <1>1, <1>2, <1>4, <2>1 DEF WriteGoesOn
  <2>3. efAsked' \in [Addresses -> SUBSET OtpBits]
    BY <1>4 DEF EfuseInv
  <2>. QED  BY <1>2, <1>4, <2>2, <2>3 DEF EfuseInv
<1>. QED
  BY <1>3, <1>4 DEF EfCalls

\* A word of the data window has the byte of its address in its lane.
LEMMA ByteOfWord ==
    ASSUME NEW a \in Addresses
    PROVE  extract_byte([lane \in 0..1 |-> efOtp[2 * word_index(a) + lane]], a) = efOtp[a]
<1>1. a % 2 \in 0..1 /\ 2 * (a \div 2) + (a % 2) = a
  BY EfuseAssumption DEF Addresses
<1>. QED
  BY <1>1 DEF extract_byte, word_index

\* What programming a packed word burns is the byte given.
LEMMA OneByteBurnt ==
    ASSUME NEW b \in Addresses, NEW value \in SUBSET OtpBits,
           efOtp \in [Addresses -> SUBSET OtpBits]
    PROVE  [a \in Addresses |->
              IF word_index(a) = word_index(b) THEN efOtp[a] \cup pack_byte(value, b)[a % 2]
              ELSE efOtp[a]] = Burnt(b, value)
<1>. DEFINE burnt == [a \in Addresses |->
              IF word_index(a) = word_index(b) THEN efOtp[a] \cup pack_byte(value, b)[a % 2]
              ELSE efOtp[a]]
<1>1. ASSUME NEW a \in Addresses
      PROVE  burnt[a] = Burnt(b, value)[a]
  <2>1. /\ a % 2 \in 0..1 /\ b % 2 \in 0..1 /\ a \in Nat /\ b \in Nat
        /\ a = 2 * (a \div 2) + (a % 2) /\ b = 2 * (b \div 2) + (b % 2)
    BY EfuseAssumption DEF Addresses
  <2>2. pack_byte(value, b)[a % 2] = IF a % 2 = b % 2 THEN value ELSE {}
    BY <2>1 DEF pack_byte
  <2>3. CASE a = b
    BY <2>2, <2>3 DEF Burnt, word_index
  <2>4. CASE a # b
    <3>1. word_index(a) = word_index(b) => a % 2 # b % 2
      BY <2>1, <2>4 DEF word_index
    <3>. QED  BY <2>2, <2>4, <3>1 DEF Burnt
  <2>. QED  BY <2>3, <2>4
<1>. QED
  BY <1>1 DEF Burnt

\* A read goes on by one access.
LEMMA ReadAccess ==
    ASSUME EfuseInv, EfAccess, efCall.op = "read"
    PROVE  EfuseInv'
<1>. DEFINE k == Len(efBuffer)
            at == efCall.at
            here == at + k
            left == efCall.count - k
<1>1. ReadGoesOn
  BY DEF EfuseInv
<1>2. /\ efTodo # <<>> /\ efCall' = efCall /\ efAsked' = efAsked
  BY DEF EfAccess
<1>3. /\ k \in Nat /\ at \in Nat /\ here \in Nat /\ left \in Nat /\ efCall.count \in Nat
      /\ efBuffer \in Seq(SUBSET OtpBits) /\ at \in Addresses
      /\ efAvdd = "down" /\ efOtp = efAsked
      /\ \A j \in 1..k : at + j - 1 \in Addresses /\ efBuffer[j] = efOtp[at + j - 1]
  <2>1. /\ efBuffer \in Seq(SUBSET OtpBits) /\ at \in Addresses /\ efCall.count \in Nat
        /\ k <= efCall.count /\ efAvdd = "down" /\ efOtp = efAsked
    BY <1>1, Zenon DEF ReadGoesOn
  <2>2. \A j \in 1..k : at + j - 1 \in Addresses /\ efBuffer[j] = efOtp[at + j - 1]
    BY <1>1, Zenon DEF ReadGoesOn
  <2>3. k \in Nat /\ at \in Nat
    BY <2>1, LenProperties, EfuseAssumption DEF Addresses
  <2>4. ASSUME NEW x \in Nat, NEW y \in Nat, NEW z \in Nat, x <= z
        PROVE  y + x \in Nat /\ z - x \in Nat
    BY <2>4
  <2>. QED  BY <2>1, <2>2, <2>3, <2>4
<1>4. efOtp \in [Addresses -> SUBSET OtpBits]
  BY DEF EfuseInv
\* What a step has to show when the buffer stays as it is.
<1>5. ASSUME UNCHANGED <<efBuffer, efAvdd, efOtp>>,
             \/ /\ efResult' = "ok" /\ left > 0 /\ here \in Addresses /\ efMode' = "read"
                /\ efTodo' = << <<"load", here>> >> \o read_buffer(here + 1, left - 1)
             \/ efResult' = "out of range" /\ left > 0 /\ here >= OtpBytes /\ efTodo' = <<>>
      PROVE  EfuseInv'
  <2>1. ReadGoesOn'
    BY <1>1, <1>2, <1>3, <1>5 DEF ReadGoesOn
  <2>. QED  BY <1>2, <1>4, <1>5, <2>1 DEF EfuseInv
<1>6. CASE efResult = "ok" /\ efTodo = read_buffer(here, left)
  <2>1. left > 0
    <3>1. left = 0 => read_buffer(here, left) = <<>>
      BY <1>3, ReadInSteps
    <3>2. left # 0
      <4>. HIDE DEF left, here
      <4>. QED  BY <1>2, <1>6, <3>1
    <3>. HIDE DEF left
    <3>. QED  BY <1>3, <3>2
  <2>2. CASE here < OtpBytes
    <3>1. /\ Head(efTodo) = <<"magic", "read">>
          /\ Tail(efTodo) = << <<"load", here>> >> \o read_buffer(here + 1, left - 1)
      BY <1>3, <1>6, <2>1, <2>2, ReadBegins
    <3>2. Head(efTodo)[1] = "magic" /\ Head(efTodo)[2] = "read"
      BY <3>1
    <3>3. /\ efTodo' = Tail(efTodo) /\ efResult' = efResult /\ efMode' = "read"
          /\ UNCHANGED <<efBuffer, efAvdd, efOtp>>
      BY <3>2 DEF EfAccess
    <3>4. here \in Addresses
      BY <1>3, <2>2, EfuseAssumption DEF Addresses
    <3>. HIDE DEF here, left
    <3>. QED  BY <1>5, <1>6, <2>1, <3>1, <3>3, <3>4
  <2>3. CASE here >= OtpBytes
    <3>1. Head(efTodo) = <<"err", 0>>
      BY <1>3, <1>6, <2>1, <2>3, ReadBegins
    <3>2. Head(efTodo)[1] = "err"
      BY <3>1
    <3>3. /\ efTodo' = <<>> /\ efResult' = "out of range"
          /\ UNCHANGED <<efBuffer, efAvdd, efOtp>>
      BY <3>2 DEF EfAccess
    <3>. HIDE DEF here, left
    <3>. QED  BY <1>5, <2>1, <2>3, <3>3
  <2>. QED  BY <1>3, <2>2, <2>3, EfuseAssumption
<1>7. CASE /\ efResult = "ok" /\ left > 0 /\ here \in Addresses /\ efMode = "read"
           /\ efTodo = << <<"load", here>> >> \o read_buffer(here + 1, left - 1)
  <2>1. /\ Head(efTodo) = <<"load", here>>
        /\ Tail(efTodo) = read_buffer(here + 1, left - 1)
    BY <1>3, <1>7, ReadBegins
  <2>2. Head(efTodo)[1] = "load" /\ Head(efTodo)[2] = here
    BY <2>1
  <2>3. /\ efTodo' = Tail(efTodo) /\ efResult' = "ok"
        /\ UNCHANGED <<efAvdd, efOtp>>
        /\ efBuffer' = Append(efBuffer,
              extract_byte([lane \in 0..1 |-> efOtp[2 * word_index(here) + lane]], here))
    BY <1>7, <2>2 DEF EfAccess
  <2>4. efBuffer' = Append(efBuffer, efOtp[here]) /\ efOtp[here] \in SUBSET OtpBits
    BY <1>4, <1>7, <2>3, ByteOfWord
  <2>5. /\ efBuffer' \in Seq(SUBSET OtpBits) /\ Len(efBuffer') = k + 1
        /\ \A j \in 1..k : efBuffer'[j] = efBuffer[j]
        /\ efBuffer'[k + 1] = efOtp[here]
    BY <1>3, <2>4, OneAfter
  <2>6. /\ k + 1 <= efCall.count /\ at + (k + 1) = here + 1
        /\ efCall.count - (k + 1) = left - 1 /\ at + (k + 1) - 1 = here
    <3>1. ASSUME NEW x \in Nat, NEW y \in Nat, NEW z \in Nat, z - x > 0
          PROVE  /\ x + 1 <= z /\ y + (x + 1) = (y + x) + 1
                 /\ z - (x + 1) = (z - x) - 1 /\ y + (x + 1) - 1 = y + x
      BY <3>1
    <3>. QED  BY <1>3, <1>7, <3>1
  <2>7. \A j \in 1..(k + 1) : at + j - 1 \in Addresses /\ efBuffer'[j] = efOtp[at + j - 1]
    <3>. SUFFICES ASSUME NEW j \in 1..(k + 1)
                  PROVE  at + j - 1 \in Addresses /\ efBuffer'[j] = efOtp[at + j - 1]
      OBVIOUS
    <3>1. CASE j = k + 1
      BY <1>7, <2>5, <2>6, <3>1
    <3>2. CASE j # k + 1
      <4>1. j \in 1..k
        BY <1>3, <3>2
      <4>. QED  BY <1>3, <2>5, <4>1
    <3>. QED  BY <3>1, <3>2
  <2>8. efTodo' = read_buffer(at + (k + 1), efCall.count - (k + 1))
    BY <2>1, <2>3, <2>6
  <2>9. ReadGoesOn'
    BY <1>2, <1>3, <2>3, <2>5, <2>6, <2>7, <2>8 DEF ReadGoesOn
  <2>. QED  BY <1>2, <1>4, <2>3, <2>9 DEF EfuseInv
<1>8. CASE efTodo = <<>>
  BY <1>2, <1>8
<1>. QED
  BY <1>1, <1>6, <1>7, <1>8 DEF ReadGoesOn

\* So does a write.
LEMMA WriteAccess ==
    ASSUME EfuseInv, EfAccess, efCall.op = "write"
    PROVE  EfuseInv'
<1>1. PICK a \in Addresses, value \in SUBSET OtpBits : WriteGoesOn(a, value)
  BY DEF EfuseInv
<1>. DEFINE w == write_byte(a, value)
<1>2. efTodo # <<>> /\ efCall' = efCall /\ efAsked' = efAsked
  BY DEF EfAccess
<1>3. efOtp \in [Addresses -> SUBSET OtpBits] /\ efAsked \in [Addresses -> SUBSET OtpBits]
  BY DEF EfuseInv
<1>4. ASSUME WriteGoesOn(a, value)', efOtp' \in [Addresses -> SUBSET OtpBits]
      PROVE  EfuseInv'
  BY <1>2, <1>3, <1>4 DEF EfuseInv
<1>5. /\ w[1] = <<"magic", "write">> /\ w[2] = <<"avdd", "rising">> /\ w[3] = <<"delay", 0>>
      /\ w[4] = <<"program", <<a, value>> >> /\ w[5] = <<"avdd", "falling">>
      /\ w[6] = <<"delay", 0>> /\ w = <<w[1], w[2], w[3], w[4], w[5], w[6]>>
  BY DEF write_byte
<1>. HIDE DEF w
<1>6. CASE efAsked = Burnt(a, value) /\ efTodo = w /\ efAvdd = "down"
  <2>1. Head(efTodo) = w[1] /\ Tail(efTodo) = <<w[2], w[3], w[4], w[5], w[6]>>
    BY <1>6 DEF w, write_byte
  <2>2. Head(efTodo)[1] = "magic" /\ Head(efTodo)[2] = "write"
    BY <1>5, <2>1
  <2>3. efTodo' = Tail(efTodo) /\ efMode' = "write" /\ UNCHANGED <<efAvdd, efOtp>>
    BY <2>2 DEF EfAccess
  <2>4. WriteGoesOn(a, value)'
    BY <1>2, <1>6, <2>1, <2>3 DEF WriteGoesOn, Burnt, w
  <2>. QED  BY <1>3, <1>4, <2>3, <2>4
<1>7. CASE /\ efAsked = Burnt(a, value) /\ efMode = "write"
           /\ efTodo = <<w[2], w[3], w[4], w[5], w[6]>> /\ efAvdd = "down"
  <2>1. Head(efTodo) = w[2] /\ Tail(efTodo) = <<w[3], w[4], w[5], w[6]>>
    BY <1>7
  <2>2. Head(efTodo)[1] = "avdd" /\ Head(efTodo)[2] = "rising"
    BY <1>5, <2>1
  <2>3. /\ efTodo' = Tail(efTodo) /\ efMode' = "write" /\ efAvdd' = "rising"
        /\ UNCHANGED efOtp
    BY <1>7, <2>2 DEF EfAccess
  <2>4. WriteGoesOn(a, value)'
    BY <1>2, <1>7, <2>1, <2>3 DEF WriteGoesOn, Burnt, w
  <2>. QED  BY <1>3, <1>4, <2>3, <2>4
<1>8. CASE /\ efAsked = Burnt(a, value) /\ efMode = "write"
           /\ efTodo = <<w[3], w[4], w[5], w[6]>> /\ efAvdd = "rising"
  <2>1. Head(efTodo) = w[3] /\ Tail(efTodo) = <<w[4], w[5], w[6]>>
    BY <1>8
  <2>2. Head(efTodo)[1] = "delay"
    BY <1>5, <2>1
  <2>3. /\ efTodo' = Tail(efTodo) /\ efMode' = "write" /\ efAvdd' = "up"
        /\ UNCHANGED efOtp
    BY <1>8, <2>2 DEF EfAccess
  <2>4. WriteGoesOn(a, value)'
    BY <1>2, <1>8, <2>1, <2>3 DEF WriteGoesOn, Burnt, w
  <2>. QED  BY <1>3, <1>4, <2>3, <2>4
<1>9. CASE /\ efAsked = Burnt(a, value) /\ efMode = "write"
           /\ efTodo = <<w[4], w[5], w[6]>> /\ efAvdd = "up"
  <2>1. Head(efTodo) = w[4] /\ Tail(efTodo) = <<w[5], w[6]>>
    BY <1>9
  <2>2. /\ Head(efTodo)[1] = "program" /\ Head(efTodo)[2] = <<a, value>>
    BY <1>5, <2>1
  <2>3. /\ efTodo' = Tail(efTodo) /\ UNCHANGED efAvdd
        /\ efOtp' = [b \in Addresses |->
                       IF word_index(b) = word_index(a)
                       THEN efOtp[b] \cup pack_byte(value, a)[b % 2] ELSE efOtp[b]]
    <3>1. efTodo' = Tail(efTodo) /\ UNCHANGED efAvdd
      BY <1>9, <2>2 DEF EfAccess
    <3>2. Head(efTodo)[2][1] = a /\ Head(efTodo)[2][2] = value
      BY <2>2
    <3>3. efOtp' = [b \in Addresses |->
                      IF word_index(b) = word_index(Head(efTodo)[2][1])
                      THEN efOtp[b] \cup
                             pack_byte(Head(efTodo)[2][2], Head(efTodo)[2][1])[b % 2]
                      ELSE efOtp[b]]
      BY <1>9, <2>2 DEF EfAccess
    <3>. QED  BY <3>1, <3>2, <3>3
  <2>4. efOtp' = efAsked
    BY <1>3, <1>9, <2>3, OneByteBurnt
  <2>5. WriteGoesOn(a, value)'
    BY <1>2, <1>9, <2>1, <2>3, <2>4 DEF WriteGoesOn, w
  <2>. QED  BY <1>3, <1>4, <2>4, <2>5
<1>10. CASE efAsked = efOtp /\ efTodo = <<w[5], w[6]>> /\ efAvdd = "up"
  <2>1. Head(efTodo) = w[5] /\ Tail(efTodo) = <<w[6]>>
    BY <1>10
  <2>2. Head(efTodo)[1] = "avdd" /\ Head(efTodo)[2] = "falling"
    BY <1>5, <2>1
  <2>3. efTodo' = Tail(efTodo) /\ efAvdd' = "falling" /\ UNCHANGED efOtp
    BY <2>2 DEF EfAccess
  <2>4. WriteGoesOn(a, value)'
    BY <1>2, <1>10, <2>1, <2>3 DEF WriteGoesOn, w
  <2>. QED  BY <1>3, <1>4, <2>3, <2>4
<1>11. CASE efAsked = efOtp /\ efTodo = <<w[6]>> /\ efAvdd = "falling"
  <2>1. Head(efTodo) = w[6] /\ Tail(efTodo) = <<>>
    BY <1>11
  <2>2. Head(efTodo)[1] = "delay"
    BY <1>5, <2>1
  <2>3. efTodo' = <<>> /\ efAvdd' = "down" /\ UNCHANGED efOtp
    BY <1>11, <2>1, <2>2 DEF EfAccess
  <2>4. WriteGoesOn(a, value)'
    BY <1>2, <1>11, <2>3 DEF WriteGoesOn, w
  <2>. QED  BY <1>3, <1>4, <2>3, <2>4
<1>. QED
  BY <1>1, <1>2, <1>6, <1>7, <1>8, <1>9, <1>10, <1>11 DEF WriteGoesOn, w

\* Nobody else touches a call's registers, cells or voltage.
LEMMA EfSteps == EfuseInv /\ (EfNext \/ UNCHANGED efVars) => EfuseInv'
<1>. SUFFICES ASSUME EfuseInv, EfNext \/ UNCHANGED efVars
              PROVE  EfuseInv'
  OBVIOUS
<1>1. CASE EfCalls
  BY <1>1, EfCallsKeep
<1>2. CASE EfAccess
  <2>1. efTodo # <<>>
    BY <1>2 DEF EfAccess
  <2>. QED  BY <1>2, <2>1, ReadAccess, WriteAccess DEF EfuseInv
<1>3. CASE UNCHANGED efVars
  BY <1>3 DEF efVars, EfuseInv, ReadGoesOn, WriteGoesOn, Burnt
<1>. QED
  BY <1>1, <1>2, <1>3 DEF EfNext

\* A context that has selected a slot finds it selected when it looks at the status: main
\* goes on only when the handler is through, and the handler does not come in between.
SlotInv ==
    /\ DOMAIN kmTodo = Contexts /\ DOMAIN kmAnswer = Contexts
    /\ \A c \in Contexts :
         \/ kmTodo[c] = <<>>
         \/ \E s \in Keyslots :
              \/ kmTodo[c] = is_keyslot_locked(s)
              \/ /\ kmTodo[c] = << <<"status", s>> >> /\ kmSelected = s
                 /\ c = "main" => kmTodo["handler"] = <<>>
    /\ LockAnswerOwn

LEMMA KmStarts == KmInit => SlotInv
BY DEF KmInit, SlotInv, LockAnswerOwn, Contexts

LEMMA KmSteps ==
    ASSUME ~ KmShared, SlotInv, KmNext \/ UNCHANGED kmVars
    PROVE  SlotInv'
<1>1. ASSUME NEW c \in Contexts, KmCall(c)
      PROVE  SlotInv'
  <2>1. PICK s \in Keyslots : kmTodo' = [kmTodo EXCEPT ![c] = is_keyslot_locked(s)]
    BY <1>1 DEF KmCall
  <2>2. /\ kmTodo[c] = <<>> /\ (c = "main" \/ kmTodo["main"] = <<>>)
        /\ UNCHANGED <<kmSelected, kmLocked, kmAnswer>>
    BY <1>1 DEF KmCall
  <2>3. \A d \in Contexts : kmTodo'[d] = IF d = c THEN is_keyslot_locked(s) ELSE kmTodo[d]
    BY <2>1 DEF SlotInv
  <2>4. \A d \in Contexts : d = "main" \/ d = "handler"
    BY DEF Contexts
  <2>5. c = "handler" => kmTodo'["main"] = <<>>
    BY <2>2, <2>3 DEF Contexts
  <2>6. c = "main" => kmTodo'["handler"] = kmTodo["handler"]
    BY <2>3 DEF Contexts
  <2>7. \A d \in Contexts :
          \/ kmTodo'[d] = <<>>
          \/ \E z \in Keyslots :
               \/ kmTodo'[d] = is_keyslot_locked(z)
               \/ /\ kmTodo'[d] = << <<"status", z>> >> /\ kmSelected' = z
                  /\ d = "main" => kmTodo'["handler"] = <<>>
    <3>1. SUFFICES ASSUME NEW d \in Contexts, d # c
                   PROVE  \/ kmTodo'[d] = <<>>
                          \/ \E z \in Keyslots :
                               \/ kmTodo'[d] = is_keyslot_locked(z)
                               \/ /\ kmTodo'[d] = << <<"status", z>> >> /\ kmSelected' = z
                                  /\ d = "main" => kmTodo'["handler"] = <<>>
      BY <2>3
    <3>2. CASE d = "main"
      BY <2>4, <2>5, <3>1, <3>2
    <3>3. CASE d # "main"
      BY <2>2, <2>3, <3>1, <3>3 DEF SlotInv
    <3>. QED  BY <3>2, <3>3
  <2>8. DOMAIN kmTodo' = Contexts /\ DOMAIN kmAnswer' = Contexts /\ LockAnswerOwn'
    BY <2>1, <2>2 DEF SlotInv, LockAnswerOwn
  <2>. QED  BY <2>7, <2>8 DEF SlotInv
<1>2. ASSUME NEW c \in Contexts, KmAccess(c)
      PROVE  SlotInv'
  <2>1. /\ kmTodo[c] # <<>> /\ (c = "main" => kmTodo["handler"] = <<>>)
        /\ kmTodo' = [kmTodo EXCEPT ![c] = Tail(@)] /\ UNCHANGED kmLocked
    BY <1>2 DEF KmAccess
  <2>2. /\ \A d \in Contexts \ {c} : kmTodo'[d] = kmTodo[d]
        /\ kmTodo'[c] = Tail(kmTodo[c]) /\ DOMAIN kmTodo' = Contexts
    BY <2>1 DEF SlotInv
  <2>3. PICK s \in Keyslots :
          \/ kmTodo[c] = is_keyslot_locked(s)
          \/ kmTodo[c] = << <<"status", s>> >> /\ kmSelected = s
    BY <2>1 DEF SlotInv
  <2>4. \A d \in Contexts : d = "main" \/ d = "handler"
    BY DEF Contexts
\* The other context has nothing between its two accesses.
  <2>5. \A d \in Contexts \ {c} :
          kmTodo[d] = <<>> \/ \E z \in Keyslots : kmTodo[d] = is_keyslot_locked(z)
    <3>1. CASE c = "main"
      BY <2>1, <2>4, <3>1
    <3>2. CASE c = "handler"
      BY <2>1, <2>4, <3>2 DEF SlotInv
    <3>. QED  BY <2>4, <3>1, <3>2
  <2>6. CASE kmTodo[c] = is_keyslot_locked(s)
    <3>1. Head(kmTodo[c])[1] = "select" /\ Head(kmTodo[c])[2] = s
      BY <2>6 DEF is_keyslot_locked
    <3>2. kmTodo'[c] = << <<"status", s>> >>
      BY <2>2, <2>6 DEF is_keyslot_locked
    <3>3. kmSelected' = s /\ kmAnswer' = kmAnswer
      BY <1>2, <3>1 DEF KmAccess
    <3>4. c = "main" => kmTodo'["handler"] = <<>>
      BY <2>1, <2>2 DEF Contexts
    <3>5. \A d \in Contexts :
            \/ kmTodo'[d] = <<>>
            \/ \E z \in Keyslots :
                 \/ kmTodo'[d] = is_keyslot_locked(z)
                 \/ /\ kmTodo'[d] = << <<"status", z>> >> /\ kmSelected' = z
                    /\ d = "main" => kmTodo'["handler"] = <<>>
      BY <2>2, <2>5, <3>2, <3>3, <3>4
    <3>6. LockAnswerOwn'
      BY <3>3 DEF SlotInv, LockAnswerOwn
    <3>. QED  BY <2>2, <3>3, <3>5, <3>6 DEF SlotInv
  <2>7. CASE kmTodo[c] = << <<"status", s>> >> /\ kmSelected = s
    <3>1. Head(kmTodo[c])[1] = "status" /\ Head(kmTodo[c])[2] = s
      BY <2>7
    <3>2. kmTodo'[c] = <<>>
      BY <2>2, <2>7
    <3>3. /\ kmSelected' = kmSelected
          /\ kmAnswer' = [kmAnswer EXCEPT ![c] = <<s, s \in kmLocked, s \in kmLocked>>]
      BY <1>2, <2>7, <3>1 DEF KmAccess
    <3>4. LockAnswerOwn' /\ DOMAIN kmAnswer' = Contexts
      <4>1. kmAnswer'[c][2] = kmAnswer'[c][3]
        BY <3>3 DEF SlotInv
      <4>2. \A d \in Contexts \ {c} : kmAnswer'[d] = kmAnswer[d]
        BY <3>3 DEF SlotInv
      <4>3. \A d \in Contexts : kmAnswer'[d] # <<>> => kmAnswer'[d][2] = kmAnswer'[d][3]
        BY <4>1, <4>2 DEF SlotInv, LockAnswerOwn
      <4>. QED  BY <3>3, <4>3 DEF SlotInv, LockAnswerOwn
    <3>. QED  BY <2>2, <2>5, <3>2, <3>4 DEF SlotInv
  <2>. QED  BY <2>3, <2>6, <2>7
<1>3. ASSUME NEW s \in Keyslots, lock_keyslot(s)
      PROVE  SlotInv'
  BY <1>3 DEF lock_keyslot, SlotInv, LockAnswerOwn
<1>4. CASE UNCHANGED kmVars
  BY <1>4 DEF kmVars, SlotInv, LockAnswerOwn
<1>. QED
  BY <1>1, <1>2, <1>3, <1>4 DEF KmNext

\* EfuseInv and SlotInv are enough.
LEMMA EfusePromise == EfuseInv /\ SlotInv => EfuseSafe
<1>. SUFFICES ASSUME EfuseInv, SlotInv
              PROVE  EfuseSafe
  OBVIOUS
<1>1. EfuseAsAsked
  <2>. SUFFICES ASSUME efTodo = <<>>
                PROVE  /\ efOtp = efAsked
                       /\ efCall.op = "read" =>
                            /\ efResult = "ok"
                                 <=> efCall.count = 0 \/ efCall.at + efCall.count <= OtpBytes
                            /\ efResult = "ok" => Len(efBuffer) = efCall.count
                            /\ \A k \in 1..Len(efBuffer) :
                                 efBuffer[k] = efOtp[efCall.at + k - 1]
    BY DEF EfuseAsAsked
  <2>1. efOtp = efAsked
    BY EfBetween
  <2>. SUFFICES ASSUME efCall.op = "read"
                PROVE  /\ efResult = "ok"
                            <=> efCall.count = 0 \/ efCall.at + efCall.count <= OtpBytes
                       /\ efResult = "ok" => Len(efBuffer) = efCall.count
                       /\ \A k \in 1..Len(efBuffer) :
                            efBuffer[k] = efOtp[efCall.at + k - 1]
    BY <2>1
  <2>. DEFINE k == Len(efBuffer)
              at == efCall.at
              count == efCall.count
  <2>2. ReadGoesOn
    BY DEF EfuseInv
  <2>3. /\ efBuffer \in Seq(SUBSET OtpBits) /\ at \in Addresses /\ count \in Nat /\ k <= count
        /\ \A j \in 1..k : at + j - 1 \in Addresses /\ efBuffer[j] = efOtp[at + j - 1]
    BY <2>2, Zenon DEF ReadGoesOn
  <2>4. k \in Nat /\ at \in Nat /\ at + k \in Nat /\ count - k \in Nat
    <3>1. k \in Nat
      BY <2>3, LenProperties
    <3>. HIDE DEF k, at, count
    <3>. QED  BY <2>3, <3>1, EfuseAssumption DEF Addresses
  <2>5. \/ efResult = "ok" /\ count - k = 0
        \/ efResult = "out of range" /\ count - k > 0 /\ at + k >= OtpBytes
    <3>1. \/ efResult = "ok" /\ efTodo = read_buffer(at + k, count - k)
          \/ /\ count - k > 0
             /\ efTodo = << <<"load", at + k>> >> \o read_buffer(at + k + 1, count - k - 1)
          \/ efResult = "out of range" /\ count - k > 0 /\ at + k >= OtpBytes
      BY <2>2 DEF ReadGoesOn
    <3>0. at + k \in Nat /\ count - k \in Nat
      BY <2>4
    <3>. HIDE DEF k, at, count
    <3>2. count - k > 0 => /\ read_buffer(at + k, count - k) # <<>>
                           /\ << <<"load", at + k>> >>
                                \o read_buffer(at + k + 1, count - k - 1) # <<>>
      BY <3>0, ReadBegins
    <3>3. CASE count - k > 0
      <4>1. efTodo = <<>>
        OBVIOUS
      <4>. QED  BY <3>1, <3>2, <3>3, <4>1, Zenon
    <3>4. CASE ~ (count - k > 0)
      <4>1. count - k = 0
        BY <3>0, <3>4
      <4>. QED  BY <3>1, <3>4, <4>1
    <3>. QED  BY <3>3, <3>4
  <2>6. \A j \in 1..k : at + j <= OtpBytes
    <3>. HIDE DEF k, at, count
    <3>1. OtpBytes \in Nat
      BY EfuseAssumption
    <3>. SUFFICES ASSUME NEW j \in 1..k PROVE at + j <= OtpBytes
      OBVIOUS
    <3>2. at + j - 1 \in 0..(OtpBytes - 1)
      BY <2>3 DEF Addresses
    <3>3. at \in Nat /\ j \in Nat
      BY <2>4
    <3>. QED  BY <3>1, <3>2, <3>3
  <2>. HIDE DEF k, at, count
  <2>7. efResult = "ok" <=> count = 0 \/ at + count <= OtpBytes
    <3>1. CASE efResult = "ok" /\ count - k = 0
      <4>1. count = k
        BY <2>3, <2>4, <3>1
      <4>2. count # 0 => count \in 1..k
        BY <2>3, <4>1
      <4>. QED  BY <2>6, <3>1, <4>2
    <3>2. CASE efResult = "out of range" /\ count - k > 0 /\ at + k >= OtpBytes
      <4>1. count # 0 /\ ~ (at + count <= OtpBytes)
        <5>1. count \in Nat /\ k \in Nat /\ at \in Nat /\ OtpBytes \in Nat
          BY <2>3, <2>4, EfuseAssumption
        <5>2. ASSUME NEW x \in Nat, NEW y \in Nat, NEW z \in Nat, NEW n \in Nat,
                     z - x > 0, y + x >= n
              PROVE  z # 0 /\ y + z > n /\ ~ (y + z <= n)
          BY <5>2
        <5>3. count - k > 0 /\ at + k >= OtpBytes
          BY <3>2
        <5>. QED  BY <5>1, <5>2, <5>3
      <4>. QED  BY <3>2, <4>1
    <3>. QED  BY <2>5, <3>1, <3>2
  <2>8. efResult = "ok" => k = count
    BY <2>3, <2>4, <2>5
  <2>. QED  BY <2>3, <2>7, <2>8 DEF k, at, count
<1>2. VoltageDown
  <2>1. efTodo = <<>> => efAvdd = "down"
    BY EfBetween
  <2>2. efCall.op = "read" => efAvdd = "down"
    BY DEF EfuseInv, ReadGoesOn
  <2>. QED  BY <2>1, <2>2 DEF VoltageDown
<1>3. LockAnswerOwn
  BY DEF SlotInv
<1>. QED  BY <1>1, <1>2, <1>3 DEF EfuseSafe

\* Whatever the size of the array, the bits of a byte and the length of a read: a read
\* returns the cells of its addresses or the error of the first one outside, the cells hold
\* the bits that were given, the voltage is down but for a write, and a lock answer is its
\* slot's, as long as one context holds the driver (efuse.rs:133-200, km.rs:36-57).
THEOREM CellsAsAsked ==
    ASSUME ~ KmShared
    PROVE  EfuseSpec => []EfuseSafe
<1>1. EfInit /\ KmInit => EfuseInv /\ SlotInv
  BY EfStarts, KmStarts
<1>2. EfuseInv /\ SlotInv /\ [EfuseNext]_<<efVars, kmVars>> => EfuseInv' /\ SlotInv'
  <2>. SUFFICES ASSUME EfuseInv, SlotInv, [EfuseNext]_<<efVars, kmVars>>
                PROVE  EfuseInv' /\ SlotInv'
    OBVIOUS
  <2>1. EfNext \/ UNCHANGED efVars
    BY DEF EfuseNext
  <2>2. KmNext \/ UNCHANGED kmVars
    BY DEF EfuseNext
  <2>. QED  BY <2>1, <2>2, EfSteps, KmSteps
<1>. QED
  BY <1>1, <1>2, EfusePromise, PTL DEF EfuseSpec

-----------------------------------------------------------------------------
(* I2s: a driver's registers are those its constructor was asked for, its clock never  *)
(* runs from an unset divider, and its sides are kept apart.                           *)

\* The writes of the last constructor, and how many of them are done.
I2sPlan == IF i2sRole = "master" THEN new_master(i2sAsked) ELSE new_slave(i2sAsked)
I2sDone == Len(I2sPlan) - Len(i2sTodo)

\* What is left is the end of the plan; the register of every write but the first, which
\* gates the clock, has the value written.
I2sUnderWay ==
    /\ i2sRole \in {"none", "master", "slave"}
    /\ i2sRole = "none" => i2sTodo = <<>>
    /\ i2sRole # "none" =>
         /\ i2sAsked \in SlaveConfig
         /\ \E T : i2sTodo \in Seq(T)
         /\ I2sDone >= 0
         /\ \A i \in 1..Len(i2sTodo) : i2sTodo[i] = I2sPlan[I2sDone + i]
         /\ I2sDone > 0 => i2sClocked
         /\ \A i \in 2..I2sDone :
              I2sPlan[i][1] \in DOMAIN i2sRegs => i2sRegs[I2sPlan[i][1]] = I2sPlan[i][2]

I2sRegisters ==
    {"mode", "fs", "ratio", "bclk", "crg", "width", "threshold", "loop", "signed"}

\* A side's FIFOs have that side's samples.
SidesKept ==
    /\ i2sFifo.txleft \in Seq({"left"}) /\ i2sFifo.rxleft \in Seq({"left"})
    /\ i2sFifo.txright \in Seq({"right"}) /\ i2sFifo.rxright \in Seq({"right"})
    /\ i2sFifo = [txleft |-> i2sFifo.txleft, txright |-> i2sFifo.txright,
                  rxleft |-> i2sFifo.rxleft, rxright |-> i2sFifo.rxright]

I2sInv ==
    /\ DOMAIN i2sRegs = I2sRegisters /\ i2sClocked \in BOOLEAN
    /\ I2sUnderWay /\ NoZeroDivider /\ SidesKept /\ i2sOn = i2sWanted

\* The bits of a frame.
LEMMA FrameBits ==
    ASSUME NEW c \in SlaveConfig
    PROVE  LET bits == c.width * c.channels
           IN  bits \in 32..512 /\ 2 * (bits \div 2) = bits
<1>1. c.width \in {16, 18, 20, 24, 32} /\ c.channels \in {2, 4, 8, 16}
  BY I2sAssumption DEF SlaveConfig, ChannelCount, DataWidth
<1>2. CASE c.channels = 2
  BY <1>1, <1>2
<1>3. CASE c.channels = 4
  BY <1>1, <1>3
<1>4. CASE c.channels = 8
  BY <1>1, <1>4
<1>5. CASE c.channels = 16
  BY <1>1, <1>5
<1>. QED
  BY <1>1, <1>2, <1>3, <1>4, <1>5

\* The divider derived for a frame is positive, and no other is nearer.
Nearest(bits) ==
    LET bclk == (2 * 12288 + 32 * bits) \div (2 * 32 * bits)
    IN  IF bclk = 0 THEN 1 ELSE bclk

LEMMA NearestDivider ==
    ASSUME NEW bits \in 32..512
    PROVE  /\ Nearest(bits) > 0
           /\ \A other \in 1..127 : Off(Nearest(bits), bits) <= Off(other, bits)
<1>. DEFINE P == 32 * bits
            d == (2 * 12288 + P) \div (2 * P)
<1>1. P \in Nat /\ 1024 <= P /\ P <= 16384
  OBVIOUS
<1>2. 2 * P = 2 * 32 * bits
  OBVIOUS
<1>. HIDE DEF P
<1>3. /\ d \in Nat /\ d * (2 * P) <= 2 * 12288 + P
      /\ 2 * 12288 + P < d * (2 * P) + 2 * P
  <2>1. ASSUME NEW n \in Nat, NEW m \in Nat \ {0}
        PROVE  n \div m \in Nat /\ (n \div m) * m <= n /\ n < (n \div m) * m + m
    <3>1. n \div m \in Nat /\ n = (n \div m) * m + (n % m) /\ n % m \in 0..(m - 1)
      BY <2>1
    <3>. DEFINE q == (n \div m) * m
    <3>2. q \in Int
      BY <3>1
    <3>. HIDE DEF q
    <3>. QED  BY <3>1, <3>2 DEF q
  <2>2. 2 * 12288 + P \in Nat /\ 2 * P \in Nat \ {0}
    BY <1>1
  <2>. QED  BY <2>1, <2>2
<1>. HIDE DEF d
<1>4. d # 0
  <2>. DEFINE e == d * (2 * P)
  <2>1. e \in Int /\ (d = 0 => e = 0)
    BY <1>1, <1>3
  <2>2. 2 * 12288 + P < e + 2 * P
    BY <1>3
  <2>. HIDE DEF e
  <2>. QED  BY <1>1, <2>1, <2>2
<1>5. ASSUME NEW other \in 1..127
      PROVE  Off(d, bits) <= Off(other, bits)
  <2>. DEFINE u == d * P
              v == other * P
  <2>1. u \in Nat /\ v \in Nat
    BY <1>1, <1>3
  <2>2. 2 * u <= 24576 + P /\ 24576 < 2 * u + P
    <3>1. d * (2 * P) = 2 * u
      BY <1>1, <1>3
    <3>. HIDE DEF u
    <3>. QED  BY <1>1, <1>3, <2>1, <3>1
  <2>3. v = u \/ v + P <= u \/ u + P <= v
    <3>1. CASE other = d
      BY <3>1
    <3>2. CASE other + 1 <= d
      <4>1. (other + 1) * P <= d * P
        BY <1>1, <1>3, <3>2
      <4>. QED  BY <1>1, <1>3, <4>1
    <3>3. CASE d + 1 <= other
      <4>1. (d + 1) * P <= other * P
        BY <1>1, <1>3, <3>3
      <4>. QED  BY <1>1, <1>3, <4>1
    <3>. QED  BY <1>3, <3>1, <3>2, <3>3
  <2>4. d * 32 * bits = u /\ other * 32 * bits = v
    BY <1>3 DEF P
  <2>. HIDE DEF u, v
  <2>5. /\ Off(d, bits) = IF u > 12288 THEN u - 12288 ELSE 12288 - u
        /\ Off(other, bits) = IF v > 12288 THEN v - 12288 ELSE 12288 - v
    BY <2>4 DEF Off
  <2>. QED  BY <1>1, <2>1, <2>2, <2>3, <2>5
<1>6. Nearest(bits) = d
  <2>1. (2 * 12288 + 32 * bits) \div (2 * 32 * bits) = d
    BY <1>2 DEF d, P
  <2>. DEFINE e == (2 * 12288 + 32 * bits) \div (2 * 32 * bits)
  <2>2. Nearest(bits) = IF e = 0 THEN 1 ELSE e
    BY DEF Nearest
  <2>3. e = d
    BY <2>1
  <2>. HIDE DEF e
  <2>. QED  BY <1>4, <2>2, <2>3
<1>. QED
  BY <1>3, <1>4, <1>5, <1>6

\* The writes that every constructor ends with.
LEMMA CommonWrites ==
    ASSUME NEW c
    PROVE  LET w == Common(c)
           IN  /\ \E T : w \in Seq(T)
               /\ Len(w) = 5
               /\ w[1] = <<"width", WidthBits(c)>> /\ w[2] = <<"threshold", <<c.tx, c.rx>> >>
               /\ w[3] = <<"loop", c.loop>> /\ w[4] = <<"signed", TRUE>>
               /\ w[5] = <<"reset", Sides>>
<1>. DEFINE w == Common(c)
<1>1. w \in Seq({w[1], w[2], w[3], w[4], w[5]})
  BY DEF Common
<1>2. /\ Len(w) = 5
      /\ w[1] = <<"width", WidthBits(c)>> /\ w[2] = <<"threshold", <<c.tx, c.rx>> >>
      /\ w[3] = <<"loop", c.loop>> /\ w[4] = <<"signed", TRUE>>
      /\ w[5] = <<"reset", Sides>>
  BY DEF Common
<1>. HIDE DEF w
<1>3. \E T : w \in Seq(T)
  BY <1>1
<1>. QED
  BY <1>2, <1>3 DEF w

\* A sequence of writes and the writes common to all.
LEMMA WithCommon ==
    ASSUME NEW c, NEW S, NEW first \in Seq(S)
    PROVE  LET w == first \o Common(c)
           IN  /\ (\E T : w \in Seq(T)) /\ Len(w) = Len(first) + 5
               /\ \A i \in 1..Len(first) : w[i] = first[i]
               /\ \A i \in 1..5 : w[Len(first) + i] = Common(c)[i]
<1>1. PICK last, R : last = Common(c) /\ last \in Seq(R)
  BY CommonWrites
<1>2. PICK T : T = S \cup R
  OBVIOUS
<1>3. first \in Seq(T) /\ last \in Seq(T)
  BY <1>1, <1>2
<1>4. /\ first \o last \in Seq(T) /\ Len(first \o last) = Len(first) + Len(last)
      /\ \A i \in 1..Len(first) : (first \o last)[i] = first[i]
      /\ \A i \in 1..Len(last) : (first \o last)[Len(first) + i] = last[i]
  BY <1>3, Joined
<1>5. Len(last) = 5
  BY <1>1, CommonWrites
<1>. QED
  BY <1>1, <1>4, <1>5

\* The writes of a master, one by one.
LEMMA MasterWrites ==
    ASSUME NEW c
    PROVE  LET w == new_master(c)
               d == derive_dividers(c.width, c.channels)
           IN  /\ (\E T : w \in Seq(T)) /\ Len(w) = 11
               /\ w[1] = <<"clock", TRUE>> /\ w[2] = <<"mode", ModeBits(c, TRUE)>>
               /\ w[3] = <<"fs", d.fs>> /\ w[4] = <<"ratio", d.ratio>>
               /\ w[5] = <<"bclk", d.bclk>> /\ w[6] = <<"crg", TRUE>>
               /\ w[7] = <<"width", WidthBits(c)>> /\ w[8] = <<"threshold", <<c.tx, c.rx>> >>
               /\ w[9] = <<"loop", c.loop>> /\ w[10] = <<"signed", TRUE>>
               /\ w[11] = <<"reset", Sides>>
<1>. DEFINE d == derive_dividers(c.width, c.channels)
            w == new_master(c)
<1>1. PICK first, fs, ratio, bclk, mode :
        /\ fs = d.fs /\ ratio = d.ratio /\ bclk = d.bclk /\ mode = ModeBits(c, TRUE)
        /\ first = << <<"clock", TRUE>>, <<"mode", mode>>, <<"fs", fs>>,
                      <<"ratio", ratio>>, <<"bclk", bclk>>, <<"crg", TRUE>> >>
  OBVIOUS
<1>2. w = first \o Common(c)
  BY <1>1 DEF new_master
<1>. HIDE DEF d, w
<1>3. /\ (\E S : first \in Seq(S)) /\ Len(first) = 6
      /\ first[1] = <<"clock", TRUE>> /\ first[2] = <<"mode", mode>> /\ first[3] = <<"fs", fs>>
      /\ first[4] = <<"ratio", ratio>> /\ first[5] = <<"bclk", bclk>>
      /\ first[6] = <<"crg", TRUE>>
  <2>1. /\ Len(first) = 6
        /\ first[1] = <<"clock", TRUE>> /\ first[2] = <<"mode", mode>> /\ first[3] = <<"fs", fs>>
        /\ first[4] = <<"ratio", ratio>> /\ first[5] = <<"bclk", bclk>>
        /\ first[6] = <<"crg", TRUE>>
    BY <1>1
  <2>2. first \in Seq({<<"clock", TRUE>>, <<"mode", mode>>, <<"fs", fs>>,
                      <<"ratio", ratio>>, <<"bclk", bclk>>, <<"crg", TRUE>>})
    BY <1>1
  <2>3. \E S : first \in Seq(S)
    BY <2>2
  <2>. QED  BY <2>1, <2>3
<1>4. /\ (\E T : w \in Seq(T)) /\ Len(w) = 6 + 5 /\ \A i \in 1..6 : w[i] = first[i]
      /\ \A i \in 1..5 : w[6 + i] = Common(c)[i]
  <2>1. PICK S : first \in Seq(S)
    BY <1>3
  <2>2. /\ (\E T : w \in Seq(T)) /\ Len(w) = Len(first) + 5
        /\ \A i \in 1..Len(first) : w[i] = first[i]
        /\ \A i \in 1..5 : w[Len(first) + i] = Common(c)[i]
    BY <1>2, <2>1, WithCommon
  <2>3. Len(first) = 6
    BY <1>3
  <2>. QED  BY <2>2, <2>3
<1>5. /\ w[1] = first[1] /\ w[2] = first[2] /\ w[3] = first[3] /\ w[4] = first[4]
      /\ w[5] = first[5] /\ w[6] = first[6] /\ w[7] = Common(c)[1] /\ w[8] = Common(c)[2]
      /\ w[9] = Common(c)[3] /\ w[10] = Common(c)[4] /\ w[11] = Common(c)[5]
  <2>1. /\ w[6 + 1] = Common(c)[1] /\ w[6 + 2] = Common(c)[2] /\ w[6 + 3] = Common(c)[3]
        /\ w[6 + 4] = Common(c)[4] /\ w[6 + 5] = Common(c)[5]
    BY <1>4
  <2>2. /\ w[1] = first[1] /\ w[2] = first[2] /\ w[3] = first[3]
        /\ w[4] = first[4] /\ w[5] = first[5] /\ w[6] = first[6]
    BY <1>4
  <2>. QED  BY <2>1, <2>2
<1>6. /\ Common(c)[1] = <<"width", WidthBits(c)>>
      /\ Common(c)[2] = <<"threshold", <<c.tx, c.rx>> >>
      /\ Common(c)[3] = <<"loop", c.loop>> /\ Common(c)[4] = <<"signed", TRUE>>
      /\ Common(c)[5] = <<"reset", Sides>>
  BY CommonWrites
<1>7. /\ (\E T : w \in Seq(T)) /\ Len(w) = 11
      /\ w[1] = <<"clock", TRUE>> /\ w[2] = <<"mode", ModeBits(c, TRUE)>>
      /\ w[3] = <<"fs", d.fs>> /\ w[4] = <<"ratio", d.ratio>>
      /\ w[5] = <<"bclk", d.bclk>> /\ w[6] = <<"crg", TRUE>>
      /\ w[7] = <<"width", WidthBits(c)>> /\ w[8] = <<"threshold", <<c.tx, c.rx>> >>
      /\ w[9] = <<"loop", c.loop>> /\ w[10] = <<"signed", TRUE>>
      /\ w[11] = <<"reset", Sides>>
  <2>1. /\ Len(w) = 11
        /\ w[1] = <<"clock", TRUE>> /\ w[2] = <<"mode", ModeBits(c, TRUE)>>
        /\ w[3] = <<"fs", d.fs>> /\ w[4] = <<"ratio", d.ratio>>
        /\ w[5] = <<"bclk", d.bclk>> /\ w[6] = <<"crg", TRUE>>
    BY <1>1, <1>3, <1>4, <1>5
  <2>. QED  BY <1>4, <1>5, <1>6, <2>1
<1>. QED
  BY <1>7, Zenon DEF d, w

\* And of a slave.
LEMMA SlaveWrites ==
    ASSUME NEW c
    PROVE  LET w == new_slave(c)
           IN  /\ (\E T : w \in Seq(T)) /\ Len(w) = 8
               /\ w[1] = <<"clock", TRUE>> /\ w[2] = <<"mode", ModeBits(c, FALSE)>>
               /\ w[3] = <<"crg", FALSE>>
               /\ w[4] = <<"width", WidthBits(c)>> /\ w[5] = <<"threshold", <<c.tx, c.rx>> >>
               /\ w[6] = <<"loop", c.loop>> /\ w[7] = <<"signed", TRUE>>
               /\ w[8] = <<"reset", Sides>>
<1>. DEFINE w == new_slave(c)
<1>1. PICK first, mode :
        /\ mode = ModeBits(c, FALSE)
        /\ first = << <<"clock", TRUE>>, <<"mode", mode>>, <<"crg", FALSE>> >>
  OBVIOUS
<1>2. w = first \o Common(c)
  BY <1>1 DEF new_slave
<1>. HIDE DEF w
<1>3. /\ (\E S : first \in Seq(S)) /\ Len(first) = 3
      /\ first[1] = <<"clock", TRUE>> /\ first[2] = <<"mode", mode>>
      /\ first[3] = <<"crg", FALSE>>
  <2>1. /\ Len(first) = 3
        /\ first[1] = <<"clock", TRUE>> /\ first[2] = <<"mode", mode>>
        /\ first[3] = <<"crg", FALSE>>
    BY <1>1
  <2>2. first \in Seq({<<"clock", TRUE>>, <<"mode", mode>>, <<"crg", FALSE>>})
    BY <1>1
  <2>3. \E S : first \in Seq(S)
    BY <2>2
  <2>. QED  BY <2>1, <2>3
<1>4. /\ (\E T : w \in Seq(T)) /\ Len(w) = 3 + 5 /\ \A i \in 1..3 : w[i] = first[i]
      /\ \A i \in 1..5 : w[3 + i] = Common(c)[i]
  <2>1. PICK S : first \in Seq(S)
    BY <1>3
  <2>2. /\ (\E T : w \in Seq(T)) /\ Len(w) = Len(first) + 5
        /\ \A i \in 1..Len(first) : w[i] = first[i]
        /\ \A i \in 1..5 : w[Len(first) + i] = Common(c)[i]
    BY <1>2, <2>1, WithCommon
  <2>3. Len(first) = 3
    BY <1>3
  <2>. QED  BY <2>2, <2>3
<1>5. /\ w[1] = first[1] /\ w[2] = first[2] /\ w[3] = first[3]
      /\ w[4] = Common(c)[1] /\ w[5] = Common(c)[2]
      /\ w[6] = Common(c)[3] /\ w[7] = Common(c)[4] /\ w[8] = Common(c)[5]
  <2>1. /\ w[3 + 1] = Common(c)[1] /\ w[3 + 2] = Common(c)[2] /\ w[3 + 3] = Common(c)[3]
        /\ w[3 + 4] = Common(c)[4] /\ w[3 + 5] = Common(c)[5]
    BY <1>4
  <2>2. w[1] = first[1] /\ w[2] = first[2] /\ w[3] = first[3]
    BY <1>4
  <2>. QED  BY <2>1, <2>2
<1>6. /\ Common(c)[1] = <<"width", WidthBits(c)>>
      /\ Common(c)[2] = <<"threshold", <<c.tx, c.rx>> >>
      /\ Common(c)[3] = <<"loop", c.loop>> /\ Common(c)[4] = <<"signed", TRUE>>
      /\ Common(c)[5] = <<"reset", Sides>>
  BY CommonWrites
<1>7. /\ (\E T : w \in Seq(T)) /\ Len(w) = 8
      /\ w[1] = <<"clock", TRUE>> /\ w[2] = <<"mode", ModeBits(c, FALSE)>>
      /\ w[3] = <<"crg", FALSE>>
      /\ w[4] = <<"width", WidthBits(c)>> /\ w[5] = <<"threshold", <<c.tx, c.rx>> >>
      /\ w[6] = <<"loop", c.loop>> /\ w[7] = <<"signed", TRUE>>
      /\ w[8] = <<"reset", Sides>>
  <2>1. /\ Len(w) = 8
        /\ w[1] = <<"clock", TRUE>> /\ w[2] = <<"mode", ModeBits(c, FALSE)>>
        /\ w[3] = <<"crg", FALSE>>
    BY <1>1, <1>3, <1>4, <1>5
  <2>. QED  BY <1>4, <1>5, <1>6, <2>1
<1>. QED
  BY <1>7, Zenon DEF w

\* The plan writes every register once, the clock's gate first; no divider is zero, and the
\* clock generator starts after the dividers.
LEMMA PlanIsSound ==
    ASSUME i2sRole \in {"master", "slave"}, i2sAsked \in SlaveConfig
    PROVE  /\ \E T : I2sPlan \in Seq(T)
           /\ Len(I2sPlan) = IF i2sRole = "master" THEN 11 ELSE 8
           /\ \A i, j \in 1..Len(I2sPlan) : I2sPlan[i][1] = I2sPlan[j][1] => i = j
           /\ I2sPlan[1][1] = "clock"
           /\ \A i \in 1..Len(I2sPlan) :
                /\ I2sPlan[i][1] \in {"fs", "ratio", "bclk"} => I2sPlan[i][2] > 0
                /\ I2sPlan[i][1] = "crg" /\ I2sPlan[i][2] =>
                     /\ i = 6 /\ I2sPlan[3][1] = "fs" /\ I2sPlan[4][1] = "ratio"
                     /\ I2sPlan[5][1] = "bclk"
<1>. DEFINE d == derive_dividers(i2sAsked.width, i2sAsked.channels)
            bits == i2sAsked.width * i2sAsked.channels
<1>1. d.fs > 0 /\ d.ratio > 0 /\ d.bclk > 0
  <2>1. bits \in 32..512 /\ 2 * (bits \div 2) = bits
    BY FrameBits
  <2>2. bits > 0 /\ bits \div 2 > 0
    <3>. HIDE DEF bits
    <3>. QED  BY <2>1
  <2>3. /\ d.fs = bits /\ d.ratio = bits \div 2
        /\ d.bclk = Nearest(bits)
    BY DEF derive_dividers, Nearest
  <2>. HIDE DEF bits, d
  <2>4. d.bclk > 0
    BY <2>1, <2>3, NearestDivider
  <2>. QED  BY <2>2, <2>3, <2>4
<1>2. CASE i2sRole = "master"
  <2>. DEFINE w == I2sPlan
  <2>1. /\ (\E T : w \in Seq(T)) /\ Len(w) = 11
        /\ w[1] = <<"clock", TRUE>> /\ w[2] = <<"mode", ModeBits(i2sAsked, TRUE)>>
        /\ w[3] = <<"fs", d.fs>> /\ w[4] = <<"ratio", d.ratio>>
        /\ w[5] = <<"bclk", d.bclk>> /\ w[6] = <<"crg", TRUE>>
        /\ w[7] = <<"width", WidthBits(i2sAsked)>>
        /\ w[8] = <<"threshold", <<i2sAsked.tx, i2sAsked.rx>> >>
        /\ w[9] = <<"loop", i2sAsked.loop>> /\ w[10] = <<"signed", TRUE>>
        /\ w[11] = <<"reset", Sides>>
    <3>1. w = new_master(i2sAsked)
      BY <1>2 DEF I2sPlan
    <3>. HIDE DEF w
    <3>. QED  BY <3>1, MasterWrites
  <2>. HIDE DEF w, d
  <2>2. /\ w[1][1] = "clock" /\ w[2][1] = "mode" /\ w[3][1] = "fs" /\ w[4][1] = "ratio"
        /\ w[5][1] = "bclk" /\ w[6][1] = "crg" /\ w[7][1] = "width" /\ w[8][1] = "threshold"
        /\ w[9][1] = "loop" /\ w[10][1] = "signed" /\ w[11][1] = "reset"
        /\ w[3][2] > 0 /\ w[4][2] > 0 /\ w[5][2] > 0
    BY <1>1, <2>1
  <2>3. \A i \in 1..11 : \/ i = 1 \/ i = 2 \/ i = 3 \/ i = 4 \/ i = 5 \/ i = 6
                         \/ i = 7 \/ i = 8 \/ i = 9 \/ i = 10 \/ i = 11
    OBVIOUS
  <2>4. \A i, j \in 1..11 : w[i][1] = w[j][1] => i = j
    BY <2>2, <2>3
  <2>5. \A i \in 1..11 :
          /\ w[i][1] \in {"fs", "ratio", "bclk"} => w[i][2] > 0
          /\ w[i][1] = "crg" => i = 6
    BY <2>2, <2>3
  <2>6. Len(w) = 11 /\ \E T : w \in Seq(T)
    BY <2>1
  <2>. QED  BY <1>2, <2>2, <2>4, <2>5, <2>6 DEF w
<1>3. CASE i2sRole = "slave"
  <2>. DEFINE w == I2sPlan
  <2>1. /\ (\E T : w \in Seq(T)) /\ Len(w) = 8
        /\ w[1] = <<"clock", TRUE>> /\ w[2] = <<"mode", ModeBits(i2sAsked, FALSE)>>
        /\ w[3] = <<"crg", FALSE>> /\ w[4] = <<"width", WidthBits(i2sAsked)>>
        /\ w[5] = <<"threshold", <<i2sAsked.tx, i2sAsked.rx>> >>
        /\ w[6] = <<"loop", i2sAsked.loop>> /\ w[7] = <<"signed", TRUE>>
        /\ w[8] = <<"reset", Sides>>
    <3>1. w = new_slave(i2sAsked)
      BY <1>3 DEF I2sPlan
    <3>. HIDE DEF w
    <3>. QED  BY <3>1, SlaveWrites
  <2>. HIDE DEF w, d
  <2>2. /\ w[1][1] = "clock" /\ w[2][1] = "mode" /\ w[3][1] = "crg" /\ w[4][1] = "width"
        /\ w[5][1] = "threshold" /\ w[6][1] = "loop" /\ w[7][1] = "signed"
        /\ w[8][1] = "reset" /\ w[3][2] = FALSE
    BY <2>1
  <2>3. \A i \in 1..8 : \/ i = 1 \/ i = 2 \/ i = 3 \/ i = 4 \/ i = 5 \/ i = 6
                        \/ i = 7 \/ i = 8
    OBVIOUS
  <2>4. \A i, j \in 1..8 : w[i][1] = w[j][1] => i = j
    BY <2>2, <2>3
  <2>5. \A i \in 1..8 :
          w[i][1] \notin {"fs", "ratio", "bclk"} /\ (w[i][1] = "crg" => w[i][2] = FALSE)
    BY <2>2, <2>3
  <2>6. Len(w) = 8 /\ \E T : w \in Seq(T)
    BY <2>1
  <2>. QED  BY <1>3, <2>2, <2>4, <2>5, <2>6 DEF w
<1>. QED
  BY <1>2, <1>3

\* At first there is no driver.
LEMMA I2sStarts == ASSUME I2sInit PROVE I2sInv
<1>1. /\ i2sRole = "none" /\ i2sTodo = <<>> /\ i2sClocked = FALSE /\ i2sOn = i2sWanted
      /\ DOMAIN i2sRegs = I2sRegisters /\ i2sRegs.crg = FALSE /\ i2sFifo = EmptyFifo
  BY DEF I2sInit, I2sRegisters
<1>2. I2sUnderWay /\ NoZeroDivider
  BY <1>1 DEF I2sUnderWay, NoZeroDivider
<1>3. SidesKept
  BY <1>1 DEF SidesKept, EmptyFifo
<1>. QED
  BY <1>1, <1>2, <1>3 DEF I2sInv

\* A constructor has all its writes before it.
LEMMA NewDriver == ASSUME I2sInv, NewI2s PROVE I2sInv'
<1>1. /\ i2sRole' \in {"master", "slave"} /\ i2sAsked' \in SlaveConfig
      /\ i2sTodo' = I2sPlan'
  BY DEF NewI2s, I2sPlan, MasterConfig
<1>2. UNCHANGED <<i2sClocked, i2sRegs, i2sOn, i2sWanted, i2sFifo>>
  BY DEF NewI2s
<1>3. \E T : i2sTodo' \in Seq(T)
  <2>1. CASE i2sRole' = "master"
    BY <1>1, <2>1, MasterWrites DEF I2sPlan
  <2>2. CASE i2sRole' = "slave"
    BY <1>1, <2>2, SlaveWrites DEF I2sPlan
  <2>. QED  BY <1>1, <2>1, <2>2
<1>4. I2sDone' = 0
  <2>1. Len(i2sTodo') \in Nat
    BY <1>3, LenProperties
  <2>. QED  BY <1>1, <2>1 DEF I2sDone
<1>5. I2sUnderWay'
  BY <1>1, <1>3, <1>4 DEF I2sUnderWay
<1>6. NoZeroDivider' /\ SidesKept'
  BY <1>2 DEF I2sInv, NoZeroDivider, SidesKept
<1>. QED
  BY <1>2, <1>5, <1>6 DEF I2sInv

\* A write reaches its own register, once the clock is on.
LEMMA DriverWrite == ASSUME I2sInv, I2sWrite PROVE I2sInv'
<1>. DEFINE n == Len(I2sPlan)
            d == I2sDone
            reg == Head(i2sTodo)[1]
            value == Head(i2sTodo)[2]
<1>1. /\ i2sRole \in {"master", "slave"} /\ i2sAsked \in SlaveConfig
      /\ i2sTodo # <<>> /\ i2sTodo' = Tail(i2sTodo)
  BY DEF I2sInv, I2sUnderWay, I2sWrite
<1>2. /\ UNCHANGED <<i2sRole, i2sAsked, i2sOn, i2sWanted>>
      /\ I2sPlan' = I2sPlan
  BY DEF I2sWrite, I2sPlan
<1>3. /\ i2sClocked' = (i2sClocked \/ reg = "clock")
      /\ i2sRegs' = IF i2sClocked /\ reg \in DOMAIN i2sRegs
                    THEN [i2sRegs EXCEPT ![reg] = value] ELSE i2sRegs
      /\ i2sFifo' = IF i2sClocked /\ reg = "reset" THEN EmptyFifo ELSE i2sFifo
  BY DEF I2sWrite
<1>4. PICK T : i2sTodo \in Seq(T)
  BY <1>1 DEF I2sInv, I2sUnderWay
<1>5. /\ n \in {8, 11}
      /\ \A i, j \in 1..n : I2sPlan[i][1] = I2sPlan[j][1] => i = j
      /\ I2sPlan[1][1] = "clock"
      /\ \A i \in 1..n :
           /\ I2sPlan[i][1] \in {"fs", "ratio", "bclk"} => I2sPlan[i][2] > 0
           /\ I2sPlan[i][1] = "crg" /\ I2sPlan[i][2] =>
                /\ i = 6 /\ I2sPlan[3][1] = "fs" /\ I2sPlan[4][1] = "ratio"
                /\ I2sPlan[5][1] = "bclk"
  BY <1>1, PlanIsSound
<1>6. /\ d >= 0 /\ d = n - Len(i2sTodo)
      /\ \A i \in 1..Len(i2sTodo) : i2sTodo[i] = I2sPlan[d + i]
      /\ d > 0 => i2sClocked
      /\ \A i \in 2..d : I2sPlan[i][1] \in DOMAIN i2sRegs => i2sRegs[I2sPlan[i][1]] = I2sPlan[i][2]
  BY <1>1 DEF I2sInv, I2sUnderWay, I2sDone
<1>7. DOMAIN i2sRegs = I2sRegisters
  BY DEF I2sInv
<1>8. /\ Len(i2sTodo) \in Nat /\ Len(i2sTodo) >= 1
      /\ Tail(i2sTodo) \in Seq(T) /\ Len(Tail(i2sTodo)) = Len(i2sTodo) - 1
      /\ \A i \in 1..Len(Tail(i2sTodo)) : Tail(i2sTodo)[i] = i2sTodo[i + 1]
      /\ Head(i2sTodo) = i2sTodo[1]
  <2>1. /\ Tail(i2sTodo) \in Seq(T) /\ Len(Tail(i2sTodo)) = Len(i2sTodo) - 1
        /\ \A i \in 1..Len(Tail(i2sTodo)) : Tail(i2sTodo)[i] = i2sTodo[i + 1]
        /\ Head(i2sTodo) = i2sTodo[1]
    BY <1>1, <1>4, HeadTailProperties
  <2>2. Len(i2sTodo) \in Nat /\ Len(i2sTodo) # 0
    BY <1>1, <1>4, LenProperties, EmptySeq
  <2>. QED  BY <2>1, <2>2
<1>9. d \in Nat /\ d + 1 \in 1..n /\ reg = I2sPlan[d + 1][1] /\ value = I2sPlan[d + 1][2]
  <2>1. 1 \in 1..Len(i2sTodo) /\ d \in Nat /\ d + 1 \in 1..n
    <3>. HIDE DEF n, d
    <3>. QED  BY <1>5, <1>6, <1>8
  <2>. QED  BY <1>6, <1>8, <2>1
<1>10. I2sDone' = d + 1
  <2>1. Len(i2sTodo') = Len(i2sTodo) - 1 /\ I2sPlan' = I2sPlan
    BY <1>1, <1>2, <1>8
  <2>. QED  BY <1>5, <1>8, <2>1 DEF I2sDone
<1>. HIDE DEF n, d, reg, value
<1>11. /\ DOMAIN i2sRegs' = I2sRegisters
       /\ \A r \in I2sRegisters :
            i2sRegs'[r] = IF i2sClocked /\ r = reg THEN value ELSE i2sRegs[r]
  BY <1>3, <1>7
<1>12. d + 1 > 0 => i2sClocked'
  <2>1. CASE d = 0
    <3>1. d + 1 = 1
      BY <2>1
    <3>2. reg = "clock"
      BY <1>5, <1>9, <3>1
    <3>. QED  BY <1>3, <3>2
  <2>2. CASE d > 0
    BY <1>3, <1>6, <2>2
  <2>. QED  BY <1>9, <2>1, <2>2
<1>13. ASSUME NEW i \in 2..(d + 1), I2sPlan[i][1] \in I2sRegisters
       PROVE  i2sRegs'[I2sPlan[i][1]] = I2sPlan[i][2]
  <2>1. CASE i = d + 1
    <3>1. i2sClocked
      BY <1>6, <1>9, <1>13, <2>1
    <3>. QED  BY <1>9, <1>11, <1>13, <2>1, <3>1
  <2>2. CASE i # d + 1
    <3>1. i \in 2..d /\ i \in 1..n /\ d + 1 \in 1..n
      BY <1>5, <1>9, <1>13, <2>2
    <3>2. I2sPlan[i][1] # reg
      BY <1>5, <1>9, <2>2, <3>1
    <3>3. i2sRegs[I2sPlan[i][1]] = I2sPlan[i][2]
      BY <1>6, <1>7, <1>13, <3>1
    <3>. QED  BY <1>11, <1>13, <3>2, <3>3
  <2>. QED  BY <2>1, <2>2
<1>14. I2sUnderWay'
  <2>1. \A i \in 1..Len(i2sTodo') : i2sTodo'[i] = I2sPlan'[I2sDone' + i]
    <3>. SUFFICES ASSUME NEW i \in 1..Len(i2sTodo')
                  PROVE  i2sTodo'[i] = I2sPlan[d + 1 + i]
      BY <1>2, <1>10
    <3>1. i \in Nat /\ i + 1 \in 1..Len(i2sTodo) /\ i2sTodo'[i] = i2sTodo[i + 1]
      BY <1>1, <1>8
    <3>2. d + (i + 1) = d + 1 + i
      BY <1>9, <3>1
    <3>. QED  BY <1>6, <3>1, <3>2
  <2>2. \E S : i2sTodo' \in Seq(S)
    BY <1>1, <1>8
  <2>3. I2sDone' >= 0
    BY <1>9, <1>10
  <2>. QED
    BY <1>1, <1>2, <1>10, <1>11, <1>12, <1>13, <2>1, <2>2, <2>3 DEF I2sUnderWay
<1>15. NoZeroDivider'
  <2>. SUFFICES ASSUME i2sRegs'.crg
                PROVE  i2sRegs'.fs > 0 /\ i2sRegs'.ratio > 0 /\ i2sRegs'.bclk > 0
    BY DEF NoZeroDivider
  <2>1. {"crg", "fs", "ratio", "bclk"} \subseteq I2sRegisters
    BY DEF I2sRegisters
  <2>2. CASE i2sClocked /\ reg = "crg"
    <3>1. value
      BY <1>11, <2>1, <2>2
    <3>2. /\ d + 1 = 6 /\ I2sPlan[3][1] = "fs" /\ I2sPlan[4][1] = "ratio"
          /\ I2sPlan[5][1] = "bclk"
      BY <1>5, <1>9, <2>2, <3>1
    <3>3. /\ 3 \in 2..(d + 1) /\ 4 \in 2..(d + 1) /\ 5 \in 2..(d + 1)
          /\ 3 \in 1..n /\ 4 \in 1..n /\ 5 \in 1..n
      BY <1>5, <3>2
    <3>4. /\ i2sRegs'["fs"] = I2sPlan[3][2] /\ i2sRegs'["ratio"] = I2sPlan[4][2]
          /\ i2sRegs'["bclk"] = I2sPlan[5][2]
      BY <1>13, <2>1, <3>2, <3>3
    <3>5. I2sPlan[3][2] > 0 /\ I2sPlan[4][2] > 0 /\ I2sPlan[5][2] > 0
      BY <1>5, <3>2, <3>3
    <3>. QED  BY <3>4, <3>5
  <2>3. CASE ~(i2sClocked /\ reg = "crg")
    <3>1. i2sRegs.crg
      BY <1>11, <2>1, <2>3
    <3>2. i2sRegs.fs > 0 /\ i2sRegs.ratio > 0 /\ i2sRegs.bclk > 0
      BY <3>1 DEF I2sInv, NoZeroDivider
    <3>3. reg \in {"fs", "ratio", "bclk"} => value > 0
      BY <1>5, <1>9
    <3>. QED  BY <1>11, <2>1, <3>2, <3>3
  <2>. QED  BY <2>2, <2>3
<1>16. SidesKept'
  <2>1. CASE i2sFifo' = i2sFifo
    BY <2>1 DEF I2sInv, SidesKept
  <2>2. CASE i2sFifo' = EmptyFifo
    BY <2>2 DEF SidesKept, EmptyFifo
  <2>. QED  BY <1>3, <2>1, <2>2
<1>17. i2sClocked' \in BOOLEAN
  BY <1>3
<1>. QED
  BY <1>2, <1>11, <1>14, <1>15, <1>16, <1>17 DEF I2sInv

\* The calls of a built driver and the block's frames change the enables and the FIFOs only.
LEMMA OtherSteps ==
    ASSUME I2sInv, EnableCalls \/ FifoCalls \/ Frame
    PROVE  I2sInv'
<1>1. UNCHANGED <<i2sTodo, i2sRole, i2sAsked, i2sClocked, i2sRegs>>
  BY DEF EnableCalls, FifoCalls, Frame
<1>2. i2sOn' = i2sWanted'
  <2>1. i2sOn = i2sWanted
    BY DEF I2sInv
  <2>. QED  BY <2>1 DEF EnableCalls, FifoCalls, Frame, ct_set, ct_clr
<1>3. I2sUnderWay' /\ NoZeroDivider'
  <2>1. I2sPlan' = I2sPlan /\ I2sDone' = I2sDone
    BY <1>1 DEF I2sPlan, I2sDone
  <2>. QED  BY <1>1, <2>1 DEF I2sInv, I2sUnderWay, NoZeroDivider
<1>4. SidesKept'
  <2>. DEFINE f == i2sFifo
  <2>1. /\ f.txleft \in Seq({"left"}) /\ f.rxleft \in Seq({"left"})
        /\ f.txright \in Seq({"right"}) /\ f.rxright \in Seq({"right"})
        /\ f = [txleft |-> f.txleft, txright |-> f.txright,
                rxleft |-> f.rxleft, rxright |-> f.rxright]
    BY DEF I2sInv, SidesKept
  <2>2. ASSUME EnableCalls
        PROVE  SidesKept'
    <3>1. i2sFifo' = i2sFifo
      BY <2>2 DEF EnableCalls
    <3>. QED  BY <3>1 DEF I2sInv, SidesKept
  <2>3. ASSUME FifoCalls
        PROVE  SidesKept'
    <3>. DEFINE Put(side) ==
                  IF Len(i2sFifo[TxFifo(side)]) < I2sDepth
                  THEN i2sFifo' = [i2sFifo EXCEPT ![TxFifo(side)] = Append(@, side)]
                  ELSE UNCHANGED i2sFifo
                Take(side) ==
                  i2sFifo' = [i2sFifo EXCEPT ![RxFifo(side)] = IF @ = <<>> THEN @ ELSE Tail(@)]
                Cleared ==
                  \/ i2sFifo' = [i2sFifo EXCEPT !.txleft = <<>>, !.txright = <<>>]
                  \/ i2sFifo' = [i2sFifo EXCEPT !.rxleft = <<>>, !.rxright = <<>>]
    <3>0. (\E side \in Sides : Put(side)) \/ (\E side \in Sides : Take(side)) \/ Cleared
      BY <2>3, Zenon DEF FifoCalls
    <3>1. CASE \E side \in Sides : Put(side)
      <4>1. \/ i2sFifo' = [f EXCEPT !.txleft = Append(f.txleft, "left")]
            \/ i2sFifo' = [f EXCEPT !.txright = Append(f.txright, "right")]
            \/ i2sFifo' = f
        BY <3>1 DEF Sides, TxFifo
      <4>2. /\ Append(f.txleft, "left") \in Seq({"left"})
            /\ Append(f.txright, "right") \in Seq({"right"})
        BY <2>1
      <4>. QED  BY <2>1, <4>1, <4>2 DEF SidesKept
    <3>2. CASE \E side \in Sides : Take(side)
      <4>1. \/ i2sFifo' = [f EXCEPT !.rxleft = IF f.rxleft = <<>> THEN f.rxleft ELSE Tail(f.rxleft)]
            \/ i2sFifo' = [f EXCEPT !.rxright = IF f.rxright = <<>> THEN f.rxright ELSE Tail(f.rxright)]
        BY <3>2 DEF Sides, RxFifo
      <4>2. /\ f.rxleft # <<>> => Tail(f.rxleft) \in Seq({"left"})
            /\ f.rxright # <<>> => Tail(f.rxright) \in Seq({"right"})
        BY <2>1
      <4>. QED  BY <2>1, <4>1, <4>2 DEF SidesKept
    <3>3. CASE Cleared
      <4>1. <<>> \in Seq({"left"}) /\ <<>> \in Seq({"right"})
        OBVIOUS
      <4>2. CASE i2sFifo' = [f EXCEPT !.txleft = <<>>, !.txright = <<>>]
        BY <2>1, <4>1, <4>2 DEF SidesKept
      <4>3. CASE i2sFifo' = [f EXCEPT !.rxleft = <<>>, !.rxright = <<>>]
        BY <2>1, <4>1, <4>3 DEF SidesKept
      <4>. QED  BY <3>3, <4>2, <4>3
    <3>. QED  BY <3>0, <3>1, <3>2, <3>3
  <2>4. ASSUME Frame
        PROVE  SidesKept'
    <3>1. CASE i2sFifo' = i2sFifo
      BY <3>1 DEF I2sInv, SidesKept
    <3>2. CASE /\ f.txleft # <<>> /\ f.txright # <<>>
               /\ i2sFifo'.txleft = Tail(f.txleft) /\ i2sFifo'.txright = Tail(f.txright)
               /\ i2sFifo'.rxleft \in {f.rxleft, Append(f.rxleft, Head(f.txleft))}
               /\ i2sFifo'.rxright \in {f.rxright, Append(f.rxright, Head(f.txright))}
               /\ i2sFifo' = [txleft |-> i2sFifo'.txleft, txright |-> i2sFifo'.txright,
                              rxleft |-> i2sFifo'.rxleft, rxright |-> i2sFifo'.rxright]
      <4>1. /\ Tail(f.txleft) \in Seq({"left"}) /\ Head(f.txleft) \in {"left"}
            /\ Tail(f.txright) \in Seq({"right"}) /\ Head(f.txright) \in {"right"}
        BY <2>1, <3>2
      <4>2. /\ Append(f.rxleft, Head(f.txleft)) \in Seq({"left"})
            /\ Append(f.rxright, Head(f.txright)) \in Seq({"right"})
        BY <2>1, <4>1
      <4>. QED  BY <2>1, <3>2, <4>1, <4>2 DEF SidesKept
    <3>. QED  BY <2>4, <3>1, <3>2 DEF Frame
  <2>. QED  BY <2>2, <2>3, <2>4
<1>. QED
  BY <1>1, <1>2, <1>3, <1>4 DEF I2sInv

\* A built driver has all its writes behind it.
LEMMA I2sBuilt == ASSUME I2sInv PROVE I2sSafe
<1>1. I2sAsAsked
  <2>. SUFFICES ASSUME Built PROVE I2sAsAsked
    BY DEF I2sAsAsked
  <2>. DEFINE w == I2sPlan
              c == i2sAsked
  <2>1. /\ i2sRole \in {"master", "slave"} /\ i2sAsked \in SlaveConfig /\ i2sOn = i2sWanted
    BY DEF Built, I2sInv, I2sUnderWay
  <2>2. \A i \in 2..Len(w) : w[i][1] \in I2sRegisters => i2sRegs[w[i][1]] = w[i][2]
    <3>1. Len(w) \in {8, 11}
      BY <2>1, PlanIsSound
    <3>2. I2sDone = Len(w)
      <4>1. Len(i2sTodo) = 0
        BY DEF Built
      <4>. QED  BY <3>1, <4>1 DEF I2sDone
    <3>. QED  BY <2>1, <3>2 DEF I2sInv, I2sUnderWay
  <2>3. CASE i2sRole = "master"
    <3>. DEFINE d == derive_dividers(c.width, c.channels)
                bits == c.width * c.channels
    <3>1. /\ Len(w) = 11
          /\ w[2] = <<"mode", ModeBits(c, TRUE)>>
          /\ w[3] = <<"fs", d.fs>> /\ w[4] = <<"ratio", d.ratio>>
          /\ w[5] = <<"bclk", d.bclk>> /\ w[6] = <<"crg", TRUE>>
          /\ w[7] = <<"width", WidthBits(c)>> /\ w[8] = <<"threshold", <<c.tx, c.rx>> >>
          /\ w[9] = <<"loop", c.loop>> /\ w[10] = <<"signed", TRUE>>
      <4>1. w = new_master(c)
        BY <2>3 DEF I2sPlan
      <4>. HIDE DEF w, c
      <4>. QED  BY <4>1, MasterWrites
    <3>. HIDE DEF w, d, c
    <3>2. /\ i2sRegs["mode"] = ModeBits(c, TRUE) /\ i2sRegs["fs"] = d.fs
          /\ i2sRegs["ratio"] = d.ratio /\ i2sRegs["bclk"] = d.bclk /\ i2sRegs["crg"] = TRUE
          /\ i2sRegs["width"] = WidthBits(c) /\ i2sRegs["threshold"] = <<c.tx, c.rx>>
          /\ i2sRegs["loop"] = c.loop /\ i2sRegs["signed"] = TRUE
      <4>1. /\ w[2][1] = "mode" /\ w[3][1] = "fs" /\ w[4][1] = "ratio" /\ w[5][1] = "bclk"
            /\ w[6][1] = "crg" /\ w[7][1] = "width" /\ w[8][1] = "threshold"
            /\ w[9][1] = "loop" /\ w[10][1] = "signed"
        BY <3>1
      <4>2. \A i \in 2..10 : w[i][1] \in I2sRegisters => i2sRegs[w[i][1]] = w[i][2]
        <5>1. \A i \in 2..10 : i \in 2..Len(w)
          BY <3>1
        <5>. QED  BY <2>2, <5>1
      <4>3. /\ i2sRegs["mode"] = w[2][2] /\ i2sRegs["fs"] = w[3][2]
            /\ i2sRegs["ratio"] = w[4][2] /\ i2sRegs["bclk"] = w[5][2]
            /\ i2sRegs["crg"] = w[6][2] /\ i2sRegs["width"] = w[7][2]
            /\ i2sRegs["threshold"] = w[8][2] /\ i2sRegs["loop"] = w[9][2]
            /\ i2sRegs["signed"] = w[10][2]
        BY <4>1, <4>2 DEF I2sRegisters
      <4>. QED  BY <3>1, <4>3
    <3>3. bits \in 32..512 /\ 2 * (bits \div 2) = bits
      BY <2>1, FrameBits DEF c
    <3>4. /\ d.fs = bits /\ d.ratio = bits \div 2
          /\ d.bclk = Nearest(bits)
      BY DEF derive_dividers, d, Nearest
    <3>. HIDE DEF bits
    <3>5. \A other \in 1..127 : Off(d.bclk, bits) <= Off(other, bits)
      <4>1. \A other \in 1..127 : Off(Nearest(bits), bits) <= Off(other, bits)
        BY <3>3, NearestDivider
      <4>. QED  BY <3>4, <4>1
    <3>6. /\ i2sRegs.fs = bits /\ 2 * i2sRegs.ratio = bits
          /\ \A other \in 1..127 : Off(i2sRegs.bclk, bits) <= Off(other, bits)
      BY <3>2, <3>3, <3>4, <3>5
    <3>. QED  BY <2>1, <2>3, <3>2, <3>6, Zenon DEF I2sAsAsked, c, bits
  <2>4. CASE i2sRole = "slave"
    <3>1. /\ Len(w) = 8
          /\ w[2] = <<"mode", ModeBits(c, FALSE)>> /\ w[3] = <<"crg", FALSE>>
          /\ w[4] = <<"width", WidthBits(c)>> /\ w[5] = <<"threshold", <<c.tx, c.rx>> >>
          /\ w[6] = <<"loop", c.loop>> /\ w[7] = <<"signed", TRUE>>
      <4>1. w = new_slave(c)
        BY <2>4 DEF I2sPlan
      <4>. HIDE DEF w, c
      <4>. QED  BY <4>1, SlaveWrites
    <3>. HIDE DEF w, c
    <3>2. /\ i2sRegs["mode"] = ModeBits(c, FALSE) /\ i2sRegs["crg"] = FALSE
          /\ i2sRegs["width"] = WidthBits(c) /\ i2sRegs["threshold"] = <<c.tx, c.rx>>
          /\ i2sRegs["loop"] = c.loop /\ i2sRegs["signed"] = TRUE
      <4>1. /\ w[2][1] = "mode" /\ w[3][1] = "crg" /\ w[4][1] = "width"
            /\ w[5][1] = "threshold" /\ w[6][1] = "loop" /\ w[7][1] = "signed"
        BY <3>1
      <4>2. \A i \in 2..7 : w[i][1] \in I2sRegisters => i2sRegs[w[i][1]] = w[i][2]
        <5>1. \A i \in 2..7 : i \in 2..Len(w)
          BY <3>1
        <5>. QED  BY <2>2, <5>1
      <4>3. /\ i2sRegs["mode"] = w[2][2] /\ i2sRegs["crg"] = w[3][2]
            /\ i2sRegs["width"] = w[4][2] /\ i2sRegs["threshold"] = w[5][2]
            /\ i2sRegs["loop"] = w[6][2] /\ i2sRegs["signed"] = w[7][2]
        BY <4>1, <4>2 DEF I2sRegisters
      <4>. QED  BY <3>1, <4>3
    <3>3. i2sRole # "master"
      BY <2>4
    <3>. QED  BY <2>1, <3>2, <3>3, Zenon DEF I2sAsAsked, c
  <2>. QED  BY <2>1, <2>3, <2>4
<1>2. ChannelsKept
  <2>1. i2sFifo.rxleft \in Seq({"left"}) /\ i2sFifo.rxright \in Seq({"right"})
    BY DEF I2sInv, SidesKept
  <2>. QED  BY <2>1, ElementOfSeq DEF ChannelsKept
<1>. QED
  BY <1>1, <1>2 DEF I2sInv, I2sSafe

\* For any modes, thresholds and depth of the FIFOs: a built driver's registers are those
\* of its configuration, its bit clock the nearest to the one asked for, its clock
\* generator never runs from a zero divider, and its sides stay apart (i2s.rs:129-147,
\* 402-426).
THEOREM I2sAsPromised == I2sSpec => []I2sSafe
<1>1. ASSUME I2sInv, [I2sNext]_i2sVars
      PROVE  I2sInv'
  <2>1. CASE NewI2s
    BY <1>1, <2>1, NewDriver
  <2>2. CASE I2sWrite
    BY <1>1, <2>2, DriverWrite
  <2>3. CASE EnableCalls \/ FifoCalls \/ Frame
    BY <1>1, <2>3, OtherSteps
  <2>4. CASE UNCHANGED i2sVars
    BY <1>1, <2>4 DEF i2sVars, I2sInv, I2sUnderWay, I2sPlan, I2sDone, NoZeroDivider, SidesKept
  <2>. QED  BY <1>1, <2>1, <2>2, <2>3, <2>4 DEF I2sNext
<1>. QED
  BY <1>1, I2sStarts, I2sBuilt, PTL DEF I2sSpec

-----------------------------------------------------------------------------
(* Pads: each bit of a control register is what was last asked of it. *)

PadBits == [ds2 : 0..1, ds1 : 0..1, ds0 : 0..1, pe : BOOLEAN, ps : BOOLEAN,
            st : BOOLEAN, ie : BOOLEAN]

PadObeys(c, s) ==
    /\ PadDrive(c) = s.drive /\ PadPull(c) = s.pull /\ c.st = s.schmitt /\ c.ie = s.input

PadsInv ==
    /\ padCtrl \in [AllPads -> PadBits] /\ padSel \in [MuxedPads -> 0..7]
    /\ padAsked \in [AllPads -> PadSetting] /\ selAsked \in [MuxedPads -> 0..7]
    /\ padSel = selAsked
    /\ \A p \in AllPads : PadObeys(padCtrl[p], padAsked[p])

\* A drive strength comes back from its three bits.
LEMMA DriveBits ==
    ASSUME NEW d \in 0..7
    PROVE  /\ d \div 4 % 2 \in 0..1 /\ d \div 2 % 2 \in 0..1 /\ d % 2 \in 0..1
           /\ 4 * (d \div 4 % 2) + 2 * (d \div 2 % 2) + (d % 2) = d
<1>1. d = 0 \/ d = 1 \/ d = 2 \/ d = 3 \/ d = 4 \/ d = 5 \/ d = 6 \/ d = 7
  OBVIOUS
<1>. QED
  BY <1>1

\* A built register has its type, and says what it was built from.
LEMMA BuiltObeys ==
    ASSUME NEW s \in PadSetting
    PROVE  build_pad_ctrl(s) \in PadBits /\ PadObeys(build_pad_ctrl(s), s)
<1>1. /\ s.drive \in 0..7 /\ s.pull \in Pulls /\ s.schmitt \in BOOLEAN /\ s.input \in BOOLEAN
  BY DEF PadSetting
<1>2. PullEnable(s.pull) \in BOOLEAN /\ PullSelect(s.pull) \in BOOLEAN
  BY DEF PullEnable, PullSelect
<1>3. build_pad_ctrl(s) \in PadBits
  BY <1>1, <1>2, DriveBits DEF build_pad_ctrl, PadBits
<1>4. PadDrive(build_pad_ctrl(s)) = s.drive
  BY <1>1, DriveBits DEF build_pad_ctrl, PadDrive
<1>5. PadPull(build_pad_ctrl(s)) = s.pull
  BY <1>1, Zenon DEF build_pad_ctrl, PadPull, PullEnable, PullSelect, Pulls
<1>6. build_pad_ctrl(s).st = s.schmitt /\ build_pad_ctrl(s).ie = s.input
  BY DEF build_pad_ctrl
<1>. QED
  BY <1>3, <1>4, <1>5, <1>6 DEF PadObeys

LEMMA PadsStart == ASSUME PadsInit PROVE PadsInv
<1>1. PadReset \in PadSetting
  BY DEF PadReset, PadSetting, Pulls
<1>. QED
  BY <1>1, BuiltObeys DEF PadsInit, PadsInv

\* A setting written to a pad is what the pad does.
LEMMA ConfigureObeys ==
    ASSUME PadsInv, NEW p \in AllPads, NEW s \in PadSettings, configure_pad(p, s)
    PROVE  PadsInv'
<1>1. s \in PadSetting
  BY PadsAssumption
<1>2. build_pad_ctrl(s) \in PadBits /\ PadObeys(build_pad_ctrl(s), s)
  BY <1>1, BuiltObeys
<1>. QED
  BY <1>1, <1>2 DEF PadsInv, configure_pad

LEMMA MuxObeys ==
    ASSUME PadsInv, NEW p \in MuxedPads, NEW f, set_mux(p, f)
    PROVE  PadsInv'
BY DEF PadsInv, set_mux

\* The pull changes and the input buffer is on; drive and Schmitt trigger are kept.
LEMMA PullObeys ==
    ASSUME PadsInv, NEW p, NEW pull \in Pulls, apply_pull(p, pull)
    PROVE  PadsInv'
<1>1. CASE p \notin GpioPads
  BY <1>1 DEF apply_pull, padVars, PadsInv
<1>2. CASE p \in GpioPads
  <2> DEFINE c == padCtrl[p]
             s == padAsked[p]
             d == [c EXCEPT !.pe = PullEnable(pull), !.ps = PullSelect(pull), !.ie = TRUE]
             t == [s EXCEPT !.pull = pull, !.input = TRUE]
  <2>1. p \in AllPads /\ c \in PadBits /\ s \in PadSetting /\ PadObeys(c, s)
    BY <1>2 DEF AllPads, PadsInv
  <2>2. PullEnable(pull) \in BOOLEAN /\ PullSelect(pull) \in BOOLEAN
    BY DEF PullEnable, PullSelect
  <2>3. d \in PadBits /\ t \in PadSetting
    BY <2>1, <2>2 DEF PadBits, PadSetting
  <2>4. d.ds2 = c.ds2 /\ d.ds1 = c.ds1 /\ d.ds0 = c.ds0 /\ d.st = c.st /\ d.ie = TRUE
        /\ d.pe = PullEnable(pull) /\ d.ps = PullSelect(pull)
    BY <2>1 DEF PadBits
  <2>5. t.drive = s.drive /\ t.schmitt = s.schmitt /\ t.pull = pull /\ t.input = TRUE
    BY <2>1 DEF PadSetting
  <2>6. PadPull(d) = pull
    BY <2>4, Zenon DEF PadPull, PullEnable, PullSelect, Pulls
  <2>7. PadDrive(d) = PadDrive(c)
    BY <2>4 DEF PadDrive
  <2>8. PadObeys(d, t)
    BY <2>1, <2>4, <2>5, <2>6, <2>7, Zenon DEF PadObeys
  <2>9. /\ padCtrl' = [padCtrl EXCEPT ![p] = d]
        /\ padAsked' = [padAsked EXCEPT ![p] = t]
        /\ UNCHANGED <<padSel, selAsked>>
    BY <1>2, <2>1 DEF apply_pull, PadsInv
  <2>. HIDE DEF d, t
  <2>. QED  BY <2>1, <2>3, <2>8, <2>9 DEF PadsInv
<1>. QED
  BY <1>1, <1>2

LEMMA PadsSteps == ASSUME PadsInv, [PadsNext]_padVars PROVE PadsInv'
<1>1. ASSUME NEW p \in AllPads, NEW s \in PadSettings, configure_pad(p, s) PROVE PadsInv'
  BY <1>1, ConfigureObeys
<1>2. ASSUME NEW p \in MuxedPads, NEW f \in Functions, set_mux(p, f) PROVE PadsInv'
  BY <1>2, MuxObeys
<1>3. CASE UNCHANGED padVars
  BY <1>3 DEF PadsInv, padVars
<1>. QED
  BY <1>1, <1>2, <1>3, Zenon DEF PadsNext

LEMMA PadsPromise == ASSUME PadsInv PROVE PadsAsAsked /\ PadsTypeOK
BY DEF PadsInv, PadsAsAsked, PadsTypeOK, PadObeys, PadBits

\* Every pad does what was last asked of it, whichever driver set which part of it.
THEOREM PadsAlwaysAsAsked == PadsSpec => [](PadsAsAsked /\ PadsTypeOK)
BY PadsStart, PadsSteps, PadsPromise, PTL DEF PadsSpec

-----------------------------------------------------------------------------
(* Pins: what is left of a call says what it is still to change. *)

PlanOf(t, d, l, f, x) == [todo |-> t, dir |-> d, level |-> l, fresh |-> f, flex |-> x]

\* The rests that calls come to: what is left, what of the direction and of the level it
\* still changes, whether its next access writes the register as just read, and whether
\* it is a Flex's alone.
PlansLeft ==
    {PlanOf(<<>>, "none", "none", FALSE, FALSE),
     PlanOf(<<"read", "oen">>, "in", "none", FALSE, FALSE),
     PlanOf(<<"oen">>, "in", "none", TRUE, FALSE),
     PlanOf(<<"read", "drive">>, "out", "none", FALSE, FALSE),
     PlanOf(<<"drive">>, "out", "none", TRUE, FALSE),
     PlanOf(<<"sample", "flip">>, "none", "sample", FALSE, FALSE),
     PlanOf(<<"flip">>, "none", "flip", FALSE, FALSE),
     PlanOf(<<"read", "drive", "sample", "flip">>, "out", "sample", FALSE, TRUE),
     PlanOf(<<"drive", "sample", "flip">>, "out", "sample", TRUE, TRUE),
     PlanOf(<<"save", "read", "oen", "read", "restore">>, "back", "none", FALSE, TRUE),
     PlanOf(<<"read", "oen", "read", "restore">>, "saved", "none", FALSE, TRUE),
     PlanOf(<<"oen", "read", "restore">>, "saved", "none", TRUE, TRUE),
     PlanOf(<<"read", "restore">>, "saved", "none", FALSE, TRUE),
     PlanOf(<<"restore">>, "saved", "none", TRUE, TRUE),
     PlanOf(<<"set">>, "none", "set", FALSE, FALSE),
     PlanOf(<<"clr">>, "none", "clr", FALSE, FALSE),
     PlanOf(<<"set", "read", "drive">>, "out", "set", FALSE, FALSE),
     PlanOf(<<"clr", "read", "drive">>, "out", "clr", FALSE, FALSE),
     PlanOf(<<"read", "drive", "set">>, "out", "set", FALSE, TRUE),
     PlanOf(<<"read", "drive", "clr">>, "out", "clr", FALSE, TRUE),
     PlanOf(<<"drive", "set">>, "out", "set", TRUE, TRUE),
     PlanOf(<<"drive", "clr">>, "out", "clr", TRUE, TRUE)}

\* What one access leaves of what is to be changed: from d, l, f, x to e, m, g, y.
Leaves(op, d, l, f, x, e, m, g, y) ==
    \/ op = "read" /\ e = d /\ m = l /\ ~ f /\ g /\ y = x
       /\ l \in {"none", "set", "clr", "sample"}
    \/ op = "oen" /\ f /\ ~ g /\ l = "none" /\ m = "none"
       /\ ((d = "in" /\ e = "none" /\ ~ x /\ ~ y) \/ (d = "saved" /\ e = "saved" /\ x /\ y))
    \/ op = "drive" /\ f /\ ~ g /\ m = l /\ d = "out" /\ e = "none" /\ ~ y /\ (x \/ l = "none")
       /\ l \in {"none", "set", "clr", "sample"}
    \/ op = "save" /\ d = "back" /\ e = "saved" /\ l = "none" /\ m = "none" /\ ~ f /\ ~ g /\ x /\ y
    \/ op = "restore" /\ d = "saved" /\ e = "none" /\ l = "none" /\ m = "none" /\ f /\ ~ g
       /\ x /\ ~ y
    \/ op \in {"set", "clr"} /\ l = op /\ m = "none" /\ e = d /\ d \in {"none", "out"}
       /\ ~ f /\ ~ g /\ ~ x /\ ~ y
    \/ op = "sample" /\ l = "sample" /\ m = "flip" /\ d = "none" /\ e = "none"
       /\ ~ f /\ ~ g /\ ~ x /\ ~ y
    \/ op = "flip" /\ l = "flip" /\ m = "none" /\ d = "none" /\ e = "none"
       /\ ~ f /\ ~ g /\ ~ x /\ ~ y

GoesOn(op, pl, nx) ==
    Leaves(op, pl.dir, pl.level, pl.fresh, pl.flex, nx.dir, nx.level, nx.fresh, nx.flex)

Follows(pl) == \E nx \in PlansLeft : nx.todo = Tail(pl.todo) /\ GoesOn(Head(pl.todo), pl, nx)

LEMMA OneLeft == ASSUME NEW a PROVE Head(<<a>>) = a /\ Tail(<<a>>) = <<>>
OBVIOUS
LEMMA TwoLeft == ASSUME NEW a, NEW b PROVE Head(<<a, b>>) = a /\ Tail(<<a, b>>) = <<b>>
OBVIOUS
LEMMA ThreeLeft ==
    ASSUME NEW a, NEW b, NEW c PROVE Head(<<a, b, c>>) = a /\ Tail(<<a, b, c>>) = <<b, c>>
OBVIOUS
LEMMA FourLeft ==
    ASSUME NEW a, NEW b, NEW c, NEW d
    PROVE  Head(<<a, b, c, d>>) = a /\ Tail(<<a, b, c, d>>) = <<b, c, d>>
OBVIOUS
LEMMA FiveLeft ==
    ASSUME NEW a, NEW b, NEW c, NEW d, NEW e
    PROVE  Head(<<a, b, c, d, e>>) = a /\ Tail(<<a, b, c, d, e>>) = <<b, c, d, e>>
OBVIOUS

\* The plans, by their parts.
LEMMA PlanFields ==
    ASSUME NEW t, NEW d, NEW l, NEW f, NEW x
    PROVE  /\ PlanOf(t, d, l, f, x).todo = t /\ PlanOf(t, d, l, f, x).dir = d
           /\ PlanOf(t, d, l, f, x).level = l /\ PlanOf(t, d, l, f, x).fresh = f
           /\ PlanOf(t, d, l, f, x).flex = x
BY DEF PlanOf

LEMMA FollowsBy ==
    ASSUME NEW t, NEW d, NEW l, NEW f, NEW x, NEW e, NEW m, NEW g, NEW y, NEW op, NEW u,
           PlanOf(u, e, m, g, y) \in PlansLeft, Head(t) = op, Tail(t) = u,
           Leaves(op, d, l, f, x, e, m, g, y)
    PROVE  Follows(PlanOf(t, d, l, f, x))
<1> DEFINE p == PlanOf(t, d, l, f, x)
           n == PlanOf(u, e, m, g, y)
<1>1. p.todo = t /\ p.dir = d /\ p.level = l /\ p.fresh = f /\ p.flex = x
  BY PlanFields
<1>2. n.todo = u /\ n.dir = e /\ n.level = m /\ n.fresh = g /\ n.flex = y
  BY PlanFields
<1>3. n \in PlansLeft
  OBVIOUS
<1>4. n.todo = Tail(p.todo) /\ Head(p.todo) = op
  BY <1>1, <1>2
<1>. HIDE DEF p, n
<1>5. GoesOn(op, p, n)
  BY <1>1, <1>2 DEF GoesOn
<1>6. Follows(p)
  BY <1>3, <1>4, <1>5 DEF Follows
<1>. QED
  BY <1>6 DEF p

\* Whatever is left of a call, after its next access another such rest is left.
LEMMA PlanGoesOn == \A pl \in PlansLeft : pl.todo # <<>> => Follows(pl)
<1>1. Follows(PlanOf(<<"read", "oen">>, "in", "none", FALSE, FALSE))
  <2>1. PlanOf(<<"oen">>, "in", "none", TRUE, FALSE) \in PlansLeft
    BY Zenon DEF PlansLeft
  <2>2. Head(<<"read", "oen">>) = "read" /\ Tail(<<"read", "oen">>) = <<"oen">>
    BY TwoLeft, Zenon
  <2>3. Leaves("read", "in", "none", FALSE, FALSE, "in", "none", TRUE, FALSE)
    BY Zenon DEF Leaves
  <2>. QED  BY <2>1, <2>2, <2>3, FollowsBy, Zenon
<1>2. Follows(PlanOf(<<"oen">>, "in", "none", TRUE, FALSE))
  <2>1. PlanOf(<<>>, "none", "none", FALSE, FALSE) \in PlansLeft
    BY Zenon DEF PlansLeft
  <2>2. Head(<<"oen">>) = "oen" /\ Tail(<<"oen">>) = <<>>
    BY OneLeft, Zenon
  <2>3. Leaves("oen", "in", "none", TRUE, FALSE, "none", "none", FALSE, FALSE)
    BY Zenon DEF Leaves
  <2>. QED  BY <2>1, <2>2, <2>3, FollowsBy, Zenon
<1>3. Follows(PlanOf(<<"read", "drive">>, "out", "none", FALSE, FALSE))
  <2>1. PlanOf(<<"drive">>, "out", "none", TRUE, FALSE) \in PlansLeft
    BY Zenon DEF PlansLeft
  <2>2. Head(<<"read", "drive">>) = "read" /\ Tail(<<"read", "drive">>) = <<"drive">>
    BY TwoLeft, Zenon
  <2>3. Leaves("read", "out", "none", FALSE, FALSE, "out", "none", TRUE, FALSE)
    BY Zenon DEF Leaves
  <2>. QED  BY <2>1, <2>2, <2>3, FollowsBy, Zenon
<1>4. Follows(PlanOf(<<"drive">>, "out", "none", TRUE, FALSE))
  <2>1. PlanOf(<<>>, "none", "none", FALSE, FALSE) \in PlansLeft
    BY Zenon DEF PlansLeft
  <2>2. Head(<<"drive">>) = "drive" /\ Tail(<<"drive">>) = <<>>
    BY OneLeft, Zenon
  <2>3. Leaves("drive", "out", "none", TRUE, FALSE, "none", "none", FALSE, FALSE)
    BY Zenon DEF Leaves
  <2>. QED  BY <2>1, <2>2, <2>3, FollowsBy, Zenon
<1>5. Follows(PlanOf(<<"sample", "flip">>, "none", "sample", FALSE, FALSE))
  <2>1. PlanOf(<<"flip">>, "none", "flip", FALSE, FALSE) \in PlansLeft
    BY Zenon DEF PlansLeft
  <2>2. Head(<<"sample", "flip">>) = "sample" /\ Tail(<<"sample", "flip">>) = <<"flip">>
    BY TwoLeft, Zenon
  <2>3. Leaves("sample", "none", "sample", FALSE, FALSE, "none", "flip", FALSE, FALSE)
    BY Zenon DEF Leaves
  <2>. QED  BY <2>1, <2>2, <2>3, FollowsBy, Zenon
<1>6. Follows(PlanOf(<<"flip">>, "none", "flip", FALSE, FALSE))
  <2>1. PlanOf(<<>>, "none", "none", FALSE, FALSE) \in PlansLeft
    BY Zenon DEF PlansLeft
  <2>2. Head(<<"flip">>) = "flip" /\ Tail(<<"flip">>) = <<>>
    BY OneLeft, Zenon
  <2>3. Leaves("flip", "none", "flip", FALSE, FALSE, "none", "none", FALSE, FALSE)
    BY Zenon DEF Leaves
  <2>. QED  BY <2>1, <2>2, <2>3, FollowsBy, Zenon
<1>7. Follows(PlanOf(<<"read", "drive", "sample", "flip">>, "out", "sample", FALSE, TRUE))
  <2>1. PlanOf(<<"drive", "sample", "flip">>, "out", "sample", TRUE, TRUE) \in PlansLeft
    BY Zenon DEF PlansLeft
  <2>2. /\ Head(<<"read", "drive", "sample", "flip">>) = "read"
        /\ Tail(<<"read", "drive", "sample", "flip">>) = <<"drive", "sample", "flip">>
    BY FourLeft
  <2>3. Leaves("read", "out", "sample", FALSE, TRUE, "out", "sample", TRUE, TRUE)
    BY Zenon DEF Leaves
  <2>. QED  BY <2>1, <2>2, <2>3, FollowsBy, Zenon
<1>8. Follows(PlanOf(<<"drive", "sample", "flip">>, "out", "sample", TRUE, TRUE))
  <2>1. PlanOf(<<"sample", "flip">>, "none", "sample", FALSE, FALSE) \in PlansLeft
    BY Zenon DEF PlansLeft
  <2>2. /\ Head(<<"drive", "sample", "flip">>) = "drive"
        /\ Tail(<<"drive", "sample", "flip">>) = <<"sample", "flip">>
    BY ThreeLeft, Zenon
  <2>3. Leaves("drive", "out", "sample", TRUE, TRUE, "none", "sample", FALSE, FALSE)
    BY Zenon DEF Leaves
  <2>. QED  BY <2>1, <2>2, <2>3, FollowsBy, Zenon
<1>9. Follows(PlanOf(<<"save", "read", "oen", "read", "restore">>, "back", "none", FALSE, TRUE))
  <2>1. PlanOf(<<"read", "oen", "read", "restore">>, "saved", "none", FALSE, TRUE) \in PlansLeft
    BY Zenon DEF PlansLeft
  <2>2. /\ Head(<<"save", "read", "oen", "read", "restore">>) = "save"
        /\ Tail(<<"save", "read", "oen", "read", "restore">>) = <<"read", "oen", "read", "restore">>
    BY FiveLeft
  <2>3. Leaves("save", "back", "none", FALSE, TRUE, "saved", "none", FALSE, TRUE)
    BY Zenon DEF Leaves
  <2>. QED  BY <2>1, <2>2, <2>3, FollowsBy, Zenon
<1>10. Follows(PlanOf(<<"read", "oen", "read", "restore">>, "saved", "none", FALSE, TRUE))
  <2>1. PlanOf(<<"oen", "read", "restore">>, "saved", "none", TRUE, TRUE) \in PlansLeft
    BY Zenon DEF PlansLeft
  <2>2. /\ Head(<<"read", "oen", "read", "restore">>) = "read"
        /\ Tail(<<"read", "oen", "read", "restore">>) = <<"oen", "read", "restore">>
    BY FourLeft
  <2>3. Leaves("read", "saved", "none", FALSE, TRUE, "saved", "none", TRUE, TRUE)
    BY Zenon DEF Leaves
  <2>. QED  BY <2>1, <2>2, <2>3, FollowsBy, Zenon
<1>11. Follows(PlanOf(<<"oen", "read", "restore">>, "saved", "none", TRUE, TRUE))
  <2>1. PlanOf(<<"read", "restore">>, "saved", "none", FALSE, TRUE) \in PlansLeft
    BY Zenon DEF PlansLeft
  <2>2. /\ Head(<<"oen", "read", "restore">>) = "oen"
        /\ Tail(<<"oen", "read", "restore">>) = <<"read", "restore">>
    BY ThreeLeft, Zenon
  <2>3. Leaves("oen", "saved", "none", TRUE, TRUE, "saved", "none", FALSE, TRUE)
    BY Zenon DEF Leaves
  <2>. QED  BY <2>1, <2>2, <2>3, FollowsBy, Zenon
<1>12. Follows(PlanOf(<<"read", "restore">>, "saved", "none", FALSE, TRUE))
  <2>1. PlanOf(<<"restore">>, "saved", "none", TRUE, TRUE) \in PlansLeft
    BY Zenon DEF PlansLeft
  <2>2. Head(<<"read", "restore">>) = "read" /\ Tail(<<"read", "restore">>) = <<"restore">>
    BY TwoLeft, Zenon
  <2>3. Leaves("read", "saved", "none", FALSE, TRUE, "saved", "none", TRUE, TRUE)
    BY Zenon DEF Leaves
  <2>. QED  BY <2>1, <2>2, <2>3, FollowsBy, Zenon
<1>13. Follows(PlanOf(<<"restore">>, "saved", "none", TRUE, TRUE))
  <2>1. PlanOf(<<>>, "none", "none", FALSE, FALSE) \in PlansLeft
    BY Zenon DEF PlansLeft
  <2>2. Head(<<"restore">>) = "restore" /\ Tail(<<"restore">>) = <<>>
    BY OneLeft, Zenon
  <2>3. Leaves("restore", "saved", "none", TRUE, TRUE, "none", "none", FALSE, FALSE)
    BY Zenon DEF Leaves
  <2>. QED  BY <2>1, <2>2, <2>3, FollowsBy, Zenon
<1>14. Follows(PlanOf(<<"set">>, "none", "set", FALSE, FALSE))
  <2>1. PlanOf(<<>>, "none", "none", FALSE, FALSE) \in PlansLeft
    BY Zenon DEF PlansLeft
  <2>2. Head(<<"set">>) = "set" /\ Tail(<<"set">>) = <<>>
    BY OneLeft, Zenon
  <2>3. Leaves("set", "none", "set", FALSE, FALSE, "none", "none", FALSE, FALSE)
    BY Zenon DEF Leaves
  <2>. QED  BY <2>1, <2>2, <2>3, FollowsBy, Zenon
<1>15. Follows(PlanOf(<<"clr">>, "none", "clr", FALSE, FALSE))
  <2>1. PlanOf(<<>>, "none", "none", FALSE, FALSE) \in PlansLeft
    BY Zenon DEF PlansLeft
  <2>2. Head(<<"clr">>) = "clr" /\ Tail(<<"clr">>) = <<>>
    BY OneLeft, Zenon
  <2>3. Leaves("clr", "none", "clr", FALSE, FALSE, "none", "none", FALSE, FALSE)
    BY Zenon DEF Leaves
  <2>. QED  BY <2>1, <2>2, <2>3, FollowsBy, Zenon
<1>16. Follows(PlanOf(<<"set", "read", "drive">>, "out", "set", FALSE, FALSE))
  <2>1. PlanOf(<<"read", "drive">>, "out", "none", FALSE, FALSE) \in PlansLeft
    BY Zenon DEF PlansLeft
  <2>2. /\ Head(<<"set", "read", "drive">>) = "set"
        /\ Tail(<<"set", "read", "drive">>) = <<"read", "drive">>
    BY ThreeLeft, Zenon
  <2>3. Leaves("set", "out", "set", FALSE, FALSE, "out", "none", FALSE, FALSE)
    BY Zenon DEF Leaves
  <2>. QED  BY <2>1, <2>2, <2>3, FollowsBy, Zenon
<1>17. Follows(PlanOf(<<"clr", "read", "drive">>, "out", "clr", FALSE, FALSE))
  <2>1. PlanOf(<<"read", "drive">>, "out", "none", FALSE, FALSE) \in PlansLeft
    BY Zenon DEF PlansLeft
  <2>2. /\ Head(<<"clr", "read", "drive">>) = "clr"
        /\ Tail(<<"clr", "read", "drive">>) = <<"read", "drive">>
    BY ThreeLeft, Zenon
  <2>3. Leaves("clr", "out", "clr", FALSE, FALSE, "out", "none", FALSE, FALSE)
    BY Zenon DEF Leaves
  <2>. QED  BY <2>1, <2>2, <2>3, FollowsBy, Zenon
<1>18. Follows(PlanOf(<<"read", "drive", "set">>, "out", "set", FALSE, TRUE))
  <2>1. PlanOf(<<"drive", "set">>, "out", "set", TRUE, TRUE) \in PlansLeft
    BY Zenon DEF PlansLeft
  <2>2. /\ Head(<<"read", "drive", "set">>) = "read"
        /\ Tail(<<"read", "drive", "set">>) = <<"drive", "set">>
    BY ThreeLeft, Zenon
  <2>3. Leaves("read", "out", "set", FALSE, TRUE, "out", "set", TRUE, TRUE)
    BY Zenon DEF Leaves
  <2>. QED  BY <2>1, <2>2, <2>3, FollowsBy, Zenon
<1>19. Follows(PlanOf(<<"read", "drive", "clr">>, "out", "clr", FALSE, TRUE))
  <2>1. PlanOf(<<"drive", "clr">>, "out", "clr", TRUE, TRUE) \in PlansLeft
    BY Zenon DEF PlansLeft
  <2>2. /\ Head(<<"read", "drive", "clr">>) = "read"
        /\ Tail(<<"read", "drive", "clr">>) = <<"drive", "clr">>
    BY ThreeLeft, Zenon
  <2>3. Leaves("read", "out", "clr", FALSE, TRUE, "out", "clr", TRUE, TRUE)
    BY Zenon DEF Leaves
  <2>. QED  BY <2>1, <2>2, <2>3, FollowsBy, Zenon
<1>20. Follows(PlanOf(<<"drive", "set">>, "out", "set", TRUE, TRUE))
  <2>1. PlanOf(<<"set">>, "none", "set", FALSE, FALSE) \in PlansLeft
    BY Zenon DEF PlansLeft
  <2>2. Head(<<"drive", "set">>) = "drive" /\ Tail(<<"drive", "set">>) = <<"set">>
    BY TwoLeft, Zenon
  <2>3. Leaves("drive", "out", "set", TRUE, TRUE, "none", "set", FALSE, FALSE)
    BY Zenon DEF Leaves
  <2>. QED  BY <2>1, <2>2, <2>3, FollowsBy, Zenon
<1>21. Follows(PlanOf(<<"drive", "clr">>, "out", "clr", TRUE, TRUE))
  <2>1. PlanOf(<<"clr">>, "none", "clr", FALSE, FALSE) \in PlansLeft
    BY Zenon DEF PlansLeft
  <2>2. Head(<<"drive", "clr">>) = "drive" /\ Tail(<<"drive", "clr">>) = <<"clr">>
    BY TwoLeft, Zenon
  <2>3. Leaves("drive", "out", "clr", TRUE, TRUE, "none", "clr", FALSE, FALSE)
    BY Zenon DEF Leaves
  <2>. QED  BY <2>1, <2>2, <2>3, FollowsBy, Zenon
<1>22. PlanOf(<<>>, "none", "none", FALSE, FALSE).todo = <<>>
  BY DEF PlanOf
<1>. QED
  BY <1>1, <1>2, <1>3, <1>4, <1>5, <1>6, <1>7, <1>8, <1>9, <1>10, <1>11, <1>12, <1>13,
     <1>14, <1>15, <1>16, <1>17, <1>18, <1>19, <1>20, <1>21, <1>22, Zenon DEF PlansLeft

\* When nothing is left to do, nothing is left to change.
LEMMA EndedPlan ==
    ASSUME NEW pl \in PlansLeft, pl.todo = <<>>
    PROVE  pl.dir = "none" /\ pl.level = "none" /\ ~ pl.fresh
<1>1. PlanOf(<<"read", "oen">>, "in", "none", FALSE, FALSE).todo # <<>>
  BY DEF PlanOf
<1>2. PlanOf(<<"oen">>, "in", "none", TRUE, FALSE).todo # <<>>
  BY DEF PlanOf
<1>3. PlanOf(<<"read", "drive">>, "out", "none", FALSE, FALSE).todo # <<>>
  BY DEF PlanOf
<1>4. PlanOf(<<"drive">>, "out", "none", TRUE, FALSE).todo # <<>>
  BY DEF PlanOf
<1>5. PlanOf(<<"sample", "flip">>, "none", "sample", FALSE, FALSE).todo # <<>>
  BY DEF PlanOf
<1>6. PlanOf(<<"flip">>, "none", "flip", FALSE, FALSE).todo # <<>>
  BY DEF PlanOf
<1>7. PlanOf(<<"read", "drive", "sample", "flip">>, "out", "sample", FALSE, TRUE).todo # <<>>
  BY DEF PlanOf
<1>8. PlanOf(<<"drive", "sample", "flip">>, "out", "sample", TRUE, TRUE).todo # <<>>
  BY DEF PlanOf
<1>9. PlanOf(<<"save", "read", "oen", "read", "restore">>, "back", "none", FALSE, TRUE).todo # <<>>
  BY DEF PlanOf
<1>10. PlanOf(<<"read", "oen", "read", "restore">>, "saved", "none", FALSE, TRUE).todo # <<>>
  BY DEF PlanOf
<1>11. PlanOf(<<"oen", "read", "restore">>, "saved", "none", TRUE, TRUE).todo # <<>>
  BY DEF PlanOf
<1>12. PlanOf(<<"read", "restore">>, "saved", "none", FALSE, TRUE).todo # <<>>
  BY DEF PlanOf
<1>13. PlanOf(<<"restore">>, "saved", "none", TRUE, TRUE).todo # <<>>
  BY DEF PlanOf
<1>14. PlanOf(<<"set">>, "none", "set", FALSE, FALSE).todo # <<>>
  BY DEF PlanOf
<1>15. PlanOf(<<"clr">>, "none", "clr", FALSE, FALSE).todo # <<>>
  BY DEF PlanOf
<1>16. PlanOf(<<"set", "read", "drive">>, "out", "set", FALSE, FALSE).todo # <<>>
  BY DEF PlanOf
<1>17. PlanOf(<<"clr", "read", "drive">>, "out", "clr", FALSE, FALSE).todo # <<>>
  BY DEF PlanOf
<1>18. PlanOf(<<"read", "drive", "set">>, "out", "set", FALSE, TRUE).todo # <<>>
  BY DEF PlanOf
<1>19. PlanOf(<<"read", "drive", "clr">>, "out", "clr", FALSE, TRUE).todo # <<>>
  BY DEF PlanOf
<1>20. PlanOf(<<"drive", "set">>, "out", "set", TRUE, TRUE).todo # <<>>
  BY DEF PlanOf
<1>21. PlanOf(<<"drive", "clr">>, "out", "clr", TRUE, TRUE).todo # <<>>
  BY DEF PlanOf
<1>22. pl = PlanOf(<<>>, "none", "none", FALSE, FALSE)
  BY <1>1, <1>2, <1>3, <1>4, <1>5, <1>6, <1>7, <1>8, <1>9, <1>10, <1>11, <1>12, <1>13,
     <1>14, <1>15, <1>16, <1>17, <1>18, <1>19, <1>20, <1>21, Zenon DEF PlansLeft
<1>. QED
  BY <1>22 DEF PlanOf

-----------------------------------------------------------------------------
(* Pins: one register access. *)

PinsTyped ==
    /\ oen \subseteq Pins /\ data \subseteq Pins
    /\ kind \in [Pins -> Kinds]
    /\ DOMAIN pinTodo = PinContexts
    /\ pinOf \in [PinContexts -> Pins]
    /\ DOMAIN oenRead = PinContexts /\ DOMAIN oenSaved = PinContexts
    /\ sampled \in [PinContexts -> BOOLEAN]
    /\ outAsked \subseteq Pins /\ highAsked \subseteq Pins

\* What the pin was asked it does.
Settled(p) == (p \in oen <=> p \notin outAsked) /\ (p \in data <=> p \in highAsked)

\* The direction and the level that a rest of a call still changes are the ones asked
\* for; the others are already there.
DirLeft(d, c, p) ==
    /\ d \in {"none", "back"} => (p \in oen <=> p \notin outAsked)
    /\ d = "in" => p \notin outAsked
    /\ d = "out" => p \in outAsked
    /\ d = "saved" => (p \in oenSaved[c] <=> p \notin outAsked)

LevelLeft(l, c, p) ==
    /\ l = "none" => (p \in data <=> p \in highAsked)
    /\ l = "set" => p \in highAsked
    /\ l = "clr" => p \notin highAsked
    /\ l = "sample" => (p \in highAsked <=> ~ SwOut(p))
    /\ l = "flip" => (p \in highAsked <=> ~ sampled[c])

RegsLeft(pl, c, p) ==
    /\ pl.fresh => oenRead[c] = oen \cap Bank(p)
    /\ ~ pl.fresh => oenRead[c] = {}
    /\ oenSaved[c] \subseteq Bank(p)
    /\ pl.dir # "saved" => oenSaved[c] = {}
    /\ pl.flex => kind[p] = "flex"

Holds(pl, c, p) == RegsLeft(pl, c, p) /\ DirLeft(pl.dir, c, p) /\ LevelLeft(pl.level, c, p)

\* What an access does, by its kind.
LEMMA AccessIs ==
    ASSUME PinsTyped, NEW c \in PinContexts, PinAccess(c), NEW p, p = pinOf[c],
           NEW op, op = Head(pinTodo[c])
    PROVE  /\ p \in Pins /\ p \in Bank(p)
           /\ pinTodo[c] # <<>> /\ MayRun(c)
           /\ pinTodo' = [pinTodo EXCEPT ![c] = Tail(pinTodo[c])]
           /\ pinOf' = IF Tail(pinTodo[c]) = <<>> THEN [pinOf EXCEPT ![c] = FirstPin(c)]
                       ELSE pinOf
           /\ oenRead'[c] = IF op = "read" THEN oen \cap Bank(p) ELSE {}
           /\ op = "save" => oenSaved'[c] = oen \cap Bank(p)
           /\ op = "restore" => oenSaved'[c] = {}
           /\ op \notin {"save", "restore"} => oenSaved'[c] = oenSaved[c]
           /\ sampled' = [sampled EXCEPT ![c] = op = "sample" /\ SwOut(p)]
           /\ \A k \in PinContexts \ {c} : oenRead'[k] = oenRead[k] /\ oenSaved'[k] = oenSaved[k]
           /\ DOMAIN oenRead' = PinContexts /\ DOMAIN oenSaved' = PinContexts
           /\ UNCHANGED <<kind, outAsked, highAsked, padVars>>
<1>1. p \in Pins /\ p \in Bank(p)
  BY DEF PinsTyped, Bank
<1>2. /\ pinTodo[c] # <<>> /\ MayRun(c)
      /\ pinTodo' = [pinTodo EXCEPT ![c] = Tail(pinTodo[c])]
      /\ pinOf' = IF pinTodo'[c] = <<>> THEN [pinOf EXCEPT ![c] = FirstPin(c)] ELSE pinOf
  BY DEF PinAccess
<1>3. pinTodo'[c] = Tail(pinTodo[c])
  BY <1>2 DEF PinsTyped
<1>4. oenRead' = [oenRead EXCEPT ![c] = IF op = "read" THEN oen \cap Bank(p) ELSE {}]
  BY DEF PinAccess
<1>5. oenSaved' = [oenSaved EXCEPT ![c] =
                CASE op = "save" -> oen \cap Bank(p) [] op = "restore" -> {}
                  [] OTHER -> oenSaved[c]]
  BY DEF PinAccess
<1>6. sampled' = [sampled EXCEPT ![c] = op = "sample" /\ SwOut(p)]
  BY Zenon DEF PinAccess
<1>7. UNCHANGED <<kind, outAsked, highAsked, padVars>>
  BY Zenon DEF PinAccess
<1>8. /\ op = "save" => oenSaved'[c] = oen \cap Bank(p)
      /\ op = "restore" => oenSaved'[c] = {}
      /\ op \notin {"save", "restore"} => oenSaved'[c] = oenSaved[c]
  BY <1>5 DEF PinsTyped
<1>9. oenRead'[c] = IF op = "read" THEN oen \cap Bank(p) ELSE {}
  BY <1>4 DEF PinsTyped
<1>10. /\ \A k \in PinContexts \ {c} : oenRead'[k] = oenRead[k] /\ oenSaved'[k] = oenSaved[k]
       /\ DOMAIN oenRead' = PinContexts /\ DOMAIN oenSaved' = PinContexts
  BY <1>4, <1>5 DEF PinsTyped
<1>. QED
  BY <1>1, <1>2, <1>3, <1>6, <1>7, <1>8, <1>9, <1>10, Zenon

\* What it does to the direction register and to the data.
LEMMA AccessWrites ==
    ASSUME PinsTyped, NEW c \in PinContexts, PinAccess(c), NEW p, p = pinOf[c],
           NEW op, op = Head(pinTodo[c])
    PROVE  /\ op = "oen" => oen' = (oen \ Bank(p)) \cup (oenRead[c] \cup {p})
           /\ op = "drive" => oen' = (oen \ Bank(p)) \cup (oenRead[c] \ {p})
           /\ op = "restore" /\ p \in oenSaved[c] =>
                oen' = (oen \ Bank(p)) \cup (oenRead[c] \cup {p})
           /\ op = "restore" /\ p \notin oenSaved[c] =>
                oen' = (oen \ Bank(p)) \cup (oenRead[c] \ {p})
           /\ op \in {"read", "save", "set", "clr", "sample", "flip"} => oen' = oen
           /\ op = "set" \/ (op = "flip" /\ ~ sampled[c]) => data' = data \cup {p}
           /\ op = "clr" \/ (op = "flip" /\ sampled[c]) => data' = data \ {p}
           /\ op \notin {"set", "clr", "flip"} => data' = data
<1> DEFINE W(bits) == oen' = (oen \ Bank(p)) \cup bits
           B(bits, input) == IF input THEN bits \cup {p} ELSE bits \ {p}
<1>1. (CASE op = "oen" -> W(B(oenRead[c], TRUE))
        [] op = "drive" -> W(B(oenRead[c], FALSE))
        [] op = "restore" -> W(B(oenRead[c], p \in oenSaved[c]))
        [] op = "only" -> W({p})
        [] op = "none" -> W({})
        [] OTHER -> UNCHANGED oen)
  BY Zenon DEF PinAccess
<1>2. data' = CASE op = "set" \/ (op = "flip" /\ ~ sampled[c]) -> data \cup {p}
                [] op = "clr" \/ (op = "flip" /\ sampled[c]) -> data \ {p}
                [] OTHER -> data
  BY Zenon DEF PinAccess
<1>3. /\ op = "oen" => oen' = (oen \ Bank(p)) \cup (oenRead[c] \cup {p})
      /\ op = "drive" => oen' = (oen \ Bank(p)) \cup (oenRead[c] \ {p})
      /\ op = "restore" /\ p \in oenSaved[c] =>
           oen' = (oen \ Bank(p)) \cup (oenRead[c] \cup {p})
      /\ op = "restore" /\ p \notin oenSaved[c] =>
           oen' = (oen \ Bank(p)) \cup (oenRead[c] \ {p})
      /\ op \in {"read", "save", "set", "clr", "sample", "flip"} => oen' = oen
  BY <1>1
<1>4. sampled[c] \in BOOLEAN
  BY DEF PinsTyped
<1>5. /\ op = "set" \/ (op = "flip" /\ ~ sampled[c]) => data' = data \cup {p}
      /\ op = "clr" \/ (op = "flip" /\ sampled[c]) => data' = data \ {p}
      /\ op \notin {"set", "clr", "flip"} => data' = data
  BY <1>2, <1>4
<1>. QED
  BY <1>3, <1>5, Zenon

\* The rest of a call stays one that ends as asked; other pins are left alone; and a pin
\* that begins to drive has its level.
LEMMA AccessHolds ==
    ASSUME PinsTyped, NEW c \in PinContexts, NEW p, p = pinOf[c], NEW pl, NEW nx,
           Holds(pl, c, p), GoesOn(Head(pinTodo[c]), pl, nx), PinAccess(c)
    PROVE  /\ Holds(nx, c, p)'
           /\ oen' \subseteq Pins /\ data' \subseteq Pins
           /\ \A q \in Pins \ {p} : (q \in oen' <=> q \in oen) /\ (q \in data' <=> q \in data)
           /\ p \in oen /\ p \notin oen' /\ kind[p] = "output" => (p \in data <=> p \in highAsked)
<1> DEFINE op == Head(pinTodo[c])
           Others == /\ oen' \subseteq Pins /\ data' \subseteq Pins
                     /\ \A q \in Pins \ {p} :
                          (q \in oen' <=> q \in oen) /\ (q \in data' <=> q \in data)
           Glitch == p \in oen /\ p \notin oen' /\ kind[p] = "output"
                       => (p \in data <=> p \in highAsked)
<1>1. /\ p \in Pins /\ p \in Bank(p) /\ sampled' = [sampled EXCEPT ![c] = op = "sample" /\ SwOut(p)]
      /\ oenRead'[c] = IF op = "read" THEN oen \cap Bank(p) ELSE {}
      /\ op = "save" => oenSaved'[c] = oen \cap Bank(p)
      /\ op = "restore" => oenSaved'[c] = {}
      /\ op \notin {"save", "restore"} => oenSaved'[c] = oenSaved[c]
      /\ kind' = kind /\ outAsked' = outAsked /\ highAsked' = highAsked /\ padCtrl' = padCtrl
  BY AccessIs, Zenon DEF padVars
<1>2. /\ op = "oen" => oen' = (oen \ Bank(p)) \cup (oenRead[c] \cup {p})
      /\ op = "drive" => oen' = (oen \ Bank(p)) \cup (oenRead[c] \ {p})
      /\ op = "restore" /\ p \in oenSaved[c] => oen' = (oen \ Bank(p)) \cup (oenRead[c] \cup {p})
      /\ op = "restore" /\ p \notin oenSaved[c] => oen' = (oen \ Bank(p)) \cup (oenRead[c] \ {p})
      /\ op \in {"read", "save", "set", "clr", "sample", "flip"} => oen' = oen
      /\ op = "set" \/ (op = "flip" /\ ~ sampled[c]) => data' = data \cup {p}
      /\ op = "clr" \/ (op = "flip" /\ sampled[c]) => data' = data \ {p}
      /\ op \notin {"set", "clr", "flip"} => data' = data
  BY AccessWrites, Zenon
<1>3. /\ oen \subseteq Pins /\ data \subseteq Pins /\ sampled[c] \in BOOLEAN
      /\ sampled'[c] = (op = "sample" /\ SwOut(p))
  BY <1>1 DEF PinsTyped
<1>4. Leaves(op, pl.dir, pl.level, pl.fresh, pl.flex, nx.dir, nx.level, nx.fresh, nx.flex)
  BY DEF GoesOn
<1>5. /\ RegsLeft(pl, c, p) /\ DirLeft(pl.dir, c, p) /\ LevelLeft(pl.level, c, p)
  BY DEF Holds
<1>6. data' = data => (SwOut(p)' <=> SwOut(p))
  BY <1>1 DEF SwOut
<1>. HIDE DEF op
<1>7. CASE op = "read"
  <2>1. /\ oen' = oen /\ data' = data /\ oenRead'[c] = oen \cap Bank(p) /\ oenSaved'[c] = oenSaved[c]
        /\ sampled'[c] = FALSE
    BY <1>1, <1>2, <1>3, <1>7
  <2>2. nx.dir = pl.dir /\ nx.level = pl.level /\ nx.fresh /\ nx.flex = pl.flex
        /\ pl.level # "flip"
    BY <1>4, <1>7 DEF Leaves
  <2>4. RegsLeft(nx, c, p)'
    BY <1>1, <1>5, <2>1, <2>2 DEF RegsLeft
  <2>5. DirLeft(nx.dir, c, p)'
    BY <1>1, <1>5, <2>1, <2>2 DEF DirLeft
  <2>6. LevelLeft(nx.level, c, p)'
    BY <1>1, <1>5, <1>6, <2>1, <2>2 DEF LevelLeft
  <2>. QED  BY <1>3, <2>1, <2>4, <2>5, <2>6 DEF Holds
<1>8. CASE op = "oen" \/ op = "drive" \/ op = "restore"
  <2>1. /\ data' = data /\ oenRead'[c] = {} /\ sampled'[c] = FALSE
        /\ op # "restore" => oenSaved'[c] = oenSaved[c]
    BY <1>1, <1>2, <1>3, <1>8
  <2>2. pl.fresh /\ ~ nx.fresh /\ oenRead[c] = oen \cap Bank(p)
    BY <1>4, <1>5, <1>8 DEF Leaves, RegsLeft
  <2>3. nx.level = pl.level /\ (nx.flex => pl.flex)
        /\ pl.dir \in {"in", "out", "saved"}
        /\ (pl.dir = "in" => op = "oen" /\ nx.dir = "none")
        /\ (pl.dir = "out" => op = "drive" /\ nx.dir = "none" /\ (pl.level = "none" \/ pl.flex))
        /\ (pl.dir = "saved" => pl.flex /\ ((op = "oen" /\ nx.dir = "saved")
                                          \/ (op = "restore" /\ nx.dir = "none")))
        /\ pl.level # "flip"
    BY <1>4, <1>8 DEF Leaves
  <2>4. /\ pl.dir = "in" => p \in oen' /\ p \notin outAsked
        /\ pl.dir = "out" => p \notin oen' /\ p \in outAsked
        /\ op = "restore" => (p \in oen' <=> p \notin outAsked)
        /\ pl.dir = "saved" => (p \in oenSaved[c] <=> p \notin outAsked)
    BY <1>1, <1>2, <1>5, <2>2, <2>3 DEF DirLeft
  <2>5. /\ nx.dir = "saved" => oenSaved'[c] = oenSaved[c] /\ pl.dir = "saved"
        /\ nx.dir # "saved" => oenSaved'[c] = {}
    BY <1>1, <1>5, <2>1, <2>3 DEF RegsLeft
  <2>6. RegsLeft(nx, c, p)'
    BY <1>1, <1>5, <2>1, <2>2, <2>3, <2>5 DEF RegsLeft
  <2>7. DirLeft(nx.dir, c, p)'
    BY <1>1, <2>3, <2>4, <2>5 DEF DirLeft
  <2>8. LevelLeft(nx.level, c, p)'
    BY <1>1, <1>5, <1>6, <2>1, <2>3 DEF LevelLeft
  <2>9. Others
    BY <1>1, <1>2, <1>3, <1>8, <2>1, <2>2 DEF Bank
  <2>10. Glitch
    BY <1>5, <2>3, <2>4 DEF LevelLeft, RegsLeft
  <2>. QED  BY <2>6, <2>7, <2>8, <2>9, <2>10 DEF Holds
<1>9. CASE op = "save"
  <2>1. /\ oen' = oen /\ data' = data /\ oenRead'[c] = {} /\ oenSaved'[c] = oen \cap Bank(p)
    BY <1>1, <1>2, <1>9
  <2>2. /\ pl.dir = "back" /\ nx.dir = "saved" /\ nx.level = "none" /\ pl.level = "none"
        /\ ~ nx.fresh /\ (nx.flex => pl.flex)
    BY <1>4, <1>9 DEF Leaves
  <2>4. RegsLeft(nx, c, p)'
    BY <1>1, <1>5, <2>1, <2>2 DEF RegsLeft
  <2>5. DirLeft(nx.dir, c, p)'
    BY <1>1, <1>5, <2>1, <2>2 DEF DirLeft
  <2>6. LevelLeft(nx.level, c, p)'
    BY <1>1, <1>5, <2>1, <2>2 DEF LevelLeft
  <2>. QED  BY <1>3, <2>1, <2>4, <2>5, <2>6 DEF Holds
<1>10. CASE op \in {"set", "clr", "sample", "flip"}
  <2>1. /\ oen' = oen /\ oenRead'[c] = {} /\ oenSaved'[c] = oenSaved[c]
        /\ sampled'[c] = (op = "sample" /\ SwOut(p))
    BY <1>1, <1>2, <1>3, <1>10
  <2>2. /\ nx.dir = pl.dir /\ pl.dir \in {"none", "out"} /\ ~ nx.fresh /\ ~ nx.flex
        /\ op = "sample" => pl.level = "sample" /\ nx.level = "flip"
        /\ op # "sample" => nx.level = "none" /\ pl.level = op
    BY <1>4, <1>10 DEF Leaves
  <2>4. RegsLeft(nx, c, p)'
    BY <1>1, <1>5, <2>1, <2>2 DEF RegsLeft
  <2>5. DirLeft(nx.dir, c, p)'
    BY <1>1, <1>5, <2>1, <2>2 DEF DirLeft
  <2>6. LevelLeft(nx.level, c, p)'
    BY <1>1, <1>2, <1>3, <1>5, <1>10, <2>1, <2>2 DEF LevelLeft
  <2>7. Others
    BY <1>1, <1>2, <1>3, <1>10, <2>1
  <2>. QED  BY <2>1, <2>4, <2>5, <2>6, <2>7 DEF Holds
<1>. QED
  BY <1>4, <1>7, <1>8, <1>9, <1>10 DEF Leaves

-----------------------------------------------------------------------------
(* Pins: what every state keeps. *)

\* The handler's pins share no bank, and so no direction register, with the others.
BanksApart == \A p \in HandlerPins, q \in Pins \ HandlerPins : BankOfPin[p] # BankOfPin[q]

CallOf(c) ==
    /\ pinTodo[c] = <<>> => pinOf[c] = FirstPin(c) /\ oenRead[c] = {} /\ oenSaved[c] = {}
    /\ pinTodo[c] # <<>> =>
         /\ pinOf[c] \in PinsOf(c)
         /\ \E pl \in PlansLeft : pl.todo = pinTodo[c] /\ Holds(pl, c, pinOf[c])

PinsInv ==
    /\ PinsTyped
    /\ \A c \in PinContexts : CallOf(c)
    /\ \A p \in Pins : ~ Busy(p) => Settled(p)
    /\ \A p \in Pins : kind[p] = "output" => p \in outAsked

LEMMA FirstOnes == \A c \in PinContexts : FirstPin(c) \in Pins /\ PinsOf(c) \subseteq Pins
BY PinsAssumption DEF FirstPin, PinsOf

\* Pins of the two contexts are apart, with their banks.
LEMMA ContextsApart ==
    ASSUME BanksApart, NEW c \in PinContexts, NEW k \in PinContexts, c # k,
           NEW p \in PinsOf(c), NEW q \in PinsOf(k)
    PROVE  p # q /\ p \notin Bank(q)
BY PinsAssumption DEF BanksApart, PinsOf, Bank, PinContexts

\* A call goes on as it was while nothing of its pin and of its registers changes.
LEMMA CallUnaware ==
    ASSUME NEW c \in PinContexts, CallOf(c), NEW p, p = pinOf[c], p \in Pins,
           pinTodo'[c] = pinTodo[c], pinOf'[c] = pinOf[c], oenRead'[c] = oenRead[c],
           oenSaved'[c] = oenSaved[c], sampled'[c] = sampled[c],
           pinTodo[c] # <<>> =>
             /\ oen' \cap Bank(p) = oen \cap Bank(p)
             /\ p \in data' <=> p \in data
             /\ p \in outAsked' <=> p \in outAsked
             /\ p \in highAsked' <=> p \in highAsked
             /\ kind'[p] = kind[p]
             /\ p \in GpioPads => padCtrl'[p] = padCtrl[p]
    PROVE  CallOf(c)'
<1>1. CASE pinTodo[c] = <<>>
  BY <1>1 DEF CallOf
<1>2. CASE pinTodo[c] # <<>>
  <2>1. PICK pl \in PlansLeft : pl.todo = pinTodo[c] /\ Holds(pl, c, pinOf[c])
    BY <1>2 DEF CallOf
  <2>2. /\ oen' \cap Bank(p) = oen \cap Bank(p)
        /\ p \in data' <=> p \in data
        /\ p \in outAsked' <=> p \in outAsked
        /\ p \in highAsked' <=> p \in highAsked
        /\ kind'[p] = kind[p]
        /\ p \in GpioPads => padCtrl'[p] = padCtrl[p]
    BY <1>2
  <2>3. p \in oen' <=> p \in oen
    BY <2>2 DEF Bank
  <2>4. SwOut(p)' <=> SwOut(p)
    BY <2>2 DEF SwOut
  <2>5. RegsLeft(pl, c, p) /\ DirLeft(pl.dir, c, p) /\ LevelLeft(pl.level, c, p)
    BY <2>1 DEF Holds
  <2>6. RegsLeft(pl, c, p)'
    BY <2>2, <2>5 DEF RegsLeft
  <2>7. DirLeft(pl.dir, c, p)'
    BY <2>2, <2>3, <2>5 DEF DirLeft
  <2>8. LevelLeft(pl.level, c, p)'
    BY <2>2, <2>4, <2>5 DEF LevelLeft
  <2>9. Holds(pl, c, pinOf[c])'
    BY <2>6, <2>7, <2>8 DEF Holds
  <2>. QED  BY <1>2, <2>1, <2>9, Zenon DEF CallOf
<1>. QED
  BY <1>1, <1>2

LEMMA PinsStart == ASSUME PinsInit PROVE PinsInv /\ PadsInv
<1>1. PinsTyped
  BY FirstOnes DEF PinsInit, PinsTyped, Kinds
<1>2. \A c \in PinContexts : CallOf(c)
  BY DEF PinsInit, CallOf
<1>3. \A p \in Pins : Settled(p) /\ kind[p] # "output"
  BY DEF PinsInit, Settled
<1>. QED
  BY <1>1, <1>2, <1>3, PadsStart DEF PinsInv, PinsInit

\* One access keeps it, and no pin starts to drive with the wrong level.
LEMMA AccessKeepsPins ==
    ASSUME BanksApart, PinsInv, NEW c \in PinContexts, PinAccess(c)
    PROVE  /\ PinsInv'
           /\ \A p \in Pins : p \in oen /\ p \notin oen' /\ kind[p] = "output"
                => (p \in data <=> p \in highAsked)
<1>1. PICK p : p = pinOf[c]
  OBVIOUS
<1>2. PICK op : op = Head(pinTodo[c])
  OBVIOUS
<1>3. PinsTyped /\ CallOf(c)
  BY DEF PinsInv
<1>4. /\ p \in Pins /\ p \in Bank(p)
      /\ pinTodo[c] # <<>>
      /\ pinTodo' = [pinTodo EXCEPT ![c] = Tail(pinTodo[c])]
      /\ pinOf' = IF Tail(pinTodo[c]) = <<>> THEN [pinOf EXCEPT ![c] = FirstPin(c)] ELSE pinOf
      /\ oenRead'[c] = IF op = "read" THEN oen \cap Bank(p) ELSE {}
      /\ sampled' = [sampled EXCEPT ![c] = op = "sample" /\ SwOut(p)]
      /\ \A k \in PinContexts \ {c} : oenRead'[k] = oenRead[k] /\ oenSaved'[k] = oenSaved[k]
      /\ DOMAIN oenRead' = PinContexts /\ DOMAIN oenSaved' = PinContexts
      /\ UNCHANGED <<kind, outAsked, highAsked, padVars>>
  BY <1>1, <1>2, <1>3, AccessIs, Zenon
<1>5. PICK pl \in PlansLeft : pl.todo = pinTodo[c] /\ Holds(pl, c, p)
  BY <1>1, <1>3, <1>4 DEF CallOf
<1>6. PICK nx \in PlansLeft : nx.todo = Tail(pl.todo) /\ GoesOn(Head(pl.todo), pl, nx)
  BY <1>4, <1>5, PlanGoesOn DEF Follows
<1>7. GoesOn(Head(pinTodo[c]), pl, nx) /\ nx.todo = Tail(pinTodo[c])
  BY <1>5, <1>6
<1>8. /\ Holds(nx, c, p)'
      /\ oen' \subseteq Pins /\ data' \subseteq Pins
      /\ \A q \in Pins \ {p} : (q \in oen' <=> q \in oen) /\ (q \in data' <=> q \in data)
      /\ p \in oen /\ p \notin oen' /\ kind[p] = "output" => (p \in data <=> p \in highAsked)
  BY <1>1, <1>3, <1>5, <1>7, AccessHolds, Zenon
<1>9. p \in PinsOf(c)
  BY <1>1, <1>3, <1>4 DEF CallOf
<1>10. PinsTyped'
  <2>1. sampled' \in [PinContexts -> BOOLEAN]
    <3>1. (op = "sample" /\ SwOut(p)) \in BOOLEAN
      BY DEF SwOut
    <3>. QED  BY <1>3, <1>4, <3>1, Zenon DEF PinsTyped
  <2>2. pinOf' \in [PinContexts -> Pins] /\ DOMAIN pinTodo' = PinContexts
    BY <1>3, <1>4, FirstOnes DEF PinsTyped
  <2>. QED  BY <1>3, <1>4, <1>8, <2>1, <2>2 DEF PinsTyped
<1>11. pinTodo'[c] = Tail(pinTodo[c])
  BY <1>3, <1>4 DEF PinsTyped
<1>12. CallOf(c)'
  <2>1. CASE Tail(pinTodo[c]) = <<>>
    <3>1. nx.todo = <<>>
      BY <1>7, <2>1
    <3>2. nx.dir # "saved" /\ ~ nx.fresh
      BY <3>1, <1>6, EndedPlan
    <3>3. oenRead'[c] = {} /\ oenSaved'[c] = {}
      BY <1>8, <3>2 DEF Holds, RegsLeft
    <3>4. pinOf'[c] = FirstPin(c)
      BY <1>3, <1>4, <2>1 DEF PinsTyped
    <3>. QED  BY <1>11, <2>1, <3>3, <3>4 DEF CallOf, FirstPin
  <2>2. CASE Tail(pinTodo[c]) # <<>>
    <3>1. pinOf'[c] = p
      BY <1>1, <1>4, <2>2
    <3>2. Holds(nx, c, pinOf[c])'
      BY <1>8, <3>1
    <3>. QED  BY <1>7, <1>9, <1>11, <2>2, <3>1, <3>2, Zenon DEF CallOf
  <2>. QED  BY <2>1, <2>2
<1>13. ASSUME NEW k \in PinContexts, k # c PROVE CallOf(k)'
  <2>1. CallOf(k) /\ pinOf[k] \in Pins
    BY DEF PinsInv, PinsTyped
  <2>2. /\ pinTodo'[k] = pinTodo[k] /\ pinOf'[k] = pinOf[k] /\ oenRead'[k] = oenRead[k]
        /\ oenSaved'[k] = oenSaved[k] /\ sampled'[k] = sampled[k]
    BY <1>3, <1>4, <1>13 DEF PinsTyped
  <2>3. PICK q : q = pinOf[k]
    OBVIOUS
  <2>4. ASSUME pinTodo[k] # <<>>
        PROVE  /\ oen' \cap Bank(q) = oen \cap Bank(q)
               /\ q \in data' <=> q \in data
    <3>1. q \in PinsOf(k)
      BY <2>1, <2>3, <2>4 DEF CallOf
    <3>2. p # q /\ p \notin Bank(q)
      BY <3>1, <1>9, <1>13, ContextsApart
    <3>. QED  BY <1>8, <2>1, <2>3, <3>2 DEF Bank
  <2>5. kind' = kind /\ outAsked' = outAsked /\ highAsked' = highAsked /\ padCtrl' = padCtrl
    BY <1>4 DEF padVars
  <2>. QED  BY <2>1, <2>2, <2>3, <2>4, <2>5, CallUnaware
<1>14. ASSUME NEW q \in Pins, ~ Busy(q)' PROVE Settled(q)'
  <2>1. CASE q = p
    <3>1. Tail(pinTodo[c]) = <<>>
      BY <1>1, <1>4, <1>11, <1>14, <2>1 DEF Busy
    <3>2. nx.dir = "none" /\ nx.level = "none"
      BY <3>1, <1>7, <1>6, EndedPlan
    <3>. QED  BY <1>8, <2>1, <3>2 DEF Holds, DirLeft, LevelLeft, Settled
  <2>2. CASE q # p
    <3>1. ~ Busy(q)
      <4>1. ASSUME NEW k \in PinContexts, pinTodo[k] # <<>>, pinOf[k] = q PROVE FALSE
        <5>1. k # c
          BY <1>1, <2>2, <4>1
        <5>2. pinTodo'[k] = pinTodo[k] /\ pinOf'[k] = pinOf[k]
          BY <1>3, <1>4, <5>1 DEF PinsTyped
        <5>. QED  BY <1>14, <4>1, <5>2 DEF Busy
      <4>. QED  BY <4>1 DEF Busy
    <3>2. Settled(q)
      BY <3>1 DEF PinsInv
    <3>. QED  BY <1>4, <1>8, <2>2, <3>2 DEF Settled
  <2>. QED  BY <2>1, <2>2
<1>15. \A q \in Pins : kind'[q] = "output" => q \in outAsked'
  BY <1>4 DEF PinsInv
<1>16. PinsInv'
  <2>1. \A k \in PinContexts : CallOf(k)'
    BY <1>12, <1>13
  <2>. QED  BY <1>10, <1>14, <1>15, <2>1 DEF PinsInv
<1>. QED
  BY <1>8, <1>16

-----------------------------------------------------------------------------
(* Pins: the calls. *)

LEMMA Accesses ==
    /\ SetOen(TRUE) = <<"read", "oen">> /\ SetOen(FALSE) = <<"read", "drive">>
    /\ DataTo(TRUE) = <<"set">> /\ DataTo(FALSE) = <<"clr">>
    /\ InitOutput(TRUE) = <<"set", "read", "drive">>
    /\ InitOutput(FALSE) = <<"clr", "read", "drive">>
    /\ SetOen(FALSE) \o DataTo(TRUE) = <<"read", "drive", "set">>
    /\ SetOen(FALSE) \o DataTo(FALSE) = <<"read", "drive", "clr">>
    /\ Toggle = <<"sample", "flip">>
    /\ SetOen(FALSE) \o Toggle = <<"read", "drive", "sample", "flip">>
    /\ FlexIsHigh = <<"save", "read", "oen", "read", "restore">>
<1>1. SetOen(TRUE) = <<"read", "oen">> /\ SetOen(FALSE) = <<"read", "drive">>
  BY DEF SetOen
<1>2. DataTo(TRUE) = <<"set">> /\ DataTo(FALSE) = <<"clr">>
  BY DEF DataTo
<1>3. Toggle = <<"sample", "flip">>
  BY DEF Toggle
<1>4. /\ InitOutput(TRUE) = <<"set", "read", "drive">>
      /\ InitOutput(FALSE) = <<"clr", "read", "drive">>
  <2>1. /\ <<"set">> \o <<"read", "drive">> = <<"set", "read", "drive">>
        /\ <<"clr">> \o <<"read", "drive">> = <<"clr", "read", "drive">>
    BY JoinOneTwo, Zenon
  <2>. QED  BY <1>1, <1>2, <2>1 DEF InitOutput
<1>5. /\ SetOen(FALSE) \o DataTo(TRUE) = <<"read", "drive", "set">>
      /\ SetOen(FALSE) \o DataTo(FALSE) = <<"read", "drive", "clr">>
  <2>1. /\ <<"read", "drive">> \o <<"set">> = <<"read", "drive", "set">>
        /\ <<"read", "drive">> \o <<"clr">> = <<"read", "drive", "clr">>
    BY JoinTwoOne, Zenon
  <2>. QED  BY <1>1, <1>2, <2>1
<1>6. SetOen(FALSE) \o Toggle = <<"read", "drive", "sample", "flip">>
  <2>1. <<"read", "drive">> \o <<"sample", "flip">> = <<"read", "drive", "sample", "flip">>
    BY JoinTwoTwo, Zenon
  <2>. QED  BY <1>1, <1>3, <2>1
<1>7. FlexIsHigh = <<"save", "read", "oen", "read", "restore">>
  <2>1. <<"save">> \o <<"read", "oen">> = <<"save", "read", "oen">>
    BY JoinOneTwo, Zenon
  <2>2. <<"save", "read", "oen">> \o <<"read", "restore">>
          = <<"save", "read", "oen", "read", "restore">>
    BY JoinThreeTwo, Zenon
  <2>. QED  BY <1>1, <2>1, <2>2 DEF FlexIsHigh
<1>. QED
  BY <1>1, <1>2, <1>3, <1>4, <1>5, <1>6, <1>7, Zenon

LEMMA AskedOf ==
    ASSUME PinsTyped, NEW p \in Pins, NEW out \in BOOLEAN, NEW high \in BOOLEAN, Asks(p, out, high)
    PROVE  /\ outAsked' \subseteq Pins /\ highAsked' \subseteq Pins
           /\ p \in outAsked' <=> out
           /\ p \in highAsked' <=> high
           /\ \A q \in Pins \ {p} : /\ q \in outAsked' <=> q \in outAsked
                                    /\ q \in highAsked' <=> q \in highAsked
BY DEF Asks, PinsTyped

\* Between calls a context's pins are as they were asked to be.
LEMMA OwnPinSettled ==
    ASSUME BanksApart, PinsInv, NEW c \in PinContexts, NEW p \in PinsOf(c), pinTodo[c] = <<>>
    PROVE  p \in Pins /\ Settled(p)
<1>1. p \in Pins
  BY FirstOnes
<1>2. ASSUME NEW k \in PinContexts, pinTodo[k] # <<>>, pinOf[k] = p PROVE FALSE
  <2>1. pinOf[k] \in PinsOf(k)
    BY <1>2 DEF PinsInv, CallOf
  <2>. QED  BY <1>2, <2>1, ContextsApart
<1>3. ~ Busy(p)
  BY <1>2 DEF Busy
<1>. QED
  BY <1>1, <1>3 DEF PinsInv

\* A call of one of the plans starts well.
LEMMA CallStarts ==
    ASSUME BanksApart, PinsInv, NEW c \in PinContexts, NEW p \in PinsOf(c),
           NEW from, NEW to \in Kinds, NEW t, PinCall(c, p, from, to, t),
           NEW pl \in PlansLeft, pl.todo = t, ~ pl.fresh, pl.dir # "saved",
           pl.flex => to = "flex",
           outAsked' \subseteq Pins, highAsked' \subseteq Pins,
           \A q \in Pins \ {p} : /\ q \in outAsked' <=> q \in outAsked
                                 /\ q \in highAsked' <=> q \in highAsked
                                 /\ q \in GpioPads => padCtrl'[q] = padCtrl[q],
           to = "output" => p \in outAsked',
           DirLeft(pl.dir, c, p)', LevelLeft(pl.level, c, p)'
    PROVE  PinsInv'
<1>1. PinsTyped /\ CallOf(c)
  BY DEF PinsInv
<1>2. /\ pinTodo[c] = <<>>
      /\ kind' = [kind EXCEPT ![p] = to]
      /\ pinTodo' = [pinTodo EXCEPT ![c] = t]
      /\ pinOf' = [pinOf EXCEPT ![c] = IF t = <<>> THEN FirstPin(c) ELSE p]
      /\ UNCHANGED <<oen, data, oenRead, oenSaved, sampled>>
  BY DEF PinCall
<1>3. p \in Pins /\ Settled(p)
  BY <1>2, OwnPinSettled
<1>4. PinsTyped'
  BY <1>1, <1>2, <1>3, FirstOnes DEF PinsTyped
<1>5. /\ pinTodo'[c] = t /\ kind'[p] = to
      /\ pinOf'[c] = IF t = <<>> THEN FirstPin(c) ELSE p
      /\ \A k \in PinContexts \ {c} : pinTodo'[k] = pinTodo[k] /\ pinOf'[k] = pinOf[k]
      /\ \A q \in Pins \ {p} : kind'[q] = kind[q]
  BY <1>1, <1>2, <1>3 DEF PinsTyped
<1>6. oenRead'[c] = {} /\ oenSaved'[c] = {}
  BY <1>1, <1>2 DEF CallOf
<1>7. CallOf(c)'
  <2>1. CASE t = <<>>
    BY <1>5, <1>6, <2>1 DEF CallOf, FirstPin
  <2>2. CASE t # <<>>
    <3>1. pinOf'[c] = p
      BY <1>5, <2>2
    <3>2. RegsLeft(pl, c, p)'
      BY <1>5, <1>6 DEF RegsLeft
    <3>3. Holds(pl, c, pinOf[c])'
      BY <3>1, <3>2 DEF Holds
    <3>. QED  BY <1>5, <2>2, <3>1, <3>3, Zenon DEF CallOf
  <2>. QED  BY <2>1, <2>2
<1>8. ASSUME NEW k \in PinContexts, k # c PROVE CallOf(k)'
  <2>1. CallOf(k) /\ pinOf[k] \in Pins
    BY <1>1 DEF PinsInv, PinsTyped
  <2>2. PICK q : q = pinOf[k]
    OBVIOUS
  <2>3. pinTodo[k] # <<>> => q # p
    <3>1. SUFFICES ASSUME pinTodo[k] # <<>> PROVE q # p
      OBVIOUS
    <3>2. q \in PinsOf(k)
      BY <2>1, <2>2, <3>1 DEF CallOf
    <3>. QED  BY <1>8, <3>2, ContextsApart
  <2>4. pinTodo[k] # <<>> =>
             /\ oen' \cap Bank(q) = oen \cap Bank(q)
             /\ q \in data' <=> q \in data
             /\ q \in outAsked' <=> q \in outAsked
             /\ q \in highAsked' <=> q \in highAsked
             /\ kind'[q] = kind[q]
             /\ q \in GpioPads => padCtrl'[q] = padCtrl[q]
    BY <1>2, <1>5, <2>1, <2>2, <2>3
  <2>5. /\ pinTodo'[k] = pinTodo[k] /\ pinOf'[k] = pinOf[k] /\ oenRead'[k] = oenRead[k]
        /\ oenSaved'[k] = oenSaved[k] /\ sampled'[k] = sampled[k]
    BY <1>2, <1>5, <1>8
  <2>. QED  BY <2>1, <2>2, <2>4, <2>5, CallUnaware
<1>9. ASSUME NEW q \in Pins, ~ Busy(q)' PROVE Settled(q)'
  <2>1. CASE q = p
    <3>1. t = <<>>
      BY <1>5, <1>9, <2>1 DEF Busy
    <3>2. pl.dir = "none" /\ pl.level = "none"
      BY <3>1, EndedPlan
    <3>. QED  BY <2>1, <3>2 DEF DirLeft, LevelLeft, Settled
  <2>2. CASE q # p
    <3>1. ~ Busy(q)
      BY <1>2, <1>5, <1>9, <2>2 DEF Busy
    <3>2. Settled(q)
      BY <3>1 DEF PinsInv
    <3>. QED  BY <1>2, <2>2, <3>2 DEF Settled
  <2>. QED  BY <2>1, <2>2
<1>10. \A q \in Pins : kind'[q] = "output" => q \in outAsked'
  BY <1>5 DEF PinsInv
<1>11. \A k \in PinContexts : CallOf(k)'
  BY <1>7, <1>8
<1>. QED
  BY <1>4, <1>9, <1>10, <1>11 DEF PinsInv

\* A call of one of the plans keeps what every state keeps.
LEMMA CallStartsWell ==
    ASSUME BanksApart, PinsInv, NEW c \in PinContexts, NEW p \in PinsOf(c),
           NEW from, NEW to \in Kinds, NEW t, PinCall(c, p, from, to, t),
           NEW pl \in PlansLeft, pl.todo = t, ~ pl.fresh, pl.dir # "saved",
           pl.flex => to = "flex",
           DirLeft(pl.dir, c, p)', LevelLeft(pl.level, c, p)',
           to = "output" => p \in outAsked',
           \/ \E out \in BOOLEAN, high \in BOOLEAN : Asks(p, out, high)
           \/ UNCHANGED <<outAsked, highAsked>>,
           \/ UNCHANGED padVars
           \/ \E pull \in Pulls : apply_pull(p, pull) /\ PadsInv
    PROVE  PinsInv'
<1>1. PinsTyped /\ p \in Pins
  BY FirstOnes DEF PinsInv
<1>2. /\ outAsked' \subseteq Pins /\ highAsked' \subseteq Pins
      /\ \A q \in Pins \ {p} : /\ q \in outAsked' <=> q \in outAsked
                               /\ q \in highAsked' <=> q \in highAsked
  <2>1. CASE \E out \in BOOLEAN, high \in BOOLEAN : Asks(p, out, high)
    BY <1>1, <2>1, AskedOf
  <2>2. CASE UNCHANGED <<outAsked, highAsked>>
    BY <1>1, <2>2 DEF PinsTyped
  <2>. QED  BY <2>1, <2>2
<1>3. \A q \in Pins \ {p} : q \in GpioPads => padCtrl'[q] = padCtrl[q]
  <2>1. CASE UNCHANGED padVars
    BY <2>1 DEF padVars
  <2>2. CASE \E pull \in Pulls : apply_pull(p, pull) /\ PadsInv
    BY <2>2 DEF apply_pull, padVars, PadsInv, AllPads
  <2>. QED  BY <2>1, <2>2
<1>. QED
  BY <1>2, <1>3, CallStarts, Zenon

\* A plan, by its parts, that fits the call it is of.
LEMMA PlanStarts ==
    ASSUME BanksApart, PinsInv, NEW c \in PinContexts, NEW p \in PinsOf(c),
           NEW from, NEW to \in Kinds, NEW t, PinCall(c, p, from, to, t),
           NEW d, NEW l, NEW x, PlanOf(t, d, l, FALSE, x) \in PlansLeft, d # "saved",
           x => to = "flex", DirLeft(d, c, p)', LevelLeft(l, c, p)',
           to = "output" => p \in outAsked',
           \/ \E out \in BOOLEAN, high \in BOOLEAN : Asks(p, out, high)
           \/ UNCHANGED <<outAsked, highAsked>>,
           \/ UNCHANGED padVars
           \/ \E pull \in Pulls : apply_pull(p, pull) /\ PadsInv
    PROVE  PinsInv'
<1>1. PICK pl \in PlansLeft : pl = PlanOf(t, d, l, FALSE, x)
  OBVIOUS
<1>2. pl.todo = t /\ pl.dir = d /\ pl.level = l /\ (~ pl.fresh) /\ (pl.flex <=> x)
  <2>1. PICK pf : pf = PlanOf(t, d, l, FALSE, x)
    OBVIOUS
  <2>2. pf.todo = t /\ pf.dir = d /\ pf.level = l
    BY <2>1 DEF PlanOf
  <2>3. (~ pf.fresh) /\ (pf.flex <=> x)
    <3>1. PlanOf(t, d, l, FALSE, x).fresh = FALSE
      BY Zenon DEF PlanOf
    <3>2. PlanOf(t, d, l, FALSE, x).flex = x
      BY Zenon DEF PlanOf
    <3>. QED  BY <2>1, <3>1, <3>2, Zenon
  <2>. QED  BY <1>1, <2>1, <2>2, <2>3, Zenon
<1>3. DirLeft(pl.dir, c, p)' /\ LevelLeft(pl.level, c, p)'
  BY <1>2
<1>4. ~ pl.fresh /\ pl.dir # "saved" /\ (pl.flex => to = "flex")
  BY <1>2
<1>. QED
  BY <1>2, <1>3, <1>4, CallStartsWell, Zenon

\* What a call finds: its pin is among the pins, and as it was asked to be.
LEMMA CallFinds ==
    ASSUME BanksApart, PinsInv, NEW c \in PinContexts, NEW p \in PinsOf(c),
           NEW from, NEW to, NEW t, PinCall(c, p, from, to, t)
    PROVE  /\ p \in Pins /\ PinsTyped /\ Settled(p) /\ kind[p] \in from
           /\ oen' = oen /\ data' = data
           /\ kind[p] = "output" => p \in outAsked
<1>1. /\ pinTodo[c] = <<>> /\ kind[p] \in from /\ oen' = oen /\ data' = data
  BY DEF PinCall
<1>. QED
  BY <1>1, OwnPinSettled DEF PinsInv

KindsAre == /\ "any" \in Kinds /\ "input" \in Kinds /\ "output" \in Kinds
            /\ "flex" \in Kinds /\ "gone" \in Kinds

LEMMA KindNames == KindsAre
BY DEF KindsAre, Kinds

\* A call that changes the direction only: the level stays as it was asked for.
LEMMA DirectionCall ==
    ASSUME BanksApart, PinsInv, NEW c \in PinContexts, NEW p \in PinsOf(c),
           NEW from, NEW to \in Kinds, NEW out \in BOOLEAN,
           PinCall(c, p, from, to, SetOen(~ out)), Asks(p, out, p \in highAsked),
           to = "output" => out,
           \/ UNCHANGED padVars
           \/ \E pull \in Pulls : apply_pull(p, pull) /\ PadsInv
    PROVE  PinsInv'
<1>1. /\ p \in Pins /\ PinsTyped /\ Settled(p) /\ oen' = oen /\ data' = data
  BY CallFinds
<1>2. PICK high \in BOOLEAN : high <=> p \in highAsked
  OBVIOUS
<1>3. Asks(p, out, high)
  BY <1>2 DEF Asks
<1>8. \E o \in BOOLEAN, hi \in BOOLEAN : Asks(p, o, hi)
  BY <1>3
<1>4. (p \in outAsked' <=> out) /\ (p \in highAsked' <=> p \in highAsked)
  BY <1>1, <1>2, <1>3, AskedOf
<1>5. LevelLeft("none", c, p)'
  BY <1>1, <1>4 DEF LevelLeft, Settled
<1>6. CASE out
  <2>1. PlanOf(<<"read", "drive">>, "out", "none", FALSE, FALSE) \in PlansLeft
    BY Zenon DEF PlansLeft
  <2>2. SetOen(~ out) = <<"read", "drive">>
    BY <1>6, Accesses DEF SetOen
  <2>3. DirLeft("out", c, p)'
    BY <1>4, <1>6 DEF DirLeft
  <2>4. PinCall(c, p, from, to, <<"read", "drive">>)
    BY <2>2
  <2>5. to = "output" => p \in outAsked'
    BY <1>4, <1>6
  <2>6. "out" # "saved" /\ (FALSE => to = "flex")
    OBVIOUS
  <2>. QED  BY <1>5, <1>8, <2>1, <2>3, <2>4, <2>5, <2>6, PlanStarts, Zenon
<1>7. CASE ~ out
  <2>1. PlanOf(<<"read", "oen">>, "in", "none", FALSE, FALSE) \in PlansLeft
    BY Zenon DEF PlansLeft
  <2>2. SetOen(~ out) = <<"read", "oen">>
    BY <1>7, Accesses DEF SetOen
  <2>3. DirLeft("in", c, p)'
    BY <1>4, <1>7 DEF DirLeft
  <2>4. PinCall(c, p, from, to, <<"read", "oen">>)
    BY <2>2
  <2>5. to = "output" => p \in outAsked'
    BY <1>7
  <2>6. "in" # "saved" /\ (FALSE => to = "flex")
    OBVIOUS
  <2>. QED  BY <1>5, <1>8, <2>1, <2>3, <2>4, <2>5, <2>6, PlanStarts, Zenon
<1>. QED
  BY <1>6, <1>7

\* A call that makes the pin drive, or knows that it does, and sets the level.
LEMMA LevelCall ==
    ASSUME BanksApart, PinsInv, NEW c \in PinContexts, NEW p \in PinsOf(c),
           NEW from, NEW to \in Kinds, NEW high \in BOOLEAN, NEW t,
           PinCall(c, p, from, to, t), Asks(p, TRUE, high), UNCHANGED padVars,
           \/ t = DataTo(high) /\ kind[p] = "output"
           \/ t = InitOutput(high)
           \/ t = SetOen(FALSE) \o DataTo(high) /\ to = "flex"
    PROVE  PinsInv'
<1>1. /\ p \in Pins /\ PinsTyped /\ Settled(p) /\ oen' = oen /\ data' = data
      /\ kind[p] = "output" => p \in outAsked
  BY CallFinds
<1>2. p \in outAsked' /\ (p \in highAsked' <=> high)
  BY <1>1, AskedOf
<1>3. PICK w : w = IF high THEN "set" ELSE "clr"
  OBVIOUS
<1>4. w = "set" \/ w = "clr"
  BY <1>3
<1>5. /\ PlanOf(<<w>>, "none", w, FALSE, FALSE) \in PlansLeft
      /\ PlanOf(<<w, "read", "drive">>, "out", w, FALSE, FALSE) \in PlansLeft
      /\ PlanOf(<<"read", "drive", w>>, "out", w, FALSE, TRUE) \in PlansLeft
  <2>1. CASE w = "set"
    BY <2>1, Zenon DEF PlansLeft
  <2>2. CASE w = "clr"
    BY <2>2, Zenon DEF PlansLeft
  <2>. QED  BY <1>4, <2>1, <2>2
<1>6. /\ DataTo(high) = <<w>> /\ InitOutput(high) = <<w, "read", "drive">>
      /\ SetOen(FALSE) \o DataTo(high) = <<"read", "drive", w>>
  BY <1>3, Accesses
<1>7. LevelLeft(w, c, p)'
  BY <1>2, <1>3 DEF LevelLeft
<1>8. DirLeft("out", c, p)'
  BY <1>2 DEF DirLeft
<1>9. \E out \in BOOLEAN, hi \in BOOLEAN : Asks(p, out, hi)
  OBVIOUS
<1>10. "out" # "saved" /\ "none" # "saved" /\ (FALSE => to = "flex")
       /\ (to = "output" => p \in outAsked')
  BY <1>2
<1>11. CASE t = DataTo(high) /\ kind[p] = "output"
  <2>1. DirLeft("none", c, p)'
    BY <1>1, <1>2, <1>11 DEF DirLeft, Settled
  <2>2. t = <<w>>
    BY <1>6, <1>11
  <2>. QED  BY <1>5, <1>7, <1>9, <1>10, <2>1, <2>2, PlanStarts, Zenon
<1>12. CASE t = InitOutput(high)
  <2>2. t = <<w, "read", "drive">>
    BY <1>6, <1>12
  <2>. QED  BY <1>5, <1>7, <1>8, <1>9, <1>10, <2>2, PlanStarts, Zenon
<1>13. CASE t = SetOen(FALSE) \o DataTo(high) /\ to = "flex"
  <2>2. t = <<"read", "drive", w>> /\ (TRUE => to = "flex")
    BY <1>6, <1>13
  <2>. QED  BY <1>5, <1>7, <1>8, <1>9, <1>10, <2>2, PlanStarts, Zenon
<1>. QED
  BY <1>11, <1>12, <1>13

LEMMA InitInputKeeps ==
    ASSUME BanksApart, PinsInv, PadsInv, NEW c \in PinContexts, NEW p \in PinsOf(c),
           NEW pull \in Pulls, init_input(c, p, pull)
    PROVE  PinsInv' /\ PadsInv'
<1>1. SetOen(~ FALSE) = SetOen(TRUE)
  BY DEF SetOen
<1>2. PinCall(c, p, {"any"}, "input", SetOen(~ FALSE)) /\ Asks(p, FALSE, p \in highAsked)
      /\ apply_pull(p, pull)
  BY <1>1 DEF init_input
<1>3. "input" \in Kinds /\ ("input" = "output" => FALSE)
  BY KindNames DEF KindsAre
<1>4. PinsInv'
  BY <1>2, <1>3, DirectionCall, Zenon
<1>5. PadsInv'
  BY <1>2, PullObeys
<1>. QED
  BY <1>4, <1>5

LEMMA InitOutputKeeps ==
    ASSUME BanksApart, PinsInv, NEW c \in PinContexts, NEW p \in PinsOf(c),
           NEW to \in {"output", "flex"}, NEW high \in BOOLEAN, init_output(c, p, to, high)
    PROVE  PinsInv'
<1>1. to \in Kinds
  BY KindNames DEF KindsAre
<1>. QED
  BY <1>1, LevelCall DEF init_output

LEMMA SetLevelKeeps ==
    ASSUME BanksApart, PinsInv, NEW c \in PinContexts, NEW p \in PinsOf(c),
           NEW high \in BOOLEAN, set_level(c, p, high)
    PROVE  PinsInv'
<1>1. CASE PinCall(c, p, {"output"}, "output", DataTo(high))
  <2>1. kind[p] = "output" /\ "output" \in Kinds
    BY <1>1, CallFinds, KindNames DEF KindsAre
  <2>. QED  BY <1>1, <2>1, LevelCall DEF set_level
<1>2. CASE PinCall(c, p, {"flex"}, "flex", SetOen(FALSE) \o DataTo(high))
  <2>1. "flex" \in Kinds
    BY KindNames DEF KindsAre
  <2>. QED  BY <1>2, <2>1, LevelCall DEF set_level
<1>. QED
  BY <1>1, <1>2 DEF set_level

\* A toggle asks for the other level than the pin has now.
LEMMA ToggleKeeps ==
    ASSUME BanksApart, PinsInv, NEW c \in PinContexts, NEW p \in PinsOf(c), toggle(c, p)
    PROVE  PinsInv'
<1>1. PICK high \in BOOLEAN : high <=> ~ SwOut(p)
  OBVIOUS
<1>2. Asks(p, TRUE, high) /\ UNCHANGED padVars
  BY <1>1 DEF toggle, Asks
<1>3. \E o \in BOOLEAN, hi \in BOOLEAN : Asks(p, o, hi)
  BY <1>2
<1>4. ASSUME NEW from, NEW to, NEW t, PinCall(c, p, from, to, t)
      PROVE  /\ p \in outAsked' /\ (to = "output" => p \in outAsked')
             /\ LevelLeft("sample", c, p)'
             /\ (kind[p] = "output" => DirLeft("none", c, p)')
             /\ DirLeft("out", c, p)'
             /\ kind[p] \in from
  <2>1. /\ p \in Pins /\ PinsTyped /\ Settled(p) /\ kind[p] \in from
        /\ oen' = oen /\ data' = data
        /\ kind[p] = "output" => p \in outAsked
    BY <1>4, CallFinds
  <2>2. p \in outAsked' /\ (p \in highAsked' <=> high)
    BY <1>2, <2>1, AskedOf
  <2>3. SwOut(p)' <=> SwOut(p)
    BY <1>2, <2>1 DEF SwOut, padVars
  <2>4. LevelLeft("sample", c, p)'
    BY <1>1, <2>2, <2>3 DEF LevelLeft
  <2>5. kind[p] = "output" => DirLeft("none", c, p)'
    BY <2>1, <2>2 DEF DirLeft, Settled
  <2>6. DirLeft("out", c, p)'
    BY <2>2 DEF DirLeft
  <2>. QED  BY <2>1, <2>2, <2>4, <2>5, <2>6
<1>5. "none" # "saved" /\ "out" # "saved" /\ "output" \in Kinds /\ "flex" \in Kinds
  BY KindNames DEF KindsAre
<1>6. CASE PinCall(c, p, {"output"}, "output", Toggle)
  <2>1. PlanOf(<<"sample", "flip">>, "none", "sample", FALSE, FALSE) \in PlansLeft
    BY Zenon DEF PlansLeft
  <2>2. PinCall(c, p, {"output"}, "output", <<"sample", "flip">>)
    BY <1>6, Accesses
  <2>3. DirLeft("none", c, p)' /\ LevelLeft("sample", c, p)'
        /\ ("output" = "output" => p \in outAsked')
    BY <1>4, <2>2
  <2>4. FALSE => "output" = "flex"
    OBVIOUS
  <2>. QED  BY <1>2, <1>3, <1>5, <2>1, <2>2, <2>3, <2>4, PlanStarts, Zenon
<1>7. CASE PinCall(c, p, {"flex"}, "flex", SetOen(FALSE) \o Toggle)
  <2>1. PlanOf(<<"read", "drive", "sample", "flip">>, "out", "sample", FALSE, TRUE) \in PlansLeft
    BY Zenon DEF PlansLeft
  <2>2. PinCall(c, p, {"flex"}, "flex", <<"read", "drive", "sample", "flip">>)
    BY <1>7, Accesses
  <2>3. DirLeft("out", c, p)' /\ LevelLeft("sample", c, p)'
        /\ ("flex" = "output" => p \in outAsked')
    BY <1>4, <2>2
  <2>4. TRUE => "flex" = "flex"
    OBVIOUS
  <2>. QED  BY <1>2, <1>3, <1>5, <2>1, <2>2, <2>3, <2>4, PlanStarts, Zenon
<1>. QED
  BY <1>6, <1>7 DEF toggle

\* A Flex is read, and a handle changes its type, without a change of what is asked.
LEMMA NothingAsked ==
    ASSUME BanksApart, PinsInv, NEW c \in PinContexts, NEW p \in PinsOf(c),
           NEW from, NEW to \in Kinds, to # "output", NEW t, PinCall(c, p, from, to, t),
           t = <<>> \/ (t = FlexIsHigh /\ to = "flex"),
           UNCHANGED <<outAsked, highAsked, padVars>>
    PROVE  PinsInv'
<1>1. Settled(p) /\ oen' = oen /\ data' = data
  BY CallFinds
<1>2. UNCHANGED padVars /\ UNCHANGED <<outAsked, highAsked>> /\ (to = "output" => p \in outAsked')
  OBVIOUS
<1>3. LevelLeft("none", c, p)' /\ DirLeft("none", c, p)' /\ DirLeft("back", c, p)'
  BY <1>1, <1>2 DEF LevelLeft, DirLeft, Settled
<1>4. "none" # "saved" /\ "back" # "saved"
  OBVIOUS
<1>5. CASE t = <<>>
  <2>1. PlanOf(<<>>, "none", "none", FALSE, FALSE) \in PlansLeft
    BY Zenon DEF PlansLeft
  <2>2. PlanOf(t, "none", "none", FALSE, FALSE) \in PlansLeft /\ (FALSE => to = "flex")
    BY <1>5, <2>1
  <2>. QED  BY <1>2, <1>3, <1>4, <2>2, PlanStarts, Zenon
<1>6. CASE t = FlexIsHigh /\ to = "flex"
  <2>1. PlanOf(<<"save", "read", "oen", "read", "restore">>, "back", "none", FALSE, TRUE)
          \in PlansLeft
    BY Zenon DEF PlansLeft
  <2>2. PlanOf(t, "back", "none", FALSE, TRUE) \in PlansLeft /\ (TRUE => to = "flex")
    BY <1>6, <2>1, Accesses
  <2>. QED  BY <1>2, <1>3, <1>4, <2>2, PlanStarts, Zenon
<1>. QED
  BY <1>5, <1>6

LEMMA RetypeKeeps ==
    ASSUME BanksApart, PinsInv, NEW c \in PinContexts, NEW p \in PinsOf(c),
           Retype(c, p) \/ flex_is_high(c, p)
    PROVE  PinsInv'
<1>1. /\ "any" \in Kinds /\ "flex" \in Kinds /\ "gone" \in Kinds
      /\ "any" # "output" /\ "flex" # "output" /\ "gone" # "output"
  BY KindNames DEF KindsAre
<1>2. UNCHANGED <<outAsked, highAsked, padVars>>
  BY DEF Retype, flex_is_high
<1>3. CASE PinCall(c, p, {"output"}, "flex", <<>>)
  BY <1>1, <1>2, <1>3, NothingAsked, Zenon
<1>4. CASE PinCall(c, p, {"output", "flex", "input"}, "gone", <<>>)
  BY <1>1, <1>2, <1>4, NothingAsked, Zenon
<1>5. CASE PinCall(c, p, {"output", "flex", "input", "gone"}, "any", <<>>)
  BY <1>1, <1>2, <1>5, NothingAsked, Zenon
<1>6. CASE PinCall(c, p, {"flex"}, "flex", FlexIsHigh)
  BY <1>1, <1>2, <1>6, NothingAsked, Zenon
<1>. QED
  BY <1>3, <1>4, <1>5, <1>6 DEF Retype, flex_is_high

LEMMA DirectionKeeps ==
    ASSUME BanksApart, PinsInv, NEW c \in PinContexts, NEW p \in PinsOf(c),
           NEW out \in BOOLEAN,
           set_as(c, p, out) \/ ulp_direction(c, p, out) \/ drop_output(c, p)
    PROVE  PinsInv'
<1>1. CASE set_as(c, p, out)
  <2>1. /\ PinCall(c, p, {"flex"}, "flex", SetOen(~ out)) /\ Asks(p, out, p \in highAsked)
        /\ UNCHANGED padVars
    BY <1>1 DEF set_as
  <2>2. "flex" \in Kinds /\ ("flex" = "output" => out)
    BY KindNames DEF KindsAre
  <2>. QED  BY <2>1, <2>2, DirectionCall, Zenon
<1>2. CASE ulp_direction(c, p, out)
  <2>1. PICK to : to = IF out THEN "output" ELSE "input"
    OBVIOUS
  <2>2. /\ PinCall(c, p, {"any", "input", "output"}, to, SetOen(~ out))
        /\ Asks(p, out, p \in highAsked) /\ UNCHANGED padVars
    BY <1>2, <2>1 DEF ulp_direction
  <2>3. to \in Kinds /\ (to = "output" => out)
    BY <2>1, KindNames DEF KindsAre
  <2>. QED  BY <2>2, <2>3, DirectionCall, Zenon
<1>3. CASE drop_output(c, p)
  <2>1. SetOen(~ FALSE) = SetOen(TRUE)
    BY DEF SetOen
  <2>2. /\ PinCall(c, p, {"output"}, "gone", SetOen(~ FALSE)) /\ Asks(p, FALSE, p \in highAsked)
        /\ UNCHANGED padVars
    BY <1>3, <2>1 DEF drop_output
  <2>3. "gone" \in Kinds /\ ("gone" = "output" => FALSE)
    BY KindNames DEF KindsAre
  <2>. QED  BY <2>2, <2>3, DirectionCall, Zenon
<1>. QED
  BY <1>1, <1>2, <1>3

LEMMA CallsKeepPins ==
    ASSUME BanksApart, PinsInv, PadsInv, NEW c \in PinContexts, NEW p \in PinsOf(c), Calls(c, p)
    PROVE  PinsInv' /\ PadsInv'
<1>1. ASSUME NEW pull \in Pulls, init_input(c, p, pull) PROVE PinsInv' /\ PadsInv'
  BY <1>1, InitInputKeeps
<1>2. ASSUME NEW to \in {"output", "flex"}, NEW high \in BOOLEAN, init_output(c, p, to, high)
      PROVE  PinsInv' /\ UNCHANGED padVars
  BY <1>2, InitOutputKeeps DEF init_output
<1>3. ASSUME NEW high \in BOOLEAN, set_level(c, p, high) PROVE PinsInv' /\ UNCHANGED padVars
  BY <1>3, SetLevelKeeps DEF set_level
<1>4. CASE toggle(c, p)
  BY <1>4, ToggleKeeps, PadsSteps DEF toggle
<1>5. CASE Retype(c, p) \/ flex_is_high(c, p)
  <2>1. UNCHANGED padVars
    BY <1>5 DEF Retype, flex_is_high
  <2>. QED  BY <1>5, <2>1, RetypeKeeps, PadsSteps
<1>6. ASSUME NEW out \in BOOLEAN, set_as(c, p, out) \/ ulp_direction(c, p, out)
      PROVE  PinsInv' /\ UNCHANGED padVars
  BY <1>6, DirectionKeeps DEF set_as, ulp_direction
<1>7. CASE drop_output(c, p)
  <2>1. UNCHANGED padVars /\ TRUE \in BOOLEAN
    BY <1>7 DEF drop_output
  <2>. QED  BY <1>7, <2>1, DirectionKeeps, PadsSteps
<1>8. UNCHANGED padVars => PadsInv'
  BY PadsSteps
<1>. QED
  BY <1>1, <1>2, <1>3, <1>4, <1>5, <1>6, <1>7, <1>8, Zenon DEF Calls

\* The pad driver runs between the calls for pins, and changes no level that one samples.
LEMMA PadCallKeeps ==
    ASSUME PinsInv, PadsInv, PadCall
    PROVE  PinsInv' /\ PadsInv' /\ UNCHANGED pinVars
<1>1. /\ pinTodo["main"] = <<>> /\ pinTodo["handler"] = <<>> /\ PadsNext
      /\ UNCHANGED <<oen, data, kind, pinTodo, pinOf, oenRead, oenSaved, sampled, outAsked,
                     highAsked>>
  BY DEF PadCall, pinVars
<1>2. PinsTyped'
  BY <1>1 DEF PinsInv, PinsTyped
<1>3. \A c \in PinContexts : pinTodo[c] = <<>>
  BY <1>1 DEF PinContexts
<1>4. ASSUME NEW c \in PinContexts PROVE CallOf(c)'
  BY <1>1, <1>3 DEF PinsInv, CallOf, FirstPin
<1>5. \A p \in Pins : Settled(p)'
  BY <1>1, <1>3 DEF PinsInv, Busy, Settled
<1>6. \A p \in Pins : kind'[p] = "output" => p \in outAsked'
  BY <1>1 DEF PinsInv
<1>7. PinsInv'
  BY <1>2, <1>4, <1>5, <1>6 DEF PinsInv
<1>. QED
  BY <1>1, <1>7, PadsSteps DEF pinVars

GlitchFree ==
    \A p \in Pins \ UlpPins, c \in PinContexts :
       /\ pinOf[c] = p /\ kind[p] = "output"
       /\ p \in oen /\ p \notin oen'
       => (p \in data <=> p \in highAsked)

LEMMA PinsSteps ==
    ASSUME BanksApart, PinsInv, PadsInv, [PinsNext]_<<pinVars, padVars>>
    PROVE  PinsInv' /\ PadsInv' /\ GlitchFree
<1>1. ASSUME NEW c \in PinContexts, PinAccess(c) PROVE PinsInv' /\ PadsInv' /\ GlitchFree
  <2>1. UNCHANGED padVars
    BY <1>1, Zenon DEF PinAccess
  <2>2. PadsInv'
    BY <2>1, PadsSteps
  <2>. QED  BY <1>1, <2>2, AccessKeepsPins DEF GlitchFree
<1>2. ASSUME NEW c \in PinContexts, NEW p \in PinsOf(c), Calls(c, p)
      PROVE  PinsInv' /\ PadsInv' /\ GlitchFree
  <2>1. oen' = oen
    BY <1>2 DEF Calls, init_input, init_output, flex_is_high, drop_output, Retype, set_as,
                set_level, toggle, ulp_direction, PinCall
  <2>2. GlitchFree
    BY <2>1 DEF GlitchFree
  <2>. QED  BY <1>2, <2>2, CallsKeepPins
<1>3. CASE PadCall
  BY <1>3, PadCallKeeps DEF GlitchFree, pinVars
<1>4. CASE UNCHANGED <<pinVars, padVars>>
  <2>1. UNCHANGED <<oen, data, kind, pinTodo, pinOf, oenRead, oenSaved, sampled, outAsked,
                     highAsked, padCtrl>> /\ UNCHANGED padVars
    BY <1>4 DEF pinVars, padVars
  <2>2. PadsInv'
    BY <2>1, PadsSteps
  <2>3. PinsTyped'
    BY <2>1 DEF PinsInv, PinsTyped
  <2>4. ASSUME NEW c \in PinContexts PROVE CallOf(c)'
    <3>1. CallOf(c) /\ pinOf[c] \in Pins
      BY DEF PinsInv, PinsTyped
    <3>. QED  BY <2>1, <3>1, CallUnaware
  <2>5. PinsInv'
    BY <2>1, <2>3, <2>4 DEF PinsInv, Busy, Settled
  <2>. QED  BY <2>1, <2>2, <2>5 DEF GlitchFree
<1>. QED
  BY <1>1, <1>2, <1>3, <1>4, Zenon DEF PinsNext

LEMMA PinsPromise == ASSUME PinsInv PROVE PinsAsAsked
BY DEF PinsInv, PinsAsAsked, Settled

PinOps == {"read", "oen", "drive", "only", "none", "set", "clr", "sample", "flip", "save",
           "restore"}

OpsOnly(t) == \A i \in DOMAIN t : t[i] \in PinOps

\* Whatever is left of a call is register accesses.
LEMMA PlansAreOps == ASSUME NEW pl \in PlansLeft PROVE OpsOnly(pl.todo)
<1>1. OpsOnly(PlanOf(<<>>, "none", "none", FALSE, FALSE).todo)
  BY DEF OpsOnly, PinOps, PlanOf
<1>2. OpsOnly(PlanOf(<<"read", "oen">>, "in", "none", FALSE, FALSE).todo)
  BY DEF OpsOnly, PinOps, PlanOf
<1>3. OpsOnly(PlanOf(<<"oen">>, "in", "none", TRUE, FALSE).todo)
  BY DEF OpsOnly, PinOps, PlanOf
<1>4. OpsOnly(PlanOf(<<"read", "drive">>, "out", "none", FALSE, FALSE).todo)
  BY DEF OpsOnly, PinOps, PlanOf
<1>5. OpsOnly(PlanOf(<<"drive">>, "out", "none", TRUE, FALSE).todo)
  BY DEF OpsOnly, PinOps, PlanOf
<1>6. OpsOnly(PlanOf(<<"sample", "flip">>, "none", "sample", FALSE, FALSE).todo)
  BY DEF OpsOnly, PinOps, PlanOf
<1>7. OpsOnly(PlanOf(<<"flip">>, "none", "flip", FALSE, FALSE).todo)
  BY DEF OpsOnly, PinOps, PlanOf
<1>8. OpsOnly(PlanOf(<<"read", "drive", "sample", "flip">>, "out", "sample", FALSE, TRUE).todo)
  BY DEF OpsOnly, PinOps, PlanOf
<1>9. OpsOnly(PlanOf(<<"drive", "sample", "flip">>, "out", "sample", TRUE, TRUE).todo)
  BY DEF OpsOnly, PinOps, PlanOf
<1>10. OpsOnly(PlanOf(<<"save", "read", "oen", "read", "restore">>, "back", "none", FALSE, TRUE).todo)
  BY DEF OpsOnly, PinOps, PlanOf
<1>11. OpsOnly(PlanOf(<<"read", "oen", "read", "restore">>, "saved", "none", FALSE, TRUE).todo)
  BY DEF OpsOnly, PinOps, PlanOf
<1>12. OpsOnly(PlanOf(<<"oen", "read", "restore">>, "saved", "none", TRUE, TRUE).todo)
  BY DEF OpsOnly, PinOps, PlanOf
<1>13. OpsOnly(PlanOf(<<"read", "restore">>, "saved", "none", FALSE, TRUE).todo)
  BY DEF OpsOnly, PinOps, PlanOf
<1>14. OpsOnly(PlanOf(<<"restore">>, "saved", "none", TRUE, TRUE).todo)
  BY DEF OpsOnly, PinOps, PlanOf
<1>15. OpsOnly(PlanOf(<<"set">>, "none", "set", FALSE, FALSE).todo)
  BY DEF OpsOnly, PinOps, PlanOf
<1>16. OpsOnly(PlanOf(<<"clr">>, "none", "clr", FALSE, FALSE).todo)
  BY DEF OpsOnly, PinOps, PlanOf
<1>17. OpsOnly(PlanOf(<<"set", "read", "drive">>, "out", "set", FALSE, FALSE).todo)
  BY DEF OpsOnly, PinOps, PlanOf
<1>18. OpsOnly(PlanOf(<<"clr", "read", "drive">>, "out", "clr", FALSE, FALSE).todo)
  BY DEF OpsOnly, PinOps, PlanOf
<1>19. OpsOnly(PlanOf(<<"read", "drive", "set">>, "out", "set", FALSE, TRUE).todo)
  BY DEF OpsOnly, PinOps, PlanOf
<1>20. OpsOnly(PlanOf(<<"read", "drive", "clr">>, "out", "clr", FALSE, TRUE).todo)
  BY DEF OpsOnly, PinOps, PlanOf
<1>21. OpsOnly(PlanOf(<<"drive", "set">>, "out", "set", TRUE, TRUE).todo)
  BY DEF OpsOnly, PinOps, PlanOf
<1>22. OpsOnly(PlanOf(<<"drive", "clr">>, "out", "clr", TRUE, TRUE).todo)
  BY DEF OpsOnly, PinOps, PlanOf
<1>. QED
  BY <1>1, <1>2, <1>3, <1>4, <1>5, <1>6, <1>7, <1>8, <1>9, <1>10, <1>11, <1>12, <1>13,
     <1>14, <1>15, <1>16, <1>17, <1>18, <1>19, <1>20, <1>21, <1>22, Zenon
     DEF PlansLeft

LEMMA PinsOfType == ASSUME PinsInv PROVE PinsTypeOK
<1>1. PinsTyped
  BY DEF PinsInv
<1>2. ASSUME NEW c \in PinContexts
      PROVE  /\ \A i \in DOMAIN pinTodo[c] : pinTodo[c][i] \in PinOps
             /\ pinOf[c] \in Pins
             /\ oenRead[c] \subseteq Bank(pinOf[c]) /\ oenSaved[c] \subseteq Bank(pinOf[c])
  <2>1. CallOf(c) /\ pinOf[c] \in Pins
    BY DEF PinsInv, PinsTyped
  <2>2. CASE pinTodo[c] = <<>>
    <3>1. OpsOnly(<<>>)
      BY DEF OpsOnly
    <3>. QED  BY <2>1, <2>2, <3>1 DEF CallOf, OpsOnly
  <2>3. CASE pinTodo[c] # <<>>
    <3>1. PICK pl \in PlansLeft : pl.todo = pinTodo[c] /\ Holds(pl, c, pinOf[c])
      BY <2>1, <2>3 DEF CallOf
    <3>2. OpsOnly(pinTodo[c])
      BY <3>1, PlansAreOps
    <3>. QED  BY <2>1, <3>1, <3>2 DEF Holds, RegsLeft, OpsOnly
  <2>. QED  BY <2>2, <2>3
<1>. QED
  BY <1>1, <1>2, Zenon DEF PinsTypeOK, PinsTyped, PinOps

\* Where the handler's pins share no bank with the others, pins and pads do what was last
\* asked of them, and no pin begins to drive with a level not asked for, whatever the
\* interleaving of the register accesses.
THEOREM PinsAlwaysSafe == BanksApart => (PinsSpec => PinsSafe /\ [](PinsTypeOK /\ PadsTypeOK))
<1>. SUFFICES ASSUME BanksApart PROVE PinsSpec => PinsSafe /\ [](PinsTypeOK /\ PadsTypeOK)
  OBVIOUS
<1>1. PinsInit => PinsInv /\ PadsInv
  BY PinsStart
<1>2. (PinsInv /\ PadsInv) /\ [PinsNext]_<<pinVars, padVars>>
        => (PinsInv /\ PadsInv)' /\ [GlitchFree]_pinVars
  BY PinsSteps
<1>3. PinsInv /\ PadsInv => PinsAsAsked /\ PadsAsAsked /\ PinsTypeOK /\ PadsTypeOK
  BY PinsPromise, PadsPromise, PinsOfType
<1>4. NoGlitch <=> [][GlitchFree]_pinVars
  BY DEF NoGlitch, GlitchFree
<1>. QED
  BY <1>1, <1>2, <1>3, <1>4, PTL DEF PinsSpec, PinsSafe

-----------------------------------------------------------------------------
(* The types of the register drivers' state. *)

\* What PwmTyped leaves out.
PwmTwoMore ==
    pwmLeft \subseteq PwmChannelIds /\ pwmResult \in {"none", "ok", "out of range"}

\* Only a channel that a handle names is left running.
LEMMA PwmMoreSteps ==
    ASSUME PwmInv, PwmTwoMore, PwmNext \/ UNCHANGED pwmVars
    PROVE  PwmTwoMore'
<1>1. ASSUME NEW h \in PwmHandles, into_running(h)
      PROVE  PwmTwoMore'
  <2>1. pwmOf[h] \in PwmChannelIds
    BY <1>1 DEF into_running, PwmIdle, PwmInv, PwmTyped
  <2>. QED  BY <1>1, <2>1 DEF into_running, PwmTwoMore
<1>2. ASSUME NEW h \in PwmHandles, NEW duty, set_duty_cycle(h, duty)
      PROVE  PwmTwoMore'
  BY <1>2, Zenon DEF set_duty_cycle, PwmTwoMore
<1>3. ASSUME NEW h \in PwmHandles,
             (\E c \in PwmChannelIds : PwmNew(h, c)) \/ PwmEnable(h)
      PROVE  PwmTwoMore'
  BY <1>3, Zenon DEF PwmNew, PwmEnable, PwmTwoMore
<1>4. ASSUME NEW h \in PwmHandles, PwmDisable(h) \/ PwmDrop(h)
      PROVE  PwmTwoMore'
  BY <1>4 DEF PwmDisable, PwmDrop, PwmTwoMore
<1>5. ASSUME NEW h \in PwmHandles, PwmConfigure(h)
      PROVE  PwmTwoMore'
  BY <1>5, Zenon DEF PwmConfigure, PwmTwoMore
<1>6. ASSUME PwmWrite
      PROVE  PwmTwoMore'
  BY <1>6, Zenon DEF PwmWrite, PwmTwoMore
<1>7. ASSUME UNCHANGED pwmVars
      PROVE  PwmTwoMore'
  BY <1>7, Zenon DEF pwmVars, PwmTwoMore
<1>. QED
  BY <1>1, <1>2, <1>3, <1>4, <1>5, <1>6, <1>7, Zenon DEF PwmNext

LEMMA PwmMoreStarts == PwmInit => PwmTwoMore
BY Zenon DEF PwmInit, PwmTwoMore

\* The writes left are of configure.
LEMMA PwmOfType == ASSUME PwmInv, PwmTwoMore PROVE PwmTypeOK
<1>1. \A i \in DOMAIN pwmTodo : pwmTodo[i].reg \in {"gate", "divide", "freq", "duty"}
  <2>1. CASE pwmTodo = <<>>
    BY <2>1
  <2>2. ASSUME NEW c \in PwmChannelIds, Setting(c)
        PROVE  \A i \in DOMAIN pwmTodo : pwmTodo[i].reg \in {"gate", "divide", "freq", "duty"}
    <3>. DEFINE a == pwmAsked[c]
    <3>1. \/ pwmTodo = <<Reg("gate", c, 0), Reg("divide", c, 0), Reg("freq", c, a.period),
                         Reg("duty", c, a.duty)>>
          \/ pwmTodo = <<Reg("divide", c, 0), Reg("freq", c, a.period), Reg("duty", c, a.duty)>>
          \/ pwmTodo = <<Reg("freq", c, a.period), Reg("duty", c, a.duty)>>
          \/ pwmTodo = <<Reg("duty", c, a.duty)>>
      BY <2>2 DEF Setting, ConfigureOps
    <3>. HIDE DEF a
    <3>. QED  BY <3>1 DEF Reg
  <2>. QED  BY <2>1, <2>2, Zenon DEF PwmInv, Waves
<1>2. 0..PwmMax16 \subseteq Nat
  BY PwmAssumption
<1>3. pwmAsked \in [PwmChannelIds -> [period : Nat, duty : Nat]]
  <2>1. \A c \in PwmChannelIds : pwmAsked[c] \in [period : 0..PwmMax16, duty : 0..PwmMax16]
    BY DEF PwmInv, PwmTyped
  <2>2. \A c \in PwmChannelIds : pwmAsked[c] \in [period : Nat, duty : Nat]
    BY <1>2, <2>1
  <2>. QED  BY <2>2 DEF PwmInv, PwmTyped
<1>. QED
  BY <1>1, <1>3, Zenon DEF PwmTypeOK, PwmInv, PwmTyped, PwmTwoMore

\* What EfuseInv leaves out, without what an access brings.
EfMore ==
    /\ efResult \in {"none", "ok", "out of range"}
    /\ efMode \in {"reset", "read", "write"}
    /\ efAvdd \in {"down", "rising", "up", "falling"}
    /\ efCall.op # "read" => efBuffer = <<>>

\* An access sets one of the two modes, and only a read's loads.
LEMMA FirstAccess ==
    ASSUME EfuseInv, efTodo # <<>>
    PROVE  /\ Head(efTodo)[1] = "magic" => Head(efTodo)[2] \in {"read", "write"}
           /\ Head(efTodo)[1] = "avdd" => Head(efTodo)[2] \in {"rising", "falling"}
           /\ Head(efTodo)[1] = "load" => efCall.op = "read"
<1>1. CASE efCall.op = "read" /\ ReadGoesOn
  <2>. DEFINE here == efCall.at + Len(efBuffer)
              left == efCall.count - Len(efBuffer)
  <2>1. here \in Nat /\ left \in Nat
    <3>1. Len(efBuffer) \in Nat
      BY <1>1, LenProperties DEF ReadGoesOn
    <3>2. efCall.at \in Nat /\ efCall.count \in Nat /\ Len(efBuffer) <= efCall.count
      <4>1. efCall.at \in Addresses /\ efCall.count \in Nat /\ Len(efBuffer) <= efCall.count
        BY <1>1, Zenon DEF ReadGoesOn
      <4>. QED  BY <4>1, EfuseAssumption DEF Addresses
    <3>3. ASSUME NEW x \in Nat, NEW y \in Nat, NEW z \in Nat, x <= z
          PROVE  y + x \in Nat /\ z - x \in Nat
      BY <3>3
    <3>. QED  BY <3>1, <3>2, <3>3
  <2>2. Head(efTodo) \in {<<"magic", "read">>, <<"err", 0>>, <<"load", here>>}
    <3>1. \/ efTodo = read_buffer(here, left)
          \/ left > 0 /\ efTodo = << <<"load", here>> >> \o read_buffer(here + 1, left - 1)
      BY <1>1 DEF ReadGoesOn
    <3>2. left = 0 => read_buffer(here, left) = <<>>
      BY <2>1, ReadInSteps
    <3>3. left > 0 =>
            /\ here < OtpBytes => Head(read_buffer(here, left)) = <<"magic", "read">>
            /\ here >= OtpBytes => Head(read_buffer(here, left)) = <<"err", 0>>
            /\ Head(<< <<"load", here>> >> \o read_buffer(here + 1, left - 1))
                 = <<"load", here>>
      BY <2>1, ReadBegins
    <3>4. (left = 0 \/ left > 0) /\ (here < OtpBytes \/ here >= OtpBytes)
      BY <2>1, EfuseAssumption
    <3>. HIDE DEF here, left
    <3>. QED  BY <3>1, <3>2, <3>3, <3>4, Zenon
  <2>. HIDE DEF here, left
  <2>3. ASSUME Head(efTodo) = <<"magic", "read">>
        PROVE  Head(efTodo)[1] = "magic" /\ Head(efTodo)[2] = "read"
    BY <2>3
  <2>4. ASSUME Head(efTodo) = <<"err", 0>>
        PROVE  Head(efTodo)[1] = "err"
    BY <2>4
  <2>5. ASSUME Head(efTodo) = <<"load", here>>
        PROVE  Head(efTodo)[1] = "load"
    BY <2>5
  <2>6. CASE Head(efTodo) = <<"magic", "read">>
    BY <1>1, <2>3, <2>6
  <2>7. CASE Head(efTodo) = <<"err", 0>>
    BY <1>1, <2>4, <2>7
  <2>8. CASE Head(efTodo) = <<"load", here>>
    BY <1>1, <2>5, <2>8
  <2>. QED  BY <2>2, <2>6, <2>7, <2>8, Zenon
<1>2. ASSUME efCall.op = "write", NEW a \in Addresses, NEW value \in SUBSET OtpBits,
             WriteGoesOn(a, value)
      PROVE  /\ Head(efTodo)[1] = "magic" => Head(efTodo)[2] \in {"read", "write"}
             /\ Head(efTodo)[1] = "avdd" => Head(efTodo)[2] \in {"rising", "falling"}
             /\ Head(efTodo)[1] # "load"
  <2>. DEFINE w == write_byte(a, value)
  <2>1. /\ w[1] = <<"magic", "write">> /\ w[2] = <<"avdd", "rising">> /\ w[3] = <<"delay", 0>>
        /\ w[4] = <<"program", <<a, value>> >> /\ w[5] = <<"avdd", "falling">>
        /\ w[6] = <<"delay", 0>> /\ w = <<w[1], w[2], w[3], w[4], w[5], w[6]>>
    BY DEF write_byte
  <2>2. \/ efTodo = w
        \/ efTodo = <<w[2], w[3], w[4], w[5], w[6]>>
        \/ efTodo = <<w[3], w[4], w[5], w[6]>>
        \/ efTodo = <<w[4], w[5], w[6]>>
        \/ efTodo = <<w[5], w[6]>>
        \/ efTodo = <<w[6]>>
    BY <1>2, Zenon DEF WriteGoesOn
  <2>. HIDE DEF w
  <2>3. Head(efTodo) \in {w[1], w[2], w[3], w[4], w[5], w[6]}
    <3>1. Head(w) = w[1]
      <4>1. Head(<<w[1], w[2], w[3], w[4], w[5], w[6]>>) = w[1]
        OBVIOUS
      <4>. QED  BY <2>1, <4>1, Zenon
    <3>. QED  BY <2>2, <3>1
  <2>4. /\ w[1][1] = "magic" /\ w[1][2] = "write" /\ w[2][1] = "avdd" /\ w[2][2] = "rising"
        /\ w[3][1] = "delay" /\ w[4][1] = "program" /\ w[5][1] = "avdd"
        /\ w[5][2] = "falling" /\ w[6][1] = "delay"
    BY <2>1
  <2>. QED  BY <2>3, <2>4
<1>. QED
  BY <1>1, <1>2, Zenon DEF EfuseInv

LEMMA EfMoreStarts == EfInit => EfMore
BY DEF EfInit, EfMore

LEMMA EfMoreSteps ==
    ASSUME EfuseInv, EfMore, EfNext \/ UNCHANGED efVars
    PROVE  EfMore'
<1>1. CASE EfCalls
  BY <1>1, Zenon DEF EfCalls, EfMore
<1>2. CASE EfAccess
  <2>. DEFINE op == Head(efTodo)[1]
              arg == Head(efTodo)[2]
  <2>1. /\ op = "magic" => arg \in {"read", "write"}
        /\ op = "avdd" => arg \in {"rising", "falling"}
        /\ op = "load" => efCall.op = "read"
    BY <1>2, FirstAccess DEF EfAccess
  <2>2. /\ efCall' = efCall
        /\ efResult' = IF op = "err" THEN "out of range" ELSE efResult
        /\ efMode' = IF op = "magic" THEN arg ELSE efMode
        /\ efAvdd' = CASE op = "avdd" -> arg
                       [] op = "delay" /\ efAvdd = "rising" -> "up"
                       [] op = "delay" /\ efAvdd = "falling" -> "down"
                       [] OTHER -> efAvdd
        /\ op # "load" => efBuffer' = efBuffer
    BY <1>2 DEF EfAccess
  <2>. HIDE DEF op, arg
  <2>3. efResult' \in {"none", "ok", "out of range"}
    BY <2>2, Zenon DEF EfMore
  <2>4. efMode' \in {"reset", "read", "write"}
    BY <2>1, <2>2 DEF EfMore
  <2>5. efAvdd' \in {"down", "rising", "up", "falling"}
    BY <2>1, <2>2 DEF EfMore
  <2>6. efCall'.op # "read" => efBuffer' = <<>>
    BY <2>1, <2>2 DEF EfMore
  <2>. QED  BY <2>3, <2>4, <2>5, <2>6, Zenon DEF EfMore
<1>3. CASE UNCHANGED efVars
  BY <1>3, Zenon DEF efVars, EfMore
<1>. QED
  BY <1>1, <1>2, <1>3 DEF EfNext

\* Some slot is selected, and slots are locked.
SlotsTyped == kmSelected \in Keyslots /\ kmLocked \subseteq Keyslots

LEMMA SlotsStart == KmInit => SlotsTyped
<1>1. (CHOOSE s \in Keyslots : TRUE) \in Keyslots
  BY EfuseAssumption
<1>. QED
  BY <1>1 DEF KmInit, SlotsTyped

LEMMA SlotsSteps ==
    ASSUME SlotInv, SlotsTyped, KmNext \/ UNCHANGED kmVars
    PROVE  SlotsTyped'
<1>1. ASSUME NEW c \in Contexts, KmCall(c)
      PROVE  SlotsTyped'
  BY <1>1, Zenon DEF KmCall, SlotsTyped
<1>2. ASSUME NEW c \in Contexts, KmAccess(c)
      PROVE  SlotsTyped'
  <2>1. PICK s \in Keyslots :
          kmTodo[c] = is_keyslot_locked(s) \/ kmTodo[c] = << <<"status", s>> >>
    BY <1>2, Zenon DEF KmAccess, SlotInv
  <2>2. Head(kmTodo[c])[2] = s
    BY <2>1 DEF is_keyslot_locked
  <2>3. kmSelected' \in {s, kmSelected} /\ kmLocked' = kmLocked
    BY <1>2, <2>2 DEF KmAccess
  <2>. QED  BY <2>3 DEF SlotsTyped
<1>3. ASSUME NEW s \in Keyslots, lock_keyslot(s)
      PROVE  SlotsTyped'
  BY <1>3 DEF lock_keyslot, SlotsTyped
<1>4. CASE UNCHANGED kmVars
  BY <1>4 DEF kmVars, SlotsTyped
<1>. QED
  BY <1>1, <1>2, <1>3, <1>4 DEF KmNext

\* A read has no more bytes than the array.
LEMMA EfOfType == ASSUME EfuseInv, EfMore, SlotsTyped PROVE EfTypeOK
<1>1. Len(efBuffer) <= OtpBytes
  <2>1. CASE efCall.op = "read"
    <3>1. /\ efBuffer \in Seq(SUBSET OtpBits) /\ efCall.at \in Addresses
          /\ \A j \in 1..Len(efBuffer) : efCall.at + j - 1 \in Addresses
      BY <2>1, Zenon DEF EfuseInv, ReadGoesOn
    <3>2. Len(efBuffer) \in Nat /\ efCall.at \in Nat /\ OtpBytes \in Nat
      BY <3>1, LenProperties, EfuseAssumption DEF Addresses
    <3>3. Len(efBuffer) > 0 => efCall.at + Len(efBuffer) - 1 \in Addresses
      BY <3>1, <3>2
    <3>4. ASSUME NEW x \in Nat, NEW y \in Nat, NEW n \in Nat, x > 0 => y + x - 1 \in 0..(n - 1)
          PROVE  x <= n
      BY <3>4
    <3>5. Len(efBuffer) > 0 => efCall.at + Len(efBuffer) - 1 \in 0..(OtpBytes - 1)
      BY <3>3 DEF Addresses
    <3>. QED  BY <3>2, <3>4, <3>5, Zenon
  <2>2. CASE efCall.op # "read"
    <3>1. efBuffer = <<>>
      BY <2>2, Zenon DEF EfMore
    <3>. QED  BY <3>1, EfuseAssumption
  <2>. QED  BY <2>1, <2>2
<1>. QED
  BY <1>1, Zenon DEF EfTypeOK, EfuseInv, EfMore, SlotsTyped

\* A bit clock's divider fits its 7 bits.
LEMMA NearestFits == ASSUME NEW bits \in 32..512 PROVE Nearest(bits) \in 0..127
<1>. DEFINE P == 32 * bits
            n == 2 * 12288 + P
            m == 2 * P
            d == n \div m
<1>1. P \in Nat /\ 1024 <= P /\ n \in Nat /\ m \in Nat \ {0} /\ n = 24576 + P
  OBVIOUS
<1>2. Nearest(bits) = IF d = 0 THEN 1 ELSE d
  <2>1. m = 2 * 32 * bits
    OBVIOUS
  <2>2. d = (2 * 12288 + 32 * bits) \div (2 * 32 * bits)
    BY <2>1
  <2>. HIDE DEF d
  <2>. QED  BY <2>2 DEF Nearest
<1>. HIDE DEF n, d
<1>3. d \in Nat /\ m * d <= n
  <2>. HIDE DEF m
  <2>. QED  BY <1>1, DivRoundsDown DEF d
<1>4. d <= 127
  <2>1. ASSUME 128 <= d
        PROVE  FALSE
    <3>1. m * 128 <= m * d
      <4>. HIDE DEF m
      <4>. QED  BY <1>1, <1>3, <2>1
    <3>2. m * 128 = 256 * P
      OBVIOUS
    <3>. DEFINE e == m * d
    <3>3. e \in Int
      BY <1>1, <1>3
    <3>. HIDE DEF e, P
    <3>. QED  BY <1>1, <1>3, <3>1, <3>2, <3>3 DEF e
  <2>. QED  BY <1>3, <2>1
<1>. HIDE DEF P, m
<1>. QED
  BY <1>2, <1>3, <1>4

\* What the writes of a constructor put into the dividers.
Dividers(reg, value) ==
    /\ reg = "fs" => value \in 0..1023
    /\ reg = "ratio" => value \in 0..2047
    /\ reg = "bclk" => value \in 0..127

LEMMA DividersFit ==
    ASSUME i2sRole \in {"master", "slave"}, i2sAsked \in SlaveConfig
    PROVE  \A i \in 1..Len(I2sPlan) : Dividers(I2sPlan[i][1], I2sPlan[i][2])
<1>. DEFINE d == derive_dividers(i2sAsked.width, i2sAsked.channels)
            bits == i2sAsked.width * i2sAsked.channels
            w == I2sPlan
<1>1. d.fs \in 0..1023 /\ d.ratio \in 0..2047 /\ d.bclk \in 0..127
  <2>1. bits \in 32..512 /\ 2 * (bits \div 2) = bits
    BY FrameBits
  <2>3. d.fs = bits /\ d.ratio = bits \div 2 /\ d.bclk = Nearest(bits)
    BY DEF derive_dividers, Nearest
  <2>. HIDE DEF bits, d
  <2>4. bits \in 0..1023 /\ bits \div 2 \in 0..2047
    BY <2>1
  <2>5. Nearest(bits) \in 0..127
    BY <2>1, NearestFits
  <2>. QED  BY <2>3, <2>4, <2>5
<1>2. CASE i2sRole = "master"
  <2>1. /\ Len(w) = 11 /\ w[1][1] = "clock" /\ w[2][1] = "mode"
        /\ w[3][1] = "fs" /\ w[3][2] = d.fs /\ w[4][1] = "ratio" /\ w[4][2] = d.ratio
        /\ w[5][1] = "bclk" /\ w[5][2] = d.bclk /\ w[6][1] = "crg"
        /\ w[7][1] = "width" /\ w[8][1] = "threshold" /\ w[9][1] = "loop"
        /\ w[10][1] = "signed" /\ w[11][1] = "reset"
    <3>1. w = new_master(i2sAsked)
      BY <1>2 DEF I2sPlan
    <3>. HIDE DEF w, d
    <3>2. /\ Len(w) = 11
          /\ w[1] = <<"clock", TRUE>> /\ w[2] = <<"mode", ModeBits(i2sAsked, TRUE)>>
          /\ w[3] = <<"fs", d.fs>> /\ w[4] = <<"ratio", d.ratio>>
          /\ w[5] = <<"bclk", d.bclk>> /\ w[6] = <<"crg", TRUE>>
          /\ w[7] = <<"width", WidthBits(i2sAsked)>>
          /\ w[8] = <<"threshold", <<i2sAsked.tx, i2sAsked.rx>> >>
          /\ w[9] = <<"loop", i2sAsked.loop>> /\ w[10] = <<"signed", TRUE>>
          /\ w[11] = <<"reset", Sides>>
      BY <3>1, MasterWrites DEF d
    <3>. QED  BY <3>2
  <2>. HIDE DEF w, d
  <2>2. \A i \in 1..11 : \/ i = 1 \/ i = 2 \/ i = 3 \/ i = 4 \/ i = 5 \/ i = 6
                         \/ i = 7 \/ i = 8 \/ i = 9 \/ i = 10 \/ i = 11
    OBVIOUS
  <2>3. \A i \in 1..11 : Dividers(w[i][1], w[i][2])
    BY <1>1, <2>1, <2>2 DEF Dividers
  <2>4. \A i \in 1..Len(w) : Dividers(w[i][1], w[i][2])
    BY <2>1, <2>3
  <2>. QED  BY <2>4 DEF w
<1>3. CASE i2sRole = "slave"
  <2>1. /\ Len(w) = 8 /\ w[1][1] = "clock" /\ w[2][1] = "mode" /\ w[3][1] = "crg"
        /\ w[4][1] = "width" /\ w[5][1] = "threshold" /\ w[6][1] = "loop"
        /\ w[7][1] = "signed" /\ w[8][1] = "reset"
    <3>1. w = new_slave(i2sAsked)
      BY <1>3 DEF I2sPlan
    <3>. HIDE DEF w
    <3>2. /\ Len(w) = 8
          /\ w[1] = <<"clock", TRUE>> /\ w[2] = <<"mode", ModeBits(i2sAsked, FALSE)>>
          /\ w[3] = <<"crg", FALSE>> /\ w[4] = <<"width", WidthBits(i2sAsked)>>
          /\ w[5] = <<"threshold", <<i2sAsked.tx, i2sAsked.rx>> >>
          /\ w[6] = <<"loop", i2sAsked.loop>> /\ w[7] = <<"signed", TRUE>>
          /\ w[8] = <<"reset", Sides>>
      BY <3>1, SlaveWrites
    <3>. QED  BY <3>2
  <2>. HIDE DEF w, d
  <2>2. \A i \in 1..8 : \/ i = 1 \/ i = 2 \/ i = 3 \/ i = 4 \/ i = 5 \/ i = 6
                        \/ i = 7 \/ i = 8
    OBVIOUS
  <2>3. \A i \in 1..8 : Dividers(w[i][1], w[i][2])
    BY <2>1, <2>2 DEF Dividers
  <2>4. \A i \in 1..Len(w) : Dividers(w[i][1], w[i][2])
    BY <2>1, <2>3
  <2>. QED  BY <2>4 DEF w
<1>. QED
  BY <1>2, <1>3

\* How much the FIFOs hold, the dividers' ranges and the enables.
FifosFit ==
    /\ Len(i2sFifo.txleft) <= I2sDepth /\ Len(i2sFifo.txright) <= I2sDepth
    /\ Len(i2sFifo.rxleft) <= I2sDepth /\ Len(i2sFifo.rxright) <= I2sDepth

I2sMore ==
    /\ i2sAsked \in SlaveConfig
    /\ i2sRegs.fs \in 0..1023 /\ i2sRegs.ratio \in 0..2047 /\ i2sRegs.bclk \in 0..127
    /\ i2sOn \subseteq CtBits
    /\ FifosFit

LEMMA I2sMoreStarts == I2sInit => I2sMore
<1>. SUFFICES ASSUME I2sInit PROVE I2sMore
  OBVIOUS
<1>1. SlaveConfig # {}
  <2>1. PICK mode \in I2sModes, channels \in I2sChannels, width \in I2sWidths,
             threshold \in I2sThresholds : TRUE
    BY I2sAssumption
  <2>2. [mode |-> mode, channels |-> channels, width |-> width, edge |-> "rising",
         tx |-> threshold, rx |-> threshold, loop |-> TRUE] \in SlaveConfig
    BY DEF SlaveConfig
  <2>. QED  BY <2>2
<1>2. (CHOOSE c \in SlaveConfig : TRUE) \in SlaveConfig
  BY <1>1
<1>3. i2sAsked \in SlaveConfig
  BY <1>2 DEF I2sInit
<1>4. FifosFit
  BY I2sAssumption DEF I2sInit, EmptyFifo, FifosFit
<1>5. i2sRegs.fs = 0 /\ i2sRegs.ratio = 0 /\ i2sRegs.bclk = 0 /\ i2sOn = {}
  BY DEF I2sInit
<1>. QED
  BY <1>3, <1>4, <1>5 DEF I2sMore

\* A register write sets a divider to one that fits.
LEMMA DividersStay == ASSUME I2sInv, I2sMore, I2sWrite PROVE I2sMore'
<1>. DEFINE n == Len(I2sPlan)
            d == I2sDone
            reg == Head(i2sTodo)[1]
            value == Head(i2sTodo)[2]
<1>1. /\ i2sRole \in {"master", "slave"} /\ i2sAsked \in SlaveConfig /\ i2sTodo # <<>>
  BY DEF I2sInv, I2sUnderWay, I2sWrite
<1>2. /\ UNCHANGED <<i2sAsked, i2sOn>>
      /\ i2sRegs' = IF i2sClocked /\ reg \in DOMAIN i2sRegs
                    THEN [i2sRegs EXCEPT ![reg] = value] ELSE i2sRegs
      /\ i2sFifo' = IF i2sClocked /\ reg = "reset" THEN EmptyFifo ELSE i2sFifo
  BY DEF I2sWrite
<1>3. PICK T : i2sTodo \in Seq(T)
  BY <1>1 DEF I2sInv, I2sUnderWay
<1>4. n \in {8, 11} /\ d >= 0 /\ d = n - Len(i2sTodo)
  BY <1>1, PlanIsSound DEF I2sInv, I2sUnderWay, I2sDone
<1>5. \A i \in 1..Len(i2sTodo) : i2sTodo[i] = I2sPlan[d + i]
  BY <1>1 DEF I2sInv, I2sUnderWay
<1>6. Len(i2sTodo) \in Nat /\ Len(i2sTodo) >= 1 /\ Head(i2sTodo) = i2sTodo[1]
  BY <1>1, <1>3, LenProperties, EmptySeq, HeadTailProperties
<1>7. Dividers(reg, value)
  <2>1. 1 \in 1..Len(i2sTodo) /\ d + 1 \in 1..n
    <3>. HIDE DEF n, d
    <3>. QED  BY <1>4, <1>6
  <2>2. Dividers(I2sPlan[d + 1][1], I2sPlan[d + 1][2])
    BY <1>1, <2>1, DividersFit
  <2>3. Head(i2sTodo) = I2sPlan[d + 1]
    BY <1>5, <1>6, <2>1
  <2>. QED  BY <2>2, <2>3
<1>8. DOMAIN i2sRegs = I2sRegisters
  BY DEF I2sInv
<1>. HIDE DEF n, d, reg, value
<1>9. /\ i2sRegs'.fs \in 0..1023 /\ i2sRegs'.ratio \in 0..2047 /\ i2sRegs'.bclk \in 0..127
  BY <1>2, <1>7, <1>8 DEF I2sMore, Dividers, I2sRegisters
<1>10. FifosFit'
  <2>1. CASE i2sFifo' = i2sFifo
    BY <2>1 DEF I2sMore, FifosFit
  <2>2. CASE i2sFifo' = EmptyFifo
    BY <2>2, I2sAssumption DEF FifosFit, EmptyFifo
  <2>. QED  BY <1>2, <2>1, <2>2
<1>. QED
  BY <1>2, <1>9, <1>10 DEF I2sMore

\* A list shrinks by one when its first goes.
LEMMA TailFits ==
    ASSUME NEW S, NEW s \in Seq(S), NEW n \in Nat, Len(s) <= n, s # <<>>
    PROVE  Tail(s) \in Seq(S) /\ Len(Tail(s)) <= n
<1>1. Tail(s) \in Seq(S) /\ Len(Tail(s)) = Len(s) - 1 /\ Len(s) \in Nat
  BY HeadTailProperties, LenProperties
<1>. QED
  BY <1>1

\* A sample is added only to a FIFO with room.
LEMMA FifosStay ==
    ASSUME I2sInv, FifosFit, EnableCalls \/ FifoCalls \/ Frame
    PROVE  FifosFit'
<1>. DEFINE f == i2sFifo
<1>1. /\ f.txleft \in Seq({"left"}) /\ f.rxleft \in Seq({"left"})
      /\ f.txright \in Seq({"right"}) /\ f.rxright \in Seq({"right"})
      /\ f = [txleft |-> f.txleft, txright |-> f.txright,
              rxleft |-> f.rxleft, rxright |-> f.rxright]
  BY DEF I2sInv, SidesKept
<1>2. /\ Len(f.txleft) <= I2sDepth /\ Len(f.txright) <= I2sDepth
      /\ Len(f.rxleft) <= I2sDepth /\ Len(f.rxright) <= I2sDepth
      /\ I2sDepth \in Nat
  BY I2sAssumption DEF FifosFit
<1>3. /\ Len(f.txleft) \in Nat /\ Len(f.rxleft) \in Nat
      /\ Len(f.txright) \in Nat /\ Len(f.rxright) \in Nat
  BY <1>1, LenProperties
<1>4. /\ f.txleft # <<>> => Len(Tail(f.txleft)) <= I2sDepth /\ Head(f.txleft) \in {"left"}
      /\ f.txright # <<>> => Len(Tail(f.txright)) <= I2sDepth /\ Head(f.txright) \in {"right"}
      /\ f.rxleft # <<>> => Len(Tail(f.rxleft)) <= I2sDepth
      /\ f.rxright # <<>> => Len(Tail(f.rxright)) <= I2sDepth
  BY <1>1, <1>2, TailFits, HeadTailProperties
<1>5. ASSUME EnableCalls
      PROVE  FifosFit'
  BY <1>5 DEF EnableCalls, FifosFit
<1>6. ASSUME FifoCalls
      PROVE  FifosFit'
  <2>. DEFINE Put(side) ==
                IF Len(i2sFifo[TxFifo(side)]) < I2sDepth
                THEN i2sFifo' = [i2sFifo EXCEPT ![TxFifo(side)] = Append(@, side)]
                ELSE UNCHANGED i2sFifo
              Take(side) ==
                i2sFifo' = [i2sFifo EXCEPT ![RxFifo(side)] = IF @ = <<>> THEN @ ELSE Tail(@)]
              Cleared ==
                \/ i2sFifo' = [i2sFifo EXCEPT !.txleft = <<>>, !.txright = <<>>]
                \/ i2sFifo' = [i2sFifo EXCEPT !.rxleft = <<>>, !.rxright = <<>>]
  <2>0. (\E side \in Sides : Put(side)) \/ (\E side \in Sides : Take(side)) \/ Cleared
    BY <1>6, Zenon DEF FifoCalls
  <2>1. CASE \E side \in Sides : Put(side)
    <3>1. \/ /\ i2sFifo' = [f EXCEPT !.txleft = Append(f.txleft, "left")]
             /\ Len(f.txleft) < I2sDepth
          \/ /\ i2sFifo' = [f EXCEPT !.txright = Append(f.txright, "right")]
             /\ Len(f.txright) < I2sDepth
          \/ i2sFifo' = f
      BY <2>1 DEF Sides, TxFifo
    <3>2. /\ Len(Append(f.txleft, "left")) = Len(f.txleft) + 1
          /\ Len(Append(f.txright, "right")) = Len(f.txright) + 1
      BY <1>1
    <3>3. CASE /\ i2sFifo' = [f EXCEPT !.txleft = Append(f.txleft, "left")]
               /\ Len(f.txleft) < I2sDepth
      <4>1. /\ i2sFifo'.txleft = Append(f.txleft, "left")
            /\ i2sFifo'.txright = f.txright /\ i2sFifo'.rxleft = f.rxleft
            /\ i2sFifo'.rxright = f.rxright
        BY <1>1, <3>3
      <4>. QED  BY <1>2, <1>3, <3>2, <3>3, <4>1 DEF FifosFit
    <3>4. CASE /\ i2sFifo' = [f EXCEPT !.txright = Append(f.txright, "right")]
               /\ Len(f.txright) < I2sDepth
      <4>1. /\ i2sFifo'.txright = Append(f.txright, "right")
            /\ i2sFifo'.txleft = f.txleft /\ i2sFifo'.rxleft = f.rxleft
            /\ i2sFifo'.rxright = f.rxright
        BY <1>1, <3>4
      <4>. QED  BY <1>2, <1>3, <3>2, <3>4, <4>1 DEF FifosFit
    <3>5. CASE i2sFifo' = f
      BY <3>5 DEF FifosFit
    <3>. QED  BY <3>1, <3>3, <3>4, <3>5
  <2>2. CASE \E side \in Sides : Take(side)
    <3>1. \/ i2sFifo' = [f EXCEPT !.rxleft = IF f.rxleft = <<>> THEN f.rxleft ELSE Tail(f.rxleft)]
          \/ i2sFifo' = [f EXCEPT !.rxright = IF f.rxright = <<>> THEN f.rxright ELSE Tail(f.rxright)]
      BY <2>2 DEF Sides, RxFifo
    <3>. QED  BY <1>1, <1>2, <1>4, <3>1 DEF FifosFit
  <2>3. CASE Cleared
    <3>1. Len(<<>>) <= I2sDepth
      BY <1>2
    <3>. QED  BY <1>1, <1>2, <2>3, <3>1 DEF FifosFit
  <2>. QED  BY <2>0, <2>1, <2>2, <2>3
<1>7. ASSUME Frame
      PROVE  FifosFit'
  <2>1. CASE i2sFifo' = i2sFifo
    BY <2>1 DEF FifosFit
  <2>2. CASE /\ f.txleft # <<>> /\ f.txright # <<>>
             /\ i2sFifo'.txleft = Tail(f.txleft) /\ i2sFifo'.txright = Tail(f.txright)
             /\ \/ i2sFifo'.rxleft = f.rxleft
                \/ /\ i2sFifo'.rxleft = Append(f.rxleft, Head(f.txleft))
                   /\ Len(f.rxleft) < I2sDepth
             /\ \/ i2sFifo'.rxright = f.rxright
                \/ /\ i2sFifo'.rxright = Append(f.rxright, Head(f.txright))
                   /\ Len(f.rxright) < I2sDepth
    <3>1. /\ Len(Append(f.rxleft, Head(f.txleft))) = Len(f.rxleft) + 1
          /\ Len(Append(f.rxright, Head(f.txright))) = Len(f.rxright) + 1
      BY <1>1, <1>4, <2>2
    <3>. QED  BY <1>2, <1>3, <1>4, <2>2, <3>1 DEF FifosFit
  <2>. DEFINE full == f.txleft # <<>> /\ f.txright # <<>>
              looped == full /\ i2sRegs.loop /\ "rx" \in i2sOn
              room == Len(f.rxleft) < I2sDepth /\ Len(f.rxright) < I2sDepth
  <2>3. i2sFifo' = IF ~ full THEN f
                   ELSE [txleft |-> Tail(f.txleft), txright |-> Tail(f.txright),
                         rxleft |-> IF looped /\ room
                                    THEN Append(f.rxleft, Head(f.txleft)) ELSE f.rxleft,
                         rxright |-> IF looped /\ room
                                     THEN Append(f.rxright, Head(f.txright)) ELSE f.rxright]
    BY <1>7, Zenon DEF Frame
  <2>4. CASE ~ full
    BY <2>1, <2>3, <2>4
  <2>5. CASE full /\ looped /\ room
    <3>1. i2sFifo' = [txleft |-> Tail(f.txleft), txright |-> Tail(f.txright),
                      rxleft |-> Append(f.rxleft, Head(f.txleft)),
                      rxright |-> Append(f.rxright, Head(f.txright))]
      BY <2>3, <2>5, Zenon
    <3>. QED  BY <2>2, <2>5, <3>1
  <2>6. CASE full /\ ~ (looped /\ room)
    <3>1. i2sFifo' = [txleft |-> Tail(f.txleft), txright |-> Tail(f.txright),
                      rxleft |-> f.rxleft, rxright |-> f.rxright]
      BY <2>3, <2>6, Zenon
    <3>. QED  BY <2>2, <2>6, <3>1
  <2>. QED  BY <2>4, <2>5, <2>6
<1>. QED
  BY <1>5, <1>6, <1>7

LEMMA I2sMoreSteps ==
    ASSUME I2sInv, I2sMore, I2sNext \/ UNCHANGED i2sVars
    PROVE  I2sMore'
<1>1. CASE NewI2s
  BY <1>1 DEF NewI2s, MasterConfig, I2sMore, FifosFit
<1>2. CASE I2sWrite
  BY <1>2, DividersStay
<1>3. CASE EnableCalls \/ FifoCalls \/ Frame
  <2>1. FifosFit'
    BY <1>3, FifosStay DEF I2sMore
  <2>2. UNCHANGED <<i2sAsked, i2sRegs>> /\ i2sOn' \subseteq CtBits
    <3>1. CASE EnableCalls
      BY <3>1 DEF EnableCalls, ct_set, ct_clr, I2sMore
    <3>2. CASE FifoCalls \/ Frame
      BY <3>2 DEF FifoCalls, Frame, I2sMore
    <3>. QED  BY <1>3, <3>1, <3>2
  <2>. QED  BY <2>1, <2>2 DEF I2sMore
<1>4. CASE UNCHANGED i2sVars
  BY <1>4 DEF i2sVars, I2sMore, FifosFit
<1>. QED
  BY <1>1, <1>2, <1>3, <1>4 DEF I2sNext

LEMMA I2sSteps == ASSUME I2sInv, I2sNext \/ UNCHANGED i2sVars PROVE I2sInv'
<1>1. CASE UNCHANGED i2sVars
  BY <1>1 DEF i2sVars, I2sInv, I2sUnderWay, I2sPlan, I2sDone, NoZeroDivider, SidesKept
<1>. QED
  BY <1>1, NewDriver, DriverWrite, OtherSteps DEF I2sNext

\* A constructor has eleven writes at most.
LEMMA I2sOfType == ASSUME I2sInv, I2sMore PROVE I2sTypeOK
<1>1. Len(i2sTodo) <= 11
  <2>1. CASE i2sRole = "none"
    <3>1. i2sTodo = <<>>
      BY <2>1, Zenon DEF I2sInv, I2sUnderWay
    <3>. QED  BY <3>1
  <2>2. CASE i2sRole # "none"
    <3>1. i2sRole \in {"master", "slave"} /\ i2sAsked \in SlaveConfig
      BY <2>2 DEF I2sInv, I2sUnderWay
    <3>2. Len(I2sPlan) \in {8, 11}
      BY <3>1, PlanIsSound
    <3>3. PICK T : i2sTodo \in Seq(T)
      BY <2>2 DEF I2sInv, I2sUnderWay
    <3>4. Len(i2sTodo) \in Nat
      BY <3>3, LenProperties
    <3>5. Len(I2sPlan) - Len(i2sTodo) >= 0
      BY <2>2 DEF I2sInv, I2sUnderWay, I2sDone
    <3>6. ASSUME NEW x \in Nat, NEW y \in {8, 11}, y - x >= 0
          PROVE  x <= 11
      BY <3>6
    <3>. QED  BY <3>2, <3>4, <3>5, <3>6
  <2>. QED  BY <2>1, <2>2
<1>2. \A q \in DOMAIN i2sFifo : i2sFifo[q] \in BoundedSeq(Sides, I2sDepth)
  <2>1. DOMAIN i2sFifo = {"txleft", "txright", "rxleft", "rxright"}
    BY DEF I2sInv, SidesKept
  <2>2. ASSUME NEW s, s \in Seq({"left"}) \/ s \in Seq({"right"}), Len(s) <= I2sDepth
        PROVE  s \in BoundedSeq(Sides, I2sDepth)
    <3>1. Len(s) \in 0..I2sDepth
      BY <2>2, LenProperties, I2sAssumption
    <3>2. s \in [1..Len(s) -> Sides]
      BY <2>2 DEF Sides
    <3>. QED  BY <3>1, <3>2 DEF BoundedSeq, SeqOf
  <2>3. /\ i2sFifo.txleft \in Seq({"left"}) /\ i2sFifo.rxleft \in Seq({"left"})
        /\ i2sFifo.txright \in Seq({"right"}) /\ i2sFifo.rxright \in Seq({"right"})
    BY DEF I2sInv, SidesKept
  <2>4. /\ i2sFifo.txleft \in BoundedSeq(Sides, I2sDepth)
        /\ i2sFifo.txright \in BoundedSeq(Sides, I2sDepth)
        /\ i2sFifo.rxleft \in BoundedSeq(Sides, I2sDepth)
        /\ i2sFifo.rxright \in BoundedSeq(Sides, I2sDepth)
    BY <2>2, <2>3 DEF I2sMore, FifosFit
  <2>. QED  BY <2>1, <2>4
<1>3. i2sRole \in {"none", "master", "slave"} /\ i2sClocked \in BOOLEAN /\ i2sOn = i2sWanted
  BY Zenon DEF I2sInv, I2sUnderWay
<1>4. /\ i2sAsked \in SlaveConfig
      /\ i2sRegs.fs \in 0..1023 /\ i2sRegs.ratio \in 0..2047 /\ i2sRegs.bclk \in 0..127
      /\ i2sOn \subseteq CtBits /\ i2sWanted \subseteq CtBits
  BY <1>3 DEF I2sMore
<1>. QED
  BY <1>1, <1>2, <1>3, <1>4 DEF I2sTypeOK

\* The enables are bits that there are, and the devices' interrupts are counted.
IcMore ==
    /\ icMie \subseteq 26..31
    /\ icLocien \subseteq (0..2) \X (0..31)
    /\ icLeft \in 0..IcRaises

LEMMA BitsExist ==
    ASSUME NEW n \in IcIrqs
    PROVE  IF IsLocal(n) THEN LocienBit(n) \in (0..2) \X (0..31) ELSE n \in 26..31
<1>1. n \in 26..127
  BY IcAssumption
<1>. QED
  BY <1>1 DEF IsLocal, LocienBit, LOCAL_IRQ_VECTOR_CNT, LOCIEN_IRQ_NUM

LEMMA IcMoreStarts == IcInit => IcMore
BY IcAssumption DEF IcInit, IcMore

\* Only an access of a call writes the enables, and for one of the interrupts.
LEMMA IcMoreSteps ==
    ASSUME IcInv, IcMore, IcNext \/ UNCHANGED icVars
    PROVE  IcMore'
<1>1. CASE UNCHANGED <<icMie, icLocien, icLeft>>
  BY <1>1 DEF IcMore
<1>2. ASSUME NEW n \in IcIrqs, IcRaise(n)
      PROVE  IcMore'
  <2>1. /\ icLeft > 0 /\ icLeft' = icLeft - 1 /\ UNCHANGED <<icMie, icLocien>>
    BY <1>2 DEF IcRaise
  <2>. QED  BY <2>1, IcAssumption DEF IcMore
<1>3. CASE IcAccess
  <2>1. PICK n \in IcIrqs : n = Current.todo[1].irq
    BY <1>3, AccessTyped DEF IcInv, IcOps
  <2>2. /\ icLeft' = icLeft
        /\ IsLocal(n) => icMie' = icMie
        /\ ~ IsLocal(n) => icLocien' = icLocien
        /\ icMie' \subseteq icMie \cup {n}
        /\ icLocien' \subseteq icLocien \cup {LocienBit(n)}
    BY <1>3, <2>1 DEF IcAccess
  <2>3. icMie' \subseteq 26..31
    BY <2>2, BitsExist DEF IcMore
  <2>4. icLocien' \subseteq (0..2) \X (0..31)
    BY <2>2, BitsExist DEF IcMore
  <2>. QED  BY <2>2, <2>3, <2>4 DEF IcMore
<1>4. ASSUME NEW n \in IcIrqs, IcEnable(n) \/ IcDisable(n)
      PROVE  IcMore'
  BY <1>1, <1>4, Zenon DEF IcEnable, IcDisable, icRegs
<1>5. ASSUME NEW n \in IcIrqs, NEW p \in IcPriorities, set_priority(n, p)
      PROVE  IcMore'
  BY <1>1, <1>5, Zenon DEF set_priority, icRegs
<1>6. ASSUME (\E t \in IcThresholds : set_threshold(t)) \/ (\E b \in BOOLEAN : IcGlobal(b))
               \/ IcSetDefaults
      PROVE  IcMore'
  BY <1>1, <1>6, Zenon DEF set_threshold, IcGlobal, IcSetDefaults
<1>7. CASE FreeEnter \/ FreeLeave
  BY <1>1, <1>7, Zenon DEF FreeEnter, FreeLeave
<1>8. CASE SoftNew \/ SoftDrop \/ pend_interrupt
  BY <1>1, <1>8, Zenon DEF SoftNew, SoftDrop, pend_interrupt, icRegs
<1>9. CASE Trap \/ Mret
  BY <1>1, <1>9, Zenon DEF Trap, Mret
<1>10. CASE UNCHANGED icVars
  BY <1>1, <1>10, Zenon DEF icVars, icRegs
<1>. QED
  BY <1>2, <1>3, <1>4, <1>5, <1>6, <1>7, <1>8, <1>9, <1>10, Zenon DEF IcNext

LEMMA IcOfType == ASSUME IcInv, IcMore PROVE IcTypeOK
<1>1. IcTyped
  BY DEF IcInv
<1>2. \A n \in IcIrqs : LocipriOf(n) \in 0..7
  BY <1>1, FieldHolds
<1>3. \A i \in DOMAIN icFrames : /\ icFrames[i].irq \in IcIrqs \cup {0}
                                 /\ icFrames[i].saved \in Seq(BOOLEAN)
  <2>1. icFrames \in Seq(IcFrames)
    BY <1>1 DEF IcTyped, IcFrames
  <2>2. \A i \in DOMAIN icFrames : icFrames[i] \in IcFrames
    BY <2>1
  <2>. QED  BY <2>2 DEF IcFrames
<1>. QED
  BY <1>1, <1>2, <1>3, Zenon DEF IcTypeOK, IcTyped, IcMore

LEMMA CcOfType == CacheInv => CcTypeOK
BY DEF CacheInv

-----------------------------------------------------------------------------
(* MCRegisters: one of the drivers runs, and all keep what they promise. *)

\* With the pads alone the pins have no call under way.
PadsAlone == block = "pads" => \A c \in PinContexts : pinTodo[c] = <<>>

PinsFit == PinsInv /\ PadsInv /\ PadsAlone
PwmFits == PwmInv /\ PwmTwoMore
I2sFits == I2sInv /\ I2sMore
EfuseFits == EfuseInv /\ EfMore
SlotsFit == SlotInv /\ SlotsTyped
IcFits == IcInv /\ IcMore

BlocksFit ==
    PinsFit /\ PwmFits /\ I2sFits /\ EfuseFits /\ SlotsFit /\ IcFits /\ CacheInv

LEMMA BlocksStart == ASSUME RegistersInit PROVE BlocksFit
<1>1. PinsFit
  <2>1. PinsInit
    BY DEF RegistersInit
  <2>2. \A c \in PinContexts : pinTodo[c] = <<>>
    BY <2>1 DEF PinsInit
  <2>. QED  BY <2>1, <2>2, PinsStart DEF PinsFit, PadsAlone
<1>2. PwmFits /\ I2sFits /\ EfuseFits /\ SlotsFit /\ IcFits /\ CacheInv
  BY PwmStarts, PwmMoreStarts, I2sStarts, I2sMoreStarts, EfStarts, EfMoreStarts, KmStarts,
     SlotsStart, IcInitInv, IcMoreStarts, CacheInit, Zenon
  DEF RegistersInit, PwmFits, I2sFits, EfuseFits, SlotsFit, IcFits
<1>. QED
  BY <1>1, <1>2 DEF BlocksFit

\* A step is one of one driver; it leaves the state of the others.
LEMMA OneBlockSteps ==
    ASSUME [RegistersNext]_registerVars
    PROVE  /\ block' = block
           /\ \/ block = "pins" /\ PinsNext
              \/ block = "pads" /\ PadsNext /\ UNCHANGED pinVars
              \/ UNCHANGED <<pinVars, padVars>>
           /\ PwmNext \/ UNCHANGED pwmVars
           /\ I2sNext \/ UNCHANGED i2sVars
           /\ EfNext \/ UNCHANGED efVars
           /\ KmNext \/ UNCHANGED kmVars
           /\ IcNext \/ UNCHANGED icVars
           /\ CcNext \/ UNCHANGED ccVars
<1>1. ASSUME NEW b \in Blocks, Only(b)
      PROVE  /\ block' = block
             /\ b # "pins" => UNCHANGED pinVars
             /\ b \notin {"pins", "pads"} => UNCHANGED padVars
             /\ b # "pwm" => UNCHANGED pwmVars
             /\ b # "i2s" => UNCHANGED i2sVars
             /\ b # "efuse" => UNCHANGED efVars
             /\ b # "km" => UNCHANGED kmVars
             /\ b # "interrupt" => UNCHANGED icVars
             /\ b # "cache" => UNCHANGED ccVars
  BY <1>1, Zenon DEF Only
<1>2. CASE block = "pins" /\ PinsNext /\ Only("pins")
  <2>1. "pins" \in Blocks
    BY DEF Blocks
  <2>. QED  BY <1>1, <1>2, <2>1
<1>3. CASE block = "pads" /\ PadsNext /\ Only("pads")
  <2>1. "pads" \in Blocks
    BY DEF Blocks
  <2>. QED  BY <1>1, <1>3, <2>1
<1>4. CASE block = "pwm" /\ PwmNext /\ Only("pwm")
  <2>1. "pwm" \in Blocks
    BY DEF Blocks
  <2>. QED  BY <1>1, <1>4, <2>1
<1>5. CASE block = "i2s" /\ I2sNext /\ Only("i2s")
  <2>1. "i2s" \in Blocks
    BY DEF Blocks
  <2>. QED  BY <1>1, <1>5, <2>1
<1>6. CASE block = "efuse" /\ EfNext /\ Only("efuse")
  <2>1. "efuse" \in Blocks
    BY DEF Blocks
  <2>. QED  BY <1>1, <1>6, <2>1
<1>7. CASE block = "km" /\ KmNext /\ Only("km")
  <2>1. "km" \in Blocks
    BY DEF Blocks
  <2>. QED  BY <1>1, <1>7, <2>1
<1>8. CASE block = "interrupt" /\ IcNext /\ Only("interrupt")
  <2>1. "interrupt" \in Blocks
    BY DEF Blocks
  <2>. QED  BY <1>1, <1>8, <2>1
<1>9. CASE block = "cache" /\ CcNext /\ Only("cache")
  <2>1. "cache" \in Blocks
    BY DEF Blocks
  <2>. QED  BY <1>1, <1>9, <2>1
<1>10. CASE UNCHANGED registerVars
  BY <1>10 DEF registerVars
<1>. QED
  BY <1>2, <1>3, <1>4, <1>5, <1>6, <1>7, <1>8, <1>9, <1>10, Zenon DEF RegistersNext

\* A step of any driver keeps what each relies on, and is one that it promises.
LEMMA BlocksStep ==
    ASSUME BanksApart, ~ KmShared, BlocksFit, [RegistersNext]_registerVars
    PROVE  BlocksFit' /\ [GlitchFree]_pinVars /\ [HandlerAllowed]_icVars
<1>1. PinsFit' /\ [GlitchFree]_pinVars
  <2>1. block' = block
    BY OneBlockSteps
  <2>2. PinsInv /\ PadsInv /\ PadsAlone
    BY DEF BlocksFit, PinsFit
  <2>3. ASSUME [PinsNext]_<<pinVars, padVars>>
        PROVE  PinsInv' /\ PadsInv' /\ GlitchFree
    BY <2>2, <2>3, PinsSteps
  <2>4. CASE block = "pads" /\ PadsNext /\ UNCHANGED pinVars
    <3>1. pinTodo["main"] = <<>> /\ pinTodo["handler"] = <<>>
      BY <2>2, <2>4 DEF PadsAlone, PinContexts
    <3>2. PadCall
      BY <2>4, <3>1 DEF PadCall
    <3>3. PinsInv' /\ PadsInv' /\ UNCHANGED pinVars
      BY <2>2, <3>2, PadCallKeeps
    <3>4. pinTodo' = pinTodo
      BY <3>3 DEF pinVars
    <3>5. PadsAlone'
      BY <2>1, <2>2, <3>4 DEF PadsAlone
    <3>. QED  BY <3>3, <3>5 DEF PinsFit
  <2>5. CASE UNCHANGED <<pinVars, padVars>>
    <3>1. pinTodo' = pinTodo
      BY <2>5 DEF pinVars
    <3>2. PadsAlone'
      BY <2>1, <2>2, <3>1 DEF PadsAlone
    <3>. QED  BY <2>3, <2>5, <3>2 DEF PinsFit
  <2>6. CASE block = "pins" /\ PinsNext
    <3>1. PadsAlone'
      BY <2>1, <2>6 DEF PadsAlone
    <3>. QED  BY <2>3, <2>6, <3>1 DEF PinsFit
  <2>7. \/ block = "pins" /\ PinsNext
        \/ block = "pads" /\ PadsNext /\ UNCHANGED pinVars
        \/ UNCHANGED <<pinVars, padVars>>
    BY OneBlockSteps
  <2>. QED  BY <2>4, <2>5, <2>6, <2>7
<1>2. PwmFits'
  BY OneBlockSteps, PwmSteps, PwmMoreSteps, Zenon DEF BlocksFit, PwmFits
<1>3. I2sFits'
  BY OneBlockSteps, I2sSteps, I2sMoreSteps, Zenon DEF BlocksFit, I2sFits
<1>4. EfuseFits'
  BY OneBlockSteps, EfSteps, EfMoreSteps, Zenon DEF BlocksFit, EfuseFits
<1>5. SlotsFit'
  BY OneBlockSteps, KmSteps, SlotsSteps, Zenon DEF BlocksFit, SlotsFit
<1>6. IcFits' /\ [HandlerAllowed]_icVars
  <2>1. IcInv /\ IcMore /\ (IcNext \/ UNCHANGED icVars)
    BY OneBlockSteps DEF BlocksFit, IcFits
  <2>2. IcInv'
    BY <2>1, IcNextInv
  <2>3. IcMore'
    BY <2>1, IcMoreSteps
  <2>4. [HandlerAllowed]_icVars
    BY <2>1, HandlerStarts
  <2>. QED  BY <2>2, <2>3, <2>4 DEF IcFits
<1>7. CacheInv'
  BY OneBlockSteps, CacheStep, Zenon DEF BlocksFit
<1>. QED
  BY <1>1, <1>2, <1>3, <1>4, <1>5, <1>6, <1>7 DEF BlocksFit

\* What a step can break, read off the state before it.
LEMMA BlocksPromise ==
    ASSUME BlocksFit
    PROVE  /\ PwmSafe /\ I2sSafe /\ EfuseSafe /\ IcSafe /\ SourceInRam /\ CpuSeesLast
           /\ PinsAsAsked /\ PadsAsAsked
           /\ RegistersTypeOK
<1>1. /\ PinsInv /\ PadsInv /\ PwmInv /\ PwmTwoMore /\ I2sInv /\ I2sMore /\ EfuseInv /\ EfMore
      /\ SlotInv /\ SlotsTyped /\ IcInv /\ IcMore /\ CacheInv
  BY Zenon DEF BlocksFit, PinsFit, PwmFits, I2sFits, EfuseFits, SlotsFit, IcFits
<1>2. PinsAsAsked /\ PadsAsAsked /\ PinsTypeOK /\ PadsTypeOK
  BY <1>1, PinsPromise, PadsPromise, PinsOfType
<1>3. PwmSafe /\ I2sSafe /\ EfuseSafe /\ IcSafe
  BY <1>1, PwmPromise, I2sBuilt, EfusePromise, IcInvSafe
<1>4. CcTypeOK /\ CpuSeesLast /\ SourceInRam
  BY <1>1 DEF CacheInv, Cleaning, SourceInRam, Source
<1>5. PwmTypeOK /\ I2sTypeOK /\ EfTypeOK /\ IcTypeOK
  BY <1>1, PwmOfType, I2sOfType, EfOfType, IcOfType
<1>. QED
  BY <1>2, <1>3, <1>4, <1>5 DEF RegistersTypeOK

\* Where the handler's pins share no bank with the others and one context holds the key
\* slots, the state of every driver of shared registers has its type in any behaviour of
\* the composition.
THEOREM EachBlockTyped ==
    BanksApart /\ ~ KmShared => (RegistersSpec => []RegistersTypeOK)
<1>. SUFFICES ASSUME BanksApart, ~ KmShared PROVE RegistersSpec => []RegistersTypeOK
  OBVIOUS
<1>1. RegistersInit => BlocksFit
  BY BlocksStart
<1>2. BlocksFit /\ [RegistersNext]_registerVars => BlocksFit'
  BY BlocksStep
<1>3. BlocksFit => RegistersTypeOK
  BY BlocksPromise
<1>. QED
  BY <1>1, <1>2, <1>3, PTL DEF RegistersSpec

\* What each of them promises it keeps beside the others: pins, pads, waves, I2S, cells,
\* slots, interrupts and memory are as the calls have asked, handlers start only as allowed,
\* and no pin begins to drive with a level that was not asked for.
THEOREM BlocksAsPromised ==
    BanksApart /\ ~ KmShared =>
        (RegistersSpec =>
           /\ [](PwmSafe /\ I2sSafe /\ EfuseSafe /\ IcSafe /\ SourceInRam /\ CpuSeesLast)
           /\ PinsSafe /\ TakenAsAllowed)
<1>. SUFFICES ASSUME BanksApart, ~ KmShared
              PROVE  RegistersSpec =>
                       /\ [](PwmSafe /\ I2sSafe /\ EfuseSafe /\ IcSafe /\ SourceInRam
                               /\ CpuSeesLast)
                       /\ PinsSafe /\ TakenAsAllowed
  OBVIOUS
<1>1. RegistersInit => BlocksFit
  BY BlocksStart
<1>2. BlocksFit /\ [RegistersNext]_registerVars
        => BlocksFit' /\ [GlitchFree]_pinVars /\ [HandlerAllowed]_icVars
  BY BlocksStep
<1>3. BlocksFit => /\ PwmSafe /\ I2sSafe /\ EfuseSafe /\ IcSafe /\ SourceInRam /\ CpuSeesLast
                   /\ PinsAsAsked /\ PadsAsAsked
  BY BlocksPromise
<1>4. NoGlitch <=> [][GlitchFree]_pinVars
  BY DEF NoGlitch, GlitchFree
<1>5. TakenAsAllowed <=> [][HandlerAllowed]_icVars
  BY DEF TakenAsAllowed, HandlerAllowed
<1>. QED
  BY <1>1, <1>2, <1>3, <1>4, <1>5, PTL DEF RegistersSpec, PinsSafe
=============================================================================
