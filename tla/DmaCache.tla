-------------------------------- MODULE DmaCache --------------------------------
(***************************************************************************)
(* Cache maintenance (cache.rs) around the DMA calls of dma.rs, spi.rs and *)
(* uart.rs: a write-back cache that the controller does not see, whose     *)
(* lines are shared by whatever lies on them.  A copy of a word is either  *)
(* the last value written to it, by the CPU or the controller, or it is    *)
(* stale.  A transfer that is given up is stopped here; DmaTransfer tells  *)
(* which paths do stop it.                                                 *)
(***************************************************************************)
EXTENDS Integers, Sequences

CONSTANTS
    CcWords,     \* words of memory, 0..CcWords - 1
    CACHE_LINE,  \* words on a line
    CcLengths,   \* lengths of the buffers
    CcKinds      \* the DMA calls: "mem", "write", "read", "uart read", "duplex"

ASSUME CacheAssumption ==
    /\ CcWords \in Nat \ {0} /\ CACHE_LINE \in Nat \ {0}
    /\ CcLengths \subseteq Nat
    /\ CcKinds \subseteq {"mem", "write", "read", "uart read", "duplex"}

VARIABLES
    ccLine,     \* each line: "absent", "clean" or "dirty"
    ccCached,   \* words with a cached copy that is the last value
    ccRam,      \* words whose copy in RAM is the last value
    ccStage,    \* "idle", "clean", "run", "settle" or "flush"
    ccTodo,     \* cache commands that are left: <<command, line>>
    ccCall,     \* the call: [kind, src, dst, len]
    ccBeat,     \* beats the controller has done
    ccMixed     \* words of which a copy may be lost: see CpuSeesLast

ccMemory == <<ccLine, ccCached, ccRam>>
ccVars == <<ccMemory, ccStage, ccTodo, ccCall, ccBeat, ccMixed>>

CcAddresses == 0..(CcWords - 1)
LineAt(w) == w \div CACHE_LINE
CcLines == 0..LineAt(CcWords - 1)
OnLine(l) == {w \in CcAddresses : LineAt(w) = l}
OnLines(ls) == {w \in CcAddresses : LineAt(w) \in ls}

ReadsMemory(kind) == kind \in {"mem", "write", "duplex"}
WritesMemory(kind) == kind \in {"mem", "read", "uart read", "duplex"}

SourceOf(c) == IF ReadsMemory(c.kind) THEN c.src..(c.src + c.len - 1) ELSE {}
TargetOf(c) == IF WritesMemory(c.kind) THEN c.dst..(c.dst + c.len - 1) ELSE {}

\* Words that belong to the call that is under way.
Source == IF ccStage \in {"clean", "run", "settle"} THEN SourceOf(ccCall) ELSE {}
Target == IF ccStage \in {"clean", "run", "settle"} THEN TargetOf(ccCall) ELSE {}

CcTypeOK ==
    /\ ccLine \in [CcLines -> {"absent", "clean", "dirty"}]
    /\ ccCached \subseteq CcAddresses /\ ccRam \subseteq CcAddresses
    /\ \A w \in ccCached : ccLine[LineAt(w)] # "absent"
    /\ ccMixed \subseteq CcAddresses
    /\ ccStage \in {"idle", "clean", "run", "settle", "flush"}
    /\ ccTodo \in Seq({"clean", "invalidate", "flush"} \X CcLines)
    /\ ccCall \in [kind : CcKinds \cup {"none"}, src : Nat, dst : Nat, len : Nat]
    /\ ccBeat \in Nat

CcInit ==
    /\ ccLine = [l \in CcLines |-> "absent"]
    /\ ccCached = {} /\ ccRam = CcAddresses
    /\ ccStage = "idle" /\ ccTodo = <<>> /\ ccBeat = 0 /\ ccMixed = {}
    /\ ccCall = [kind |-> "none", src |-> 0, dst |-> 0, len |-> 0]

-----------------------------------------------------------------------------
(* The cache. *)

\* The words of a line take in one place the values they have in another.
Copied(to, from, l) == (to \ OnLine(l)) \cup (from \cap OnLine(l))

\* The CPU reads or writes a word, by any code but the call.
CpuRead ==
    /\ \E w \in CcAddresses \ (Source \cup Target) :
         /\ ccLine[LineAt(w)] = "absent"
         /\ ccLine' = [ccLine EXCEPT ![LineAt(w)] = "clean"]
         /\ ccCached' = Copied(ccCached, ccRam, LineAt(w))
    /\ UNCHANGED <<ccRam, ccStage, ccTodo, ccCall, ccBeat, ccMixed>>

\* A line that is written while the call's target is on it is mixed.
CpuWrite ==
    /\ \E w \in CcAddresses \ (Source \cup Target) :
         LET l == LineAt(w)
             held == IF ccLine[l] = "absent" THEN Copied(ccCached, ccRam, l) ELSE ccCached
         IN /\ ccLine' = [ccLine EXCEPT ![l] = "dirty"]
            /\ ccCached' = held \cup {w}
            /\ ccRam' = ccRam \ {w}
            /\ ccMixed' = IF OnLine(l) \cap Target # {} THEN ccMixed \cup OnLine(l)
                          ELSE ccMixed \ {w}
    /\ UNCHANGED <<ccStage, ccTodo, ccCall, ccBeat>>

\* A line makes room for another, at any time.
Evict ==
    /\ \E l \in CcLines :
         /\ ccLine[l] # "absent"
         /\ ccLine' = [ccLine EXCEPT ![l] = "absent"]
         /\ ccRam' = IF ccLine[l] = "dirty" THEN Copied(ccRam, ccCached, l) ELSE ccRam
         /\ ccCached' = ccCached \ OnLine(l)
    /\ UNCHANGED <<ccStage, ccTodo, ccCall, ccBeat, ccMixed>>

-----------------------------------------------------------------------------
(* Cache commands. *)

\* Variant: as many lines as the length alone needs.
maintain_short(command, at, len) ==
    [k \in 1..((len + CACHE_LINE - 1) \div CACHE_LINE) |-> <<command, LineAt(at) + k - 1>>]

\* The range is rounded out to whole lines, and they are maintained one by one.
maintain(command, at, len) ==
    IF len = 0 THEN <<>>
    ELSE LET first == LineAt(at) IN
         [k \in 1..(LineAt(at + len - 1) - first + 1) |-> <<command, first + k - 1>>]

clean_range(at, len) == maintain("clean", at, len)
invalidate_range(at, len) == maintain("invalidate", at, len)
flush_range(at, len) == maintain("flush", at, len)

\* Only a line that the cache has is touched, and only a dirty one written back.
Maintain ==
    /\ ccTodo # <<>>
    /\ LET command == ccTodo[1][1]
           l == ccTodo[1][2]
           cleans == command \in {"clean", "flush"}
           drops == command \in {"invalidate", "flush"}
       IN /\ ccRam' = IF cleans /\ ccLine[l] = "dirty" THEN Copied(ccRam, ccCached, l) ELSE ccRam
          /\ ccLine' = [ccLine EXCEPT ![l] =
               IF drops THEN "absent" ELSE IF cleans /\ @ = "dirty" THEN "clean" ELSE @]
          /\ ccCached' = IF drops THEN ccCached \ OnLine(l) ELSE ccCached
    /\ ccTodo' = Tail(ccTodo)
    /\ UNCHANGED <<ccStage, ccCall, ccBeat, ccMixed>>

FlushRange ==
    /\ ccStage = "idle"
    /\ \E at \in CcAddresses, len \in CcLengths :
         at + len <= CcWords /\ ccTodo' = flush_range(at, len)
    /\ ccStage' = "flush"
    /\ UNCHANGED <<ccMemory, ccCall, ccBeat, ccMixed>>

flush_all ==
    /\ ccStage = "idle"
    /\ ccRam' = UNION {IF ccLine[l] = "dirty" THEN ccCached \cap OnLine(l)
                       ELSE ccRam \cap OnLine(l) : l \in CcLines}
    /\ ccLine' = [l \in CcLines |-> "absent"] /\ ccCached' = {}
    /\ UNCHANGED <<ccStage, ccTodo, ccCall, ccBeat, ccMixed>>

-----------------------------------------------------------------------------
(* The DMA calls. *)

\* The source is cleaned before the channel starts; nothing is done to the target.
BeforeLaunch(c) == IF ReadsMemory(c.kind) THEN clean_range(c.src, c.len) ELSE <<>>

\* A target that the CPU has written of late starts on dirty lines.
Launch ==
    /\ ccStage = "idle"
    /\ \E kind \in CcKinds, src \in CcAddresses, dst \in CcAddresses, len \in CcLengths :
         LET c == [kind |-> kind, src |-> src, dst |-> dst, len |-> len]
         IN /\ IF ReadsMemory(kind) THEN src + len <= CcWords ELSE src = 0
            /\ IF WritesMemory(kind) THEN dst + len <= CcWords ELSE dst = 0
            /\ SourceOf(c) \cap TargetOf(c) = {}
            /\ ccCall' = c
            /\ ccTodo' = BeforeLaunch(c)
            /\ ccMixed' = ccMixed \cup
                 OnLines({l \in CcLines : ccLine[l] = "dirty" /\ OnLine(l) \cap TargetOf(c) # {}})
    /\ ccStage' = "clean" /\ ccBeat' = 0
    /\ UNCHANGED ccMemory

\* The channel is configured and starts.
Configure ==
    /\ ccStage = "clean" /\ ccTodo = <<>>
    /\ ccStage' = "run"
    /\ UNCHANGED <<ccMemory, ccTodo, ccCall, ccBeat, ccMixed>>

\* The controller moves a word between RAM and RAM, or RAM and a peripheral.
Beat ==
    /\ ccStage = "run" /\ ccBeat < ccCall.len
    /\ ccBeat' = ccBeat + 1
    /\ ccRam' = IF WritesMemory(ccCall.kind) THEN ccRam \cup {ccCall.dst + ccBeat} ELSE ccRam
    /\ ccCached' = IF WritesMemory(ccCall.kind) THEN ccCached \ {ccCall.dst + ccBeat} ELSE ccCached
    /\ UNCHANGED <<ccLine, ccStage, ccTodo, ccCall, ccMixed>>

\* Variant: a read gives its buffer back as it is.
AfterWait_kept(c, result) == IF c.kind = "mem" THEN invalidate_range(c.dst, c.len) ELSE <<>>

\* What a call does to its target when its wait is over: the guards invalidate after a
\* timeout too, nobody after a drop.
AfterWait(c, result) ==
    IF WritesMemory(c.kind) /\ (\/ result = "ok"
                                \/ result = "timeout" /\ c.kind \in {"mem", "read"})
    THEN invalidate_range(c.dst, c.len) ELSE <<>>

\* Only guards can be dropped.  Where nothing is invalidated, what has landed is not for
\* the CPU to see.
WaitOver ==
    /\ ccStage = "run"
    /\ \E result \in {"ok", "timeout", "dropped"} :
         /\ result = "ok" => ccBeat = ccCall.len
         /\ result = "dropped" => ccCall.kind \in {"mem", "read", "write"}
         /\ ccTodo' = AfterWait(ccCall, result)
         /\ ccMixed' = IF result = "ok" \/ ccTodo' # <<>> THEN ccMixed ELSE ccMixed \cup Target
    /\ ccStage' = "settle"
    /\ UNCHANGED <<ccMemory, ccCall, ccBeat>>

\* The buffers are given back.
CallOver ==
    /\ ccStage \in {"settle", "flush"} /\ ccTodo = <<>>
    /\ ccStage' = "idle" /\ ccBeat' = 0
    /\ ccCall' = [kind |-> "none", src |-> 0, dst |-> 0, len |-> 0]
    /\ UNCHANGED <<ccMemory, ccTodo, ccMixed>>

CcNext ==
    \/ CpuRead \/ CpuWrite \/ Evict \/ Maintain \/ FlushRange \/ flush_all
    \/ Launch \/ Configure \/ Beat \/ WaitOver \/ CallOver

CcSpec == CcInit /\ [][CcNext]_ccVars

-----------------------------------------------------------------------------
(* Properties. *)

\* While a transfer runs, RAM has the CPU's data in every word of the source that it has
\* still to read: cache.rs:62 "Call **before** a DMA / bus master reads memory the CPU has
\* written, so the master sees the current data rather than stale RAM."  Excepted are the
\* words that a dirty line under a target may have mixed up (ccMixed, see CpuSeesLast).
SourceInRam ==
    ccStage = "run" =>
        \A w \in SourceOf(ccCall) : w < ccCall.src + ccBeat \/ w \in ccRam \/ w \in ccMixed

\* What the CPU reads, outside the target of a call under way, is the last value written:
\* its own, or what a transfer has received: dma.rs:746 "Drop the stale destination cache
\* lines so the CPU re-reads what DMA wrote".  Excepted are the words of a line that was
\* dirty while a target was on it, which maintenance of whole lines cannot keep apart
\* (cache.rs:77, dma.rs:620), and the buffer of a transfer that was given up without
\* invalidation, until they are written anew.
CpuSeesLast ==
    \A w \in CcAddresses \ (Target \cup ccMixed) :
        IF ccLine[LineAt(w)] = "absent" THEN w \in ccRam ELSE w \in ccCached
=============================================================================
