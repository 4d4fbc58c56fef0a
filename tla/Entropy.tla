-------------------------------- MODULE Entropy --------------------------------
(***************************************************************************)
(* The random-number drivers: trng.rs (WS63) and trng_v1.rs (BS2X), whose  *)
(* methods take &self, over a FIFO whose words are numbered in the order   *)
(* they are made.  A call that times out may be made again.                *)
(***************************************************************************)
EXTENDS Integers, SequencesExt

CONSTANTS
    TrngWords,  \* words the source makes
    TrngDepth,  \* words the FIFO holds
    TrngBytes,  \* bytes in a word
    TrngAsked,  \* buffer lengths callers ask for
    TrngShared  \* TRUE: a handler may call through the shared reference at any point

ASSUME TrngAssumption ==
    /\ TrngWords \in Nat /\ TrngDepth \in Nat /\ TrngBytes \in Nat /\ TrngAsked \subseteq Nat
    /\ TrngShared \in BOOLEAN

VARIABLES
    trKind,     \* "ws63" or "bs2x"
    trRings,    \* the ring oscillators are on
    trFifo,     \* words ready
    trDone,     \* the generation of the last of them is complete
    trMade,     \* words made so far
    trCall,     \* each context's call: [op, want], op "none" outside one
    trStep,     \* each context's step: "poll" or "pop"
    trBuffer,   \* what each call has filled so far: <<word, byte>> pairs
    trResult    \* what each call returned

trVars == <<trKind, trRings, trFifo, trDone, trMade, trCall, trStep, trBuffer, trResult>>

TrContexts == {"main", "handler"}
TrIdle == [op |-> "none", want |-> 0]
TrOps == {"read", "read_blocking", "fill_bytes", "fill_words"}

TrTypeOK ==
    /\ trKind \in {"ws63", "bs2x"} /\ trRings \in BOOLEAN /\ trDone \in BOOLEAN
    /\ trFifo \in BoundedSeq(1..TrngWords, TrngDepth) /\ trMade \in 0..TrngWords
    /\ \A c \in TrContexts :
         /\ trCall[c].op \in TrOps \cup {"none"} /\ trStep[c] \in {"poll", "pop"}
         /\ trResult[c] \in {"none", "ok", "no data", "timeout"}

\* The BS2X driver turns the oscillators on, the WS63 one finds them on.
TrInit ==
    /\ trKind \in {"ws63", "bs2x"} /\ trRings = (trKind = "ws63")
    /\ trFifo = <<>> /\ trDone = TRUE /\ trMade = 0
    /\ trCall = [c \in TrContexts |-> TrIdle] /\ trStep = [c \in TrContexts |-> "poll"]
    /\ trBuffer = [c \in TrContexts |-> <<>>] /\ trResult = [c \in TrContexts |-> "none"]

-----------------------------------------------------------------------------
NewTrng ==
    /\ ~ trRings /\ trRings' = TRUE
    /\ UNCHANGED <<trKind, trFifo, trDone, trMade, trCall, trStep, trBuffer, trResult>>

\* The source: a word appears, and on the BS2X its generation completes after that.
MakeWord ==
    /\ trRings /\ trDone /\ trMade < TrngWords /\ Len(trFifo) < TrngDepth
    /\ trMade' = trMade + 1 /\ trFifo' = Append(trFifo, trMade')
    /\ trDone' = (trKind = "ws63")
    /\ UNCHANGED <<trKind, trRings, trCall, trStep, trBuffer, trResult>>

CompleteWord ==
    /\ ~ trDone /\ trDone' = TRUE
    /\ UNCHANGED <<trKind, trRings, trFifo, trMade, trCall, trStep, trBuffer, trResult>>

\* Main's calls wait for a handler that runs; unshared, one context has the driver.
TrngRuns(c) ==
    /\ trRings
    /\ c = "main" => trCall["handler"].op = "none"
    /\ c = "handler" => TrngShared \/ trCall["main"].op = "none"

TrCall(c) ==
    /\ TrngRuns(c) /\ trCall[c].op = "none"
    /\ \/ trKind = "ws63" /\ \E op \in {"read", "read_blocking"} :
            trCall' = [trCall EXCEPT ![c] = [op |-> op, want |-> TrngBytes]]
       \/ trKind = "ws63" /\ \E want \in TrngAsked :
            trCall' = [trCall EXCEPT ![c] = [op |-> "fill_bytes", want |-> want]]
       \/ trKind = "ws63" /\ \E want \in TrngAsked :
            trCall' = [trCall EXCEPT ![c] = [op |-> "fill_words", want |-> want * TrngBytes]]
       \/ trKind = "bs2x"  \* next_u32
            /\ trCall' = [trCall EXCEPT ![c] = [op |-> "read_blocking", want |-> TrngBytes]]
    /\ trBuffer' = [trBuffer EXCEPT ![c] = <<>>]
    /\ trResult' = [trResult EXCEPT ![c] = "none"]
    /\ UNCHANGED <<trKind, trRings, trFifo, trDone, trMade, trStep>>

Return(c, result) ==
    /\ trCall' = [trCall EXCEPT ![c] = TrIdle]
    /\ trResult' = [trResult EXCEPT ![c] = result]
    /\ UNCHANGED <<trKind, trRings, trFifo, trDone, trMade, trStep, trBuffer>>

Filled(c) == Len(trBuffer[c]) >= trCall[c].want

\* Variant: the BS2X driver looks at the ready bit alone.
trng_data_ready_only == trFifo # <<>>

\* The WS63 driver reads the ready bit, the BS2X driver ready and done.
trng_data_ready == trFifo # <<>> /\ (trKind = "bs2x" => trDone)

\* Variant: the bound of the polling loop is left out.
TrPollForever(c) ==
    /\ TrngRuns(c) /\ trCall[c].op # "none" /\ trStep[c] = "poll"
    /\ \/ Filled(c) /\ Return(c, "ok")
       \/ /\ ~ Filled(c) /\ trng_data_ready
          /\ trStep' = [trStep EXCEPT ![c] = "pop"]
          /\ UNCHANGED <<trKind, trRings, trFifo, trDone, trMade, trCall, trBuffer, trResult>>

\* A look at the FIFO: go on to pop, or give up (at once, or after the bound).
TrPoll(c) ==
    /\ TrngRuns(c) /\ trCall[c].op # "none" /\ trStep[c] = "poll"
    /\ \/ Filled(c) /\ Return(c, "ok")
       \/ /\ ~ Filled(c) /\ trng_data_ready
          /\ trStep' = [trStep EXCEPT ![c] = "pop"]
          /\ UNCHANGED <<trKind, trRings, trFifo, trDone, trMade, trCall, trBuffer, trResult>>
       \/ ~ Filled(c) /\ ~ trng_data_ready
          /\ Return(c, IF trCall[c].op = "read" THEN "no data" ELSE "timeout")

\* Variant: the loop over a word's bytes goes on past the end of the buffer.
KeptWhole(c) == TrngBytes

\* The bytes of the next word that fit; the rest of the word is thrown away.
Kept(c) ==
    LET room == trCall[c].want - Len(trBuffer[c])
    IN IF room < TrngBytes THEN room ELSE TrngBytes

\* Reading the data register takes the oldest word.  An empty FIFO gives the last word
\* again, an unfinished generation no word at all (0).
TrPop(c) ==
    /\ TrngRuns(c) /\ trStep[c] = "pop"
    /\ LET word == IF trFifo = <<>> THEN trMade
                   ELSE IF Len(trFifo) = 1 /\ ~ trDone THEN 0 ELSE Head(trFifo)
       IN trBuffer' = [trBuffer EXCEPT ![c] = @ \o [k \in 1..Kept(c) |-> <<word, k>>]]
    /\ trFifo' = IF trFifo = <<>> THEN <<>> ELSE Tail(trFifo)
    /\ trStep' = [trStep EXCEPT ![c] = "poll"]
    /\ UNCHANGED <<trKind, trRings, trDone, trMade, trCall, trResult>>

TrNext ==
    \/ NewTrng \/ MakeWord \/ CompleteWord
    \/ \E c \in TrContexts : TrCall(c) \/ TrPoll(c) \/ TrPop(c)

TrSpec == TrInit /\ [][TrNext]_trVars

TrFairness ==
    /\ WF_trVars(CompleteWord)
    /\ \A c \in TrContexts : WF_trVars(TrPoll(c) \/ TrPop(c))

-----------------------------------------------------------------------------
(* Properties. *)

\* No byte of randomness is given out twice, in one buffer or in two, and none is of an
\* unfinished word.  trng.rs:54 "Read a 32-bit random word from the TRNG FIFO",
\* trng_v1.rs:50-51 "wait for the FIFO to be ready AND done, then pop".
RandomOnce ==
    /\ \A c \in TrContexts : IsInjective(trBuffer[c])
                             /\ \A k \in DOMAIN trBuffer[c] : trBuffer[c][k][1] # 0
    /\ Range(trBuffer["main"]) \cap Range(trBuffer["handler"]) = {}

\* Ok means the buffer is full to the byte, whatever its length.  trng.rs:83-84 "Each
\* 32-bit word produces 4 bytes. Returns `Err(Timeout)` if".
FillsExactly ==
    [][\A c \in TrContexts :
         trCall[c].op # "none" /\ trCall'[c].op = "none" /\ trResult'[c] = "ok"
            => Len(trBuffer[c]) = trCall[c].want]_trVars

\* Every call returns, also when the source makes nothing more.  trng.rs:67 "Returns
\* `Err(Timeout)` if the TRNG fails to produce entropy after".
RandomReturns == \A c \in TrContexts : trCall[c].op # "none" ~> trCall[c].op = "none"

\* Randomness is fresh, and as much as was asked for (trng.rs:54-110).
RandomSafe == []RandomOnce /\ FillsExactly
=============================================================================
