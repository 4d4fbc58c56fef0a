---------------------------- MODULE LatchedCounter ----------------------------
(***************************************************************************)
(* The counters that are read through a latch (tcxo.rs, Instant::now in    *)
(* time.rs, rtc_v150.rs): ask for a snapshot, wait until it is valid, read *)
(* it a part at a time, while the counter goes on.                         *)
(***************************************************************************)
EXTENDS Integers

CONSTANTS LcHalf, \* values of the lower half, stands for 2 ^ 16 or 2 ^ 32
          LcMax   \* how far the counter counts here

ASSUME LcAssumption == LcHalf \in Nat \ {0} /\ LcMax \in Nat

VARIABLES lcReader,            \* which of the three reads
          lcPc, lcResult,      \* where it is, and what it returned
          lcOn, lcCount,       \* the counter
          lcReq, lcValid, lcSnap,
          lcLow,               \* the half read first
          lcFrom               \* the count when the call began

lcVars == <<lcReader, lcPc, lcResult, lcOn, lcCount, lcReq, lcValid, lcSnap, lcLow, lcFrom>>

LcTypeOK ==
    /\ lcReader \in {"tcxo", "tcxo32", "instant", "rtc"}
    /\ lcPc \in {"idle", "refresh", "poll", "low", "high"}
    /\ lcResult \in -2..LcMax
    /\ lcOn \in BOOLEAN /\ lcReq \in BOOLEAN /\ lcValid \in BOOLEAN
    /\ lcCount \in 0..LcMax /\ lcSnap \in 0..LcMax /\ lcFrom \in 0..LcMax
    /\ lcLow \in 0..(LcHalf - 1)

LcPending == -2    \* no result, or None
LcStale == -1      \* whatever the registers held

LcInit ==
    /\ lcReader \in {"tcxo", "tcxo32", "instant", "rtc"}
    /\ lcPc = "idle" /\ lcResult = LcPending
    /\ lcOn = FALSE /\ lcCount = 0 /\ lcReq = FALSE /\ lcValid = FALSE
    /\ lcSnap = 0 /\ lcLow = 0 /\ lcFrom = 0

-----------------------------------------------------------------------------
\* TcxoDriver's enable and disable, the start of the RTC.
LcSwitch ==
    /\ lcPc = "idle"
    /\ lcOn' = ~ lcOn
    /\ lcResult' = LcPending
    /\ UNCHANGED <<lcReader, lcPc, lcCount, lcReq, lcValid, lcSnap, lcLow, lcFrom>>

\* TcxoDriver's clear.
LcClear ==
    /\ lcReader \in {"tcxo", "tcxo32"} /\ lcPc = "idle"
    /\ lcCount' = 0
    /\ lcResult' = LcPending
    /\ UNCHANGED <<lcReader, lcPc, lcOn, lcReq, lcValid, lcSnap, lcLow, lcFrom>>

\* An RTC that is off is read as zero; Instant::now has no way to fail, and is
\* called with the counter on.
LcRead ==
    /\ lcPc = "idle"
    /\ lcReader = "instant" => lcOn
    /\ IF lcReader = "rtc" /\ ~ lcOn THEN lcResult' = LcStale /\ lcPc' = "idle"
       ELSE lcResult' = LcPending /\ lcPc' = "refresh"
    /\ lcFrom' = lcCount
    /\ UNCHANGED <<lcReader, lcOn, lcCount, lcReq, lcValid, lcSnap, lcLow>>

\* Variant: the flag of the last reading is still there.
LcRefreshKept ==
    /\ lcPc = "refresh"
    /\ lcReq' = TRUE
    /\ lcPc' = "poll"
    /\ UNCHANGED <<lcReader, lcResult, lcOn, lcCount, lcValid, lcSnap, lcLow, lcFrom>>

\* The request takes the valid flag away.
LcRefresh ==
    /\ lcPc = "refresh"
    /\ lcReq' = TRUE /\ lcValid' = FALSE
    /\ lcPc' = "poll"
    /\ UNCHANGED <<lcReader, lcResult, lcOn, lcCount, lcSnap, lcLow, lcFrom>>

\* Variant: the poll has no bound.
LcPollForever ==
    /\ lcPc = "poll"
    /\ lcValid
    /\ lcPc' = "low"
    /\ UNCHANGED <<lcReader, lcResult, lcOn, lcCount, lcReq, lcValid, lcSnap, lcLow, lcFrom>>

\* The poll runs out only where no answer can come; then the TCXO's gives None
\* and the RTC's goes on to read.
LcPoll ==
    /\ lcPc = "poll"
    /\ IF lcValid \/ (lcReader = "rtc" /\ ~ lcOn)
       THEN lcPc' = "low" /\ UNCHANGED lcResult
       ELSE /\ ~ lcOn /\ lcReader \in {"tcxo", "tcxo32"}
            /\ lcPc' = "idle" /\ lcResult' = LcPending
    /\ UNCHANGED <<lcReader, lcOn, lcCount, lcReq, lcValid, lcSnap, lcLow, lcFrom>>

LcReadLow ==
    /\ lcPc = "low"
    /\ lcLow' = lcSnap % LcHalf
    /\ lcPc' = "high"
    /\ UNCHANGED <<lcReader, lcResult, lcOn, lcCount, lcReq, lcValid, lcSnap, lcFrom>>

\* read_counter32 leaves the rest out.
LcReadHigh ==
    /\ lcPc = "high"
    /\ lcResult' = lcLow + (IF lcReader = "tcxo32" THEN 0
                            ELSE (lcSnap \div LcHalf) * LcHalf)
    /\ lcPc' = "idle"
    /\ UNCHANGED <<lcReader, lcOn, lcCount, lcReq, lcValid, lcSnap, lcLow, lcFrom>>

\* The counter (outside the code).
LcTick ==
    /\ lcOn /\ lcCount < LcMax
    /\ lcCount' = lcCount + 1
    /\ UNCHANGED <<lcReader, lcPc, lcResult, lcOn, lcReq, lcValid, lcSnap, lcLow, lcFrom>>

LcLatch ==
    /\ lcOn /\ lcReq
    /\ lcReq' = FALSE /\ lcValid' = TRUE /\ lcSnap' = lcCount
    /\ UNCHANGED <<lcReader, lcPc, lcResult, lcOn, lcCount, lcLow, lcFrom>>

LcCode == LcRefresh \/ LcPoll \/ LcReadLow \/ LcReadHigh

LcNext == LcSwitch \/ LcClear \/ LcRead \/ LcCode \/ LcTick \/ LcLatch

LcSpec == LcInit /\ [][LcNext]_lcVars

LcFairness == WF_lcVars(LcCode \/ LcLatch)

-----------------------------------------------------------------------------
\* A value that is returned is one that the whole counter, or its lower half, has
\* had since the call: both halves of one moment, and none from an earlier call.
\* tcxo.rs:93-94 "Triggers a refresh to latch the current value, then reads all
\* four 16-bit count registers".
CountCoherent ==
    lcPc = "idle" /\ lcResult >= 0 =>
        \E c \in lcFrom..lcCount :
            lcResult = IF lcReader = "tcxo32" THEN c % LcHalf ELSE c

\* Every reading returns, also of a counter that is off, where it can say so.
\* tcxo.rs:69 "or Err(()) on timeout".
CountReturns == lcPc # "idle" ~> lcPc = "idle"
=============================================================================
