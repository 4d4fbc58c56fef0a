----------------------------- MODULE DmaTransfer -----------------------------
(***************************************************************************)
(* Every way the HAL lends a memory buffer to the DMA controller and takes *)
(* it back, over the channels of DmaEngine:                                *)
(*                                                                         *)
(*   mem        start_mem_to_mem and its guard Transfer                    *)
(*   periSpi    start_mem_to_peripheral / start_peripheral_to_mem and the  *)
(*   periUart   guard PeripheralTransfer, for the two kinds of PeriDmaCtl  *)
(*   spiWrite   SpiDma::write_dma                                          *)
(*   spiDuplex  SpiDma::transfer_dma                                       *)
(*   uart       UartDma::write_dma and UartDma::read_dma                   *)
(*                                                                         *)
(* An owner is an execution context with a DmaDriver handle of its own and *)
(* the buffers of one transfer at a time.  It holds DmaChannel tokens,     *)
(* claimed all at once by split_channels.  A buffer is lent from the       *)
(* launch until the call, or the guard's drop glue, gives it back; `chans` *)
(* is the set of channels it is lent to.  Each register access of a wait   *)
(* or a teardown is a step of its own, so the controller moves between any *)
(* two of them.                                                            *)
(***************************************************************************)
EXTENDS DmaEngine, FiniteSets

CONSTANTS MaxBeats,     \* longest transfer tried; stands for 4095
          WaitLoops,    \* DMA_WAIT_LOOPS and its siblings
          Kinds,        \* the paths the application uses
          RawControls,  \* whether it also uses the channel controls directly
          BusMayStall,  \* whether a beat may outlast a whole drain loop
          RxHeld,       \* answers an SSI may hold when a write starts
          RxSticks      \* whether it may report answers to frames never sent

AllKinds == {"mem", "periSpi", "periUart", "spiWrite", "spiDuplex", "uart"}

ASSUME DmaTransferAssumption ==
    /\ IsFiniteSet(Channels)
    /\ MaxBeats \in Nat \ {0}
    /\ WaitLoops \in Nat \ {0}
    /\ Kinds \subseteq AllKinds
    /\ RawControls \in BOOLEAN
    /\ BusMayStall \in BOOLEAN
    /\ RxHeld \in Nat
    /\ RxSticks \in BOOLEAN

Owners == Jobs

VARIABLES claimed,  \* DMA0_CHANNELS_CLAIMED
          tok,      \* tokens an owner holds outside any transfer
          pc,       \* where an owner is in a transfer
          kind,     \* the path its transfer took
          chans,    \* channels its buffers are lent to
          dmaReq,   \* DMA-enable of its peripheral (tden/rden in spi_dcr)
          tries,    \* passes left in the loop it is in
          outcome,  \* how its transfer ended
          again,    \* the guard's Drop still runs after this teardown
          want,     \* beats its transfer asked for
          landed    \* beats that reached its buffers since it last got them back

ownerVars == <<claimed, tok, pc, kind, chans, dmaReq, tries, outcome, again,
               want, landed>>
vars == <<engineVars, ownerVars>>

Guards   == {"mem", "periSpi", "periUart"}       \* paths that return a guard
SpiPaths == {"periSpi", "spiWrite", "spiDuplex"}

FlowOf(kd) == CASE kd = "mem" -> "mem"
                [] kd \in SpiPaths -> "spi"
                [] OTHER -> "uart"

(* What tells the paths apart. *)

ChannelsOf(kd) == IF kd = "spiDuplex" THEN 2 ELSE 1

\* Only start_mem_to_mem switches the controller on.
EnablesController(kd) == kd = "mem"

\* The SpiDma calls set tden/rden themselves, once the channels are started.
SetsDmaEnable(kd) == kd \in {"spiWrite", "spiDuplex"}

\* transfer_dma leaves its channels alone when it times out.
StopsChannels(kd) == kd # "spiDuplex"

\* UartDma disables its channel without draining it.
DrainsChannel(kd) == kd # "uart"

Locations == {"idle", "guard", "wait", "recheck", "perioff", "halt", "drain",
              "disable", "rxdrain", "finish"}

TypeOK ==
    /\ EngineTypeOK
    /\ claimed \in SUBSET Channels
    /\ tok \in [Owners -> SUBSET Channels]
    /\ pc \in [Owners -> Locations]
    /\ kind \in [Owners -> AllKinds]
    /\ chans \in [Owners -> SUBSET Channels]
    /\ dmaReq \in [Owners -> BOOLEAN]
    /\ tries \in [Owners -> Nat]
    /\ outcome \in [Owners -> {"none", "ok", "timeout", "dropped"}]
    /\ again \in [Owners -> BOOLEAN]
    /\ want \in [Owners -> Nat]
    /\ landed \in [Owners -> Nat]

Init ==
    /\ EngineInit
    /\ claimed = {}
    /\ tok = [k \in Owners |-> {}]
    /\ pc = [k \in Owners |-> "idle"]
    /\ kind = [k \in Owners |-> "mem"]
    /\ chans = [k \in Owners |-> {}]
    /\ dmaReq = [k \in Owners |-> FALSE]
    /\ tries = [k \in Owners |-> 0]
    /\ outcome = [k \in Owners |-> "none"]
    /\ again = [k \in Owners |-> FALSE]
    /\ want = [k \in Owners |-> 0]
    /\ landed = [k \in Owners |-> 0]

Goto(k, from, to) == pc[k] = from /\ pc' = [pc EXCEPT ![k] = to]

-----------------------------------------------------------------------------
(* Channel tokens. *)

\* Variant: take the tokens without looking at the bitmask.
split_channels_unchecked(k) ==
    /\ pc[k] = "idle"
    /\ claimed' = Channels
    /\ tok' = [tok EXCEPT ![k] = Channels]
    /\ UNCHANGED <<engineVars, pc, kind, chans, dmaReq, tries, outcome, again,
                   want, landed>>

\* The compare-exchange from 0 to 0b1111; when it fails nothing changes.
split_channels(k) ==
    /\ pc[k] = "idle"
    /\ claimed = {}
    /\ claimed' = Channels
    /\ tok' = [tok EXCEPT ![k] = Channels]
    /\ UNCHANGED <<engineVars, pc, kind, chans, dmaReq, tries, outcome, again,
                   want, landed>>

\* DmaChannel::drop, for any tokens an idle owner lets go of.  Launching with
\* a buffer of more than 4095 beats is the same step on every path but `mem`:
\* the call fails and the tokens moved into it are dropped.
DropTokens(k, C) ==
    /\ pc[k] = "idle"
    /\ C # {}
    /\ C \subseteq tok[k]
    /\ claimed' = claimed \ C
    /\ tok' = [tok EXCEPT ![k] = @ \ C]
    /\ UNCHANGED <<engineVars, pc, kind, chans, dmaReq, tries, outcome, again,
                   want, landed>>

\* A token is moved to another context.
GiveToken(k, r, c) ==
    /\ pc[k] = "idle"
    /\ r # k
    /\ c \in tok[k]
    /\ tok' = [tok EXCEPT ![k] = @ \ {c}, ![r] = @ \cup {c}]
    /\ UNCHANGED <<engineVars, claimed, pc, kind, chans, dmaReq, tries,
                   outcome, again, want, landed>>

-----------------------------------------------------------------------------
(* Launching a transfer. *)

\* The three paths that return no guard go straight into their wait loop.
Start(k, C, kd, beats) ==
    /\ Goto(k, "idle", IF kd \in Guards THEN "guard" ELSE "wait")
    /\ C \subseteq tok[k]
    /\ Cardinality(C) = ChannelsOf(kd)
    /\ IF EnablesController(kd) THEN enable_controller ELSE UNCHANGED clk
    /\ configure_channel_raw(C, k, FlowOf(kd), beats)
    /\ dmaReq' = [dmaReq EXCEPT ![k] = @ \/ SetsDmaEnable(kd)]
    /\ kind' = [kind EXCEPT ![k] = kd]
    /\ tok' = [tok EXCEPT ![k] = @ \ C]
    /\ chans' = [chans EXCEPT ![k] = C]
    /\ tries' = [tries EXCEPT ![k] = IF kd \in Guards THEN 0 ELSE WaitLoops]
    /\ want' = [want EXCEPT ![k] = beats * ChannelsOf(kd)]
    /\ UNCHANGED <<claimed, outcome, again, landed>>

\* "The peripheral-side DMA-enable is the caller's responsibility."
CallerSetsDmaEnable(k) ==
    /\ pc[k] = "guard"
    /\ kind[k] = "periSpi"
    /\ dmaReq' = [dmaReq EXCEPT ![k] = TRUE]
    /\ UNCHANGED <<engineVars, claimed, tok, pc, kind, chans, tries, outcome,
                   again, want, landed>>

-----------------------------------------------------------------------------
(* Waiting for completion. *)

\* Transfer::wait and PeripheralTransfer::wait take the guard.
wait(k) ==
    /\ Goto(k, "guard", "wait")
    /\ tries' = [tries EXCEPT ![k] = WaitLoops]
    /\ UNCHANGED <<engineVars, claimed, tok, kind, chans, dmaReq, outcome,
                   again, want, landed>>

\* Variant: watch the countdown instead of the enable bit.
RunningByCount(k) == \E c \in chans[k] : left[c] > 0

Running(k) == \E c \in chans[k] : channel_enabled_raw(c)

\* Where a wait goes on once the channels have stopped: the guards look once
\* more, and write_dma reads away the answers to what it has sent.
AfterWait(k) == CASE kind[k] \in Guards -> "recheck"
                  [] kind[k] = "spiWrite" -> "rxdrain"
                  [] OTHER -> "finish"

\* The most answers an SSI can come up with: one to each frame it was handed,
\* and what it held before.
AnswersOwed(k) == want[k] + RxHeld

\* One evaluation of the loop condition finds every channel's bit cleared.
PollDone(k) ==
    /\ Goto(k, "wait", AfterWait(k))
    /\ ~ Running(k)
    /\ outcome' = [outcome EXCEPT ![k] =
                     IF kind[k] \in Guards THEN @ ELSE "ok"]
    /\ tries' = [tries EXCEPT ![k] =
                   IF kind[k] = "spiWrite" THEN AnswersOwed(k) ELSE @]
    /\ UNCHANGED <<engineVars, claimed, tok, kind, chans, dmaReq, again, want,
                   landed>>

\* write_dma's receive drain, which counts nothing: another answer is there
\* and is read.  With RxSticks the status bit may claim one more, for ever.
RxRead(k) ==
    /\ pc[k] = "rxdrain"
    /\ tries[k] > 0 \/ RxSticks
    /\ tries' = [tries EXCEPT ![k] = IF @ > 0 THEN @ - 1 ELSE 1]
    /\ UNCHANGED <<engineVars, claimed, tok, pc, kind, chans, dmaReq, outcome,
                   again, want, landed>>

\* ... or none is: those still to come are left to whoever reads next.
RxEmpty(k) ==
    /\ Goto(k, "rxdrain", "finish")
    /\ UNCHANGED <<engineVars, claimed, tok, kind, chans, dmaReq, tries,
                   outcome, again, want, landed>>

\* Variant: the poll counter is never tested.
PollForever(k) ==
    /\ pc[k] = "wait"
    /\ Running(k)
    /\ tries' = [tries EXCEPT ![k] = @ - 1]
    /\ UNCHANGED <<engineVars, claimed, tok, pc, kind, chans, dmaReq, outcome,
                   again, want, landed>>

\* ... or some bit still set, with polls to go.
PollAgain(k) ==
    /\ pc[k] = "wait"
    /\ Running(k)
    /\ tries[k] > 1
    /\ tries' = [tries EXCEPT ![k] = @ - 1]
    /\ UNCHANGED <<engineVars, claimed, tok, pc, kind, chans, dmaReq, outcome,
                   again, want, landed>>

\* ... or set on the last poll: the guards leave the loop to look once more,
\* the SPI and UART paths give up at once.
PollExhausted(k) ==
    /\ Goto(k, "wait", IF kind[k] \in Guards THEN "recheck" ELSE "perioff")
    /\ Running(k)
    /\ tries[k] = 1
    /\ outcome' = [outcome EXCEPT ![k] =
                     IF kind[k] \in Guards THEN @ ELSE "timeout"]
    /\ UNCHANGED <<engineVars, claimed, tok, kind, chans, dmaReq, tries, again,
                   want, landed>>

\* Where a teardown starts: there is no peripheral behind a memory transfer.
Teardown(k) == IF kind[k] = "mem" THEN "halt" ELSE "perioff"

\* Variant: give the buffers back on a timeout without a teardown.
RecheckNoTeardown(k) ==
    /\ Goto(k, "recheck", "finish")
    /\ outcome' = [outcome EXCEPT ![k] = IF Running(k) THEN "timeout" ELSE "ok"]
    /\ UNCHANGED <<engineVars, claimed, tok, kind, chans, dmaReq, tries, again,
                   want, landed>>

\* The guards read the enable bit once more after the loop; a transfer that
\* completed in between counts as a success.  A PeripheralTransfer that timed
\* out is torn down by hand here and once more by its Drop.
Recheck(k) ==
    /\ Goto(k, "recheck", IF Running(k) THEN Teardown(k) ELSE "finish")
    /\ outcome' = [outcome EXCEPT ![k] = IF Running(k) THEN "timeout" ELSE "ok"]
    /\ again' = [again EXCEPT ![k] = Running(k) /\ kind[k] # "mem"]
    /\ UNCHANGED <<engineVars, claimed, tok, kind, chans, dmaReq, tries, want,
                   landed>>

-----------------------------------------------------------------------------
(* Teardown. *)

\* Transfer::drop and PeripheralTransfer::drop: the guard is let go unwaited.
drop(k) ==
    /\ Goto(k, "guard", Teardown(k))
    /\ outcome' = [outcome EXCEPT ![k] = "dropped"]
    /\ UNCHANGED <<engineVars, claimed, tok, kind, chans, dmaReq, tries, again,
                   want, landed>>

\* PeriDmaCtl::disable and its counterparts on the other paths.  A UART has no
\* DMA-enable to clear.
PeripheralOff(k) ==
    /\ Goto(k, "perioff", IF StopsChannels(kind[k]) THEN "halt" ELSE "finish")
    /\ dmaReq' = [dmaReq EXCEPT ![k] = @ /\ kind[k] \notin SpiPaths]
    /\ UNCHANGED <<engineVars, claimed, tok, kind, chans, tries, outcome,
                   again, want, landed>>

\* Variant: every path disables at once.
HaltThenDisable(k) ==
    /\ Goto(k, "halt", "disable")
    /\ halt_channel_raw(chans[k])
    /\ tries' = [tries EXCEPT ![k] = WaitLoops]
    /\ UNCHANGED <<clk, claimed, tok, kind, chans, dmaReq, outcome, again,
                   want, landed>>

Halt(k) ==
    /\ Goto(k, "halt", IF DrainsChannel(kind[k]) THEN "drain" ELSE "disable")
    /\ halt_channel_raw(chans[k])
    /\ tries' = [tries EXCEPT ![k] = WaitLoops]
    /\ UNCHANGED <<clk, claimed, tok, kind, chans, dmaReq, outcome, again,
                   want, landed>>

Active(k) == \E c \in chans[k] : channel_active_raw(c)

\* quiesce_channel tests its counter before it decrements, write_dma after.
LastTry(k) == IF kind[k] \in Guards THEN 0 ELSE 1

\* Variant: one look at the active bit, whatever it says.
DrainedUnchecked(k) ==
    /\ Goto(k, "drain", "disable")
    /\ UNCHANGED <<engineVars, claimed, tok, kind, chans, dmaReq, tries,
                   outcome, again, want, landed>>

Drained(k) ==
    /\ Goto(k, "drain", "disable")
    /\ ~ Active(k)
    /\ UNCHANGED <<engineVars, claimed, tok, kind, chans, dmaReq, tries,
                   outcome, again, want, landed>>

\* Variant: wait for the beat as long as it takes.
DrainForever(k) ==
    /\ pc[k] = "drain"
    /\ Active(k)
    /\ UNCHANGED vars

DrainAgain(k) ==
    /\ pc[k] = "drain"
    /\ Active(k)
    /\ tries[k] > LastTry(k)
    /\ tries' = [tries EXCEPT ![k] = @ - 1]
    /\ UNCHANGED <<engineVars, claimed, tok, pc, kind, chans, dmaReq, outcome,
                   again, want, landed>>

\* The loop is bounded: it gives up on a beat that is still outstanding.
\* Without BusMayStall a beat lands before the 5,000,000 polls are used up.
DrainGivesUp(k) ==
    /\ BusMayStall
    /\ Goto(k, "drain", "disable")
    /\ Active(k)
    /\ tries[k] = LastTry(k)
    /\ UNCHANGED <<engineVars, claimed, tok, kind, chans, dmaReq, tries,
                   outcome, again, want, landed>>

Disable(k) ==
    /\ Goto(k, "disable", IF again[k] THEN "perioff" ELSE "finish")
    /\ disable_channel_raw(chans[k])
    /\ again' = [again EXCEPT ![k] = FALSE]
    /\ UNCHANGED <<clk, claimed, tok, kind, chans, dmaReq, tries, outcome,
                   want, landed>>

-----------------------------------------------------------------------------
(* Giving the buffers back. *)

\* Transfer::wait returns the token with the buffers whatever happened,
\* PeripheralTransfer::wait only on success; everywhere else the token is
\* dropped and its claim released.
KeepsToken(k) == \/ kind[k] = "mem" /\ outcome[k] # "dropped"
                 \/ kind[k] \in Guards /\ outcome[k] = "ok"

\* Variant: the returned token is dropped as well.
FinishForgetsClaim(k) ==
    /\ Goto(k, "finish", "idle")
    /\ tok' = [tok EXCEPT ![k] = IF KeepsToken(k) THEN @ \cup chans[k] ELSE @]
    /\ claimed' = claimed \ chans[k]
    /\ chans' = [chans EXCEPT ![k] = {}]
    /\ kind' = [kind EXCEPT ![k] = "mem"]
    /\ tries' = [tries EXCEPT ![k] = 0]
    /\ outcome' = [outcome EXCEPT ![k] = "none"]
    /\ want' = [want EXCEPT ![k] = 0]
    /\ landed' = [landed EXCEPT ![k] = 0]
    /\ UNCHANGED <<engineVars, dmaReq, again>>

\* The SPI calls clear tden/rden on their way out; wait leaves them set.  The
\* locals of the call go out of scope.
Finish(k) ==
    /\ Goto(k, "finish", "idle")
    /\ tok' = [tok EXCEPT ![k] = IF KeepsToken(k) THEN @ \cup chans[k] ELSE @]
    /\ claimed' = IF KeepsToken(k) THEN claimed ELSE claimed \ chans[k]
    /\ chans' = [chans EXCEPT ![k] = {}]
    /\ dmaReq' = [dmaReq EXCEPT ![k] = @ /\ ~ SetsDmaEnable(kind[k])]
    /\ kind' = [kind EXCEPT ![k] = "mem"]
    /\ tries' = [tries EXCEPT ![k] = 0]
    /\ outcome' = [outcome EXCEPT ![k] = "none"]
    /\ want' = [want EXCEPT ![k] = 0]
    /\ landed' = [landed EXCEPT ![k] = 0]
    /\ UNCHANGED <<engineVars, again>>

-----------------------------------------------------------------------------
(* The public controls that take a driver and a token. *)

ControllerOn(k) ==
    /\ pc[k] = "idle"
    /\ enable_controller
    /\ UNCHANGED <<enabled, halted, left, flow, job, flight, ownerVars>>

ControllerOff(k) ==
    /\ pc[k] = "idle"
    /\ disable_controller
    /\ UNCHANGED <<enabled, halted, left, flow, job, flight, ownerVars>>

\* enable_channel, disable_channel, halt_channel, resume_channel.
ChannelControl(k, c) ==
    /\ RawControls
    /\ pc[k] = "idle"
    /\ c \in tok[k]
    /\ \/ enable_channel_raw({c})
       \/ disable_channel_raw({c})
       \/ halt_channel_raw({c})
       \/ resume_channel_raw({c})
    /\ UNCHANGED <<clk, ownerVars>>

-----------------------------------------------------------------------------
(* The controller. *)

\* A memory transfer and a UART FIFO are always ready to move a beat (how
\* soon is up to the scheduler); the SSI requests only while tden/rden is set.
Requested(c) == flow[c] # "spi" \/ (job[c] \in Owners /\ dmaReq[job[c]])

FetchBeat(c) == Fetch(c, Requested(c)) /\ UNCHANGED ownerVars

LandBeat(c) ==
    /\ Land(c)
    /\ landed' = [landed EXCEPT ![flight[c]] = @ + 1]
    /\ UNCHANGED <<claimed, tok, pc, kind, chans, dmaReq, tries, outcome,
                   again, want>>

-----------------------------------------------------------------------------
\* What an owner does once it has called into the HAL.
Working(k) ==
    \/ PollDone(k) \/ PollAgain(k) \/ PollExhausted(k) \/ Recheck(k)
    \/ RxRead(k) \/ RxEmpty(k)
    \/ PeripheralOff(k) \/ Halt(k)
    \/ Drained(k) \/ DrainAgain(k) \/ DrainGivesUp(k)
    \/ Disable(k) \/ Finish(k)

\* What it may call.
Calling(k) ==
    \/ split_channels(k)
    \/ \E C \in SUBSET Channels : DropTokens(k, C)
    \/ \E r \in Owners, c \in Channels : GiveToken(k, r, c)
    \/ \E C \in SUBSET Channels, kd \in Kinds, beats \in 1..MaxBeats :
          Start(k, C, kd, beats)
    \/ CallerSetsDmaEnable(k) \/ wait(k) \/ drop(k)
    \/ ControllerOn(k) \/ ControllerOff(k)
    \/ \E c \in Channels : ChannelControl(k, c)

Next ==
    \/ \E k \in Owners : Working(k) \/ Calling(k)
    \/ \E c \in Channels : FetchBeat(c) \/ LandBeat(c)

Spec == Init /\ [][Next]_vars

\* The hart keeps running the call it is in, and, where the bus is assumed
\* never to stall, a beat on the bus lands.  Nothing is assumed of the
\* application, of a stalling bus, or of a peripheral's requests.
FairSpec == /\ Spec
            /\ \A k \in Owners : WF_vars(Working(k))
            /\ \A c \in Channels : WF_vars(~ BusMayStall /\ LandBeat(c))
-----------------------------------------------------------------------------
(* Safety. *)

\* The buffers of owner k can still be read or written through channel c.
Touches(c, k) == \/ flight[c] = k
                 \/ enabled[c] /\ job[c] = k /\ left[c] > 0

\* While the controller can touch a buffer, the buffer is lent to it: no
\* call returns, and no guard finishes dropping, with the engine still on
\* the memory it hands back.  This is what the buffer-owning guards and
\* calls of dma.rs, spi.rs and uart.rs promise.
BufferGuarded ==
    \A c \in Channels, k \in Owners : Touches(c, k) => c \in chans[k]

\* No beat reaches a buffer its owner has back.  dma.rs:636 "a use-after-free
\* of an in-flight DMA region is unrepresentable in safe code", dma.rs:724 "the
\* DMA engine is provably stopped before the buffers can be freed".
NoStrayBeat == \A k \in Owners : chans[k] = {} => landed[k] = 0

\* A claimed channel has one live token, in a hand or in a transfer, and an
\* unclaimed one has none: the claim bitmask, the moves and the drops of
\* DmaChannel agree on every path, the double teardown of a timed-out
\* PeripheralTransfer included.
TokensMatchClaims ==
    /\ claimed = UNION {tok[k] \cup chans[k] : k \in Owners}
    /\ \A k \in Owners : tok[k] \cap chans[k] = {}
    /\ \A k, r \in Owners :
          k # r => (tok[k] \cup chans[k]) \cap (tok[r] \cup chans[r]) = {}

\* A wait that reports success hands back buffers in which every beat that
\* was asked for, and none besides, has landed, however late the completion
\* was noticed.
OkMeansComplete ==
    \A k \in Owners :
        pc[k] = "finish" /\ outcome[k] = "ok" => landed[k] = want[k]

-----------------------------------------------------------------------------
(* Why these hold: the invariants that every step preserves. *)

\* The paths that drain before they disable, on a bus that lands every beat
\* in time, with no channel switched on behind a guard's back.
Quiescing == /\ Kinds \subseteq {"mem", "periSpi", "periUart", "spiWrite"}
             /\ RawControls = FALSE
             /\ BusMayStall = FALSE

\* A transfer has channels from its launch to its last step, and only then.
TokenInv ==
    /\ TypeOK
    /\ TokensMatchClaims
    /\ \A k \in Owners : pc[k] = "idle" <=> chans[k] = {}

\* Halt, drain, disable, give back: at each stage of a teardown the channels
\* of a transfer are one step closer to harmless, and a channel that runs, or
\* has a beat out, belongs to the transfer whose addresses it holds.
StoppedInOrder ==
    /\ \A k \in Owners : kind[k] \notin {"spiDuplex", "uart"}
    /\ \A c \in Channels :
          /\ flight[c] # NoJob => enabled[c] /\ flight[c] = job[c]
          /\ enabled[c] => \E k \in Owners : job[c] = k /\ c \in chans[k]
    /\ \A k \in Owners : \A c \in chans[k] :
          /\ pc[k] = "drain" => halted[c]
          /\ pc[k] = "disable" => halted[c] /\ flight[c] = NoJob
          /\ pc[k] \in {"rxdrain", "finish"} => ~ enabled[c]

\* The stages at which the controller has not been interfered with: what a
\* buffer was lent for has landed, is on the bus, or is still to be fetched.
Undisturbed(k) == \/ pc[k] \in {"guard", "wait", "recheck"}
                  \/ pc[k] \in {"rxdrain", "finish"} /\ outcome[k] = "ok"

\* No beat is lost or made up, a channel stops by itself only when none is
\* left, and only an undisturbed transfer is reported a success.
BeatsCounted ==
    /\ \A k \in Owners :
          /\ outcome[k] = "ok" => pc[k] \in {"rxdrain", "finish"}
          /\ chans[k] = {} => landed[k] = 0
          /\ chans[k] # {} => \E c \in Channels : chans[k] = {c}
    /\ \A k \in Owners : \A c \in chans[k] :
          Undisturbed(k) =>
             /\ job[c] = k
             /\ enabled[c] \/ left[c] = 0
             /\ landed[k] + left[c] + (IF flight[c] # NoJob THEN 1 ELSE 0)
                  = want[k]

-----------------------------------------------------------------------------
(* Liveness. *)

\* Every wait and every drop gives control back, however wedged the channel is
\* and whether or not its peripheral asks for a beat: the polls of a channel
\* are counted.  The one loop that is not, the receive drain on write_dma's
\* success path (spi.rs:406), ends because an SSI has an answer only to a frame
\* it was sent (RxSticks = FALSE): a receive status bit that sticks would hold
\* the call there for ever.
ControlReturns ==
    \A k \in Owners : pc[k] \notin {"idle", "guard"} ~> pc[k] = "idle"

-----------------------------------------------------------------------------
(* What an application may rely on, whichever path it takes: its buffers    *)
(* are written while they are lent and at no other time.                    *)

Loan == INSTANCE LoanedBuffers
          WITH Owners <- Jobs,
               lent <- [k \in Jobs |-> chans[k] # {}],
               written <- landed

LoanSpec == Loan!Spec
=============================================================================
