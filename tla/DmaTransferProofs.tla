-------------------------- MODULE DmaTransferProofs --------------------------
(***************************************************************************)
(* Proofs about DmaTransfer for every set of channels, owners and beats.   *)
(***************************************************************************)
EXTENDS DmaTransfer, FiniteSetTheorems, TLAPS

\* The registers of a reset controller are well typed.
LEMMA EngineInitType == EngineInit => EngineTypeOK
<1> SUFFICES ASSUME EngineInit
             PROVE  EngineTypeOK
  OBVIOUS
<1>1. /\ clk \in BOOLEAN
      /\ enabled \in [Channels -> BOOLEAN]
      /\ halted \in [Channels -> BOOLEAN]
  BY DEF EngineInit
<1>2. /\ left \in [Channels -> Nat]
      /\ flow \in [Channels -> Flows]
  BY DEF EngineInit, Flows
<1>3. /\ job \in [Channels -> Jobs \cup {NoJob}]
      /\ flight \in [Channels -> Jobs \cup {NoJob}]
  BY DEF EngineInit
<1>. QED
  BY <1>1, <1>2, <1>3 DEF EngineTypeOK

\* Every path uses one of the three handshakes.
LEMMA FlowType == \A kd \in AllKinds : FlowOf(kd) \in Flows
BY DEF FlowOf, AllKinds, Flows, SpiPaths

\* A reset system is well typed.
LEMMA TypeInit == Init => TypeOK
<1>1. Init => EngineTypeOK
  BY EngineInitType DEF Init
<1>. QED
  BY <1>1 DEF Init, TypeOK, Locations, AllKinds, Owners

\* Every step keeps the state well typed: for every path, with the raw channel
\* controls and with a bus that stalls.
LEMMA TypeStep == TypeOK /\ [Next]_vars => TypeOK'
<1> SUFFICES ASSUME TypeOK, [Next]_vars
             PROVE  TypeOK'
  OBVIOUS
<1> USE NoJobAssumption, DmaTransferAssumption
    DEF TypeOK, EngineTypeOK, Locations, Owners, Goto
<1>1. ASSUME NEW k \in Owners, Working(k)
      PROVE  TypeOK'
  <2>1. CASE PollDone(k)
    <3>1. AfterWait(k) \in Locations /\ AnswersOwed(k) \in Nat
      BY DEF AfterWait, AnswersOwed
    <3>. QED  BY <2>1, <3>1 DEF PollDone, engineVars
  <2>10. CASE RxRead(k) \/ RxEmpty(k)
    BY <2>10 DEF RxRead, RxEmpty, engineVars
  <2>2. CASE PollAgain(k)
    BY <2>2 DEF PollAgain, engineVars
  <2>3. CASE PollExhausted(k)
    BY <2>3 DEF PollExhausted, engineVars
  <2>4. CASE Recheck(k)
    BY <2>4 DEF Recheck, Teardown, engineVars
  <2>5. CASE PeripheralOff(k)
    BY <2>5 DEF PeripheralOff, StopsChannels, engineVars
  <2>6. CASE Halt(k)
    BY <2>6 DEF Halt, DrainsChannel, halt_channel_raw
  <2>7. CASE Drained(k) \/ DrainAgain(k) \/ DrainGivesUp(k)
    BY <2>7 DEF Drained, DrainAgain, DrainGivesUp, engineVars, LastTry
  <2>8. CASE Disable(k)
    BY <2>8 DEF Disable, disable_channel_raw
  <2>9. CASE Finish(k)
    BY <2>9 DEF Finish, engineVars, AllKinds
  <2>. QED
    BY <1>1, <2>1, <2>2, <2>3, <2>4, <2>5, <2>6, <2>7, <2>8, <2>9, <2>10
       DEF Working
<1>2. ASSUME NEW k \in Owners, Calling(k)
      PROVE  TypeOK'
  <2>1. CASE split_channels(k)
    BY <2>1 DEF split_channels, engineVars
  <2>2. ASSUME NEW C \in SUBSET Channels, DropTokens(k, C)
        PROVE  TypeOK'
    BY <2>2 DEF DropTokens, engineVars
  <2>3. ASSUME NEW r \in Owners, NEW c \in Channels, GiveToken(k, r, c)
        PROVE  TypeOK'
    BY <2>3 DEF GiveToken, engineVars
  <2>4. ASSUME NEW C \in SUBSET Channels, NEW kd \in Kinds,
               NEW beats \in 1..MaxBeats, Start(k, C, kd, beats)
        PROVE  TypeOK'
    <3>1. FlowOf(kd) \in Flows /\ kd \in AllKinds
      BY FlowType
    <3>2. beats \in Nat /\ beats * ChannelsOf(kd) \in Nat
      BY DEF ChannelsOf
    <3>3. clk' \in BOOLEAN /\ enabled' \in [Channels -> BOOLEAN]
          /\ halted' \in [Channels -> BOOLEAN]
      BY <2>4 DEF Start, configure_channel_raw, enable_controller
    <3>4. left' \in [Channels -> Nat] /\ flow' \in [Channels -> Flows]
      BY <2>4, <3>1, <3>2 DEF Start, configure_channel_raw
    <3>5. job' \in [Channels -> Jobs \cup {NoJob}] /\ flight' = flight
      BY <2>4 DEF Start, configure_channel_raw
    <3>6. EngineTypeOK'
      BY <3>3, <3>4, <3>5
    <3>7. /\ claimed' \in SUBSET Channels
          /\ tok' \in [Owners -> SUBSET Channels]
          /\ chans' \in [Owners -> SUBSET Channels]
          /\ pc' \in [Owners -> Locations]
          /\ kind' \in [Owners -> AllKinds]
      BY <2>4, <3>1 DEF Start
    <3>8. /\ dmaReq' \in [Owners -> BOOLEAN]
          /\ tries' \in [Owners -> Nat]
          /\ outcome' = outcome
          /\ again' = again
          /\ want' \in [Owners -> Nat]
          /\ landed' = landed
      BY <2>4, <3>2 DEF Start
    <3>. QED
      BY <3>6, <3>7, <3>8
  <2>5. CASE CallerSetsDmaEnable(k)
    BY <2>5 DEF CallerSetsDmaEnable, engineVars
  <2>8. CASE wait(k)
    BY <2>8 DEF wait, engineVars
  <2>9. CASE drop(k)
    BY <2>9 DEF drop, Teardown, engineVars
  <2>6. CASE ControllerOn(k) \/ ControllerOff(k)
    BY <2>6 DEF ControllerOn, ControllerOff, enable_controller,
                disable_controller, ownerVars
  <2>7. ASSUME NEW c \in Channels, ChannelControl(k, c)
        PROVE  TypeOK'
    BY <2>7 DEF ChannelControl, enable_channel_raw, disable_channel_raw,
                halt_channel_raw, resume_channel_raw, ownerVars
  <2>. QED
    BY <1>2, <2>1, <2>2, <2>3, <2>4, <2>5, <2>6, <2>7,
       <2>8, <2>9 DEF Calling
<1>3. ASSUME NEW c \in Channels, FetchBeat(c)
      PROVE  TypeOK'
  BY <1>3 DEF FetchBeat, Fetch, ownerVars
<1>4. ASSUME NEW c \in Channels, LandBeat(c)
      PROVE  TypeOK'
  BY <1>4 DEF LandBeat, Land
<1>5. CASE UNCHANGED vars
  BY <1>5 DEF vars, engineVars, ownerVars
<1>. QED
  BY <1>1, <1>2, <1>3, <1>4, <1>5 DEF Next

\* Type correctness of the whole state.
THEOREM TypeCorrect == Spec => []TypeOK
BY TypeInit, TypeStep, PTL DEF Spec

-----------------------------------------------------------------------------
\* Tokens: most steps leave the bitmask, the tokens and the lent channels
\* alone and bring nobody back to idle.
LEMMA TokensUntouched ==
    ASSUME TokenInv, TypeOK', UNCHANGED <<claimed, tok, chans>>,
           \A k \in Owners : pc'[k] = "idle" <=> pc[k] = "idle"
    PROVE  TokenInv'
BY DEF TokenInv, TokensMatchClaims

\* No channel is claimed, held or lent after reset.
LEMMA TokenInit == Init => TokenInv
<1> SUFFICES ASSUME Init
             PROVE  TokenInv
  OBVIOUS
<1>1. TypeOK
  BY TypeInit
<1>2. TokensMatchClaims
  BY DEF Init, TokensMatchClaims, Owners
<1>3. \A k \in Owners : pc[k] = "idle" <=> chans[k] = {}
  BY DEF Init
<1>. QED
  BY <1>1, <1>2, <1>3 DEF TokenInv

\* A transfer is launched over at least one channel.
LEMMA ChannelsNotEmpty ==
    \A C : \A kd \in AllKinds : Cardinality(C) = ChannelsOf(kd) => C # {}
BY FS_EmptySet DEF ChannelsOf

\* A step of a transfer under way.
LEMMA TokenWorking ==
    ASSUME TokenInv, TypeOK', NEW k \in Owners, Working(k)
    PROVE  TokenInv'
<1> USE DEF TokenInv, TypeOK, Owners
<1>1. CASE PollDone(k)
  <2>1. /\ UNCHANGED <<claimed, tok, chans>>
        /\ \A r \in Owners : pc'[r] = "idle" <=> pc[r] = "idle"
    BY <1>1 DEF PollDone, AfterWait, Goto
  <2>. QED  BY <2>1, TokensUntouched
<1>10. CASE RxRead(k) \/ RxEmpty(k)
  <2>1. /\ UNCHANGED <<claimed, tok, chans>>
        /\ \A r \in Owners : pc'[r] = "idle" <=> pc[r] = "idle"
    BY <1>10 DEF RxRead, RxEmpty, Goto
  <2>. QED  BY <2>1, TokensUntouched
<1>2. CASE PollAgain(k) \/ DrainAgain(k)
  BY <1>2, TokensUntouched DEF PollAgain, DrainAgain
<1>3. CASE PollExhausted(k)
  <2>1. /\ UNCHANGED <<claimed, tok, chans>>
        /\ \A r \in Owners : pc'[r] = "idle" <=> pc[r] = "idle"
    BY <1>3 DEF PollExhausted, Goto
  <2>. QED  BY <2>1, TokensUntouched
<1>4. CASE Recheck(k)
  <2>1. /\ UNCHANGED <<claimed, tok, chans>>
        /\ \A r \in Owners : pc'[r] = "idle" <=> pc[r] = "idle"
    BY <1>4 DEF Recheck, Teardown, Goto
  <2>. QED  BY <2>1, TokensUntouched
<1>5. CASE PeripheralOff(k)
  <2>1. /\ UNCHANGED <<claimed, tok, chans>>
        /\ \A r \in Owners : pc'[r] = "idle" <=> pc[r] = "idle"
    BY <1>5 DEF PeripheralOff, StopsChannels, Goto
  <2>. QED  BY <2>1, TokensUntouched
<1>6. CASE Halt(k)
  <2>1. /\ UNCHANGED <<claimed, tok, chans>>
        /\ \A r \in Owners : pc'[r] = "idle" <=> pc[r] = "idle"
    BY <1>6 DEF Halt, DrainsChannel, Goto
  <2>. QED  BY <2>1, TokensUntouched
<1>7. CASE Drained(k) \/ DrainGivesUp(k)
  <2>1. /\ UNCHANGED <<claimed, tok, chans>>
        /\ \A r \in Owners : pc'[r] = "idle" <=> pc[r] = "idle"
    BY <1>7 DEF Drained, DrainGivesUp, Goto
  <2>. QED  BY <2>1, TokensUntouched
<1>8. CASE Disable(k)
  <2>1. /\ UNCHANGED <<claimed, tok, chans>>
        /\ \A r \in Owners : pc'[r] = "idle" <=> pc[r] = "idle"
    BY <1>8 DEF Disable, Goto
  <2>. QED  BY <2>1, TokensUntouched
<1>9. CASE Finish(k)
  <2>1. TokensMatchClaims'
    <3>1. CASE KeepsToken(k)
      <4>1. /\ claimed' = claimed
            /\ tok' = [tok EXCEPT ![k] = @ \cup chans[k]]
            /\ chans' = [chans EXCEPT ![k] = {}]
        BY <1>9, <3>1 DEF Finish
      <4>2. \A r \in Owners : tok'[r] \cup chans'[r] = tok[r] \cup chans[r]
        BY <4>1
      <4>3. \A r \in Owners : tok'[r] \cap chans'[r] = {}
        BY <4>1 DEF TokensMatchClaims
      <4>. QED  BY <4>1, <4>2, <4>3 DEF TokensMatchClaims
    <3>2. CASE ~ KeepsToken(k)
      <4>1. /\ claimed' = claimed \ chans[k]
            /\ tok' = tok
            /\ chans' = [chans EXCEPT ![k] = {}]
        BY <1>9, <3>2 DEF Finish
      <4>2. \A r \in Owners : tok'[r] \cup chans'[r] =
                              (tok[r] \cup chans[r]) \ chans[k]
        BY <4>1 DEF TokensMatchClaims
      <4>3. \A r \in Owners : tok'[r] \cap chans'[r] = {}
        BY <4>1 DEF TokensMatchClaims
      <4>. QED  BY <4>1, <4>2, <4>3 DEF TokensMatchClaims
    <3>. QED  BY <3>1, <3>2
  <2>2. \A r \in Owners : pc'[r] = "idle" <=> chans'[r] = {}
    BY <1>9 DEF Finish, Goto
  <2>. QED  BY <2>1, <2>2
<1>. QED
  BY <1>1, <1>2, <1>3, <1>4, <1>5, <1>6, <1>7, <1>8, <1>9, <1>10 DEF Working

\* A call by the application.
LEMMA TokenCalling ==
    ASSUME TokenInv, TypeOK', NEW k \in Owners, Calling(k)
    PROVE  TokenInv'
<1> USE DEF TokenInv, TypeOK, Owners
<1>1. CASE split_channels(k)
  <2>1. /\ claimed = {}
        /\ claimed' = Channels
        /\ tok' = [tok EXCEPT ![k] = Channels]
        /\ UNCHANGED <<pc, chans>>
    BY <1>1 DEF split_channels
  <2>2. \A r \in Owners : tok[r] = {} /\ chans[r] = {}
    BY <2>1 DEF TokensMatchClaims
  <2>3. TokensMatchClaims'
    BY <2>1, <2>2 DEF TokensMatchClaims
  <2>. QED  BY <2>1, <2>3
<1>2. ASSUME NEW C \in SUBSET Channels, DropTokens(k, C)
      PROVE  TokenInv'
  <2>1. /\ C \subseteq tok[k]
        /\ claimed' = claimed \ C
        /\ tok' = [tok EXCEPT ![k] = @ \ C]
        /\ UNCHANGED <<pc, chans>>
    BY <1>2 DEF DropTokens
  <2>2. \A r \in Owners : tok'[r] \cup chans'[r] = (tok[r] \cup chans[r]) \ C
    BY <2>1 DEF TokensMatchClaims
  <2>3. \A r \in Owners : tok'[r] \cap chans'[r] = {}
    BY <2>1 DEF TokensMatchClaims
  <2>4. TokensMatchClaims'
    BY <2>1, <2>2, <2>3 DEF TokensMatchClaims
  <2>. QED  BY <2>1, <2>4
<1>3. ASSUME NEW r \in Owners, NEW c \in Channels, GiveToken(k, r, c)
      PROVE  TokenInv'
  <2>1. /\ r # k
        /\ c \in tok[k]
        /\ tok' = [tok EXCEPT ![k] = @ \ {c}, ![r] = @ \cup {c}]
        /\ UNCHANGED <<claimed, pc, chans>>
    BY <1>3 DEF GiveToken
  <2>2. /\ tok'[k] = tok[k] \ {c}
        /\ tok'[r] = tok[r] \cup {c}
        /\ \A q \in Owners \ {k, r} : tok'[q] = tok[q]
    BY <2>1
  <2>3. \A q \in Owners : tok'[q] \cap chans'[q] = {}
    BY <2>1, <2>2 DEF TokensMatchClaims
  <2>4. \A q, s \in Owners :
          q # s => (tok'[q] \cup chans'[q]) \cap (tok'[s] \cup chans'[s]) = {}
    BY <2>1, <2>2 DEF TokensMatchClaims
  <2>5. claimed = UNION {tok'[q] \cup chans[q] : q \in Owners}
    <3>1. \A d \in claimed : \E q \in Owners : d \in tok'[q] \cup chans[q]
      BY <2>1, <2>2 DEF TokensMatchClaims
    <3>2. \A q \in Owners : \A d \in tok'[q] \cup chans[q] : d \in claimed
      BY <2>1, <2>2 DEF TokensMatchClaims
    <3>3. claimed \subseteq UNION {tok'[q] \cup chans[q] : q \in Owners}
      BY <3>1
    <3>4. UNION {tok'[q] \cup chans[q] : q \in Owners} \subseteq claimed
      BY <3>2
    <3>. QED  BY <3>3, <3>4
  <2>6. TokensMatchClaims'
    BY <2>1, <2>3, <2>4, <2>5 DEF TokensMatchClaims
  <2>. QED  BY <2>1, <2>6
<1>4. ASSUME NEW C \in SUBSET Channels, NEW kd \in Kinds,
             NEW beats \in 1..MaxBeats, Start(k, C, kd, beats)
      PROVE  TokenInv'
  <2>1. C # {}
    BY <1>4, ChannelsNotEmpty, DmaTransferAssumption DEF Start
  <2>2. /\ C \subseteq tok[k]
        /\ chans[k] = {}
        /\ tok' = [tok EXCEPT ![k] = @ \ C]
        /\ chans' = [chans EXCEPT ![k] = C]
        /\ claimed' = claimed
    BY <1>4 DEF Start, Goto
  <2>3. \A r \in Owners : tok'[r] \cup chans'[r] = tok[r] \cup chans[r]
    BY <2>2
  <2>4. \A r \in Owners : tok'[r] \cap chans'[r] = {}
    BY <2>2 DEF TokensMatchClaims
  <2>5. TokensMatchClaims'
    BY <2>2, <2>3, <2>4 DEF TokensMatchClaims
  <2>6. \A r \in Owners : pc'[r] = "idle" <=> chans'[r] = {}
    BY <1>4, <2>1, <2>2 DEF Start, Goto
  <2>. QED  BY <2>5, <2>6
<1>5. CASE wait(k)
  <2>1. /\ UNCHANGED <<claimed, tok, chans>>
        /\ \A r \in Owners : pc'[r] = "idle" <=> pc[r] = "idle"
    BY <1>5 DEF wait, Goto
  <2>. QED  BY <2>1, TokensUntouched
<1>6. CASE drop(k)
  <2>1. /\ UNCHANGED <<claimed, tok, chans>>
        /\ \A r \in Owners : pc'[r] = "idle" <=> pc[r] = "idle"
    BY <1>6 DEF drop, Teardown, Goto
  <2>. QED  BY <2>1, TokensUntouched
<1>7. CASE \/ CallerSetsDmaEnable(k) \/ ControllerOn(k) \/ ControllerOff(k)
           \/ \E c \in Channels : ChannelControl(k, c)
  BY <1>7, TokensUntouched
     DEF CallerSetsDmaEnable, ControllerOn, ControllerOff, ChannelControl,
         ownerVars
<1>. QED
  BY <1>1, <1>2, <1>3, <1>4, <1>5, <1>6, <1>7 DEF Calling

LEMMA TokenStep == TokenInv /\ [Next]_vars => TokenInv'
<1> SUFFICES ASSUME TokenInv, [Next]_vars
             PROVE  TokenInv'
  OBVIOUS
<1>1. TypeOK'
  BY TypeStep DEF TokenInv
<1>2. CASE \E k \in Owners : Working(k) \/ Calling(k)
  BY <1>1, <1>2, TokenWorking, TokenCalling
<1>3. CASE \E c \in Channels : FetchBeat(c) \/ LandBeat(c)
  BY <1>1, <1>3, TokensUntouched DEF FetchBeat, LandBeat, ownerVars
<1>4. CASE UNCHANGED vars
  BY <1>1, <1>4, TokensUntouched DEF vars, ownerVars
<1>. QED
  BY <1>2, <1>3, <1>4 DEF Next

\* The claim bitmask and the live tokens agree in every reachable state, on
\* every path, whatever the controller, the bus and the raw controls do.
THEOREM TokensAlwaysMatch == Spec => []TokensMatchClaims
<1>1. TokenInv => TokensMatchClaims
  BY DEF TokenInv
<1>. QED
  BY <1>1, TokenInit, TokenStep, PTL DEF Spec


-----------------------------------------------------------------------------
(* The paths that drain before they disable keep the controller away from   *)
(* every buffer they have given back: StoppedInOrder is inductive, implies  *)
(* BufferGuarded, and makes DmaTransfer an implementation of LoanedBuffers. *)

GuardInv == TokenInv /\ StoppedInOrder

\* One channel is never with two transfers, nor with a transfer and in a hand.
LEMMA OneHolder ==
    ASSUME TokenInv
    PROVE  /\ \A k, r \in Owners : \A c \in chans[k] : c \in chans[r] => r = k
           /\ \A k, r \in Owners : \A c \in tok[k] : c \notin chans[r]
BY DEF TokenInv, TokensMatchClaims

\* Nothing runs after reset.
LEMMA GuardInit == Init => GuardInv
<1> SUFFICES ASSUME Init
             PROVE  GuardInv
  OBVIOUS
<1>1. TokenInv
  BY TokenInit
<1>2. StoppedInOrder
  BY DEF Init, EngineInit, StoppedInOrder, Owners
<1>. QED
  BY <1>1, <1>2 DEF GuardInv

\* A step that only moves one owner, to a stage that promises nothing new.
LEMMA GuardQuiet ==
    ASSUME GuardInv, TokenInv', NEW k \in Owners,
           UNCHANGED <<enabled, halted, flight, job, chans, kind>>,
           \A r \in Owners \ {k} : pc'[r] = pc[r],
           pc'[k] \in {pc[k]} \cup (Locations \ {"drain", "disable", "rxdrain", "finish"})
    PROVE  StoppedInOrder'
<1> USE DEF GuardInv, StoppedInOrder
<1>1. \A r \in Owners : kind'[r] \notin {"spiDuplex", "uart"}
  OBVIOUS
<1>2. \A c \in Channels :
        /\ flight'[c] # NoJob => enabled'[c] /\ flight'[c] = job'[c]
        /\ enabled'[c] => \E r \in Owners : job'[c] = r /\ c \in chans'[r]
  OBVIOUS
<1>3. \A r \in Owners : \A c \in chans'[r] :
        /\ pc'[r] = "drain" => halted'[c]
        /\ pc'[r] = "disable" => halted'[c] /\ flight'[c] = NoJob
        /\ pc'[r] \in {"rxdrain", "finish"} => ~ enabled'[c]
  OBVIOUS
<1>. QED
  BY <1>1, <1>2, <1>3

\* The stages of a transfer.
LEMMA GuardWorking ==
    ASSUME Quiescing, GuardInv, TokenInv', NEW k \in Owners, Working(k)
    PROVE  StoppedInOrder'
<1>. DEFINE Quiet ==
        /\ UNCHANGED <<enabled, halted, flight, job, chans, kind>>
        /\ \A r \in Owners \ {k} : pc'[r] = pc[r]
<1>k. kind[k] \notin {"spiDuplex", "uart"}
  BY DEF GuardInv, StoppedInOrder
<1>t. TypeOK
  BY DEF GuardInv, TokenInv
<1>1. CASE PollAgain(k) \/ DrainAgain(k) \/ RxRead(k)
  BY <1>1, <1>t, GuardQuiet DEF PollAgain, DrainAgain, RxRead, engineVars
<1>11. CASE RxEmpty(k)
  <2>1. Quiet /\ pc[k] = "rxdrain" /\ pc'[k] = "finish"
    BY <1>11, <1>t DEF RxEmpty, Goto, engineVars, TypeOK
  <2>. QED  BY <2>1, <1>t DEF GuardInv, StoppedInOrder, TypeOK
<1>2. CASE PollExhausted(k)
  <2>1. Quiet /\ pc'[k] \in {"recheck", "perioff"}
    BY <1>2, <1>t DEF PollExhausted, Goto, engineVars, TypeOK
  <2>. QED  BY <2>1, GuardQuiet DEF Locations
<1>3. CASE PeripheralOff(k)
  <2>1. Quiet /\ pc'[k] = "halt"
    BY <1>3, <1>t, <1>k DEF PeripheralOff, StopsChannels, Goto, engineVars, TypeOK
  <2>. QED  BY <2>1, GuardQuiet DEF Locations
<1>4. CASE PollDone(k)
  <2>1. CASE kind[k] \in Guards
    <3>1. AfterWait(k) = "recheck"
      BY <2>1 DEF AfterWait, Guards
    <3>2. Quiet /\ pc'[k] = "recheck"
      BY <1>4, <3>1, <1>t DEF PollDone, Goto, engineVars, TypeOK
    <3>. QED  BY <3>2, GuardQuiet DEF Locations
  <2>2. CASE kind[k] \notin Guards
    <3>1. Quiet /\ pc'[k] \in {"rxdrain", "finish"}
      BY <1>4, <2>2, <1>t DEF PollDone, AfterWait, Goto, engineVars, TypeOK
    <3>2. \A c \in chans[k] : ~ enabled[c]
      BY <1>4 DEF PollDone, Running, channel_enabled_raw
    <3>. QED  BY <3>1, <3>2, <1>t DEF GuardInv, StoppedInOrder, TypeOK
  <2>. QED  BY <2>1, <2>2
<1>5. CASE Recheck(k)
  <2>1. CASE Running(k)
    <3>1. Quiet /\ pc'[k] \in {"halt", "perioff"}
      BY <1>5, <2>1, <1>t DEF Recheck, Teardown, Goto, engineVars, TypeOK
    <3>. QED  BY <3>1, GuardQuiet DEF Locations
  <2>2. CASE ~ Running(k)
    <3>1. Quiet /\ pc'[k] = "finish"
      <4>1. pc' = [pc EXCEPT ![k] = "finish"]
        BY <1>5, <2>2 DEF Recheck, Teardown, Goto
      <4>. QED  BY <1>5, <4>1, <1>t DEF Recheck, Teardown, engineVars, TypeOK
    <3>2. \A c \in chans[k] : ~ enabled[c]
      BY <2>2 DEF Running, channel_enabled_raw
    <3>. QED  BY <3>1, <3>2, <1>t DEF GuardInv, StoppedInOrder, TypeOK
  <2>. QED  BY <2>1, <2>2
<1>6. CASE Halt(k)
  <2>1. /\ UNCHANGED <<enabled, flight, job, chans, kind>>
        /\ \A r \in Owners \ {k} : pc'[r] = pc[r]
        /\ pc'[k] = "drain"
        /\ halted' = [c \in Channels |-> c \in chans[k] \/ halted[c]]
    BY <1>6, <1>t, <1>k DEF Halt, DrainsChannel, Goto, halt_channel_raw, TypeOK
  <2>2. \A c \in Channels : halted[c] => halted'[c]
    BY <2>1
  <2>3. \A c \in chans[k] : halted'[c]
    BY <2>1, <1>t DEF TypeOK
  <2>4. \A r \in Owners : \A c \in chans'[r] :
          /\ pc'[r] = "drain" => halted'[c]
          /\ pc'[r] = "disable" => halted'[c] /\ flight'[c] = NoJob
          /\ pc'[r] \in {"rxdrain", "finish"} => ~ enabled'[c]
    <3>1. \A c \in chans'[k] : pc'[k] = "drain" /\ halted'[c]
      BY <2>1, <2>3
    <3>2. ASSUME NEW r \in Owners \ {k}, NEW c \in chans'[r]
          PROVE  /\ pc'[r] = pc[r] /\ c \in chans[r] /\ c \in Channels
                 /\ flight'[c] = flight[c] /\ enabled'[c] = enabled[c]
      BY <2>1, <1>t DEF TypeOK
    <3>. QED  BY <2>2, <3>1, <3>2 DEF GuardInv, StoppedInOrder
  <2>. QED  BY <2>1, <2>4 DEF GuardInv, StoppedInOrder
<1>7. CASE Drained(k)
  <2>1. Quiet /\ pc[k] = "drain" /\ pc'[k] = "disable"
    BY <1>7, <1>t DEF Drained, Goto, engineVars, TypeOK
  <2>2. \A c \in chans[k] : flight[c] = NoJob
    BY <1>7 DEF Drained, Active, channel_active_raw
  <2>. QED  BY <2>1, <2>2, <1>t DEF GuardInv, StoppedInOrder, TypeOK
<1>8. CASE DrainGivesUp(k)
  BY <1>8 DEF DrainGivesUp, Quiescing
<1>9. CASE Disable(k)
  <2>1. /\ UNCHANGED <<halted, flight, job, chans, kind>>
        /\ \A r \in Owners \ {k} : pc'[r] = pc[r]
        /\ pc[k] = "disable" /\ pc'[k] \in {"perioff", "finish"}
        /\ enabled' = [c \in Channels |-> c \notin chans[k] /\ enabled[c]]
    BY <1>9, <1>t DEF Disable, Goto, disable_channel_raw, TypeOK
  <2>2. \A c \in chans[k] : flight[c] = NoJob /\ ~ enabled'[c]
    BY <2>1, <1>t DEF GuardInv, StoppedInOrder, TypeOK
  <2>3. \A c \in Channels : enabled'[c] => enabled[c]
    BY <2>1
  <2>4. \A c \in Channels : c \notin chans[k] /\ enabled[c] => enabled'[c]
    BY <2>1
  <2>5. \A c \in Channels :
          /\ flight'[c] # NoJob => enabled'[c] /\ flight'[c] = job'[c]
          /\ enabled'[c] => \E r \in Owners : job'[c] = r /\ c \in chans'[r]
    BY <2>1, <2>2, <2>3, <2>4 DEF GuardInv, StoppedInOrder
  <2>6. \A r \in Owners : \A c \in chans'[r] :
          /\ pc'[r] = "drain" => halted'[c]
          /\ pc'[r] = "disable" => halted'[c] /\ flight'[c] = NoJob
          /\ pc'[r] \in {"rxdrain", "finish"} => ~ enabled'[c]
    <3>1. \A c \in chans'[k] : /\ pc'[k] \in {"perioff", "finish"}
                              /\ c \in Channels /\ ~ enabled'[c]
      BY <2>1, <2>2, <1>t DEF TypeOK
    <3>2. ASSUME NEW r \in Owners \ {k}, NEW c \in chans'[r]
          PROVE  /\ pc'[r] = pc[r] /\ c \in chans[r] /\ c \in Channels
                 /\ halted'[c] = halted[c] /\ flight'[c] = flight[c]
                 /\ enabled'[c] => enabled[c]
      BY <2>1, <2>3, <1>t DEF TypeOK
    <3>. QED  BY <3>1, <3>2 DEF GuardInv, StoppedInOrder
  <2>. QED  BY <2>1, <2>5, <2>6 DEF GuardInv, StoppedInOrder
<1>10. CASE Finish(k)
  <2>1. /\ UNCHANGED <<enabled, halted, flight, job>>
        /\ \A r \in Owners \ {k} : pc'[r] = pc[r] /\ chans'[r] = chans[r]
                                   /\ kind'[r] = kind[r]
        /\ pc[k] = "finish" /\ pc'[k] = "idle" /\ chans'[k] = {}
        /\ kind'[k] = "mem"
    BY <1>10, <1>t DEF Finish, Goto, engineVars, TypeOK
  <2>. QED  BY <2>1, <1>t DEF GuardInv, StoppedInOrder, TypeOK
<1>. QED
  BY <1>1, <1>2, <1>3, <1>4, <1>5, <1>6, <1>7, <1>8, <1>9, <1>10,
     <1>11 DEF Working

\* What the application may call.
LEMMA GuardCalling ==
    ASSUME Quiescing, GuardInv, TokenInv', NEW k \in Owners, Calling(k)
    PROVE  StoppedInOrder'
<1>. DEFINE Quiet ==
        /\ UNCHANGED <<enabled, halted, flight, job, chans, kind>>
        /\ \A r \in Owners \ {k} : pc'[r] = pc[r]
<1>k. kind[k] \notin {"spiDuplex", "uart"}
  BY DEF GuardInv, StoppedInOrder
<1>t. TypeOK
  BY DEF GuardInv, TokenInv
<1>1. CASE \/ split_channels(k)
           \/ \E C \in SUBSET Channels : DropTokens(k, C)
           \/ \E r \in Owners, c \in Channels : GiveToken(k, r, c)
           \/ CallerSetsDmaEnable(k) \/ ControllerOn(k) \/ ControllerOff(k)
  <2>1. Quiet /\ pc'[k] = pc[k]
    BY <1>1 DEF split_channels, DropTokens, GiveToken, CallerSetsDmaEnable,
                ControllerOn, ControllerOff, engineVars, ownerVars
  <2>. QED  BY <2>1, GuardQuiet
<1>2. CASE wait(k)
  <2>1. Quiet /\ pc'[k] = "wait"
    BY <1>2, <1>t DEF wait, Goto, engineVars, TypeOK
  <2>. QED  BY <2>1, GuardQuiet DEF Locations
<1>3. CASE drop(k)
  <2>1. Quiet /\ pc'[k] \in {"halt", "perioff"}
    BY <1>3, <1>t DEF drop, Teardown, Goto, engineVars, TypeOK
  <2>. QED  BY <2>1, GuardQuiet DEF Locations
<1>4. CASE \E c \in Channels : ChannelControl(k, c)
  BY <1>4 DEF ChannelControl, Quiescing
<1>5. ASSUME NEW C \in SUBSET Channels, NEW kd \in Kinds,
             NEW beats \in 1..MaxBeats, Start(k, C, kd, beats)
      PROVE  StoppedInOrder'
  <2>1. /\ pc[k] = "idle" /\ pc'[k] \in {"guard", "wait"}
        /\ C \subseteq tok[k]
        /\ \A r \in Owners \ {k} : pc'[r] = pc[r] /\ chans'[r] = chans[r]
                                   /\ kind'[r] = kind[r]
        /\ kind'[k] = kd /\ chans'[k] = C
    BY <1>5, <1>t DEF Start, Goto, TypeOK
  <2>2. /\ enabled' = [c \in Channels |-> c \in C \/ enabled[c]]
        /\ halted' = [c \in Channels |-> c \notin C /\ halted[c]]
        /\ job' = [c \in Channels |-> IF c \in C THEN k ELSE job[c]]
        /\ flight' = flight
    BY <1>5 DEF Start, configure_channel_raw
  <2>3. \A r \in Owners : kind'[r] \notin {"spiDuplex", "uart"}
    BY <2>1 DEF GuardInv, StoppedInOrder, Quiescing
  <2>4. \A c \in C : \A r \in Owners : c \notin chans[r]
    BY <2>1, OneHolder DEF GuardInv
  <2>5. \A c \in C : ~ enabled[c] /\ flight[c] = NoJob
    BY <2>4 DEF GuardInv, StoppedInOrder
  <2>6. \A c \in Channels :
          /\ flight'[c] # NoJob => enabled'[c] /\ flight'[c] = job'[c]
          /\ enabled'[c] => \E r \in Owners : job'[c] = r /\ c \in chans'[r]
    <3>1. ASSUME NEW c \in C
          PROVE  flight'[c] = NoJob /\ job'[c] = k /\ c \in chans'[k]
      BY <2>1, <2>2, <2>5
    <3>2. ASSUME NEW c \in Channels \ C
          PROVE  /\ flight'[c] = flight[c] /\ enabled'[c] = enabled[c]
                 /\ job'[c] = job[c]
                 /\ \A r \in Owners : c \in chans[r] => c \in chans'[r]
      <4>1. chans[k] = {}
        BY <2>1 DEF GuardInv, TokenInv
      <4>. QED  BY <2>1, <2>2, <4>1, <1>t DEF TypeOK, EngineTypeOK
    <3>3. \A c \in Channels : c \in C \/ c \in Channels \ C
      OBVIOUS
    <3>. QED  BY <3>1, <3>2, <3>3 DEF GuardInv, StoppedInOrder
  <2>7. \A r \in Owners : \A c \in chans'[r] :
          /\ pc'[r] = "drain" => halted'[c]
          /\ pc'[r] = "disable" => halted'[c] /\ flight'[c] = NoJob
          /\ pc'[r] \in {"rxdrain", "finish"} => ~ enabled'[c]
    <3>1. \A r \in Owners \ {k} : \A c \in chans'[r] :
            c \in Channels \ C
      BY <2>1, <2>4, <1>t DEF TypeOK
    <3>2. \A c \in Channels \ C : halted'[c] = halted[c]
                                  /\ enabled'[c] = enabled[c]
      BY <2>2, <1>t DEF TypeOK, EngineTypeOK
    <3>. QED  BY <2>1, <2>2, <3>1, <3>2 DEF GuardInv, StoppedInOrder
  <2>. QED  BY <2>3, <2>6, <2>7 DEF StoppedInOrder
<1>. QED
  BY <1>1, <1>2, <1>3, <1>4, <1>5 DEF Calling

\* The controller, and the whole next-state relation.
LEMMA GuardStep == Quiescing /\ GuardInv /\ [Next]_vars => GuardInv'
<1> SUFFICES ASSUME Quiescing, GuardInv, [Next]_vars
             PROVE  GuardInv'
  OBVIOUS
<1>1. TokenInv'
  BY TokenStep DEF GuardInv
<1>t. TypeOK
  BY DEF GuardInv, TokenInv
<1>2. CASE \E k \in Owners : Working(k) \/ Calling(k)
  BY <1>1, <1>2, GuardWorking, GuardCalling DEF GuardInv
<1>3. ASSUME NEW c \in Channels, FetchBeat(c)
      PROVE  StoppedInOrder'
  <2>1. /\ enabled[c] /\ ~ halted[c]
        /\ flight' = [flight EXCEPT ![c] = job[c]]
        /\ UNCHANGED <<enabled, halted, job, chans, pc, kind>>
    BY <1>3 DEF FetchBeat, Fetch, ownerVars
  <2>2. \A d \in Channels :
          /\ flight'[d] # NoJob => enabled'[d] /\ flight'[d] = job'[d]
          /\ enabled'[d] => \E r \in Owners : job'[d] = r /\ d \in chans'[r]
    BY <2>1, <1>t DEF GuardInv, StoppedInOrder, TypeOK, EngineTypeOK
  <2>3. \A r \in Owners : \A d \in chans'[r] :
          /\ pc'[r] = "drain" => halted'[d]
          /\ pc'[r] = "disable" => halted'[d] /\ flight'[d] = NoJob
          /\ pc'[r] \in {"rxdrain", "finish"} => ~ enabled'[d]
    BY <2>1, <1>t DEF GuardInv, StoppedInOrder, TypeOK, EngineTypeOK
  <2>. QED  BY <2>1, <2>2, <2>3 DEF GuardInv, StoppedInOrder
<1>4. ASSUME NEW c \in Channels, LandBeat(c)
      PROVE  StoppedInOrder'
  <2>1. /\ flight' = [flight EXCEPT ![c] = NoJob]
        /\ enabled' = [enabled EXCEPT ![c] = @ /\ left[c] > 0]
        /\ UNCHANGED <<halted, job, chans, pc, kind>>
    BY <1>4 DEF LandBeat, Land
  <2>2. \A d \in Channels :
          /\ flight'[d] # NoJob => flight'[d] = flight[d] /\ d # c
          /\ enabled'[d] => enabled[d]
          /\ d # c => enabled'[d] = enabled[d]
    BY <2>1, <1>t DEF TypeOK, EngineTypeOK
  <2>3. \A d \in Channels :
          /\ flight'[d] # NoJob => enabled'[d] /\ flight'[d] = job'[d]
          /\ enabled'[d] => \E r \in Owners : job'[d] = r /\ d \in chans'[r]
    BY <2>1, <2>2 DEF GuardInv, StoppedInOrder
  <2>4. \A r \in Owners : \A d \in chans'[r] :
          /\ pc'[r] = "drain" => halted'[d]
          /\ pc'[r] = "disable" => halted'[d] /\ flight'[d] = NoJob
          /\ pc'[r] \in {"rxdrain", "finish"} => ~ enabled'[d]
    BY <2>1, <2>2, <1>t DEF GuardInv, StoppedInOrder, TypeOK
  <2>. QED  BY <2>1, <2>3, <2>4 DEF GuardInv, StoppedInOrder
<1>5. CASE UNCHANGED vars
  <2>1. UNCHANGED <<enabled, halted, flight, job, chans, kind, pc>>
    BY <1>5 DEF vars, engineVars, ownerVars
  <2>. QED  BY <1>1, <2>1 DEF GuardInv, StoppedInOrder
<1>. QED
  BY <1>1, <1>2, <1>3, <1>4, <1>5 DEF Next, GuardInv

\* The controller touches a buffer only while it is lent.
LEMMA GuardImplies == GuardInv => BufferGuarded
BY NoJobAssumption DEF GuardInv, StoppedInOrder, BufferGuarded, Touches, Owners


\* While the controller can touch a buffer, the buffer is lent to it, for any
\* number of channels, contexts, beats and polls.
THEOREM BuffersStayGuarded ==
    ASSUME Quiescing
    PROVE  Spec => []BufferGuarded
BY GuardInit, GuardStep, GuardImplies, PTL DEF Spec

\* Halt, drain, disable, give back: the order of the teardown holds on every
\* draining path.
THEOREM TeardownInOrder ==
    ASSUME Quiescing
    PROVE  Spec => []StoppedInOrder
<1>1. GuardInv => StoppedInOrder
  BY DEF GuardInv
<1>. QED
  BY <1>1, GuardInit, GuardStep, PTL DEF Spec

-----------------------------------------------------------------------------
\* A step that neither lends nor returns a buffer nor writes to one.
LEMMA LoanStutters ==
    ASSUME UNCHANGED <<chans, landed>>
    PROVE  [Loan!Next]_<<[k \in Jobs |-> chans[k] # {}], landed>>
OBVIOUS

\* Every step of an owner lends, returns, or leaves the loans alone.
LEMMA LoanOwner ==
    ASSUME GuardInv, NEW k \in Owners, Working(k) \/ Calling(k)
    PROVE  [Loan!Next]_<<[j \in Jobs |-> chans[j] # {}], landed>>
<1>t. TypeOK
  BY DEF GuardInv, TokenInv
<1>1. ASSUME NEW C \in SUBSET Channels, NEW kd \in Kinds,
             NEW beats \in 1..MaxBeats, Start(k, C, kd, beats)
      PROVE  Loan!Lend(k)
  <2>1. C # {}
    BY <1>1, ChannelsNotEmpty, DmaTransferAssumption DEF Start
  <2>2. chans[k] = {} /\ chans' = [chans EXCEPT ![k] = C] /\ landed' = landed
    BY <1>1 DEF Start, Goto, GuardInv, TokenInv
  <2>. QED  BY <2>1, <2>2, <1>t DEF Loan!Lend, TypeOK, Owners
<1>2. CASE Finish(k)
  <2>1. chans[k] # {} /\ chans' = [chans EXCEPT ![k] = {}]
        /\ landed' = [landed EXCEPT ![k] = 0]
    BY <1>2 DEF Finish, Goto, GuardInv, TokenInv
  <2>2. Loan!Return(k)
    BY <2>1, <1>t DEF Loan!Return, TypeOK, Owners
  <2>. QED  BY <2>2 DEF Loan!Next, Owners
<1>3. CASE Working(k) /\ ~ Finish(k)
  <2>1. UNCHANGED <<chans, landed>>
    BY <1>3 DEF Working, PollDone, PollAgain, PollExhausted, RxRead, RxEmpty, Recheck,
       PeripheralOff, Halt, Drained, DrainAgain, DrainGivesUp, Disable
  <2>. QED  BY <2>1, LoanStutters
<1>4. CASE /\ Calling(k)
           /\ ~ \E C \in SUBSET Channels, kd \in Kinds, beats \in 1..MaxBeats :
                  Start(k, C, kd, beats)
  <2>1. UNCHANGED <<chans, landed>>
    BY <1>4 DEF Calling, split_channels, DropTokens, GiveToken,
       CallerSetsDmaEnable, wait, drop, ControllerOn, ControllerOff,
       ChannelControl, ownerVars
  <2>. QED  BY <2>1, LoanStutters
<1>5. ASSUME \E C \in SUBSET Channels, kd \in Kinds, beats \in 1..MaxBeats :
               Start(k, C, kd, beats)
      PROVE  Loan!Next
  BY <1>1, <1>5 DEF Loan!Next, Owners
<1>. QED
  BY <1>2, <1>3, <1>4, <1>5

\* DmaTransfer implements LoanedBuffers: buffers are written while they are
\* lent and at no other time.
THEOREM ImplementsLoan ==
    ASSUME Quiescing
    PROVE  Spec => LoanSpec
<1>1. Init => Loan!Init
  BY DEF Init, Loan!Init, Owners
<1>2. GuardInv /\ [Next]_vars
        => [Loan!Next]_<<[k \in Jobs |-> chans[k] # {}], landed>>
  <2> SUFFICES ASSUME GuardInv, [Next]_vars
               PROVE  [Loan!Next]_<<[k \in Jobs |-> chans[k] # {}], landed>>
    OBVIOUS
  <2>1. ASSUME NEW c \in Channels, FetchBeat(c)
        PROVE  UNCHANGED <<chans, landed>>
    BY <2>1 DEF FetchBeat, ownerVars
  <2>2. ASSUME NEW c \in Channels, LandBeat(c)
        PROVE  Loan!Next
    <3>1. flight[c] # NoJob /\ landed' = [landed EXCEPT ![flight[c]] = @ + 1]
          /\ UNCHANGED chans
      BY <2>2 DEF LandBeat, Land
    <3>2. flight[c] \in Jobs /\ chans[flight[c]] # {}
      BY <3>1 DEF GuardInv, StoppedInOrder, TokenInv, TypeOK, EngineTypeOK, Owners
    <3>3. Loan!Write(flight[c])
      BY <3>1, <3>2 DEF Loan!Write
    <3>. QED  BY <3>2, <3>3 DEF Loan!Next
  <2>3. CASE UNCHANGED vars
    BY <2>3, LoanStutters DEF vars, ownerVars
  <2>. QED
    BY <2>1, <2>2, <2>3, LoanOwner, LoanStutters DEF Next
<1>. QED
  BY <1>1, <1>2, GuardInit, GuardStep, PTL DEF Spec, LoanSpec, Loan!Spec
-----------------------------------------------------------------------------
(* Counting the beats of a transfer: BeatsCounted is inductive next to      *)
(* GuardInv, and at the end of a success there is nothing left to count.    *)

BeatsInv == GuardInv /\ BeatsCounted

\* A transfer of a draining path has exactly one channel.
LEMMA OneChannel ==
    ASSUME NEW C \in SUBSET Channels, NEW kd \in AllKinds,
           kd # "spiDuplex", Cardinality(C) = ChannelsOf(kd)
    PROVE  \E c \in Channels : C = {c}
<1>1. Cardinality(C) = 1
  BY DEF ChannelsOf
<1>2. IsFiniteSet(C)
  BY FS_Subset, DmaTransferAssumption
<1>3. PICK c : C = {c}
  BY <1>1, <1>2, FS_Singleton
<1>. QED
  BY <1>3

\* Nothing was asked for and nothing has landed after reset.
LEMMA BeatsInit == Init => BeatsCounted
BY DEF Init, BeatsCounted, Owners

\* A step of one owner that moves no beat, and leaves the channels of an
\* undisturbed transfer running or stopped as they were.
LEMMA BeatsKept ==
    ASSUME BeatsInv, NEW k \in Owners,
           UNCHANGED <<left, job, flight, chans, landed, want>>,
           \A r \in Owners \ {k} :
              /\ pc'[r] = pc[r] /\ outcome'[r] = outcome[r]
              /\ \A c \in chans[r] : enabled'[c] = enabled[c],
           Undisturbed(k)' => /\ Undisturbed(k)
                              /\ \A c \in chans[k] : enabled'[c] = enabled[c],
           outcome'[k] = "ok" => pc'[k] \in {"rxdrain", "finish"}
    PROVE  BeatsCounted'
<1> USE DEF BeatsInv, BeatsCounted
<1>1. \A r \in Owners : Undisturbed(r)' =>
        /\ Undisturbed(r)
        /\ \A c \in chans[r] : enabled'[c] = enabled[c]
  BY DEF Undisturbed
<1>2. \A r \in Owners :
        /\ outcome'[r] = "ok" => pc'[r] \in {"rxdrain", "finish"}
        /\ chans'[r] = {} => landed'[r] = 0
        /\ chans'[r] # {} => \E c \in Channels : chans'[r] = {c}
  OBVIOUS
<1>3. \A r \in Owners : \A c \in chans'[r] :
        Undisturbed(r)' =>
           /\ job'[c] = r
           /\ enabled'[c] \/ left'[c] = 0
           /\ landed'[r] + left'[c] + (IF flight'[c] # NoJob THEN 1 ELSE 0)
                = want'[r]
  BY <1>1
<1>. QED
  BY <1>2, <1>3

\* The stages of a transfer count no beat, and only the two looks at an enable
\* bit that find it cleared report a success.
LEMMA BeatsWorking ==
    ASSUME Quiescing, BeatsInv, NEW k \in Owners, Working(k)
    PROVE  BeatsCounted'
<1>. DEFINE Quiet ==
        /\ UNCHANGED <<left, job, flight, chans, landed, want>>
        /\ \A r \in Owners \ {k} : pc'[r] = pc[r] /\ outcome'[r] = outcome[r]
<1>t. TypeOK
  BY DEF BeatsInv, GuardInv, TokenInv
<1>o. outcome[k] = "ok" => pc[k] \in {"rxdrain", "finish"}
  BY DEF BeatsInv, BeatsCounted
<1>e. \A r \in Owners \ {k} : \A c \in chans[r] : c \notin chans[k] /\ c \in Channels
  BY <1>t, OneHolder DEF BeatsInv, GuardInv, TypeOK
<1>1. CASE PollDone(k) \/ PollAgain(k) \/ PollExhausted(k)
  <2>1. Quiet /\ enabled' = enabled /\ pc[k] = "wait"
    BY <1>1, <1>t DEF PollDone, PollAgain, PollExhausted, Goto, engineVars, TypeOK
  <2>2. \/ pc'[k] = "wait" /\ outcome'[k] = outcome[k]
        \/ pc'[k] = "recheck" /\ outcome'[k] = outcome[k]
        \/ pc'[k] = "perioff" /\ outcome'[k] = "timeout"
        \/ pc'[k] \in {"rxdrain", "finish"} /\ outcome'[k] = "ok"
    <3>1. CASE PollDone(k)
      <4>1. CASE kind[k] \in Guards
        <5>1. AfterWait(k) = "recheck"
          BY <4>1 DEF AfterWait, Guards
        <5>. QED  BY <3>1, <4>1, <5>1, <1>t DEF PollDone, Goto, TypeOK
      <4>2. CASE kind[k] \notin Guards
        <5>1. AfterWait(k) \in {"rxdrain", "finish"}
          BY <4>2 DEF AfterWait
        <5>. QED  BY <3>1, <4>2, <5>1, <1>t DEF PollDone, Goto, TypeOK
      <4>. QED  BY <4>1, <4>2
    <3>. QED
      BY <1>1, <3>1, <1>t DEF PollAgain, PollExhausted, Goto, TypeOK
  <2>. QED  BY <2>1, <2>2, <1>o, BeatsKept DEF Undisturbed
<1>2. CASE Recheck(k)
  <2>1. Quiet /\ enabled' = enabled /\ pc[k] = "recheck"
    BY <1>2, <1>t DEF Recheck, Goto, engineVars, TypeOK
  <2>2. \/ pc'[k] \in {"halt", "perioff"} /\ outcome'[k] = "timeout"
        \/ pc'[k] = "finish" /\ outcome'[k] = "ok"
    <3>1. CASE Running(k)
      BY <1>2, <3>1, <1>t DEF Recheck, Teardown, Goto, TypeOK
    <3>2. CASE ~ Running(k)
      <4>1. pc' = [pc EXCEPT ![k] = "finish"] /\ outcome' = [outcome EXCEPT ![k] = "ok"]
        BY <1>2, <3>2 DEF Recheck, Goto
      <4>. QED  BY <4>1, <1>t DEF TypeOK
    <3>. QED  BY <3>1, <3>2
  <2>. QED  BY <2>1, <2>2, BeatsKept DEF Undisturbed
<1>3. CASE \/ PeripheralOff(k) \/ Halt(k) \/ Drained(k) \/ DrainAgain(k)
           \/ DrainGivesUp(k) \/ Disable(k)
  <2>1. Quiet /\ outcome'[k] = outcome[k]
        /\ pc[k] \in {"perioff", "halt", "drain", "disable"}
    BY <1>3, <1>t DEF PeripheralOff, Halt, halt_channel_raw, Drained, DrainAgain,
       DrainGivesUp, Disable, disable_channel_raw, Goto, engineVars, TypeOK
  <2>2. pc'[k] \in {"perioff", "halt", "drain", "disable", "finish"}
    BY <1>3, <1>t DEF PeripheralOff, Halt, Drained, DrainAgain, DrainGivesUp,
       Disable, Goto, TypeOK
  <2>3. \A r \in Owners \ {k} : \A c \in chans[r] : enabled'[c] = enabled[c]
    BY <1>3, <1>e, <1>t DEF PeripheralOff, Halt, halt_channel_raw, Drained,
       DrainAgain, DrainGivesUp, Disable, disable_channel_raw, engineVars,
       TypeOK, EngineTypeOK
  <2>4. outcome'[k] # "ok" /\ ~ Undisturbed(k)'
    BY <2>1, <2>2, <1>o DEF Undisturbed
  <2>. QED  BY <2>1, <2>3, <2>4, BeatsKept
<1>5. CASE RxRead(k) \/ RxEmpty(k)
  <2>1. Quiet /\ enabled' = enabled /\ pc[k] = "rxdrain"
        /\ pc'[k] \in {"rxdrain", "finish"} /\ outcome'[k] = outcome[k]
    BY <1>5, <1>t DEF RxRead, RxEmpty, Goto, engineVars, TypeOK
  <2>. QED  BY <2>1, BeatsKept DEF Undisturbed
<1>4. CASE Finish(k)
  <2>1. /\ UNCHANGED <<left, job, flight, enabled>>
        /\ pc'[k] = "idle" /\ outcome'[k] = "none"
        /\ chans'[k] = {} /\ landed'[k] = 0
        /\ \A r \in Owners \ {k} :
              /\ pc'[r] = pc[r] /\ outcome'[r] = outcome[r]
              /\ chans'[r] = chans[r]
              /\ landed'[r] = landed[r] /\ want'[r] = want[r]
    BY <1>4, <1>t DEF Finish, Goto, engineVars, TypeOK
  <2>. QED  BY <2>1 DEF BeatsInv, BeatsCounted, Undisturbed
<1>. QED
  BY <1>1, <1>2, <1>3, <1>4, <1>5 DEF Working

\* A launch asks for the beats it puts into the channel; no other call counts.
LEMMA BeatsCalling ==
    ASSUME Quiescing, BeatsInv, NEW k \in Owners, Calling(k)
    PROVE  BeatsCounted'
<1>. DEFINE Quiet ==
        /\ UNCHANGED <<left, job, flight, chans, landed, want, enabled>>
        /\ \A r \in Owners \ {k} : pc'[r] = pc[r] /\ outcome'[r] = outcome[r]
<1>t. TypeOK
  BY DEF BeatsInv, GuardInv, TokenInv
<1>o. outcome[k] = "ok" => pc[k] \in {"rxdrain", "finish"}
  BY DEF BeatsInv, BeatsCounted
<1>1. CASE \/ split_channels(k)
           \/ \E C \in SUBSET Channels : DropTokens(k, C)
           \/ \E r \in Owners, c \in Channels : GiveToken(k, r, c)
           \/ CallerSetsDmaEnable(k) \/ ControllerOn(k) \/ ControllerOff(k)
  <2>1. Quiet /\ pc'[k] = pc[k] /\ outcome'[k] = outcome[k]
    BY <1>1 DEF split_channels, DropTokens, GiveToken, CallerSetsDmaEnable,
                ControllerOn, ControllerOff, engineVars, ownerVars
  <2>. QED  BY <2>1, <1>o, BeatsKept DEF Undisturbed
<1>2. CASE wait(k) \/ drop(k)
  <2>1. Quiet /\ pc[k] = "guard"
    BY <1>2, <1>t DEF wait, drop, Goto, engineVars, TypeOK
  <2>2. \/ pc'[k] = "wait" /\ outcome'[k] = outcome[k]
        \/ pc'[k] \in {"halt", "perioff"} /\ outcome'[k] = "dropped"
    BY <1>2, <1>t DEF wait, drop, Teardown, Goto, engineVars, TypeOK
  <2>. QED  BY <2>1, <2>2, <1>o, BeatsKept DEF Undisturbed
<1>3. CASE \E c \in Channels : ChannelControl(k, c)
  BY <1>3 DEF ChannelControl, Quiescing
<1>4. ASSUME NEW C \in SUBSET Channels, NEW kd \in Kinds,
             NEW beats \in 1..MaxBeats, Start(k, C, kd, beats)
      PROVE  BeatsCounted'
  <2>1. /\ pc[k] = "idle" /\ pc'[k] \in {"guard", "wait"}
        /\ C \subseteq tok[k] /\ Cardinality(C) = ChannelsOf(kd)
        /\ outcome' = outcome /\ landed' = landed
        /\ chans'[k] = C /\ want'[k] = beats * ChannelsOf(kd)
        /\ \A r \in Owners \ {k} : pc'[r] = pc[r] /\ chans'[r] = chans[r]
                                   /\ want'[r] = want[r]
    BY <1>4, <1>t DEF Start, Goto, TypeOK
  <2>2. /\ enabled' = [c \in Channels |-> c \in C \/ enabled[c]]
        /\ left' = [c \in Channels |-> IF c \in C THEN beats ELSE left[c]]
        /\ job' = [c \in Channels |-> IF c \in C THEN k ELSE job[c]]
        /\ flight' = flight
    BY <1>4 DEF Start, configure_channel_raw
  <2>3. /\ kd \in AllKinds /\ kd # "spiDuplex"
        /\ beats \in Nat /\ want'[k] = beats
    <3>1. kd \in AllKinds /\ kd # "spiDuplex"
      BY DmaTransferAssumption DEF Quiescing
    <3>2. ChannelsOf(kd) = 1
      BY <3>1 DEF ChannelsOf
    <3>3. beats \in Nat
      BY DmaTransferAssumption
    <3>. QED  BY <2>1, <3>1, <3>2, <3>3
  <2>4. \E c \in Channels : C = {c}
    BY <2>1, <2>3, OneChannel
  <2>5. \A c \in C : flight[c] = NoJob
    BY <2>1, OneHolder DEF BeatsInv, GuardInv, StoppedInOrder
  <2>6. chans[k] = {} /\ landed[k] = 0 /\ outcome[k] # "ok"
    BY <2>1, <1>o DEF BeatsInv, BeatsCounted, GuardInv, TokenInv
  <2>7. \A r \in Owners \ {k} : \A c \in chans'[r] : c \in Channels \ C
    BY <2>1, OneHolder, <1>t DEF BeatsInv, GuardInv, TypeOK
  <2>8. \A r \in Owners :
          /\ outcome'[r] = "ok" => pc'[r] \in {"rxdrain", "finish"}
          /\ chans'[r] = {} => landed'[r] = 0
          /\ chans'[r] # {} => \E c \in Channels : chans'[r] = {c}
    BY <2>1, <2>4, <2>6 DEF BeatsInv, BeatsCounted
  <2>9. \A c \in chans'[k] :
          /\ job'[c] = k /\ enabled'[c]
          /\ landed'[k] + left'[c] + (IF flight'[c] # NoJob THEN 1 ELSE 0)
               = want'[k]
    <3>1. \A c \in C : /\ c \in Channels /\ job'[c] = k /\ enabled'[c]
                      /\ left'[c] = beats /\ flight'[c] = NoJob
      BY <2>2, <2>5
    <3>. QED  BY <2>1, <2>3, <2>6, <3>1
  <2>10. \A r \in Owners \ {k} : \A c \in chans'[r] :
          /\ c \in chans[r] /\ job'[c] = job[c] /\ enabled'[c] = enabled[c]
          /\ left'[c] = left[c] /\ flight'[c] = flight[c]
          /\ Undisturbed(r)' => Undisturbed(r)
    BY <2>1, <2>2, <2>7, <1>t DEF TypeOK, EngineTypeOK, Undisturbed
  <2>. QED  BY <2>1, <2>8, <2>9, <2>10 DEF BeatsInv, BeatsCounted
<1>. QED
  BY <1>1, <1>2, <1>3, <1>4 DEF Calling

\* The controller turns a beat to be fetched into one on the bus and that into
\* one that has landed, and clears the enable bit with the last.
LEMMA BeatsStep == Quiescing /\ BeatsInv /\ [Next]_vars => BeatsInv'
<1> SUFFICES ASSUME Quiescing, BeatsInv, [Next]_vars
             PROVE  BeatsCounted'
  BY GuardStep DEF BeatsInv
<1>t. TypeOK
  BY DEF BeatsInv, GuardInv, TokenInv
<1>1. CASE \E k \in Owners : Working(k) \/ Calling(k)
  BY <1>1, BeatsWorking, BeatsCalling
<1>2. ASSUME NEW c \in Channels, FetchBeat(c)
      PROVE  BeatsCounted'
  <2>1. /\ left[c] > 0 /\ flight[c] = NoJob /\ enabled[c]
        /\ left' = [left EXCEPT ![c] = @ - 1]
        /\ flight' = [flight EXCEPT ![c] = job[c]]
        /\ UNCHANGED <<enabled, job, chans, pc, outcome, landed, want>>
    BY <1>2 DEF FetchBeat, Fetch, ownerVars
  <2>2. job[c] # NoJob
    BY <2>1, NoJobAssumption DEF BeatsInv, GuardInv, StoppedInOrder, Owners
  <2>3. \A d \in Channels :
          IF d = c THEN /\ left'[d] = left[d] - 1 /\ left[d] \in Nat
                        /\ flight[d] = NoJob /\ flight'[d] # NoJob
                   ELSE left'[d] = left[d] /\ flight'[d] = flight[d]
    BY <2>1, <2>2, <1>t DEF TypeOK, EngineTypeOK
  <2>4. \A r \in Owners : landed[r] \in Nat /\ want[r] \in Nat
                          /\ chans[r] \subseteq Channels
    BY <1>t DEF TypeOK
  <2>5. \A r \in Owners : \A d \in chans'[r] :
          Undisturbed(r)' =>
             /\ job'[d] = r
             /\ enabled'[d] \/ left'[d] = 0
             /\ landed'[r] + left'[d] + (IF flight'[d] # NoJob THEN 1 ELSE 0)
                  = want'[r]
    <3> SUFFICES ASSUME NEW r \in Owners, NEW d \in chans[r], Undisturbed(r)
                 PROVE  /\ job[d] = r
                        /\ enabled[d] \/ left'[d] = 0
                        /\ landed[r] + left'[d]
                             + (IF flight'[d] # NoJob THEN 1 ELSE 0) = want[r]
      BY <2>1 DEF Undisturbed
    <3>1. /\ job[d] = r
          /\ enabled[d] \/ left[d] = 0
          /\ landed[r] + left[d] + (IF flight[d] # NoJob THEN 1 ELSE 0) = want[r]
      BY DEF BeatsInv, BeatsCounted
    <3>. QED  BY <2>1, <2>3, <2>4, <3>1
  <2>. QED  BY <2>1, <2>5 DEF BeatsInv, BeatsCounted
<1>3. ASSUME NEW c \in Channels, LandBeat(c)
      PROVE  BeatsCounted'
  <2>1. /\ flight[c] # NoJob
        /\ flight' = [flight EXCEPT ![c] = NoJob]
        /\ enabled' = [enabled EXCEPT ![c] = @ /\ left[c] > 0]
        /\ landed' = [landed EXCEPT ![flight[c]] = @ + 1]
        /\ UNCHANGED <<left, job, chans, pc, outcome, want>>
    BY <1>3 DEF LandBeat, Land
  <2>2. PICK k \in Owners : c \in chans[k] /\ flight[c] = k /\ job[c] = k
    BY <2>1 DEF BeatsInv, GuardInv, StoppedInOrder
  <2>3. /\ landed'[k] = landed[k] + 1
        /\ \A r \in Owners \ {k} : landed'[r] = landed[r]
    BY <2>1, <2>2, <1>t DEF TypeOK
  <2>4. chans[k] = {c} /\ \A r \in Owners \ {k} : c \notin chans[r]
    BY <2>2, OneHolder DEF BeatsInv, BeatsCounted, GuardInv
  <2>5. \A r \in Owners : landed[r] \in Nat /\ want[r] \in Nat
                          /\ chans[r] \subseteq Channels
    BY <1>t DEF TypeOK
  <2>6. \A d \in Channels :
          IF d = c THEN /\ flight'[d] = NoJob /\ left[d] \in Nat
                        /\ enabled[d] /\ left[d] > 0 => enabled'[d]
                   ELSE flight'[d] = flight[d] /\ enabled'[d] = enabled[d]
    BY <2>1, <1>t DEF TypeOK, EngineTypeOK
  <2>7. \A r \in Owners :
          /\ outcome'[r] = "ok" => pc'[r] \in {"rxdrain", "finish"}
          /\ chans'[r] = {} => landed'[r] = 0
          /\ chans'[r] # {} => \E d \in Channels : chans'[r] = {d}
    BY <2>1, <2>3, <2>4 DEF BeatsInv, BeatsCounted
  <2>8. Undisturbed(k)' =>
          /\ job'[c] = k
          /\ enabled'[c] \/ left'[c] = 0
          /\ landed'[k] + left'[c] + (IF flight'[c] # NoJob THEN 1 ELSE 0)
               = want'[k]
    <3> SUFFICES ASSUME Undisturbed(k)
                 PROVE  /\ job[c] = k
                        /\ enabled'[c] \/ left[c] = 0
                        /\ landed'[k] + left[c]
                             + (IF flight'[c] # NoJob THEN 1 ELSE 0) = want[k]
      BY <2>1 DEF Undisturbed
    <3>1. enabled[c] /\ landed[k] + left[c] + 1 = want[k]
      BY <2>1, <2>2 DEF BeatsInv, BeatsCounted, GuardInv, StoppedInOrder
    <3>. QED  BY <2>2, <2>3, <2>5, <2>6, <3>1
  <2>9. \A r \in Owners \ {k} : \A d \in chans'[r] :
          /\ d \in chans[r] /\ job'[d] = job[d] /\ enabled'[d] = enabled[d]
          /\ left'[d] = left[d] /\ flight'[d] = flight[d]
          /\ landed'[r] = landed[r] /\ want'[r] = want[r]
          /\ Undisturbed(r)' => Undisturbed(r)
    BY <2>1, <2>3, <2>4, <2>5, <2>6 DEF Undisturbed
  <2>10. \A d \in chans'[k] : d = c
    BY <2>1, <2>4
  <2>. QED  BY <2>7, <2>8, <2>9, <2>10 DEF BeatsInv, BeatsCounted
<1>4. CASE UNCHANGED vars
  BY <1>4 DEF vars, engineVars, ownerVars, BeatsInv, BeatsCounted, Undisturbed
<1>. QED
  BY <1>1, <1>2, <1>3, <1>4 DEF Next

\* A success leaves no beat to fetch and none on the bus.
LEMMA BeatsImply == BeatsInv => OkMeansComplete
<1> SUFFICES ASSUME BeatsInv, NEW k \in Owners,
                    pc[k] = "finish", outcome[k] = "ok"
             PROVE  landed[k] = want[k]
  BY DEF OkMeansComplete
<1>1. chans[k] # {}
  BY DEF BeatsInv, GuardInv, TokenInv
<1>2. PICK c \in Channels : chans[k] = {c}
  BY <1>1 DEF BeatsInv, BeatsCounted
<1>3. ~ enabled[c] /\ flight[c] = NoJob
  BY <1>2 DEF BeatsInv, GuardInv, StoppedInOrder
<1>4. left[c] = 0 /\ landed[k] + left[c] + 0 = want[k]
  BY <1>2, <1>3 DEF BeatsInv, BeatsCounted, Undisturbed
<1>5. landed[k] \in Nat
  BY DEF BeatsInv, GuardInv, TokenInv, TypeOK
<1>. QED
  BY <1>4, <1>5

\* On the paths that use one channel and drain it before they disable it, a wait
\* that reports success hands back buffers in which every beat that was asked
\* for has landed, and none besides: for any channels, owners, length of
\* transfer and number of polls, with at most one beat of a channel on the bus
\* at a time (the driver's bursts are of one beat).
THEOREM SuccessIsComplete ==
    ASSUME Quiescing
    PROVE  Spec => []OkMeansComplete
<1>1. Init => BeatsInv
  BY GuardInit, BeatsInit DEF BeatsInv
<1>. QED
  BY <1>1, BeatsStep, BeatsImply, PTL DEF Spec

\* No beat reaches a buffer its owner has back, on a draining path: what the
\* comments of the guards promise.
THEOREM NoBeatAfterReturn ==
    ASSUME Quiescing
    PROVE  Spec => []NoStrayBeat
<1>1. Init => BeatsInv
  BY GuardInit, BeatsInit DEF BeatsInv
<1>2. BeatsInv => NoStrayBeat
  BY DEF BeatsInv, BeatsCounted, NoStrayBeat
<1>. QED
  BY <1>1, <1>2, BeatsStep, PTL DEF Spec
===============================================================================
