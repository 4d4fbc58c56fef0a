------------------------------ MODULE DmaEngine ------------------------------
(***************************************************************************)
(* The channels of the primary DMA controller (Dma0) as the driver code in *)
(* dma.rs programs them.  Each `*_raw` register routine of the driver is   *)
(* an operator on the channel registers below; the two hardware steps,     *)
(* Fetch and Land, say what the controller does with them.                 *)
(*                                                                         *)
(* A job stands for the source and destination addresses written into a    *)
(* channel: it is the name of whoever owns the buffers behind them.  One   *)
(* beat at a time is outstanding on the bus (the driver uses Beats1        *)
(* bursts); a beat on the bus lands whatever software does to the channel  *)
(* in the meantime.                                                        *)
(***************************************************************************)
EXTENDS Integers

CONSTANTS Channels,   \* logical channels of the controller (0..3 on Dma0)
          Jobs,       \* owners of the buffers a channel can be pointed at
          NoJob       \* no owner

ASSUME NoJobAssumption == NoJob \notin Jobs

VARIABLES clk,      \* dmac_config bit 0: the controller is enabled
          enabled,  \* DMAC_EN_CHNS: cleared by software or on completion
          halted,   \* dmac_chn_config bit 16
          left,     \* beats still to be fetched (the trans_size countdown)
          flow,     \* which handshake paces the channel (flow_control)
          job,      \* whose addresses the channel holds
          flight    \* owner of the beat on the bus; the `active` bit 15

engineVars == <<clk, enabled, halted, left, flow, job, flight>>

\* Memory-to-memory is unpaced; the SSI and UART request lines pace the rest.
Flows == {"mem", "spi", "uart"}

EngineTypeOK ==
    /\ clk \in BOOLEAN
    /\ enabled \in [Channels -> BOOLEAN]
    /\ halted \in [Channels -> BOOLEAN]
    /\ left \in [Channels -> Nat]
    /\ flow \in [Channels -> Flows]
    /\ job \in [Channels -> Jobs \cup {NoJob}]
    /\ flight \in [Channels -> Jobs \cup {NoJob}]

EngineInit ==
    /\ clk = FALSE
    /\ enabled = [c \in Channels |-> FALSE]
    /\ halted = [c \in Channels |-> FALSE]
    /\ left = [c \in Channels |-> 0]
    /\ flow = [c \in Channels |-> "mem"]
    /\ job = [c \in Channels |-> NoJob]
    /\ flight = [c \in Channels |-> NoJob]

-----------------------------------------------------------------------------
(* What the driver reads. *)

channel_enabled_raw(c) == enabled[c]

channel_active_raw(c) == flight[c] # NoJob

-----------------------------------------------------------------------------
(* What the driver writes.  Each operator leaves the registers it does not *)
(* name, and the beat on the bus, alone.                                   *)

enable_controller == clk' = TRUE

disable_controller == clk' = FALSE

\* Disable, program addresses and length, then write CFG with ch_enable set:
\* the last write starts the channel.  CFG is written whole, so halt is 0.
configure_channel_raw(C, j, f, beats) ==
    /\ enabled' = [c \in Channels |-> c \in C \/ enabled[c]]
    /\ halted' = [c \in Channels |-> c \notin C /\ halted[c]]
    /\ left' = [c \in Channels |-> IF c \in C THEN beats ELSE left[c]]
    /\ flow' = [c \in Channels |-> IF c \in C THEN f ELSE flow[c]]
    /\ job' = [c \in Channels |-> IF c \in C THEN j ELSE job[c]]
    /\ UNCHANGED flight

enable_channel_raw(C) ==
    /\ enabled' = [c \in Channels |-> c \in C \/ enabled[c]]
    /\ UNCHANGED <<halted, left, flow, job, flight>>

disable_channel_raw(C) ==
    /\ enabled' = [c \in Channels |-> c \notin C /\ enabled[c]]
    /\ UNCHANGED <<halted, left, flow, job, flight>>

halt_channel_raw(C) ==
    /\ halted' = [c \in Channels |-> c \in C \/ halted[c]]
    /\ UNCHANGED <<enabled, left, flow, job, flight>>

resume_channel_raw(C) ==
    /\ halted' = [c \in Channels |-> c \notin C /\ halted[c]]
    /\ UNCHANGED <<enabled, left, flow, job, flight>>

-----------------------------------------------------------------------------
(* What the controller does (outside the code: the DesignWare-style block   *)
(* the driver's comments describe).                                         *)

\* Put the next beat of channel c on the bus.  A halted channel takes no
\* further beats; a peripheral-paced one needs the peripheral's request.
Fetch(c, requested) ==
    /\ clk
    /\ enabled[c]
    /\ ~ halted[c]
    /\ left[c] > 0
    /\ flight[c] = NoJob
    /\ requested
    /\ left' = [left EXCEPT ![c] = @ - 1]
    /\ flight' = [flight EXCEPT ![c] = job[c]]
    /\ UNCHANGED <<clk, enabled, halted, flow, job>>

\* The outstanding beat reaches memory.  The last beat of a single-block
\* transfer clears the channel's enable bit.
Land(c) ==
    /\ flight[c] # NoJob
    /\ flight' = [flight EXCEPT ![c] = NoJob]
    /\ enabled' = [enabled EXCEPT ![c] = @ /\ left[c] > 0]
    /\ UNCHANGED <<clk, halted, left, flow, job>>
=============================================================================
