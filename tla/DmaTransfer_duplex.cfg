\* SpiDma::transfer_dma, on a bus that does not stall.
SPECIFICATION Spec
CONSTANTS
    k1 = k1
    k2 = k2
    c1 = c1
    c2 = c2
    NoJob = NoJob
    Jobs = {k1}
    Channels <- MCChannels
    MaxBeats = 2
    WaitLoops = 2
    Kinds = {"spiDuplex"}
    RawControls = FALSE
    BusMayStall = FALSE
    RxHeld = 1
    RxSticks = FALSE
INVARIANTS
    NoStrayBeat
