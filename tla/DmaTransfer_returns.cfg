SPECIFICATION FairSpec
CONSTANTS
    k1 = k1
    k2 = k2
    c1 = c1
    c2 = c2
    NoJob = NoJob
    Jobs = {k1}
    Channels <- MCChannels
    MaxBeats = 1
    WaitLoops = 2
    Kinds = {"mem", "periSpi", "periUart", "spiWrite", "spiDuplex", "uart"}
    RawControls = TRUE
    BusMayStall = TRUE
    RxHeld = 1
    RxSticks = FALSE
PROPERTIES
    ControlReturns
