\* The guards and SpiDma::write_dma, with a bus that does not stall.
SPECIFICATION Spec
CONSTANTS
    k1 = k1
    k2 = k2
    c1 = c1
    c2 = c2
    NoJob = NoJob
    Jobs <- MCOwners
    Channels <- MCChannels
    MaxBeats = 2
    WaitLoops = 2
    Kinds = {"mem", "periSpi", "periUart", "spiWrite"}
    RawControls = FALSE
    BusMayStall = FALSE
    RxHeld = 1
    RxSticks = FALSE
SYMMETRY MCSymmetry
INVARIANTS
    TypeOK
    BufferGuarded
    StoppedInOrder
    TokensMatchClaims
    OkMeansComplete
PROPERTIES
    LoanSpec
