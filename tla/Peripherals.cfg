\* Each driver on its own small instance.  A hart that has nothing left to do and a bus
\* that is stuck may stop, as may a device that nobody calls, or a chip that its watchdog
\* has reset.
SPECIFICATION PeripheralsSpec
CHECK_DEADLOCK FALSE
CONSTANTS
    \* I2cMaster
    MaxLen = 2
    MaxOps = 2
    EmptyReads = FALSE
    LateAnswers = FALSE
    \* UartAsync: block_on, and the status bit as it is on the silicon
    t1 = t1
    t2 = t2
    s1 = s1
    NoTask = NoTask
    Tasks = {t1}
    Signals = {s1}
    Driver = "block_on"
    OtherWakes = TRUE
    MaxBytes = 4
    StatusLags = TRUE
    \* UartPort: two of the rates are out of the divider's range
    UART_CLOCK_HZ = 5
    UartBootHz = 1
    UartBauds = {1, 2, 6}
    UartDivMax = 3
    UartFraction = 4
    UartDepth = 2
    UartBytes = 3
    UartShared = FALSE
    \* SpiMaster: two of the clocks are out of the divider's range
    SPI_CLOCK_HZ = 20
    SckdvMax = 4
    SpiHz = {0, 3, 7}
    SpiBits = {16}
    SpiFrames = 4
    SpiDepth = 2
    SpiLengths = {0, 1, 2}
    \* I2cV151
    V151MaxLen = 2
    V151Depth = 2
    V151Refuse = 3
    \* SfcFlash
    BufBytes = 4
    WordBytes = 2
    EmptyWrites = FALSE
    SfcOverlap = FALSE
    \* Sensors
    AdcChannels = {0, 1}
    AdcDepth = 2
    MaxConversions = 3
    AdcPolled = TRUE
    AdcOtherWakes = TRUE
    \* Gadc
    GadcInputs = {0, 1}
    SignBit = 2
    GadcMaxConversions = 5
    \* Entropy
    TrngWords = 3
    TrngDepth = 2
    TrngBytes = 2
    TrngAsked = {1, 3}
    TrngShared = FALSE
    \* EmbassyTime: half a tick per count; one deadline is past what 2^64 can convert
    Sleepers = {t1, t2}
    Deadlines = {1, 3, 8}
    TcxoHz = 2
    TickHz = 1
    Word = 16
    MaxLoad = 3
    Lane = 4
    MaxCount = 7
    \* Watchdog
    WdtTicksPerMs = 3
    WdtReserve = 2
    WDT_MAX_LOAD = 1
    WdtInputs = {0, 1, 2}
    \* Timers: three ticks take two microseconds
    TmTicks = 3
    TmUnits = 2
    TmMax = 3
    TmInputs = {0, 1, 3}
    TmZeroFires = TRUE
    \* LatchedCounter
    LcHalf = 2
    LcMax = 5
INVARIANTS
    PeripheralsTypeOK
    OkMeansObeyed
    SpiSafe
    V151Safe
    SfcSafe
    ResultsOwn
    TimesTrue
    AlarmPending
    AlarmForEarliest
    WdtSafe
PROPERTIES
    WireSpec
    AwaitedByteIsFresh
    UartSafe
    RandomSafe
    NeverEarly
    CallsReturn
    EventsNoticed
