\* Each block on its own small instance.
SPECIFICATION RegistersSpec
CONSTANTS
    \* PinBank and Pads
    p1 = p1
    p2 = p2
    p3 = p3
    u1 = u1
    f1 = f1
    Pins = {p1, p2, p3}
    BankOfPin <- TwoBanks
    HandlerPins = {p3}
    UlpPins = {p3}
    GpioPads = {p1}
    UartPads = {u1}
    SfcPads = {f1}
    PadSettings <- OneSetting
    Functions = {2, 9}
    \* PwmChannels
    PwmHandles = {1, 2}
    PwmChannelIds = {0, 1}
    PWM_CLOCK_HZ = 20
    PwmMax16 = 7
    PwmHz = {0, 1, 5, 21}
    PwmCounts = {0, 3}
    PwmPercents = {50, 100, 101}
    \* I2s
    I2sModes = {"i2s"}
    I2sChannels = {2, 16}
    I2sWidths = {18}
    I2sThresholds = {8}
    I2sDepth = 1
    \* Efuse and key slots
    OtpBytes = 4
    OtpBits = {0}
    EfMaxRead = 2
    Keyslots = {1, 2}
    KmShared = FALSE
    \* InterruptControl
    IcIrqs = {28, 36}
    SOFT_INT0 = 36
    IcPriorities = {4}
    IcThresholds = {0, 4}
    IcRaises = 1
    \* DmaCache: two lines of two words; the other calls do as one of these three
    CcWords = 4
    CACHE_LINE = 2
    CcLengths = {1, 2}
    CcKinds = {"mem", "write", "uart read"}
INVARIANTS
    RegistersTypeOK
    PwmSafe
    I2sSafe
    EfuseSafe
    IcSafe
    SourceInRam
    CpuSeesLast
PROPERTIES
    PinsSafe
    TakenAsAllowed
    PendServed
