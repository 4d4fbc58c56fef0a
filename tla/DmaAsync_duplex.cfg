\* A full-duplex call awaits its two channels in turn.
SPECIFICATION FairSpec
CONSTANTS
    t1 = t1
    t2 = t2
    c1 = c1
    c2 = c2
    NoTask = NoTask
    NoJob = NoJob
    Tasks = {t1}
    Jobs = {t1}
    Signals = {c1, c2}
    Channels = {c1, c2}
    Driver = "block_on"
    OtherWakes = TRUE
    MaxBeats = 1
    MaxCalls = 1
PROPERTIES
    CallReturns
