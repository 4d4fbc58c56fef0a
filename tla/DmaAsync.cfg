\* Two tasks and two channels, polled for other reasons as well.
SPECIFICATION FairSpec
CONSTANTS
    t1 = t1
    t2 = t2
    c1 = c1
    c2 = c2
    NoTask = NoTask
    NoJob = NoJob
    Tasks = {t1, t2}
    Jobs = {t1, t2}
    Signals = {c1, c2}
    Channels = {c1, c2}
    Driver = "wakers"
    OtherWakes = TRUE
    MaxBeats = 2
    MaxCalls = 2
INVARIANTS
    BufferSafe
PROPERTIES
    CompletionNoticed
