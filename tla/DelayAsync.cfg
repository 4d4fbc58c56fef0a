\* Two tasks on two channels, polled for other reasons as well.
SPECIFICATION FairSpec
CONSTANTS
    t1 = t1
    t2 = t2
    c1 = c1
    c2 = c2
    NoTask = NoTask
    Tasks = {t1, t2}
    Signals = {c1, c2}
    Driver = "wakers"
    OtherWakes = TRUE
    MaxTicks = 2
PROPERTIES
    DelaySafe
    DelayReturns
