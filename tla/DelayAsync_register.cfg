\* A task that only its own waker has polled again.
SPECIFICATION FairSpec
CONSTANTS
    t1 = t1
    t2 = t2
    c1 = c1
    c2 = c2
    NoTask = NoTask
    Tasks = {t1}
    Signals = {c1}
    Driver = "wakers"
    OtherWakes = FALSE
    MaxTicks = 1
PROPERTIES
    DelayReturns
