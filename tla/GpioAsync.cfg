\* Two pins in banks of their own.
SPECIFICATION FairSpec
CONSTANTS
    t1 = t1
    t2 = t2
    b1 = b1
    b2 = b2
    NoTask = NoTask
    Tasks = {t1, t2}
    Signals = {b1, b2}
    Driver = "wakers"
    OtherWakes = TRUE
    BankOf <- OwnBanks
    Waits = {"high", "falling", "any"}
PROPERTIES
    WaitSafe
    EdgeNoticed
