\* The alarm comes between the reads of the counter.
SPECIFICATION Spec
CONSTANTS
    t1 = t1
    t2 = t2
    Sleepers = {t1}
    Deadlines = {1}
    TcxoHz = 2
    TickHz = 1
    Word = 16
    MaxLoad = 3
    Lane = 4
    MaxCount = 7
PROPERTIES
    NowMonotonic
