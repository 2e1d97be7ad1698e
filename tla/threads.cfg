\* Threads share one database: two mutexes, reads and writes interleaved.
SPECIFICATION Spec
CONSTANTS
    k1 = k1
    k2 = k2
    v1 = v1
    v2 = v2
    t1 = t1
    t2 = t2
    t3 = t3
    Absent = Absent
    NoThread = NoThread
    NoCall = NoCall
    Keys = {k1, k2}
    Values = {v1, v2}
    MaxTimestamp = 1000
    Threads = {t1, t2, t3}
    Calls <- SomeCalls
    TtlChoices <- TtlOnAndOff
    Deadlines = {1, 2}
    FirstEvents <- EmptyOrOneKey
    MaxCalls = 3
INVARIANTS TypeOK LogAgreesWithMemory
PROPERTIES Linearizable CallsReturn
CHECK_DEADLOCK FALSE
