\* The same log opened with and without a TTL.
SPECIFICATION Spec
CONSTANTS
    k1 = k1
    k2 = k2
    v1 = v1
    v2 = v2
    Absent = Absent
    Keys = {k1}
    Values = {v1}
    MaxTimestamp = 1000
    Modes = {"Flush"}
    TtlChoices <- TtlOnAndOff
    RenamePairs <- NoRenames
    TornWrites = FALSE
    MaxRecords = 2
    MaxTime = 3
INVARIANTS RestoredOnNextRun
