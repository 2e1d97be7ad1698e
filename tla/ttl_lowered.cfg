\* The same log opened with a long and with a short TTL.
SPECIFICATION Spec
CONSTANTS
    k1 = k1
    k2 = k2
    v1 = v1
    v2 = v2
    Absent = Absent
    Keys = {k1}
    Values = {v1, v2}
    MaxTimestamp = 1000
    Modes = {"Flush"}
    TtlChoices <- TwoTtls
    RenamePairs <- NoRenames
    TornWrites = FALSE
    MaxRecords = 2
    MaxTime = 3
INVARIANTS CompactedLogExact
