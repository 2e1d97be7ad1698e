\* No expiry; crashes, failed and torn writes, both persistence modes.
SPECIFICATION Spec
CONSTANTS
    k1 = k1
    k2 = k2
    v1 = v1
    v2 = v2
    Absent = Absent
    Keys = {k1, k2}
    Values = {v1, v2}
    MaxTimestamp = 1000
    Modes = {"Flush", "Disabled"}
    TtlChoices <- NoTtl
    RenamePairs <- MoveRenames
    TornWrites = TRUE
    MaxRecords = 3
    MaxTime = 0
INVARIANTS TypeOK RecoveredViewExact CompactedLogExact TornTailTolerated
PROPERTIES ImplementsDurableMap
