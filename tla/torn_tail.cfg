\* Appending to a log whose last record is incomplete.
SPECIFICATION Spec
CONSTANTS
    k1 = k1
    k2 = k2
    v1 = v1
    v2 = v2
    Absent = Absent
    Keys = {k1}
    Values = {v1}
    MaxTimestamp = 1000
    Modes = {"Flush"}
    TtlChoices <- NoTtl
    RenamePairs <- NoRenames
    TornWrites = TRUE
    MaxRecords = 2
    MaxTime = 0
INVARIANTS AcknowledgedSurvive
