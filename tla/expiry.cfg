\* Keys expire while the clock moves; crashes and compactions; no renames.
SPECIFICATION Spec
CONSTANTS
    k1 = k1
    k2 = k2
    v1 = v1
    v2 = v2
    Absent = Absent
    Keys = {k1, k2}
    Values = {v1, v2}
    MaxTimestamp = 1000
    Modes = {"Flush"}
    TtlChoices = {2}
    RenamePairs <- NoRenames
    TornWrites = FALSE
    MaxRecords = 3
    MaxTime = 4
INVARIANTS RecoveredViewExact CompactedLogExact TtlTracksData
PROPERTIES OperationsEnd
