\* Renaming a key to itself, seen by the client.
SPECIFICATION Spec
CONSTANTS
    k1 = k1
    k2 = k2
    v1 = v1
    v2 = v2
    Absent = Absent
    Keys = {k1}
    Values = {v1}
    MaxTimestamp = 1000
    Modes = {"Flush"}
    TtlChoices <- NoTtl
    RenamePairs <- SelfRename
    TornWrites = FALSE
    MaxRecords = 3
    MaxTime = 0
INVARIANTS RenameMovesValue
