\* Requests and replies byte by byte: fragments, damage, limits, both versions.
SPECIFICATION Spec
CONSTANTS
    kMaxArguments = 2
    kMaxBulkLength = 2
    MaxLongLong = 9
    Streams <- Pipelines
    Damaged <- DamagedPipelines
    Bytes <- SomeBytes
    Replies <- SomeReplies
    ReadSize = 4
INVARIANTS FragmentsIrrelevant RequestsArrive AcceptedAsAnnounced RepliesReadBack
CHECK_DEADLOCK FALSE
