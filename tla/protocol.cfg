\* One connection, every command: pipelining, fragments, negotiation, closing.
SPECIFICATION Spec
CONSTANTS
    k1 = k1
    k2 = k2
    v1 = v1
    c1 = c1
    c2 = c2
    Absent = Absent
    NoSession = NoSession
    Keys = {k1, k2}
    Values = {v1}
    MaxTimestamp = 1000
    Sessions = {c1}
    CommandLines <- ServerCommandLines
    Requests <- ProtocolRequests
    ReadSize = 2
    MaxInput = 3
    MaxRequests = 3
INVARIANTS TypeOK RepliesInOrder NothingAfterClose NoStrandedCommand NoLostWakeup VersionInForce
           PipelineTransparent RepliesMatchCommits LimitSparesSmallRequests
           AnsweredRequestsSurvive
