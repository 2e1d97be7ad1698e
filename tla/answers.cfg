\* Requests are answered and sessions freed, under fairness of the event loop.
SPECIFICATION Spec
CONSTANTS
    k1 = k1
    k2 = k2
    v1 = v1
    c1 = c1
    c2 = c2
    Absent = Absent
    NoSession = NoSession
    Keys = {k1, k2}
    Values = {v1}
    MaxTimestamp = 1000
    Sessions = {c1, c2}
    CommandLines <- DefaultCommandLine
    Requests <- FairRequests
    ReadSize = 2
    MaxInput = 3
    MaxRequests = 2
PROPERTIES RequestsAnswered SessionsReleased
