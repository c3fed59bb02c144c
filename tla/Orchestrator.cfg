SPECIFICATION FairSpec
CONSTANTS
    p1 = p1
    p2 = p2
    Clients = {c1, c2}
    MaxCrashes = 1
    Payloads = {p1, p2}
    Receipts = {}
    Requests = {q1}
    Observations = {o1}
    MaxInvocations = 2
    Foreign = foreign
    InitialHistories <- FollowUpCase
INVARIANTS
    ReturnedOutputIsOnRecord
    RefusedOnlyForCause
PROPERTIES
    CaseIsFinalized
    CallsEnd
\* Two early claim graphs make a case unreadable: no call can begin.
CHECK_DEADLOCK FALSE
