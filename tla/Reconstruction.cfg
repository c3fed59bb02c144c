SPECIFICATION FairSpec
CONSTANTS
    p1 = p1
    p2 = p2
    Payloads = {p1, p2}
    Receipts = {t1}
    Requests = {q1}
    Observations = {o1}
    MaxInvocations = 1
    Foreign = foreign
    InitialHistories <- NearlyFinalCase
INVARIANTS ReturnsACommittedCase
PROPERTY QuietCaseIsRead
