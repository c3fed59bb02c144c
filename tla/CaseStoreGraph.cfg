SPECIFICATION Spec
CONSTANTS
    p1 = p1
    p2 = p2
    Payloads = {p1}
    Receipts = {t1}
    Requests = {q1}
    Observations = {o1}
    MaxInvocations = 1
    Foreign = foreign
    InitialHistories <- ReviewedCase
INVARIANTS
    FinalGraphIsTheOnlyOne
\* A finalized case accepts no further write.
CHECK_DEADLOCK FALSE
