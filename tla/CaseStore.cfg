SPECIFICATION Spec
CONSTANTS
    p1 = p1
    p2 = p2
    Payloads = {p1, p2}
    Receipts = {t1, t2}
    Requests = {q1}
    Observations = {o1}
    MaxInvocations = 2
    Foreign = foreign
    InitialHistories <- NoCase
INVARIANTS
    UnreadableOnlyByGraph
    EvidenceHasOneOrigin
    ChairVoteCompletesCase
    AcceptedVoteIsItsEvent
PROPERTIES
    NothingIsRewritten
    ImplementsLedger
\* A finalized case accepts no further write.
CHECK_DEADLOCK FALSE
CONSTRAINT LateDisagreement
