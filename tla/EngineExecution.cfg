SPECIFICATION FairSpec
CONSTANTS
    p1 = p1
    Payloads = {p1}
    Receipts = {t1, t2}
    Requests = {}
    Observations = {}
    MaxInvocations = 0
    Foreign = foreign
    InitialHistories <- LockedCase
    MaxCrashes = 1
    MaxAlterations <- Alterations
    LastRevision = 7
    MaxGraphs = 1
INVARIANTS
    LastingAlterationIsNoticed
    EvidenceWasValidated
    OutcomeIsKnown
PROPERTY ExecutionsEnd
\* Executions that have ended are not begun again.
CHECK_DEADLOCK FALSE
