SPECIFICATION FairSpec
CONSTANTS
    x1 = x1
    x2 = x2
    e1 = e1
    e2 = e2
    Experiments = {x1, x2}
    EvidenceIds = {e1, e2}
    Protocols <- MCProtocols
    MethodologyReviews <- MCMethodologyReviews
    EvidenceTables <- MCEvidenceTables
    StatisticalReviews <- MCStatisticalReviews
    AdversarialReviews <- MCAdversarialReviews
    ReproducibilityReviews <- MCReproducibilityReviews
    TimeSteps = {0, 1}
    ClockOffsets <- DriftingOffsets
INVARIANTS
    CaseIsReplayOfLog
    VerdictFollowsRecord
    UnsoundCaseGetsNoVerdict
    EvidenceUnderApprovedProtocol
    RecordIsOnOneTimeLine
PROPERTY
    FinalizedOrWedged
\* A finalized case, and a wedged one, has no further step.
CHECK_DEADLOCK FALSE
CONSTRAINT DriftOnlyWhenPlain
