SPECIFICATION GatesSpec
CONSTANTS
    EvidenceIds = {e1, e2}
    MaxFailures = 4
INVARIANTS
    SupportedExactlyWhenStrict
PROPERTY
    FailingGateNeverSupports
\* The exploration ends when MaxFailures gates have failed.
CHECK_DEADLOCK FALSE
