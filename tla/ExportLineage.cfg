SPECIFICATION Spec
CONSTANTS
    p1 = p1
    Exporters = {x1, x2}
    MaxCrashes = 1
    Payloads = {p1}
    Receipts = {r1}
    Requests = {}
    Observations = {}
    MaxInvocations = 0
    Foreign = foreign
    InitialHistories <- Cases
CONSTRAINT EarlyOrLate
SYMMETRY Symmetry
INVARIANTS
    LineageIsOneChain
    VerifiesWithoutLateGraph
    StandingPackageIsRecorded
    RecordedPackageVerifies
\* A finished case that is not exported any more.
CHECK_DEADLOCK FALSE
