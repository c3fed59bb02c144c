SPECIFICATION Spec
CONSTANTS
    p1 = p1
    Exporters = {x1, x2}
    MaxCrashes = 0
    Payloads = {p1}
    Receipts = {}
    Requests = {}
    Observations = {}
    MaxInvocations = 0
    Foreign = foreign
    InitialHistories <- VerifiedCase
SYMMETRY Symmetry
INVARIANT ParentIsPriorManifest
CHECK_DEADLOCK FALSE
