SPECIFICATION GraphSpec
CONSTANTS
    NodeIds = {1, 2, 3, 4}
    EdgeIds = {1, 2, 3}
    Hashes = {"h1", "h2"}
    Offers <- Candidates
    Ledgers <- OneItem
INVARIANTS
    NeverCyclic
    StoredClaimsRestOnEvidence
    StoredGraphIsReadable
\* A graph that is read stays.
CHECK_DEADLOCK FALSE
