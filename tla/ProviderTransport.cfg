SPECIFICATION Spec
CONSTANTS
    EvidenceIds <- Evidence
    FactIds <- Facts
    Verdicts = {"rejected", "supported"}
    MaximumContextItems = 10
    MaximumRetries = 2
    Calls <- SomeCalls
    Replies <- SomeReplies
    ClockSteps <- BackAndForth
CONSTRAINT GroupsExplored
INVARIANTS
    RetriesAreLicensed
    RecordIsGenuine
    
    OnlyDisturbedGroupsLoseObservations
CHECK_DEADLOCK FALSE
