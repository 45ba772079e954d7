SPECIFICATION PublicationSpec
CONSTANTS
    Requests = {r1, r2, r3, r4}
    NoCase = NoCase
    Candidates = 2
    Publishers = {p1}
    Seeded = Seeded
INVARIANTS
    ShippedWasApproved
    EvaluatedHasCompleteCase
    DecidedAfterEvaluation
    PublishedWasApproved
CHECK_DEADLOCK FALSE
