SPECIFICATION FollowedSpec
CONSTANTS
    Requests = {r1, r2, r3}
    Keys = {k1, k2}
    NoKey = NoKey
    NoIncident = NoIncident
    Followed = {r1, r2}
INVARIANTS
    CommittedTogether
    OneIncidentPerKey
    AnswersAgree
    JobFindsIncident
    SecondJobWasForgotten
PROPERTIES
    ImplementsCreationContract
    EveryRequestEnds
    FollowedAreInvestigated
CHECK_DEADLOCK FALSE
