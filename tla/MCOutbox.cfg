SPECIFICATION FairSpec
CONSTANTS
    Events <- MCEvents
    Pollers = {p1, p2}
    NoPoller = NoPoller
    BatchLimit = 2
    MaxRetries = 2
    MaxFaults = 2
    MaxAborts = 1
    MaxExits = 1
INVARIANTS
    SingleConsumer
    RetriesAreExact
    StrandedIsBounded
PROPERTIES
    ImplementsContract
    PendingIsClaimed
    SettlesUnlessStranded
CHECK_DEADLOCK FALSE
