SPECIFICATION FairSpec
CONSTANTS
    Events <- MCEvents
    Pollers = {p1, p2}
    NoPoller = NoPoller
    BatchLimit = 2
    MaxRetries = 2
    MaxFaults = 2
    MaxAborts = 0
    MaxExits = 1
PROPERTIES
    EveryEventSettles
CHECK_DEADLOCK FALSE
