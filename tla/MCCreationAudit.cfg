SPECIFICATION Spec
CONSTANTS
    Requests = {r1, r2}
    Keys = {k1, k2}
    NoKey = NoKey
    NoIncident = NoIncident
INVARIANTS
    ToldIsAudited
CHECK_DEADLOCK FALSE
