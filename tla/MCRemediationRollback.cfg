SPECIFICATION RequestSpec
CONSTANTS
    Requests = {r1, r2, r3, r4}
    NoCase = NoCase
    Candidates = 2
PROPERTIES
    RolledBackIsNotPromoted
CHECK_DEADLOCK FALSE
