SPECIFICATION Spec
CONSTANTS
    MaxAttempts = 1
    MaxStalls = 1
    MaxRuns = 2
    Requests = {r1, r2, r3}
    NoCase = NoCase
    Candidates = 1
PROPERTIES
    ImplementsRemediation
    ImplementsInvestigation
SYMMETRY RequestSymmetry
CHECK_DEADLOCK FALSE
