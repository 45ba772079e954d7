SPECIFICATION Spec
CONSTANTS
    MaxAttempts = 2
    MaxStalls = 0
    MaxRuns = 2
    Requests = {r1, r2}
    NoCase = NoCase
    Candidates = 1
PROPERTIES
    WorkerTransitionsAreLegal
CHECK_DEADLOCK FALSE
