SPECIFICATION ArenaSpec
CONSTANTS
    Candidates = {c1, c2, c3}
    Latencies = {5, 20, 21}
    NoCandidate = NoCandidate
INVARIANTS
    WinnerIsBest
    WinnerIsNotDominated
SYMMETRY Symmetry
CHECK_DEADLOCK FALSE
