SPECIFICATION FairSpec
CONSTANTS
    MaxAttempts = 3
    MaxStalls = 1
    MaxRuns = 4
INVARIANTS
    ReproducedIsSupported
    CompletedIsSupported
    EffectsAreBounded
PROPERTIES
    ImplementsJobContract
    JobEnds
