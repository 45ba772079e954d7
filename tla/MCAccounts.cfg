SPECIFICATION MCSpec
CONSTANTS
    Seedings = {d1, d2}
    SignIns = {s1, s2}
    Emails = {"admin", "guest"}
    Roles = {"VIEWER"}
    Slugs = {"team"}
    ScenarioCount = 2
    None = None
    MaxCalls = 3
    MaxSessions = 3
    Personas = {p1, p2}
    Nobody = Nobody
INVARIANTS
    MembersAreAtHome
    SessionsAreBacked
    SeedingHeals
    SuccessIsComplete
    SessionsKeepTheirEnd
    ShownIsSignedIn
CHECK_DEADLOCK FALSE
SYMMETRY Symmetry
