SPECIFICATION FairSpec
CONSTANTS
    Requests = {r1, r2}
    Users = {u1}
    Messages = {m1}
    Keywords = {k1}
    Calls = {"create", "send", "analyze", "patch", "close"}
    Outcomes = {"empty", "thin", "some"}
    MaxTurns = 2
    IdleTtl = 1
    MaxLifetime = 2
    MaxSessions = 2
    None = None
INVARIANTS
    AnalysisFresh CopyIsCurrent CloseMatchesRecommendation
PROPERTIES
    KeepsLifecycle CallsEnd
