SPECIFICATION Spec
CONSTANTS
    Requests = {r1, r2, r3}
    Users = {u1}
    Messages = {m1, m2}
    Keywords = {k1}
    Calls = {"create", "stream"}
    Outcomes = {"empty", "sufficient"}
    MaxTurns = 3
    IdleTtl = 1
    MaxLifetime = 2
    MaxSessions = 2
    None = None
SYMMETRY RequestSymmetry
INVARIANTS
    TypeOK TurnsBounded FullProgressEnds AnswersKept NoRepeatedTurn RetryGetsItsReply
