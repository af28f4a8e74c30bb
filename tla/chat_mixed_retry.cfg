SPECIFICATION Spec
CONSTANTS
    Requests = {r1}
    Users = {u1}
    Messages = {m1}
    Keywords = {k1}
    Calls = {"create", "send", "stream"}
    Outcomes = {"some"}
    MaxTurns = 3
    IdleTtl = 1
    MaxLifetime = 1
    MaxSessions = 1
    None = None
INVARIANT
    RetryGetsItsReply
