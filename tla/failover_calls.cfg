SPECIFICATION FairSpec
CONSTANTS
    Calls = {c1, c2}
    Models = {reply, plain}
    Fallbacks = {reply}
    NPods = 2
    UseLocator = TRUE
    Cooldown = 1
    MaxCooldown = 2
    ReadTimeout = 1
    MaxExponent = 3
    None = None
INVARIANTS
    OneVoice ReturnBounded
PROPERTY
    PodIsUsed
