SPECIFICATION MCSpec
CONSTANTS
    Topics = {camping, coffee}
    NScenes = 2
    MAX_TURNS = 7
    COMPANION_LIGHTEN_STREAK = 2
    COMPANION_WRAP_STREAK = 4
    MOVE_HISTORY_LIMIT = 5
    TOPIC_FOLLOW_LIMIT = 1
    TOPIC_FOLLOW_LIMIT_ENGAGED = 3
    CHOICE_GAP = 3
    Utterances <- MCUtterances
    MaxReply = 4
    None = None
CHECK_DEADLOCK FALSE
INVARIANTS
    StreamedTextStands TopicsVary
PROPERTY
    AnnouncedEnd
