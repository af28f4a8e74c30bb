SPECIFICATION TurnSpec
CONSTANTS
    camping = camping
    weekend_camping = weekend_camping
    coffee = coffee
    anything = anything
    outdoors = outdoors
    alone = alone
    weekend = weekend
    at_leisure = at_leisure
    a_long_phrase = a_long_phrase
    Values = {camping, weekend_camping, coffee, anything}
    GenericValues = {anything}
    Axes = {alone}
    Categories = {outdoors}
    Paths = {alone, outdoors}
    Length <- MCLength
    VariantOf <- MCVariantOf
    Judgments <- MCJudgments
    Extractions <- MCExtractions
    MaxCandidates = 3
    MaxTargets = 2
    MaxItems = 2
    MaxQuery = 2
    MaxWeight = 1
    MaxOwned = 1
    MaxTurns = 3
    None = None
    Nothing = Nothing
    Labels = {camping, weekend_camping, coffee, anything, weekend, at_leisure, a_long_phrase, Nothing}
    CutLabel <- MCCutLabel
    OneWord = {camping, coffee, anything, weekend, Nothing}
    TooLong = {a_long_phrase}
    KeywordInputLimit = 2
    KeywordLimit = 2
    SummaryClueLimit = 2
    Answers <- MCAnswers
CHECK_DEADLOCK FALSE
INVARIANTS
    TypeOK OneSide OneEntry ConfidenceEarned LimitsMet AnalysisShows
PROPERTIES
    DislikesHold TakenBackStays MentionsSpoken
