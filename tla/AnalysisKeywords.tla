--------------------------- MODULE AnalysisKeywords ---------------------------
(***************************************************************************)
(* The keywords an analysis shows to the user's friends, made from the      *)
(* profile that the turns left behind: a model groups entries and names the *)
(* groups, the code keeps of its answer what stands on entries it was       *)
(* given, and makes a side it can keep nothing of from the entries alone.   *)
(*                                                                         *)
(* A label stands for its normalized text.  The names of targets are cut    *)
(* out of it in the order of a Python set; CutLabel is what is left in      *)
(* whatever order that is.                                                  *)
(***************************************************************************)
EXTENDS TasteTurn

CONSTANTS
    Labels,           \* texts of keywords; Values are among them
    Nothing,          \* the empty text
    CutLabel,         \* a label without the names of some targets; Nothing if
                      \* less than two characters are left of it
    OneWord,          \* labels of a word or less
    TooLong,          \* labels longer than MAX_KEYWORD_LENGTH
    KeywordInputLimit,    \* KEYWORD_INPUT_LIMIT
    KeywordLimit,         \* KEYWORD_LIMIT
    SummaryClueLimit,     \* SUMMARY_CLUE_LIMIT
    Answers           \* what the model may answer for the two sides

\* A keyword as the model writes it: a label, and the places of its sources.
Composed == [label : Labels, sources : SUBSET Int]

ASSUME KeywordConstants ==
    /\ Values \cup {Nothing} \subseteq Labels /\ Nothing \in OneWord \ Values
    /\ OneWord \subseteq Labels /\ TooLong \subseteq Labels \ {Nothing}
    /\ CutLabel \in [Labels \X SUBSET Values -> Labels]
    /\ KeywordInputLimit \in Nat \ {0} /\ KeywordLimit \in Nat \ {0}
    /\ SummaryClueLimit \in Nat \ {0}
    /\ Answers \subseteq [taste : Seq(Composed), interest : Seq(Composed)]

TasteKeywordFields == {"preferences"}
InterestKeywordFields == {"interests", "hobbies"}
VisibleToFriends == {"interests", "hobbies", "preferences"}
StoredStatuses == {"active", "inactive"}

-----------------------------------------------------------------------------

\* The places C of the profile, the strongest first.
InRankOrder(C, anchors) ==
    [n \in 1 .. Cardinality(C) |->
        CHOOSE i \in C : Cardinality({j \in C \ {i} : Ranked(profile, C, anchors, j, i)}) = n - 1]

\* The entries of the fields that friends may see, the strongest first and a
\* value once.
RankedFriendSignals(fields, statuses) ==
    LET C == {i \in DOMAIN profile : /\ profile[i].status \in statuses
                                     /\ profile[i].field \in fields \cap VisibleToFriends}
        anchors == {profile[i].value : i \in {j \in DOMAIN profile : /\ profile[j].status = "active"
                                                                     /\ profile[j].field \in QueryFields}}
        Unseen(ranked, i) ==
            IF \E s \in Range(ranked) : s.value = profile[i].value THEN ranked
            ELSE Append(ranked, profile[i])
    IN  FoldLeft(Unseen, <<>>, InRankOrder(C, anchors))

\* No analysis: nothing that counts or, in the last turn, nothing to show.
ProfileTooSparse ==
    IF turn < MaxTurns THEN \A i \in DOMAIN profile : profile[i].status # "active"
    ELSE RankedFriendSignals(TasteKeywordFields \cup InterestKeywordFields, {"active"}) = <<>>

AxesOf(signals) == {s.path : s \in signals} \ {None}
SeenAxes(keywords) == UNION {AxesOf(k.sources) : k \in Range(keywords)}
SeenLabels(keywords) == {k.label : k \in Range(keywords)}

\* A target of one character is not looked for; cut down to a modifier, the
\* label is given up.
StripTargets(label, sources) ==
    LET targets == {t \in {s.target : s \in sources} \ {None} : Length[t] >= 2}
        stripped == CutLabel[label, targets]
    IN  IF stripped # label /\ stripped \in OneWord THEN Nothing ELSE stripped

WithoutTarget(s) ==
    LET stripped == CutLabel[s.value, {s.target} \ {None}]
    IN  IF stripped = Nothing THEN s.value ELSE stripped

\* The model names its sources by their places in signals; one that is not
\* there is passed over.
ComposedKeywords(raw, signals, taste) ==
    LET Compose(keywords, item) ==
            LET sources == {signals[i] : i \in item.sources \cap DOMAIN signals}
                label == IF taste THEN StripTargets(item.label, sources) ELSE item.label
            IN  IF /\ Len(keywords) < KeywordLimit
                   /\ sources # {}
                   /\ label \notin TooLong \cup {Nothing} \cup SeenLabels(keywords)
                   /\ taste => AxesOf(sources) \cap SeenAxes(keywords) = {}
                THEN Append(keywords, [label |-> label, sources |-> sources])
                ELSE keywords
    IN  FoldLeft(Compose, <<>>, raw)

FallbackKeywords(signals, taste) ==
    LET Take(keywords, s) ==
            LET label == IF taste THEN WithoutTarget(s) ELSE s.value
            IN  IF /\ Len(keywords) < KeywordLimit
                   /\ label \notin SeenLabels(keywords)
                   /\ taste => s.path \notin SeenAxes(keywords)
                THEN Append(keywords, [label |-> label, sources |-> {s}])
                ELSE keywords
    IN  FoldLeft(Take, <<>>, signals)

KeywordInput(fields) ==
    LET ranked == RankedFriendSignals(fields, StoredStatuses)
    IN  SubSeq(ranked, 1, Lesser(KeywordInputLimit, Len(ranked)))

\* A model that is not there, late or fails answers nothing on either side.
Keywords_BothOrNeither(tastes, interests, raw) ==
    LET composed == [taste |-> ComposedKeywords(raw.taste, tastes, TRUE),
                     interest |-> ComposedKeywords(raw.interest, interests, FALSE)]
    IN  IF composed.taste # <<>> \/ composed.interest # <<>> THEN composed
        ELSE [taste |-> FallbackKeywords(tastes, TRUE), interest |-> FallbackKeywords(interests, FALSE)]

Keywords(tastes, interests, raw) ==
    LET Made(answer, signals, taste) ==
            LET composed == ComposedKeywords(answer, signals, taste)
            IN  IF composed # <<>> THEN composed ELSE FallbackKeywords(signals, taste)
    IN  [taste |-> Made(raw.taste, tastes, TRUE), interest |-> Made(raw.interest, interests, FALSE)]

-----------------------------------------------------------------------------
(* The summary, which another model writes at the same time. *)

SummaryAsked ==
    \E i \in DOMAIN profile : profile[i].status = "active" /\ profile[i].field \in VisibleToFriends

SummaryClues ==
    LET ranked == RankedFriendSignals(VisibleToFriends, StoredStatuses)
    IN  SubSeq(ranked, 1, Lesser(SummaryClueLimit, Len(ranked)))

-----------------------------------------------------------------------------
(* Properties. *)

\* Whatever the model answers or fails to, an analysis shows a keyword on every
\* side that the profile has something to show on, so one made after the last
\* turn, which is refused only when nothing is left to show, has keywords and
\* asks for a summary; and no keyword and no clue of the summary stands on
\* something private, taken back or by now disliked.
AnalysisShows ==
    at = 0 =>
        LET tastes == KeywordInput(TasteKeywordFields)
            interests == KeywordInput(InterestKeywordFields)
            clues == SummaryClues
            Shown(fields) == \E i \in DOMAIN profile : /\ profile[i].field \in fields
                                                       /\ profile[i].status # "superseded"
        IN  \A raw \in Answers :
            LET made == Keywords(tastes, interests, raw)
                used == Range(clues) \cup UNION {k.sources : k \in Range(made.taste \o made.interest)}
            IN  /\ Shown({"preferences"}) => made.taste # <<>>
                /\ Shown({"interests", "hobbies"}) => made.interest # <<>>
                /\ turn = MaxTurns /\ ~ProfileTooSparse =>
                      made.taste \o made.interest # <<>> /\ SummaryAsked
                /\ SummaryAsked => clues # <<>>
                /\ \A s \in used :
                      /\ LiveAt(profile, {"preferences", "interests", "hobbies"}, s.value) # {}
                      /\ LiveAt(profile, NegativeFields, s.value) = {}

===============================================================================
