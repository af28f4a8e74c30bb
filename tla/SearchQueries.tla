----------------------------- MODULE SearchQueries -----------------------------
(***************************************************************************)
(* From a stored profile to the queries of a recommendation: the signals and *)
(* the guide of app/application/recommendation_service.py, and the queries    *)
(* of app/domain/recommendation/queries.py.                                  *)
(*                                                                         *)
(* A text is what it is made of, the words and the form of the sentence they  *)
(* stand in; two texts are equal when the code's strings are.  Weights are in *)
(* hundredths; a signal's weight is its rank score, or its confidence, which   *)
(* is positive.                                                              *)
(***************************************************************************)
EXTENDS Integers, Sequences, FiniteSets, SequencesExt

CONSTANTS
    Within,             \* pairs of values, the first a substring of the second
    Pets,               \* the category of animals
    ONBOARDING_INTEREST_WEIGHT,
    MAX_QUERIES, MIN_PRIMARY_WEIGHT, MIN_PRIMARY_QUERIES,
    MAX_TASTE_QUERIES, MAX_SITUATION_QUERIES, MAX_CROSS_INTERESTS,
    None                \* Python's None

ASSUME QueryConstants ==
    /\ ONBOARDING_INTEREST_WEIGHT \in Nat /\ MIN_PRIMARY_WEIGHT \in Nat
    /\ MAX_QUERIES \in Nat /\ MIN_PRIMARY_QUERIES \in Nat
    /\ MAX_TASTE_QUERIES \in Nat /\ MAX_SITUATION_QUERIES \in Nat /\ MAX_CROSS_INTERESTS \in Nat

Modes == {"self", "gift"}

\* The fields with queries of their own, and where and for whom they search
FieldRules ==
    [ interests    |-> [space |-> "content", modes |-> Modes],
      hobbies      |-> [space |-> "usage",   modes |-> Modes],
      wants        |-> [space |-> "content", modes |-> Modes],
      unaffordable |-> [space |-> "gift",    modes |-> {"gift"}],
      consumables  |-> [space |-> "content", modes |-> {"self"}] ]

GiftQueryFields == {"interests", "hobbies", "wants"}

\* An item of the profile as a signal.  aspect: what a preference is about, a
\* feature of things ("content"), a situation or a motive; target: the
\* interest it belongs to; age: half-lives since it was said.
Signal(field, value, category, weight) ==
    [ field |-> field, value |-> value, category |-> category, weight |-> weight, confidence |-> weight,
      aspect |-> None, target |-> None, deferral |-> None, age |-> 0 ]

\* intent_key
Key(signal) == <<signal.value, signal.category>>

IntentTargets(signals) == {Key(s) : s \in {t \in signals : t.field \in DOMAIN FieldRules}}

-----------------------------------------------------------------------------
(* recommendation_inputs: a chosen category is a signal like the others, and   *)
(* what the user dislikes or cannot use only guides the search.                *)

OnboardingSignals(interests) ==
    {Signal("interests", i.value, i.category, ONBOARDING_INTEREST_WEIGHT) : i \in interests}

Signals(profile, interests) ==
    {s \in profile : s.field \notin {"dislikes", "constraints"}} \cup OnboardingSignals(interests)

Exclusions(profile) == {s.value : s \in {t \in profile : t.field \in {"dislikes", "constraints"}}}

Preferences(profile) ==
    {s.value : s \in {t \in profile : t.field = "preferences" /\ t.aspect = "content"}}

KnowsPets(profile, interests) ==
    \/ \E i \in interests : i.category = Pets
    \/ \E s \in profile : s.field \notin {"dislikes", "constraints"} /\ s.category = Pets

-----------------------------------------------------------------------------
(* Orders.  The elements of S from the first on, Before being a total order.   *)

Ordered(S, Before(_, _)) ==
    [i \in 1 .. Cardinality(S) |->
        CHOOSE x \in S : Cardinality({y \in S : Before(y, x)}) = i - 1]

Take(seq, n) == SubSeq(seq, 1, IF Len(seq) < n THEN Len(seq) ELSE n)

\* What stands at some places of a sequence, in its order
At(seq, places) ==
    LET at == Ordered(places, LAMBDA i, j : i < j)
    IN  [n \in DOMAIN at |-> seq[at[n]]]

\* Any total order of the signals, for what the code decides by their words
Tie(signals) == CHOOSE f \in [signals -> 1 .. Cardinality(signals)] :
                    \A s, t \in signals : f[s] = f[t] => s = t

ByWeight(signals) ==
    LET tie == Tie(signals)
    IN  Ordered(signals, LAMBDA s, t :
            \/ s.weight > t.weight
            \/ s.weight = t.weight /\ s.confidence > t.confidence
            \/ s.weight = t.weight /\ s.confidence = t.confidence /\ s.age < t.age
            \/ s.weight = t.weight /\ s.confidence = t.confidence /\ s.age = t.age /\ tie[s] < tie[t])

\* _spread: round robin over the categories, each in the order of weight; a
\* signal without a category is a category of its own.
Spread(signals) ==
    LET I == 1 .. Len(signals)
        Same(i) == IF signals[i].category = None THEN {i}
                   ELSE {j \in I : signals[j].category = signals[i].category}
        group == [i \in I |-> CHOOSE j \in Same(i) : \A k \in Same(i) : j <= k]
        depth == [i \in I |-> Cardinality({j \in Same(i) : j < i})]
        turns == Ordered(I, LAMBDA i, j : \/ depth[i] < depth[j]
                                          \/ depth[i] = depth[j] /\ group[i] < group[j])
    IN  [n \in I |-> signals[turns[n]]]

-----------------------------------------------------------------------------
(* Texts and queries.                                                         *)

Text(form, words) == [form |-> form, words |-> words]

\* An intent says what to look for in each space; without one, a template does
QueryText(s, space, intents) ==
    CASE Key(s) \in intents      -> Text(<<"intent", space>>, Key(s))
      [] space = "usage"         -> Text(<<"activity">>, <<s.value>>)
      [] space = "gift"          -> Text(<<"present">>, <<s.value>>)
      [] s.field = "interests"   -> Text(<<"related">>, <<s.value>>)
      [] OTHER                   -> Text(<<"plain">>, <<s.value>>)

Query(kind, n, s, modes, space, text, anchor) ==
    [ kind |-> kind, n |-> n, signal |-> s, modes |-> modes, space |-> space, text |-> text,
      anchor |-> anchor ]

IsExplore(query) == query.kind = "e"
IsInterest(query) == ~IsExplore(query) /\ query.signal.field # "preferences"
IsCoverage(query) == IsInterest(query) /\ query.space # "gift"

\* The interests with a query: the strong ones, or the strongest few
Interests(signals) ==
    LET eligible == ByWeight({s \in signals : s.field \in DOMAIN FieldRules})
        strong   == At(eligible, {i \in DOMAIN eligible : eligible[i].weight >= MIN_PRIMARY_WEIGHT})
    IN  Take(Spread(IF Len(strong) < MIN_PRIMARY_QUERIES
                    THEN Take(eligible, MIN_PRIMARY_QUERIES) ELSE strong), MAX_QUERIES)

InterestQueries(interests, intents) ==
    [ i \in 1 .. Len(interests) |->
        LET s == interests[i] rule == FieldRules[s.field]
        IN  Query("q", i, s, rule.modes, rule.space, QueryText(s, rule.space, intents), None) ]

GiftQueries(interests, intents) ==
    LET given == At(interests, {i \in DOMAIN interests : interests[i].field \in GiftQueryFields})
    IN  [ i \in 1 .. Len(given) |->
            Query("g", i, given[i], {"gift"}, "gift", QueryText(given[i], "gift", intents), None) ]

Tastes(signals, aspect) ==
    Spread(ByWeight({s \in signals : s.field = "preferences" /\ s.aspect = aspect}))

\* _with_target: the words of a taste and of the interest it belongs to
WithTarget(s) == IF <<s.target, s.value>> \in Within THEN <<s.value>> ELSE <<s.value, s.target>>

\* A taste of its own interest stands alone, any other with each anchor
TasteQueries(signals, anchors) ==
    LET Combined(s) ==
            IF s.target # None
            THEN <<[signal |-> s, text |-> Text(<<"related">>, WithTarget(s)), anchor |-> None]>>
            ELSE [i \in 1 .. Len(anchors) |->
                    [ signal |-> s, anchor |-> anchors[i],
                      text |-> Text(<<"related", "among">>, <<anchors[i].value, s.value>>) ]]
        tastes == Tastes(signals, "content")
        all == Take(FlattenSeq([i \in 1 .. Len(tastes) |-> Combined(tastes[i])]), MAX_TASTE_QUERIES)
    IN  [i \in 1 .. Len(all) |->
            Query("t", i, all[i].signal, Modes, "content", all[i].text, all[i].anchor)]

\* A situation is joined with the strongest interest unless it names it
SituationQueries(signals, anchors) ==
    LET situations == Take(Tastes(signals, "situation"), MAX_SITUATION_QUERIES)
        Joins(s) == s.target = None /\ anchors # <<>> /\ <<anchors[1].value, s.value>> \notin Within
        Words(s) == IF s.target # None THEN WithTarget(s)
                    ELSE IF Joins(s) THEN <<s.value, anchors[1].value>> ELSE <<s.value>>
    IN  [i \in 1 .. Len(situations) |->
            LET s == situations[i]
            IN  Query("s", i, s, Modes, "usage", Text(<<"activity">>, Words(s)),
                      IF Joins(s) THEN anchors[1] ELSE None)]

\* Of the same text in the same space, the first
UniqueTexts(queries) ==
    LET Same(i, j) == queries[i].space = queries[j].space /\ queries[i].text = queries[j].text
    IN  At(queries, {i \in DOMAIN queries : \A j \in 1 .. i - 1 : ~Same(i, j)})

BuildSearchQueries(signals, intents) ==
    LET interests == Interests(signals)
        shared == {i \in DOMAIN interests : interests[i].field \in {"interests", "hobbies"}}
        anchors == Take(At(interests, shared), MAX_CROSS_INTERESTS)
    IN  UniqueTexts(InterestQueries(interests, intents) \o GiftQueries(interests, intents)
                    \o TasteQueries(signals, anchors) \o SituationQueries(signals, anchors))

\* One query per interest with an intent, for when the catalog has nothing of it
BuildExploreQueries(queries, intents) ==
    LET known == {i \in DOMAIN queries :
                    IsCoverage(queries[i]) /\ Key(queries[i].signal) \in intents}
        Same(i, j) == Key(queries[i].signal) = Key(queries[j].signal)
        first == At(queries, {i \in known : \A j \in known : j < i => ~Same(i, j)})
    IN  [i \in 1 .. Len(first) |->
            Query("e", i, first[i].signal, Modes, "content",
                  Text(<<"explore">>, Key(first[i].signal)), None)]

===============================================================================
