-------------------------- MODULE RecommendationRequest --------------------------
(***************************************************************************)
(* One request of V1RecommendationService.recommend_lists, as              *)
(* RecommendationEngine.recommend serves it: the searches of the queries, of  *)
(* the dislikes and of the preferences, the explore searches of the interests *)
(* the catalog has nothing for, the two lists, and the reasons a model        *)
(* rewrites (recommendation_reason_service.py, reasons.py).                   *)
(*                                                                         *)
(* How near the products are to a text is the embedding model's and any shape  *)
(* of Nearness.  A reason is the set of the profile's values it names.         *)
(***************************************************************************)
EXTENDS Ranking

CONSTANTS
    Requests,           \* [profile, interests, allergies, gift_exclusions]
    Nearness,           \* functions from Products to similarities
    CLUE_LIMIT,
    ShortValues,        \* values of a single character once normalised
    MaxAnswers          \* bound: reasons the model returns for one list

ASSUME RequestConstants ==
    /\ \A r \in Requests :
          /\ IsFiniteSet(r.profile) /\ IsFiniteSet(r.interests)
          /\ \A s \in r.profile : s.weight \in Nat /\ s.confidence \in Nat /\ s.age \in Nat
    /\ Nearness \subseteq [Products -> -100 .. 100]
    /\ CLUE_LIMIT \in Nat

VARIABLES
    stage,              \* "waiting", "searching", "exploring", "answering"
    request, intents,   \* what the request carries, and the intents the store knows
    queries, found,     \* the queries in their order, and what each found so far
    dislike_near,       \* how near each product is to each dislike searched so far
    disliked, preferred,\* what the searches of dislikes and preferences found
    uncovered, explore, \* interests without products, and their explore queries
    explored,           \* what each of those found so far
    lists,              \* the list of each mode
    rewritten, answers  \* gift reasons the model rewrote, and how many it returned

vars == <<stage, request, intents, queries, found, dislike_near, disliked, preferred, uncovered,
          explore, explored, lists, rewritten, answers>>

inputs == <<request, intents, queries>>
searches == <<found, dislike_near, disliked, preferred>>
secondary == <<uncovered, explore, explored>>
rewrites == <<rewritten, answers>>

Empty == <<>>
With(f, x, y) == [z \in DOMAIN f \cup {x} |-> IF z = x THEN y ELSE f[z]]
NoLists == [mode \in Modes |-> Empty]

Exclusion ==
    BuildCatalogExclusion(request.allergies, request.gift_exclusions,
                          ~KnowsPets(request.profile, request.interests))
Dislikes == Exclusions(request.profile)
Preferred == Preferences(request.profile)

-----------------------------------------------------------------------------
(* Reasons.                                                                   *)

\* _shown: a friend sees no wants, no deferred wishes and no consumables
Shown(s, mode) == mode = "self" \/ s.field \in {"interests", "hobbies", "preferences"}

SignalOf(m) == m.query.signal
Found(item) == At(item.matches, {i \in DOMAIN item.matches : ~IsExplore(item.matches[i].query)})

Uniques(values) == At(values, {i \in DOMAIN values : \A j \in 1 .. i - 1 : values[j] # values[i]})

SharedInterests(item, mode) ==
    LET matches == Found(item)
        near == {i \in DOMAIN matches :
                    /\ SignalOf(matches[i]).field \in {"interests", "hobbies"}
                    /\ matches[i].similarity >= SHARED_REASON_MIN_SIMILARITY
                    /\ Shown(SignalOf(matches[i]), mode)}
        shared == At(matches, near)
    IN  Uniques([i \in DOMAIN shared |-> SignalOf(shared[i]).value])

\* recommendation_reason: the values it names
Reason(item, mode, label) ==
    LET matches == IF IsNew(item) THEN item.matches ELSE Found(item)
        s       == SignalOf(matches[1])
        own     == IF Shown(s, mode) THEN {s.value} ELSE {}
        shared  == SharedInterests(item, mode)
        extra   == {label} \ {None}
    IN  IF IsNew(item) THEN own
        ELSE IF Len(shared) >= 2 THEN {shared[1], shared[2]} \cup extra
        ELSE IF s.field = "preferences" THEN own
        ELSE own \cup extra

Clues_HidesOne(item, mode, label) ==
    LET m == IF IsNew(item) THEN item.matches[1] ELSE Found(item)[1]
    IN  [ likes |-> {}, hidden |-> IF Shown(SignalOf(m), mode) THEN {} ELSE {SignalOf(m).value} ]

\* reason_clues: what the model may name, and what it may not
Clues(item, mode, label) ==
    LET matches == IF IsNew(item) THEN item.matches ELSE Found(item)
        shown   == At(matches, {i \in DOMAIN matches : Shown(SignalOf(matches[i]), mode)})
        near(i) == i = 1 \/ shown[i].similarity >= SHARED_REASON_MIN_SIMILARITY
        named   == Uniques([i \in DOMAIN shown |->
                               IF near(i) THEN SignalOf(shown[i]).value ELSE SignalOf(shown[1]).value])
        likes   == ToSet(Take(named, CLUE_LIMIT)) \cup ({label} \ {None})
    IN  [ likes |-> likes,
          hidden |-> {SignalOf(m).value : m \in {x \in ToSet(matches) : ~Shown(SignalOf(x), mode)}}
                        \ likes ]

\* valid_reason looks for the hidden values of two characters and more.
ValidReason(says, clues) == (says \cap clues.hidden) \subseteq ShortValues

-----------------------------------------------------------------------------
(* The request.                                                               *)

Init ==
    /\ stage = "waiting"
    /\ request = None /\ intents = {} /\ queries = Empty
    /\ found = Empty /\ dislike_near = Empty /\ disliked = Empty /\ preferred = Empty
    /\ uncovered = {} /\ explore = Empty /\ explored = Empty
    /\ lists = NoLists /\ rewritten = Empty /\ answers = 0

\* The intents are what the store has, any of those the signals call for; with
\* no query there is nothing to search.
Receive(r, known) ==
    LET signals == Signals(r.profile, r.interests)
    IN  /\ stage = "waiting"
        /\ known \subseteq IntentTargets(signals)
        /\ request' = r
        /\ intents' = known
        /\ queries' = BuildSearchQueries(signals, known)
        /\ stage' = IF queries' = Empty THEN "answering" ELSE "searching"
        /\ UNCHANGED <<searches, secondary, lists, rewrites>>

\* The searches of the queries.  They run together; here in their order.
Search(near) ==
    LET query == queries[Len(found) + 1]
    IN  /\ stage = "searching" /\ Len(found) < Len(queries)
        /\ \E results \in SearchResults(near, TOP_K, query.modes = {"gift"}, Exclusion) :
               found' = Append(found, results)
        /\ UNCHANGED <<stage, inputs, dislike_near, disliked, preferred, secondary, lists, rewrites>>

SearchDislike(near) ==
    LET d == CHOOSE v \in Dislikes \ DOMAIN disliked : TRUE
    IN  /\ stage = "searching" /\ Len(found) = Len(queries)
        /\ Dislikes \ DOMAIN disliked # {}
        /\ \E results \in SearchResults(near, EXCLUSION_TOP_K, FALSE, NoExclusion) :
               disliked' = With(disliked, d, results)
        /\ dislike_near' = With(dislike_near, d, near)
        /\ UNCHANGED <<stage, inputs, found, preferred, secondary, lists, rewrites>>

SearchPreference(near) ==
    LET d == CHOOSE v \in Preferred \ DOMAIN preferred : TRUE
    IN  /\ stage = "searching" /\ Len(found) = Len(queries)
        /\ Dislikes \subseteq DOMAIN disliked
        /\ Preferred \ DOMAIN preferred # {}
        /\ \E results \in SearchResults(near, TOP_K, FALSE, NoExclusion) :
               preferred' = With(preferred, d, results)
        /\ UNCHANGED <<stage, inputs, found, dislike_near, disliked, secondary, lists, rewrites>>

\* The second step: an interest nothing is near enough to is searched again
Judge ==
    /\ stage = "searching" /\ Len(found) = Len(queries)
    /\ Dislikes \subseteq DOMAIN disliked /\ Preferred \subseteq DOMAIN preferred
    /\ uncovered' = Uncovered(queries, found, intents)
    /\ LET asked == BuildExploreQueries(queries, intents)
       IN  explore' = At(asked, {i \in DOMAIN asked : Key(asked[i].signal) \in uncovered'})
    /\ stage' = "exploring"
    /\ UNCHANGED <<inputs, searches, explored, lists, rewrites>>

SearchExplore(near) ==
    /\ stage = "exploring" /\ Len(explored) < Len(explore)
    /\ \E results \in SearchResults(near, EXPLORE_TOP_K, FALSE, Exclusion) :
           explored' = Append(explored, results)
    /\ UNCHANGED <<stage, inputs, searches, uncovered, explore, lists, rewrites>>

AllMatches == Matches(queries, found, uncovered) \cup Matches(explore, explored, uncovered)
Excluded == ExcludedKeys(AllMatches, Dislikes, disliked, Exclusion)

RankLists ==
    /\ stage = "exploring" /\ Len(explored) = Len(explore)
    /\ LET matches == AllMatches
           excluded == Excluded
       IN  lists' = [mode \in Modes |-> Rank(Candidates(matches, mode, excluded, preferred), mode)]
    /\ stage' = "answering"
    /\ UNCHANGED <<inputs, searches, secondary, rewrites>>

\* rewrite, for the gift list: the model names what it likes; the first reason
\* of a product that passes is taken.  A failed call returns none.
Answer(i, says) ==
    /\ stage = "answering" /\ answers < MaxAnswers
    /\ LET item  == lists["gift"][i]
           clues == Clues(item, "gift", BoostLabel(preferred, item.product))
       IN  rewritten' = IF i \in DOMAIN rewritten \/ ~ValidReason(says, clues) THEN rewritten
                        ELSE With(rewritten, i, says)
    /\ answers' = answers + 1
    /\ UNCHANGED <<stage, inputs, searches, secondary, lists>>

\* _items: the reason of the answer
GiftReason(i) ==
    LET item == lists["gift"][i]
    IN  IF i \in DOMAIN rewritten THEN rewritten[i]
        ELSE Reason(item, "gift", BoostLabel(preferred, item.product))

Values(r) == {s.value : s \in Signals(r.profile, r.interests)}

Next ==
    \/ \E r \in Requests :
        \E known \in SUBSET IntentTargets(Signals(r.profile, r.interests)) : Receive(r, known)
    \/ \E near \in Nearness : \/ Search(near) \/ SearchDislike(near)
                              \/ SearchPreference(near) \/ SearchExplore(near)
    \/ Judge
    \/ RankLists
    \/ \E i \in DOMAIN lists["gift"] : \E says \in SUBSET Values(request) : Answer(i, says)

Spec == Init /\ [][Next]_vars

-----------------------------------------------------------------------------
(* Properties.                                                                *)

Listed(mode) == {lists[mode][n].product : n \in DOMAIN lists[mode]}
Ranked == stage = "answering"

\* Two kinds of products share a list and are picked and scored apart; read as
\* one list its scores never rise, no product comes twice, the products of the
\* user's interests come first, and the new ones stay a few unless the list
\* would be too short without them.
ListsInOrder ==
    \A mode \in Modes :
        LET list == lists[mode]
            new  == {n \in DOMAIN list : IsNew(list[n])}
        IN  /\ Len(list) <= DEFAULT_LIMIT
            /\ Cardinality(Listed(mode)) = Len(list)
            /\ \A n, m \in DOMAIN list :
                    n < m => /\ list[n].score >= list[m].score
                             /\ n \in new => m \in new
            /\ Cardinality(new) <= MAX_EXPLORE \/ Len(list) <= MIN_LIST_SIZE

\* The onboarding's conditions hold of whatever search found a product: columns
\* are filtered by the statement, words by the engine, and a gift can be given.
\* A product near a dislike is not listed, unless the search for the dislike was
\* cut by as many products at least as near (EXCLUSION_TOP_K).
NothingExcluded ==
    /\ \A mode \in Modes : \A p \in Listed(mode) :
            /\ ~Blocks(Exclusion, p)
            /\ Catalog[p].name \cap Dislikes = {}
            /\ \A d \in Dislikes :
                    \/ dislike_near[d][p] < EXCLUSION_SIMILARITY
                    \/ Cardinality({q \in Products \ {p} : dislike_near[d][q] >= dislike_near[d][p]})
                            >= EXCLUSION_TOP_K
    /\ \A p \in Listed("gift") : Catalog[p].gift_available

\* A query that has a product for a list is served in it, whatever the scores of
\* the others, as long as the list has room for one product of each.
QueriesServed ==
    Ranked => \A mode \in Modes :
        LET matches == AllMatches
            pool == {i \in Candidates(matches, mode, Excluded, preferred) : ~IsNew(i)}
            ids  == UNION {QueriesOf(i) : i \in pool}
            list == lists[mode]
            new  == {n \in DOMAIN list : IsNew(list[n])}
        IN  Cardinality(ids) <= DEFAULT_LIMIT - Cardinality(new)
                => \A id \in ids : \E n \in DOMAIN list : id \in QueriesOf(list[n])

\* The gift list is for a friend to read: whichever reason a product ends with,
\* the template's or the model's, it names no wish, deferred wish or consumable
\* for which the product was found.  The service says so of every value; a reason
\* of the model is not checked for those of a single character.
GiftKeepsSecrets ==
    \A n \in DOMAIN lists["gift"] :
        LET item    == lists["gift"][n]
            matches == IF IsNew(item) THEN item.matches ELSE Found(item)
            private == {m \in ToSet(matches) : ~Shown(SignalOf(m), "gift")}
            public  == {s \in Signals(request.profile, request.interests) : Shown(s, "gift")}
            leaked  == (GiftReason(n) \cap {SignalOf(m).value : m \in private})
                           \ {s.value : s \in public}
        IN  leaked \subseteq IF n \in DOMAIN rewritten THEN ShortValues ELSE {}

===============================================================================
