--------------------------------- MODULE Ranking ---------------------------------
(***************************************************************************)
(* The engine's decisions: what the search may return (the statement of      *)
(* postgres_catalog_repository.py and exclusions.py), which interests the     *)
(* catalog has nothing for, what is excluded and preferred                   *)
(* (recommendation_engine.py), and how a list is ranked (ranking.py).         *)
(*                                                                         *)
(* A similarity is the cosine in hundredths.  Scores are the code's raw       *)
(* scores times 2000000, before the division by the mode's maximum, which     *)
(* keeps their order.                                                        *)
(***************************************************************************)
EXTENDS SearchQueries, FiniteSetsExt

CONSTANTS
    NProducts, Catalog,  \* ready products in the order of their keys, and what each is
    GiftExclusionCategories, GiftExclusionSubcategories, GiftExclusionTerms,
    AllergySubcategories, AllergyTerms,
    TOP_K, EXCLUSION_TOP_K, EXPLORE_TOP_K,
    EXCLUSION_SIMILARITY, PREFERENCE_SIMILARITY, COVERAGE_MIN_SIMILARITY,
    SHARED_REASON_MIN_SIMILARITY,
    DEFAULT_LIMIT, EXPLORE_PER_SIGNAL, MAX_EXPLORE, MIN_LIST_SIZE

ASSUME RankingConstants ==
    /\ NProducts \in Nat
    /\ TOP_K \in Nat /\ EXCLUSION_TOP_K \in Nat /\ EXPLORE_TOP_K \in Nat
    /\ EXCLUSION_SIMILARITY \in Int /\ PREFERENCE_SIMILARITY \in Int
    /\ COVERAGE_MIN_SIMILARITY \in Int /\ SHARED_REASON_MIN_SIMILARITY \in Int
    /\ DEFAULT_LIMIT \in Nat /\ EXPLORE_PER_SIGNAL \in Nat
    /\ MAX_EXPLORE \in Nat /\ MIN_LIST_SIZE \in Nat

Products == 1 .. NProducts

-----------------------------------------------------------------------------
(* The conditions of the onboarding.  Categories and words are codes; a       *)
(* product's words are those in its name and in its content document.         *)

UnclassifiedEdible == {<<c, None>> : c \in {"food", "health", "voucher"}}
EdibleVouchers == {None, "cafe_drink", "dessert", "meal", "convenience"}

BuildCatalogExclusion(allergies, gift_exclusions, exclude_pets) ==
    [ categories |-> (IF exclude_pets THEN {"pet"} ELSE {})
                     \cup UNION {GiftExclusionCategories[g] : g \in gift_exclusions},
      subcategories |-> (IF allergies = {} THEN {} ELSE UnclassifiedEdible)
                        \cup UNION {AllergySubcategories[a] : a \in allergies}
                        \cup UNION {GiftExclusionSubcategories[g] : g \in gift_exclusions},
      name_terms |-> UNION {GiftExclusionTerms[g] : g \in gift_exclusions},
      ingredient_terms |-> UNION {AllergyTerms[a] : a \in allergies} ]

NoExclusion == BuildCatalogExclusion({}, {}, FALSE)

IsEdible(p) ==
    \/ Catalog[p].category \in {"food", "health"}
    \/ Catalog[p].category = "voucher" /\ Catalog[p].subcategory \in EdibleVouchers

InCategories(e, p) ==
    \/ Catalog[p].category \in e.categories
    \/ <<Catalog[p].category, Catalog[p].subcategory>> \in e.subcategories

\* CatalogExclusion.blocks
Blocks(e, p) ==
    \/ InCategories(e, p)
    \/ Catalog[p].name \cap e.name_terms # {}
    \/ IsEdible(p) /\ (Catalog[p].name \cup Catalog[p].content) \cap e.ingredient_terms # {}

\* _SEARCH_SQL: any of the nearest that the conditions on columns leave
SearchResults(near, limit, gift_only, e) ==
    LET rows == {p \in Products : ~InCategories(e, p) /\ (gift_only => Catalog[p].gift_available)}
        n == IF limit < Cardinality(rows) THEN limit ELSE Cardinality(rows)
    IN  { [p \in S |-> near[p]] : S \in
            {T \in SUBSET rows : Cardinality(T) = n /\ \A p \in T, q \in rows \ T : near[p] >= near[q]} }

-----------------------------------------------------------------------------
(* Matches.  A match is a query, a product and how near they are; found[i] is   *)
(* the answer to queries[i], a function from products to similarities.         *)

\* The interests of an intent whose best product is not near enough
Uncovered(queries, found, intents) ==
    LET judged == {i \in DOMAIN queries : IsCoverage(queries[i]) /\ Key(queries[i].signal) \in intents}
        Near(i) == \E p \in DOMAIN found[i] : found[i][p] >= COVERAGE_MIN_SIMILARITY
    IN  {Key(queries[i].signal) : i \in judged}
          \ {Key(queries[i].signal) : i \in {j \in judged : Near(j)}}

\* _drops_with: the queries of such an interest, and the tastes joined with it
DropsWith(query, uncovered) ==
    \/ IsInterest(query) /\ Key(query.signal) \in uncovered
    \/ query.anchor # None /\ Key(query.anchor) \in uncovered

Matches(queries, found, uncovered) ==
    UNION { {[query |-> queries[i], product |-> p, similarity |-> found[i][p]] : p \in DOMAIN found[i]}
            : i \in {j \in DOMAIN found : ~DropsWith(queries[j], uncovered)} }

ExcludedKeys_ByName(matches, dislikes, disliked, e) ==
    {p \in Products : \E d \in DOMAIN disliked :
        p \in DOMAIN disliked[d] /\ disliked[d][p] >= EXCLUSION_SIMILARITY}
    \cup {m.product : m \in {x \in matches : Catalog[x.product].name \cap dislikes # {}}}

\* _excluded_keys: near a dislike, named after it, or blocked by a word
ExcludedKeys(matches, dislikes, disliked, e) ==
    {p \in Products : \E d \in DOMAIN disliked :
        p \in DOMAIN disliked[d] /\ disliked[d][p] >= EXCLUSION_SIMILARITY}
    \cup {m.product : m \in {x \in matches :
            Catalog[x.product].name \cap dislikes # {} \/ Blocks(e, x.product)}}

\* _preference_boosts: 0.05 for each preference near enough, 0.10 at most
Liked(preferred, p) ==
    {d \in DOMAIN preferred : p \in DOMAIN preferred[d] /\ preferred[d][p] >= PREFERENCE_SIMILARITY}

Boost(preferred, p) == 100000 * Min({Cardinality(Liked(preferred, p)), 2})

\* The preference an excuse is made of: a nearest one
BoostLabel(preferred, p) ==
    IF Liked(preferred, p) = {} THEN None
    ELSE CHOOSE d \in Liked(preferred, p) :
            \A o \in Liked(preferred, p) : preferred[o][p] <= preferred[d][p]

-----------------------------------------------------------------------------
(* Scores.                                                                    *)

HalfLives == [self |-> 1, gift |-> 13]     \* 14 and 180 days, in units of 14
MaxRawScore == [self |-> 2200000, gift |-> 3200000]
MinScore == [self |-> 330000, gift |-> 320000]
RoundRobinGap == [self |-> 176000, gift |-> 256000]

DeferralWeight(reason) ==
    CASE reason = "timing" -> 115 [] reason = "price" -> 140
      [] reason = "justification" -> 150 [] OTHER -> 100

\* Age is in units of 14 days, and counted in whole half-lives
Decayed(s, mode) ==
    LET Half[n \in 0 .. s.age \div HalfLives[mode]] ==
            IF n = 0 THEN s.weight ELSE Half[n - 1] \div 2
    IN  Half[s.age \div HalfLives[mode]]

Contribution(m, mode) ==
    LET s == m.query.signal
    IN  (m.similarity + 100) * Decayed(s, mode)
          * (IF mode = "gift" THEN DeferralWeight(s.deferral) ELSE 100)

KindOrder == [g |-> 2, q |-> 3, s |-> 4, t |-> 5, e |-> 1]     \* of the query ids, as strings
IdBefore(a, b) == \/ KindOrder[a.kind] < KindOrder[b.kind]
                  \/ a.kind = b.kind /\ a.n < b.n

\* The matches of a product from the one that counts most; equal ones in the
\* order of the queries, an explore query being the last.
Position == [q |-> 1, g |-> 2, t |-> 3, s |-> 4, e |-> 5]
ScoredMatches(ms, mode) ==
    Ordered(ms, LAMBDA a, b :
        LET x == Contribution(a, mode)  y == Contribution(b, mode)
        IN  \/ x > y
            \/ x = y /\ (\/ Position[a.query.kind] < Position[b.query.kind]
                         \/ a.query.kind = b.query.kind /\ a.query.n < b.query.n))

Score(scored, boost, mode) ==
    LET bonus == 50000 * 2 * Min({Len(scored) - 1, 2})
    IN  Min({Contribution(scored[1], mode) + bonus + boost, MaxRawScore[mode]})

\* What a mode may list: [product, score, matches]
Candidates(matches, mode, excluded, preferred) ==
    LET Eligible(m) == /\ mode \in m.query.modes /\ m.product \notin excluded
                       /\ mode = "gift" => Catalog[m.product].gift_available
        usable == {m \in matches : Eligible(m)}
        Item(p) == LET scored == ScoredMatches({m \in usable : m.product = p}, mode)
                   IN  [ product |-> p, score |-> Score(scored, Boost(preferred, p), mode),
                         matches |-> scored ]
    IN  {i \in {Item(p) : p \in {m.product : m \in usable}} : i.score >= MinScore[mode]}

Ahead(a, b) == a.score > b.score \/ (a.score = b.score /\ a.product < b.product)
ByScore(items) == Ordered(items, Ahead)
Best(items) == CHOOSE i \in items : \A j \in items : ~Ahead(j, i)

-----------------------------------------------------------------------------
(* The list.                                                                  *)

QueriesOf(item) ==
    {[kind |-> item.matches[i].query.kind, n |-> item.matches[i].query.n] : i \in DOMAIN item.matches}

\* Found by explore queries only
IsNew(item) == \A q \in QueriesOf(item) : q.kind = "e"

\* _pick_explore: round robin over the query that counts most for each
PickExplore(pool, total, per_signal) ==
    LET ranked == ByScore(pool)
        I == DOMAIN ranked
        Same(i) == {j \in I : ranked[j].matches[1].query = ranked[i].matches[1].query}
        group == [i \in I |-> Min(Same(i))]
        depth == [i \in I |-> Cardinality({j \in Same(i) : j < i})]
        turns == Ordered({i \in I : depth[i] < per_signal},
                         LAMBDA i, j : \/ depth[i] < depth[j]
                                       \/ depth[i] = depth[j] /\ group[i] < group[j])
    IN  {ranked[turns[n]] : n \in {m \in DOMAIN turns : m <= total}}

SelectDiverse_ByScore(pool, limit, mode) == ToSet(Take(ByScore(pool), limit))

TakeBest(kept, pool, limit, May(_)) ==
    LET choice == {i \in pool \ kept : May(i)}
    IN  IF choice = {} \/ Cardinality(kept) = limit THEN kept ELSE kept \cup {Best(choice)}

\* _select_with_query_diversity: a round of one product for each query, rounds of
\* those near the top score, then whatever is left, by score.  A round that takes
\* nothing ends the rounds; here it changes nothing.
SelectDiverse(pool, limit, mode) ==
    LET ids == Ordered(UNION {QueriesOf(i) : i \in pool}, IdBefore)
        K == Len(ids)
        rounds == K * (1 + Cardinality(pool))
        steps == rounds + Cardinality(pool)
        floor == IF pool = {} THEN 0 ELSE Best(pool).score - RoundRobinGap[mode]
        May(n, i) == \/ n > rounds
                     \/ /\ ids[((n - 1) % K) + 1] \in QueriesOf(i)
                        /\ n <= K \/ i.score >= floor
        Kept[n \in 0 .. steps] ==
            IF n = 0 THEN {} ELSE TakeBest(Kept[n - 1], pool, limit, LAMBDA i : May(n, i))
    IN  Kept[steps]

Joined_Uncapped(selected, explored) == selected \o explored

\* A new product gets no better score than the last product of the interests
Joined(selected, explored) ==
    LET ceiling == selected[Len(selected)].score
    IN  IF selected = <<>> THEN explored
        ELSE selected \o [n \in DOMAIN explored |->
                            [explored[n] EXCEPT !.score = Min({@, ceiling})]]

\* rank_recommendations: the products of interests, then the new ones
Rank(candidates, mode) ==
    LET new      == {i \in candidates : IsNew(i)}
        reserved == PickExplore(new, Min({MAX_EXPLORE, DEFAULT_LIMIT}), EXPLORE_PER_SIGNAL)
        selected == ByScore(SelectDiverse(candidates \ new, DEFAULT_LIMIT - Cardinality(reserved), mode))
        missing  == Min({MIN_LIST_SIZE, DEFAULT_LIMIT}) - Len(selected) - Cardinality(reserved)
        explored == ByScore(reserved \cup
                        (IF missing > 0 THEN PickExplore(new \ reserved, missing, NProducts) ELSE {}))
    IN  Joined(selected, explored)

===============================================================================
