---------------------------- MODULE ProfileMerger ----------------------------
(***************************************************************************)
(* ProfileMerger.merge: what one turn's extraction does to the profile of a *)
(* session.  The merge works on a copy: first the values the user takes     *)
(* back, then the extracted items one by one, then the choice of the        *)
(* entries that count.  It awaits nothing; its loop is cut into one step    *)
(* per item so that every item may meet what the items before it left.      *)
(*                                                                         *)
(* A value stands for its normalized text, an item's evidence for where it  *)
(* was found: in this turn's utterance, in an earlier one that was passed   *)
(* as context, or in neither.  Confidence is in hundredths.                 *)
(***************************************************************************)
EXTENDS Integers, Sequences, FiniteSets

CONSTANTS
    Values,           \* the things a user can talk about
    GenericValues,    \* _GENERIC_VALUES: "no idea", "anything"
    Paths,            \* taste axes and interest categories
    Length,           \* the specificity of a value: its length, at most 20
    MaxQuery,         \* MAX_ACTIVE_QUERY_SIGNALS
    MaxWeight,        \* MAX_ACTIVE_WEIGHT_SIGNALS
    MaxOwned,         \* MAX_ACTIVE_OWNED_SIGNALS
    MaxTurns,         \* bound: turns of a session
    None              \* Python's None

QueryFields == {"interests", "hobbies", "wants", "unaffordable", "consumables"}
WeightFields == {"preferences", "lifestyle"}
NegativeFields == {"dislikes", "constraints"}
PositiveFields == QueryFields \cup {"preferences"}
Fields == QueryFields \cup WeightFields \cup NegativeFields \cup {"owned"}

EvidenceTypes == {"explicit", "confirmed", "inferred"}
Ceiling == [explicit |-> 100, confirmed |-> 90, inferred |-> 65]
Priority == [explicit |-> 3, confirmed |-> 2, inferred |-> 1]

Item == [ field : Fields, value : Values, confidence : 0 .. 100, evidence_type : EvidenceTypes,
          said : {"now", "context", "nowhere"}, target : Values \cup {None},
          path : Paths \cup {None} ]
Drop == [ field : Fields, value : Values ]
Delta == [ drop : SUBSET Drop, items : Seq(Item) ]
NoDelta == [ drop |-> {}, items |-> <<>> ]

ASSUME MergerConstants ==
    /\ GenericValues \subseteq Values
    /\ Length \in [Values -> 0 .. 20]
    /\ MaxQuery \in Nat /\ MaxWeight \in Nat /\ MaxOwned \in Nat /\ MaxTurns \in Nat
    /\ None \notin Values \cup Paths

VARIABLES
    profile,            \* the signals of the stored profile, in the order they came
    turn,
    delta,              \* the extraction being merged
    at,                 \* the item the merge has come to, 0 between merges
    merged,             \* the merge's copy of the signals
    superseded_values

vars == <<profile, turn, delta, at, merged, superseded_values>>

Signal == [ field : Fields, value : Values, confidence : 0 .. 100, evidence_type : EvidenceTypes,
            mention_count : Nat \ {0}, status : {"active", "inactive", "superseded"},
            updated_at : Nat, source_turn : Int, target : Values \cup {None}, path : Paths \cup {None} ]

TypeOK ==
    /\ profile \in Seq(Signal)
    /\ merged \in Seq(Signal)
    /\ turn \in 0 .. MaxTurns
    /\ delta \in Delta
    /\ at \in 0 .. Len(delta.items) + 1
    /\ superseded_values \subseteq Values

-----------------------------------------------------------------------------
(* A definition named X_something is X with a mistake in it; nothing uses it. *)

LiveAt(signals, fields, v) ==
    {i \in DOMAIN signals : /\ signals[i].field \in fields /\ signals[i].value = v
                            /\ signals[i].status # "superseded"}

Supersede(signals, places) ==
    [i \in DOMAIN signals |->
        IF i \in places THEN [signals[i] EXCEPT !.status = "superseded"] ELSE signals[i]]

\* Which side of the profile a field is on.
Polarity(f) == IF f \in PositiveFields THEN "positive"
               ELSE IF f \in NegativeFields THEN "negative" ELSE f

\* What having, wanting or not affording a thing puts an end to.
PreviousFields(f) ==
    CASE f = "unaffordable" -> {"wants"}
      [] f = "wants"        -> {"unaffordable"}
      [] f = "owned"        -> {"wants", "unaffordable"}
      [] OTHER              -> {}

Items == {delta.items[k] : k \in DOMAIN delta.items}
DroppedNow == {<<Polarity(d.field), d.value>> : d \in delta.drop}
NegativeInTurn == {item.value : item \in {i \in Items : i.field \in NegativeFields}}

-----------------------------------------------------------------------------
(* Which entries count: taste_rank_score, rank_by_group_strength and           *)
(* _apply_working_set.  The ranked list is given by the order of two places.   *)

Lesser(a, b) == IF a <= b THEN a ELSE b

RankScore(s) ==
    Lesser(100, s.confidence + 5 * Lesser(s.mention_count - 1, 3)
                  + (IF s.field = "hobbies" THEN 5 ELSE 0))

SortKey(s) == <<RankScore(s), s.confidence, Priority[s.evidence_type], s.mention_count,
                Length[s.value], s.updated_at>>

Exceeds(a, b) ==
    \E k \in DOMAIN a : a[k] > b[k] /\ \A m \in 1 .. k - 1 : a[m] = b[m]

\* A sort that is stable: what ties stays in its order.
Precedes(a, i, b, j) == Exceeds(a, b) \/ (~Exceeds(b, a) /\ i < j)

GroupOf(s) == IF s.path # None THEN <<s.path>> ELSE <<s.field, s.value>>

\* The candidates are the places C of signals; anchors are values of interests.
Ranked(signals, C, anchors, i, j) ==
    LET Members(g) == {k \in C : GroupOf(signals[k]) = g}
        Anchored(k) == <<IF signals[k].target \in anchors THEN 1 ELSE 0>> \o SortKey(signals[k])
        Leads(k, l) == Precedes(Anchored(k), k, Anchored(l), l)
        Depth(k) == Cardinality({l \in Members(GroupOf(signals[k])) : Leads(l, k)})
        Targets(g) == {signals[k].target : k \in Members(g)} \ {None}
        Mentions(g) == LET ones == {p \in Members(g) \X (1 .. 4 * (MaxTurns + 1)) :
                                        p[2] <= signals[p[1]].mention_count}
                       IN  Cardinality(ones)
        Strength(g) == Mentions(g) + (IF Targets(g) = {} THEN 0 ELSE Cardinality(Targets(g)) - 1)
        First(g) == CHOOSE k \in Members(g) : Depth(k) = 0
        Oldest(g) == CHOOSE k \in Members(g) : \A l \in Members(g) : k <= l
        GroupKey(g) == <<Strength(g)>> \o SortKey(signals[First(g)])
        g == GroupOf(signals[i])
        h == GroupOf(signals[j])
    IN  \/ Depth(i) < Depth(j)
        \/ Depth(i) = Depth(j) /\ Precedes(GroupKey(g), Oldest(g), GroupKey(h), Oldest(h))

Top(signals, C, limit, anchors) ==
    {i \in C : Cardinality({j \in C \ {i} : Ranked(signals, C, anchors, j, i)}) < limit}

\* The places of the entries that count.
Chosen(signals) ==
    LET live == {i \in DOMAIN signals : signals[i].status # "superseded"}
        Of(fields) == {i \in live : signals[i].field \in fields}
        interests == Top(signals, Of(QueryFields), MaxQuery, {})
    IN  interests \cup Of(NegativeFields) \cup Top(signals, Of({"owned"}), MaxOwned, {})
          \cup Top(signals, Of(WeightFields), MaxWeight, {signals[i].value : i \in interests})

WorkingSet_NoReset(signals) ==
    [i \in DOMAIN signals |->
        IF i \in Chosen(signals) THEN [signals[i] EXCEPT !.status = "active"] ELSE signals[i]]

WorkingSet(signals) ==
    LET chosen == Chosen(signals)
    IN  [i \in DOMAIN signals |->
            IF signals[i].status = "superseded" THEN signals[i]
            ELSE [signals[i] EXCEPT !.status = IF i \in chosen THEN "active" ELSE "inactive"]]

-----------------------------------------------------------------------------
(* The merge. *)

Dropped(signals, drop) ==
    Supersede(signals, UNION {LiveAt(signals, {d.field}, d.value) : d \in drop})

StartMerge(d) ==
    /\ at = 0 /\ turn < MaxTurns
    /\ turn' = turn + 1
    /\ delta' = d
    /\ at' = 1
    /\ merged' = Dropped(profile, d.drop)
    /\ superseded_values' =
          {merged'[i].value : i \in {j \in DOMAIN merged' : merged'[j].status = "superseded"}}
    /\ UNCHANGED profile

\* No evidence, nothing said, or taken back: in this turn, or before it.
Unfounded_ContextRevives(item) ==
    \/ item.said = "nowhere"
    \/ item.value \in GenericValues
    \/ <<Polarity(item.field), item.value>> \in DroppedNow

Unfounded(item) ==
    \/ item.said = "nowhere"
    \/ item.value \in GenericValues
    \/ <<Polarity(item.field), item.value>> \in DroppedNow
    \/ item.said # "now" /\ item.value \in superseded_values

\* A dislike is believed before a like, and given up only in so many words.
Contradicted_AnyLike(item) ==
    /\ item.field \in PositiveFields
    /\ item.value \in NegativeInTurn

Contradicted(item) ==
    /\ item.field \in PositiveFields
    /\ \/ item.value \in NegativeInTurn
       \/ /\ LiveAt(merged, NegativeFields, item.value) # {}
          /\ item.evidence_type # "explicit" \/ item.said # "now"

\* The entries of the other side, which the item puts an end to.
Opposed_LikesStay(item) ==
    IF item.field \in PositiveFields THEN LiveAt(merged, NegativeFields, item.value) ELSE {}

Opposed(item) ==
    IF item.field \in PositiveFields THEN LiveAt(merged, NegativeFields, item.value)
    ELSE IF item.field \in NegativeFields THEN LiveAt(merged, PositiveFields, item.value)
    ELSE {}

Calibrated_Trusting(item) == item.confidence

Calibrated(item) == Lesser(item.confidence, Ceiling[item.evidence_type])

\* The context is the utterance before this one.
SourceTurn(item) == IF item.said = "now" THEN turn ELSE turn - 1

Reworded(old, item) ==
    [old EXCEPT !.confidence = IF Calibrated(item) > @ THEN Calibrated(item) ELSE @,
                !.updated_at = turn, !.source_turn = SourceTurn(item),
                !.mention_count = @ + 1,
                !.evidence_type = IF Priority[item.evidence_type] >= Priority[@]
                                  THEN item.evidence_type ELSE @,
                !.target = IF item.target # None THEN item.target ELSE @,
                !.path = IF item.path # None THEN item.path ELSE @,
                !.status = "active"]

NewSignal(item) ==
    [field |-> item.field, value |-> item.value, confidence |-> Calibrated(item),
     evidence_type |-> item.evidence_type, mention_count |-> 1, status |-> "active",
     updated_at |-> turn, source_turn |-> SourceTurn(item), target |-> item.target,
     path |-> item.path]

\* What stays of the copy when the item is taken in.
Cleared(item) ==
    Supersede(merged, Opposed(item) \cup LiveAt(merged, PreviousFields(item.field), item.value))

Reject(item) == (Unfounded(item) \/ Contradicted(item)) /\ UNCHANGED merged

Known(item) == LiveAt(merged, {item.field}, item.value)

\* Words of an earlier turn do not count a second time.
Recall_Counts(item) ==
    /\ item.said = "context" /\ Known(item) # {}
    /\ \E i \in Known(item) : merged' = [Supersede(merged, Opposed(item)) EXCEPT
                                            ![i] = Reworded(@, item)]

Recall(item) ==
    /\ item.said = "context" /\ Known(item) # {}
    /\ merged' = Supersede(merged, Opposed(item))

Repeat(item) ==
    /\ item.said = "now"
    /\ \E i \in Known(item) : /\ \A j \in Known(item) : i <= j
                              /\ merged' = [Cleared(item) EXCEPT ![i] = Reworded(@, item)]

Add_Again(item) == merged' = Append(Cleared(item), NewSignal(item))

Add(item) ==
    /\ Known(item) = {}
    /\ merged' = Append(Cleared(item), NewSignal(item))

TakeIn(item) ==
    /\ ~Unfounded(item) /\ ~Contradicted(item)
    /\ Recall(item) \/ Repeat(item) \/ Add(item)

MergeItem ==
    /\ at \in DOMAIN delta.items
    /\ Reject(delta.items[at]) \/ TakeIn(delta.items[at])
    /\ at' = at + 1
    /\ UNCHANGED <<profile, turn, delta, superseded_values>>

FinishMerge ==
    /\ at = Len(delta.items) + 1
    /\ profile' = WorkingSet(merged)
    /\ at' = 0
    /\ merged' = <<>>
    /\ superseded_values' = {}
    /\ delta' = NoDelta
    /\ UNCHANGED turn

-----------------------------------------------------------------------------

Init ==
    /\ profile = <<>> /\ merged = <<>>
    /\ turn = 0
    /\ delta = NoDelta /\ at = 0
    /\ superseded_values = {}

\* Whatever a model says it found; TasteTurn says which extractions there are.
Next == (\E d \in Delta : StartMerge(d)) \/ MergeItem \/ FinishMerge

Spec == Init /\ [][Next]_vars

-----------------------------------------------------------------------------
(* Properties. *)

\* "The same thing does not stay on the liked and the disliked side at once",
\* whatever items of one turn or of several said so.
OneSided(signals) ==
    \A v \in Values : LiveAt(signals, PositiveFields, v) = {} \/ LiveAt(signals, NegativeFields, v) = {}

OneSide == OneSided(profile) /\ OneSided(merged)

\* A thing has one live entry in a field, and is not both wanted and given up as
\* too dear: the next merge looks for the entry and takes the first it finds.
SingleIn(signals) ==
    \A i, j \in DOMAIN signals :
        /\ signals[i].status # "superseded" /\ signals[j].status # "superseded"
        /\ signals[i].value = signals[j].value
        /\ \/ signals[i].field = signals[j].field
           \/ signals[i].field = "wants" /\ signals[j].field = "unaffordable"
        => i = j

OneEntry == SingleIn(profile) /\ SingleIn(merged)

\* No repetition or mixture of evidence lifts an entry above what the evidence
\* it claims allows: an inferred taste does not rank as one the user told.
EarnedIn(signals) ==
    \A i \in DOMAIN signals : signals[i].confidence <= Ceiling[signals[i].evidence_type]

ConfidenceEarned == EarnedIn(profile) /\ EarnedIn(merged)

\* Between turns each kind of entry is active up to its limit, and never fewer
\* while there are more to choose from; what must be kept out of the
\* recommendations always is.
FilledUpTo(fields, limit) ==
    LET live == {i \in DOMAIN profile : /\ profile[i].status # "superseded"
                                        /\ profile[i].field \in fields}
    IN  Cardinality({i \in live : profile[i].status = "active"}) = Lesser(limit, Cardinality(live))

LimitsMet ==
    /\ FilledUpTo(QueryFields, MaxQuery)
    /\ FilledUpTo(WeightFields, MaxWeight)
    /\ FilledUpTo({"owned"}, MaxOwned)
    /\ FilledUpTo(NegativeFields, Len(profile))

\* A turn ends a dislike only by taking it back, or by the user's own words of
\* that turn for liking the thing, with nothing said against it.
DislikesHold ==
    [][\A v \in Values :
          LiveAt(profile, NegativeFields, v) # {} /\ LiveAt(profile', NegativeFields, v) = {} =>
            \/ \E d \in delta.drop : d.field \in NegativeFields /\ d.value = v
            \/ /\ v \notin NegativeInTurn
               /\ \E item \in Items :
                     /\ item.field \in PositiveFields /\ item.value = v
                     /\ item.evidence_type = "explicit" /\ item.said = "now"]_profile

\* An entry that ended in an earlier turn is not set up again on the strength of
\* what was said then, nor one taken back in this turn by the same turn's items;
\* and entries that ended stay as they are, for the record.
TakenBackStays ==
    [][/\ \A i \in DOMAIN profile' \ DOMAIN profile :
             /\ <<Polarity(profile'[i].field), profile'[i].value>> \notin DroppedNow
             /\ (\E j \in DOMAIN profile : /\ profile[j].status = "superseded"
                                           /\ profile[j].value = profile'[i].value)
                  => \E item \in Items : item.value = profile'[i].value /\ item.said = "now"
       /\ \A j \in DOMAIN profile : profile[j].status = "superseded" => profile'[j] = profile[j]
      ]_profile

\* An entry is as often mentioned as the user spoke of it: what a turn only
\* finds again in its context is not counted as a repetition.
MentionsSpoken ==
    [][\A i \in DOMAIN profile :
          profile'[i].mention_count <= profile[i].mention_count
             + Cardinality({k \in DOMAIN delta.items :
                              /\ delta.items[k].field = profile[i].field
                              /\ delta.items[k].value = profile[i].value
                              /\ delta.items[k].said = "now"})]_profile

===============================================================================
