---------------------------- MODULE TasteJudgment ----------------------------
(***************************************************************************)
(* How a turn's extraction comes about.  One model names what the user      *)
(* talked about, another answers questions on each of these candidates, and *)
(* the code turns the answers into items and withdrawals (taste_judgment);  *)
(* or, without the second model, one model writes items that the code       *)
(* repairs (conversation_service).  Either model may answer anything.       *)
(*                                                                         *)
(* Confidences, probabilities and scores are in hundredths.  An answer that *)
(* is missing or malformed is None.                                         *)
(***************************************************************************)
EXTENDS Integers, Sequences, SequencesExt

CONSTANTS
    Values,
    Axes,             \* taxonomy paths of taste axes; each has an aspect
    Categories,       \* taxonomy paths of interest categories
    VariantOf,        \* "weekend camping" is camping said with a frequency word
    MaxCandidates,    \* MAX_CANDIDATES
    MaxTargets,       \* MAX_CORRECTION_TARGETS
    MaxItems,         \* MAX_EXTRACTED_ITEMS
    None

Kinds == {"activity", "thing", "attribute", "context"}

\* What build_judgment_request asks of a candidate.
Asked(kind) ==
    {"stance", "material", "explicit", "evidence"} \cup
    CASE kind = "attribute" -> {"taste_axis"}
      [] kind = "activity"  -> {"interest_category", "specificity", "habitual"}
      [] kind = "thing"     -> {"interest_category", "specificity", "deferral"}
      [] OTHER              -> {}

\* The answer to a question that was not asked is not there.
Answered(kind, answers) == [q \in DOMAIN answers |-> IF q \in Asked(kind) THEN answers[q] ELSE None]

Confident(answer, minimum) ==
    IF answer # None /\ answer.confidence >= minimum THEN answer.choice ELSE None

AtLeast(answer, minimum) == answer # None /\ answer >= minimum

-----------------------------------------------------------------------------
(* The candidates. *)

\* parse_candidates: what is malformed or names a subject again is skipped.
ParseCandidates(raw) ==
    LET Take(kept, c) ==
            IF \/ c = None \/ Len(kept) >= MaxCandidates
               \/ \E k \in DOMAIN kept : kept[k].subject = c.subject
            THEN kept
            ELSE Append(kept, IF c.kind = "attribute" THEN c ELSE [c EXCEPT !.target = None])
    IN  FoldLeft(Take, <<>>, raw)

WithoutVariants(candidates, known) ==
    LET subjects == known \cup {candidates[k].subject : k \in DOMAIN candidates}
    IN  SelectSeq(candidates, LAMBDA c : VariantOf[c.subject] \notin subjects)

KindOf(field) == CASE field = "hobbies"     -> "activity"
                   [] field = "preferences" -> "attribute"
                   [] field = "lifestyle"   -> "context"
                   [] OTHER                 -> "thing"

\* What the profile has and the utterance names again, once.
Remention(signals, spoken, known) ==
    LET Take(found, s) ==
            IF \/ s.status # "active" \/ s.value \notin spoken
               \/ \E c \in Range(known \o found) : c.subject = s.value
            THEN found
            ELSE Append(found, [subject |-> s.value, kind |-> KindOf(s.field), target |-> s.target])
    IN  FoldLeft(Take, <<>>, signals)

\* The entries an utterance may take back: those it or the utterances just
\* before it name, then those of the last two turns, the newest first.
CorrectionTargets(signals, named, turn) ==
    LET stored == SelectSeq(signals, LAMBDA s : s.status # "superseded")
        Mentioned(s) == s.value \in named \/ s.target \in named
        FromTurn(n) == SelectSeq(stored, LAMBDA s : s.source_turn = n)
        recent == FromTurn(turn) \o FromTurn(turn - 1)
        others == SelectSeq(recent, LAMBDA s : ~Mentioned(s))
        all == SelectSeq(stored, Mentioned) \o others
    IN  SubSeq(all, 1, IF Len(all) < MaxTargets THEN Len(all) ELSE MaxTargets)

-----------------------------------------------------------------------------
(* The answers.  A definition named X_something is X with a mistake in it. *)

\* Where a candidate belongs, by the user's attitude, what kind of clue it is
\* and what kind of thing; None if it is not worth keeping.
FieldFor(c, a, stance, material, has_axis) ==
    LET is_taste == \/ material = "taste"
                    \/ c.kind = "attribute" /\ (has_axis \/ material = None)
        is_context == material = "life_context" \/ (material = None /\ c.kind = "context")
        habitual == c.kind = "activity" /\ AtLeast(a.habitual, 50)
        deferral == Confident(a.deferral, 60) \notin {None, "none"}
        Kept == [cannot_use |-> "constraints", owned |-> "owned", repurchase |-> "consumables"]
    IN  IF stance \in DOMAIN Kept THEN Kept[stance]
        ELSE IF material = "not_material" THEN None
        ELSE CASE stance = "dislike" -> "dislikes"
               [] stance = "life_context" -> "lifestyle"
               [] stance = "like" -> IF is_taste THEN "preferences"
                                     ELSE IF is_context THEN "lifestyle"
                                     ELSE IF habitual THEN "hobbies" ELSE "interests"
               [] stance = "want" -> IF is_taste THEN "preferences"
                                     ELSE IF is_context THEN None
                                     ELSE IF c.kind = "activity" THEN "interests"
                                     ELSE IF deferral THEN "unaffordable" ELSE "wants"
               [] OTHER -> None

AxisOf(a) == LET axis == Confident(a.taste_axis, 50) IN IF axis \in Axes THEN axis ELSE None

PathOf(a) ==
    LET category == Confident(a.interest_category, 50)
    IN  IF AxisOf(a) # None THEN AxisOf(a)
        ELSE IF category \in Categories THEN category ELSE None

JudgedField(c, a) ==
    LET minimum == IF c.kind = "attribute" /\ AxisOf(a) # None THEN 50 ELSE 60
        stance == Confident(a.stance, minimum)
    IN  IF stance = None THEN None
        ELSE FieldFor(c, a, stance, Confident(a.material, 60), AxisOf(a) # None)

\* What counts for as much as the model believes in it, but a wish for an
\* activity, or a broad interest, for no more than its cap.
ItemConfidence(c, a, field) ==
    LET believed == IF a.stance.probability = None THEN a.stance.confidence
                    ELSE a.stance.probability
        wish == a.stance.choice = "want" /\ c.kind = "activity"
        broad == /\ field \in {"interests", "hobbies", "wants", "unaffordable", "consumables"}
                 /\ a.specificity # None /\ a.specificity < 70
    IN  Min({believed} \cup (IF wish THEN {50} ELSE {}) \cup (IF broad THEN {55} ELSE {}))

JudgedItem(c, a) ==
    LET field == JudgedField(c, a)
        wish == a.stance.choice = "want" /\ c.kind = "activity"
    IN  [field |-> field, value |-> c.subject, confidence |-> ItemConfidence(c, a, field),
         evidence_type |-> IF AtLeast(a.explicit, 50) /\ ~wish THEN "explicit" ELSE "inferred",
         said |-> IF a.evidence = "context" THEN "context" ELSE "now",
         target |-> IF field = "preferences" THEN c.target ELSE None,
         path |-> PathOf(a)]

\* The model's doubts about what was said before: intent, and per target.
Retractions(targets, doubt) ==
    IF targets = <<>> \/ doubt.intent < 60 THEN {}
    ELSE {[field |-> s.field, value |-> s.value] :
             s \in {t \in Range(targets) :
                       doubt.retract >= IF t.field \in {"dislikes", "constraints"} THEN 85 ELSE 70}}

\* "I used to": what is still held to be liked is taken down.
Faded(c, a, targets) ==
    IF Confident(a.stance, 60) # "used_to_like" THEN {}
    ELSE {[field |-> s.field, value |-> s.value] :
             s \in {t \in Range(targets) :
                       /\ t.field \in {"interests", "hobbies", "preferences", "wants",
                                       "unaffordable", "consumables"}
                       /\ t.value = c.subject}}

JudgmentDelta_KeepsAll(candidates, answer, targets, doubt) ==
    LET A(c) == Answered(c.kind, answer[c.subject])
        kept == SelectSeq(candidates, LAMBDA c : A(c).stance # None)
    IN  [ items |-> [k \in DOMAIN kept |-> JudgedItem(kept[k], A(kept[k]))],
          drop |-> Retractions(targets, doubt) ]

\* judgment_delta; answer gives the model's answers on a subject.
JudgmentDelta(candidates, answer, targets, doubt) ==
    LET A(c) == Answered(c.kind, answer[c.subject])
        kept == SelectSeq(candidates, LAMBDA c : A(c).stance # None /\ JudgedField(c, A(c)) # None)
    IN  [ items |-> [k \in DOMAIN kept |-> JudgedItem(kept[k], A(kept[k]))],
          drop |-> Retractions(targets, doubt)
                     \cup UNION {Faded(c, A(c), targets) : c \in Range(candidates)} ]

-----------------------------------------------------------------------------
(* The extraction by one model. *)

\* A thing one cannot afford has a reason for it, nothing else has; and only a
\* preference has a target.
RepairItem(raw) ==
    LET field == IF raw.field = "unaffordable" /\ raw.deferral_reason = None THEN "wants"
                 ELSE raw.field
    IN  [field |-> field, value |-> raw.value, confidence |-> raw.confidence,
         evidence_type |-> raw.evidence_type, said |-> raw.said,
         target |-> IF field = "preferences" THEN raw.target ELSE None, path |-> None]

\* parse_extraction: a malformed item (None) is left out, the others stay.
ParseExtraction(raw) ==
    LET items == SelectSeq(raw.items, LAMBDA item : item # None)
        drops == SelectSeq(raw.drop, LAMBDA d : d # None)
        Cut(s, n) == SubSeq(s, 1, IF Len(s) < n THEN Len(s) ELSE n)
    IN  [ items |-> [k \in DOMAIN Cut(items, MaxItems) |-> RepairItem(items[k])],
          drop |-> Range(Cut(drops, 3)) ]

===============================================================================
