------------------------------- MODULE TasteTurn -------------------------------
(***************************************************************************)
(* A turn's extraction and its merge together: what the models answer on an *)
(* utterance, with the profile as it is, becomes the delta that             *)
(* ProfileMerger takes in.  A deployment has one of the two extractions,    *)
(* with the judgment model or without.                                      *)
(***************************************************************************)
EXTENDS ProfileMerger

CONSTANTS
    Axes, Categories, VariantOf, MaxCandidates, MaxTargets, MaxItems,
    Judgments,        \* what the two models may say of an utterance
    Extractions       \* what the one model may say of it

INSTANCE TasteJudgment

ASSUME TurnConstants ==
    /\ Axes \cup Categories \subseteq Paths
    /\ MaxCandidates \in Nat /\ MaxTargets \in Nat /\ MaxItems \in Nat

\* The values of the entries that are not superseded: variants of them are no news.
Stored(signals) == {s.value : s \in {t \in Range(signals) : t.status # "superseded"}}

\* spoken: what the utterance names; earlier: what the two before it name.
JudgedDelta(j) ==
    LET parsed == WithoutVariants(ParseCandidates(j.raw), Stored(profile))
        candidates == parsed \o Remention(profile, j.spoken, parsed)
        targets == CorrectionTargets(profile, j.spoken \cup j.earlier, turn)
    IN  JudgmentDelta(candidates, j.answer, targets, j.doubt)

\* In the first turn there is no earlier utterance to find evidence in.
Possible(d) == turn = 0 => \A k \in DOMAIN d.items : d.items[k].said # "context"

ExtractByJudgment(j) == at = 0 /\ Possible(JudgedDelta(j)) /\ StartMerge(JudgedDelta(j))

ExtractItems(raw) == Possible(ParseExtraction(raw)) /\ StartMerge(ParseExtraction(raw))

\* No answer in time, after the retries: the turn goes on without.
ExtractionFails == StartMerge(NoDelta)

TurnNext ==
    \/ \E j \in Judgments : ExtractByJudgment(j)
    \/ \E raw \in Extractions : ExtractItems(raw)
    \/ ExtractionFails
    \/ MergeItem
    \/ FinishMerge

TurnSpec == Init /\ [][TurnNext]_vars

===============================================================================
