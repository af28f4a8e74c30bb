---------------------------- MODULE ProfileMergerProofs ----------------------------
(***************************************************************************)
(* The merge of a turn's extraction, for any values, any items and any limits. *)
(* What makes the profile consistent is an invariant of the copy the merge    *)
(* works on: each item leaves it sound.  What a whole merge may do to the      *)
(* profile is said by relating the copy to the profile it was made from, up to *)
(* the item the merge has come to.                                            *)
(*                                                                         *)
(* What an analysis shows of a profile is a fold over what the profile and the *)
(* keyword model give: the last part of this module says what a fold is, by   *)
(* induction on the number of its steps, and what each fold of               *)
(* AnalysisKeywords keeps true.                                              *)
(***************************************************************************)
EXTENDS AnalysisKeywords, SequenceTheorems, FiniteSetTheorems, WellFoundedInduction, TLAPS

Sound(signals) == OneSided(signals) /\ SingleIn(signals) /\ EarnedIn(signals)

\* Why a merge may end the dislike of v.
Reversed(v) ==
    \/ \E d \in delta.drop : d.field \in NegativeFields /\ d.value = v
    \/ /\ v \notin NegativeInTurn
       /\ \E item \in Items : /\ item.field \in PositiveFields /\ item.value = v
                              /\ item.evidence_type = "explicit" /\ item.said = "now"

DislikesHeld ==
    \A v \in Values : LiveAt(profile, NegativeFields, v) # {} /\ LiveAt(merged, NegativeFields, v) = {}
                        => Reversed(v)

\* What has ended stays as it was, and its value is known to have ended.
EndedKept ==
    /\ Len(profile) <= Len(merged)
    /\ \A j \in 1 .. Len(profile) :
          profile[j].status = "superseded" => /\ merged[j] = profile[j]
                                              /\ profile[j].value \in superseded_values

\* What a new entry rests on.
Founded(s) ==
    /\ <<Polarity(s.field), s.value>> \notin DroppedNow
    /\ s.value \in superseded_values => \E item \in Items : item.value = s.value /\ item.said = "now"

NewFounded == \A i \in Len(profile) + 1 .. Len(merged) : Founded(merged[i])

\* The first n items that speak of s.
Spoken(s, n) ==
    {k \in 1 .. n : /\ delta.items[k].field = s.field /\ delta.items[k].value = s.value
                    /\ delta.items[k].said = "now"}

Counted ==
    \A i \in 1 .. Len(profile) :
        /\ merged[i].field = profile[i].field /\ merged[i].value = profile[i].value
        /\ merged[i].mention_count <= profile[i].mention_count
                                        + Cardinality(Spoken(profile[i], at - 1))

\* The inductive invariant.
IInv ==
    /\ TypeOK /\ Sound(profile) /\ Sound(merged)
    /\ at > 0 => DislikesHeld /\ EndedKept /\ NewFounded /\ Counted

-----------------------------------------------------------------------------
(* Lemmas about signals.                                                      *)

LEMMA Fielded ==
    /\ \A f \in Fields : \A g \in PreviousFields(f) : g \in PositiveFields /\ g \notin NegativeFields /\ g # f
    /\ \A f \in PositiveFields : f \in Fields /\ f \notin NegativeFields
    /\ \A f \in NegativeFields : f \in Fields
    /\ "unaffordable" \in PreviousFields("wants") /\ "wants" \in PreviousFields("unaffordable")
BY DEF PreviousFields, PositiveFields, NegativeFields, QueryFields, WeightFields, Fields

\* Better evidence allows more confidence.
LEMMA Evidence ==
    \A a, b \in EvidenceTypes :
        /\ Ceiling[a] \in 0 .. 100 /\ Priority[a] \in Nat
        /\ Priority[a] >= Priority[b] => Ceiling[a] >= Ceiling[b]
<1>1. Ceiling["explicit"] = 100 /\ Ceiling["confirmed"] = 90 /\ Ceiling["inferred"] = 65
  BY DEF Ceiling
<1>2. Priority["explicit"] = 3 /\ Priority["confirmed"] = 2 /\ Priority["inferred"] = 1
  BY DEF Priority
<1> QED
  BY <1>1, <1>2 DEF EvidenceTypes

\* An entry that changes its status and nothing else.
LEMMA StatusFacts ==
    ASSUME NEW s \in Signal, NEW st \in {"active", "inactive", "superseded"},
           NEW t, t = [s EXCEPT !.status = st]
    PROVE  /\ t \in Signal /\ t.status = st
           /\ t.field = s.field /\ t.value = s.value /\ t.confidence = s.confidence
           /\ t.evidence_type = s.evidence_type /\ t.mention_count = s.mention_count
           /\ s.status = st => t = s
<1>1. t \in Signal
  BY DEF Signal
<1>2. /\ t.status = st /\ t.field = s.field /\ t.value = s.value /\ t.confidence = s.confidence
      /\ t.evidence_type = s.evidence_type /\ t.mention_count = s.mention_count
  BY DEF Signal
<1>3. s.status = st => t = s
  BY DEF Signal
<1> QED
  BY <1>1, <1>2, <1>3

\* A sequence mapped place by place.
LEMMA Mapped ==
    ASSUME NEW s \in Seq(Signal), NEW t \in [DOMAIN s -> Signal]
    PROVE  t \in Seq(Signal) /\ Len(t) = Len(s) /\ DOMAIN t = 1 .. Len(s)
<1>1. DOMAIN s = 1 .. Len(s) /\ Len(s) \in Nat
  BY LenProperties
<1>2. t \in Seq(Signal)
  BY <1>1, SeqDef
<1> QED
  BY <1>1, <1>2, LenProperties

LEMMA SupersedeFacts ==
    ASSUME NEW s \in Seq(Signal), NEW P, NEW t, t = Supersede(s, P)
    PROVE  /\ t \in Seq(Signal) /\ Len(t) = Len(s)
           /\ \A i \in 1 .. Len(s) :
                 /\ t[i].field = s[i].field /\ t[i].value = s[i].value
                 /\ t[i].confidence = s[i].confidence /\ t[i].evidence_type = s[i].evidence_type
                 /\ t[i].mention_count = s[i].mention_count
                 /\ i \in P => t[i].status = "superseded"
                 /\ i \notin P => t[i] = s[i]
                 /\ s[i].status = "superseded" => t[i] = s[i]
<1>1. DOMAIN s = 1 .. Len(s) /\ \A i \in 1 .. Len(s) : s[i] \in Signal
  BY LenProperties, ElementOfSeq
<1>2. \A i \in 1 .. Len(s) : t[i] = IF i \in P THEN [s[i] EXCEPT !.status = "superseded"] ELSE s[i]
  BY <1>1 DEF Supersede
<1>3. ASSUME NEW i \in 1 .. Len(s)
      PROVE  /\ t[i] \in Signal
             /\ t[i].field = s[i].field /\ t[i].value = s[i].value
             /\ t[i].confidence = s[i].confidence /\ t[i].evidence_type = s[i].evidence_type
             /\ t[i].mention_count = s[i].mention_count
             /\ i \in P => t[i].status = "superseded"
             /\ i \notin P => t[i] = s[i]
             /\ s[i].status = "superseded" => t[i] = s[i]
  <2>1. CASE i \in P
    <3>1. PICK st \in {"superseded"} : t[i] = [s[i] EXCEPT !.status = st]
      BY <1>2, <2>1
    <3>2. st \in {"active", "inactive", "superseded"} /\ s[i] \in Signal
      BY <1>1
    <3> QED
      BY <2>1, <3>1, <3>2, StatusFacts
  <2>2. CASE i \notin P
    BY <1>1, <1>2, <2>2
  <2> QED
    BY <2>1, <2>2
<1>4. t \in [DOMAIN s -> Signal]
  BY <1>1, <1>3 DEF Supersede
<1> QED
  BY <1>3, <1>4, Mapped

\* A copy in which entries have only ended, or gained confidence as their
\* evidence allows.
LEMMA EndingKeepsSound ==
    ASSUME NEW s \in Seq(Signal), NEW t \in Seq(Signal), Len(t) = Len(s), Sound(s),
           \A i \in 1 .. Len(s) :
              /\ t[i].field = s[i].field /\ t[i].value = s[i].value
              /\ t[i].status # "superseded" => s[i].status # "superseded"
              /\ t[i].confidence <= Ceiling[t[i].evidence_type]
    PROVE  Sound(t)
<1>1. DOMAIN s = 1 .. Len(s) /\ DOMAIN t = 1 .. Len(s)
  BY LenProperties
<1>2. \A v, fields : LiveAt(t, fields, v) \subseteq LiveAt(s, fields, v)
  BY <1>1 DEF LiveAt
<1>3. OneSided(t)
  BY <1>2 DEF Sound, OneSided
<1>4. SingleIn(t)
  BY <1>1 DEF Sound, SingleIn
<1>5. EarnedIn(t)
  BY <1>1 DEF EarnedIn
<1> QED
  BY <1>3, <1>4, <1>5 DEF Sound

LEMMA SupersedeSound ==
    ASSUME NEW s \in Seq(Signal), NEW P, Sound(s)
    PROVE  Sound(Supersede(s, P))
<1> DEFINE t == Supersede(s, P)
<1>1. DOMAIN s = 1 .. Len(s)
  BY LenProperties
<1>2. \A i \in 1 .. Len(s) : s[i].confidence <= Ceiling[s[i].evidence_type]
  BY <1>1 DEF Sound, EarnedIn
<1>3. /\ t \in Seq(Signal) /\ Len(t) = Len(s)
      /\ \A i \in 1 .. Len(s) :
              /\ t[i].field = s[i].field /\ t[i].value = s[i].value
              /\ t[i].status # "superseded" => s[i].status # "superseded"
              /\ t[i].confidence = s[i].confidence /\ t[i].evidence_type = s[i].evidence_type
  BY SupersedeFacts
<1> HIDE DEF t
<1>4. Sound(t)
  BY <1>2, <1>3, EndingKeepsSound
<1> QED
  BY <1>4 DEF t

\* The choice of the entries that count ends none and revives none.
LEMMA WorkingSetFacts ==
    ASSUME NEW s \in Seq(Signal), NEW t, t = WorkingSet(s)
    PROVE  /\ t \in Seq(Signal) /\ Len(t) = Len(s)
           /\ \A i \in 1 .. Len(s) :
                 /\ t[i].field = s[i].field /\ t[i].value = s[i].value
                 /\ t[i].confidence = s[i].confidence /\ t[i].evidence_type = s[i].evidence_type
                 /\ t[i].mention_count = s[i].mention_count
                 /\ t[i].status = "superseded" <=> s[i].status = "superseded"
                 /\ s[i].status = "superseded" => t[i] = s[i]
<1>1. DOMAIN s = 1 .. Len(s) /\ \A i \in 1 .. Len(s) : s[i] \in Signal
  BY LenProperties, ElementOfSeq
<1> DEFINE chosen == Chosen(s)
<1>2. t = [i \in DOMAIN s |-> IF s[i].status = "superseded" THEN s[i]
                ELSE [s[i] EXCEPT !.status = IF i \in chosen THEN "active" ELSE "inactive"]]
  BY DEF WorkingSet
<1> HIDE DEF chosen
<1>3. ASSUME NEW i \in 1 .. Len(s)
      PROVE  /\ t[i] \in Signal
             /\ t[i].field = s[i].field /\ t[i].value = s[i].value
             /\ t[i].confidence = s[i].confidence /\ t[i].evidence_type = s[i].evidence_type
             /\ t[i].mention_count = s[i].mention_count
             /\ t[i].status = "superseded" <=> s[i].status = "superseded"
             /\ s[i].status = "superseded" => t[i] = s[i]
  <2>1. CASE s[i].status = "superseded"
    BY <1>1, <1>2, <2>1
  <2>2. CASE s[i].status # "superseded"
    <3>1. PICK st \in {"active", "inactive"} : t[i] = [s[i] EXCEPT !.status = st]
      BY <1>1, <1>2, <2>2
    <3> QED
      BY <1>1, <2>2, <3>1, StatusFacts
  <2> QED
    BY <2>1, <2>2
<1>4. t \in [DOMAIN s -> Signal]
  BY <1>1, <1>2, <1>3
<1> QED
  BY <1>3, <1>4, Mapped

-----------------------------------------------------------------------------
(* Lemmas about one item.                                                     *)

\* A value's confidence is what its evidence allows at most.
LEMMA CalibratedFacts ==
    ASSUME NEW item \in Item
    PROVE  Calibrated(item) \in 0 .. 100 /\ Calibrated(item) <= Ceiling[item.evidence_type]
<1>1. item.confidence \in 0 .. 100 /\ item.evidence_type \in EvidenceTypes
  BY DEF Item
<1>2. Ceiling[item.evidence_type] \in 0 .. 100
  BY <1>1, Evidence
<1> QED
  BY <1>1, <1>2 DEF Calibrated, Lesser

\* The better of two kinds of evidence, and the greater of two confidences.
LEMMA BetterEvidence ==
    ASSUME NEW a \in EvidenceTypes, NEW b \in EvidenceTypes, NEW x \in 0 .. 100, NEW y \in 0 .. 100,
           x <= Ceiling[a], y <= Ceiling[b],
           NEW type, type = IF Priority[a] >= Priority[b] THEN a ELSE b,
           NEW conf, conf = IF x > y THEN x ELSE y
    PROVE  conf \in 0 .. 100 /\ type \in EvidenceTypes /\ conf <= Ceiling[type]
<1>1. /\ Ceiling[a] \in 0 .. 100 /\ Ceiling[b] \in 0 .. 100
      /\ Priority[a] \in Nat /\ Priority[b] \in Nat
      /\ Priority[a] >= Priority[b] => Ceiling[a] >= Ceiling[b]
      /\ Priority[b] >= Priority[a] => Ceiling[b] >= Ceiling[a]
  BY Evidence
<1>2. CASE Priority[a] >= Priority[b]
  <2>1. type = a
    BY <1>2
  <2>2. CASE x > y
    BY <2>1, <2>2
  <2>3. CASE ~(x > y)
    <3>1. conf = y /\ Ceiling[b] <= Ceiling[a]
      BY <1>1, <1>2, <2>3
    <3> QED
      BY <1>1, <2>1, <3>1
  <2> QED
    BY <2>2, <2>3
<1>3. CASE ~(Priority[a] >= Priority[b])
  <2>1. type = b /\ Ceiling[a] <= Ceiling[b]
    BY <1>1, <1>3
  <2>2. CASE x > y
    BY <1>1, <2>1, <2>2
  <2>3. CASE ~(x > y)
    BY <2>1, <2>3
  <2> QED
    BY <2>2, <2>3
<1> QED
  BY <1>2, <1>3

\* An entry that is said again.
LEMMA RewordedFacts ==
    ASSUME NEW old \in Signal, NEW item \in Item, turn \in Nat,
           old.confidence <= Ceiling[old.evidence_type],
           NEW new, new = Reworded(old, item)
    PROVE  /\ new \in Signal
           /\ new.field = old.field /\ new.value = old.value /\ new.status = "active"
           /\ new.mention_count = old.mention_count + 1
           /\ new.confidence <= Ceiling[new.evidence_type]
<1>1. PICK conf, type, tgt, pth, turns :
        /\ conf = IF Calibrated(item) > old.confidence THEN Calibrated(item) ELSE old.confidence
        /\ type = IF Priority[item.evidence_type] >= Priority[old.evidence_type]
                  THEN item.evidence_type ELSE old.evidence_type
        /\ tgt = IF item.target # None THEN item.target ELSE old.target
        /\ pth = IF item.path # None THEN item.path ELSE old.path
        /\ turns = SourceTurn(item)
  OBVIOUS
<1>2. new = [old EXCEPT !.confidence = conf, !.updated_at = turn, !.source_turn = turns,
                        !.mention_count = old.mention_count + 1, !.evidence_type = type,
                        !.target = tgt, !.path = pth, !.status = "active"]
  BY <1>1 DEF Reworded, Signal
<1>3. /\ old.confidence \in 0 .. 100 /\ old.evidence_type \in EvidenceTypes
      /\ old.mention_count \in Nat \ {0} /\ item.evidence_type \in EvidenceTypes
  BY DEF Signal, Item
<1>4. conf \in 0 .. 100 /\ type \in EvidenceTypes /\ conf <= Ceiling[type]
  BY <1>1, <1>3, CalibratedFacts, BetterEvidence
<1>5. tgt \in Values \cup {None} /\ pth \in Paths \cup {None} /\ turns \in Int
  BY <1>1 DEF Signal, Item, SourceTurn
<1>6. new \in Signal
  <2>1. /\ old.field \in Fields /\ old.value \in Values
        /\ old.mention_count + 1 \in Nat \ {0}
    BY <1>3 DEF Signal
  <2>2. new = [field |-> old.field, value |-> old.value, confidence |-> conf,
               evidence_type |-> type, mention_count |-> old.mention_count + 1,
               status |-> "active", updated_at |-> turn, source_turn |-> turns,
               target |-> tgt, path |-> pth]
    BY <1>2 DEF Signal
  <2> QED
    BY <1>4, <1>5, <2>1, <2>2 DEF Signal
<1>7. /\ new.field = old.field /\ new.value = old.value /\ new.status = "active"
      /\ new.mention_count = old.mention_count + 1
      /\ new.confidence = conf /\ new.evidence_type = type
  BY <1>2 DEF Signal
<1> QED
  BY <1>4, <1>6, <1>7

LEMMA NewSignalFacts ==
    ASSUME NEW item \in Item, turn \in Nat
    PROVE  /\ NewSignal(item) \in Signal
           /\ NewSignal(item).field = item.field /\ NewSignal(item).value = item.value
           /\ NewSignal(item).confidence <= Ceiling[NewSignal(item).evidence_type]
<1>1. SourceTurn(item) \in Int
  BY DEF SourceTurn
<1> QED
  BY <1>1, CalibratedFacts DEF NewSignal, Item, Signal

-----------------------------------------------------------------------------
(* One item of a merge.                                                       *)

\* An entry of its own joins a sound copy.
LEMMA AppendSound ==
    ASSUME NEW s \in Seq(Signal), NEW new \in Signal, Sound(s),
           new.confidence <= Ceiling[new.evidence_type],
           LiveAt(s, {new.field}, new.value) = {},
           LiveAt(s, PreviousFields(new.field), new.value) = {},
           new.field \in PositiveFields => LiveAt(s, NegativeFields, new.value) = {},
           new.field \in NegativeFields => LiveAt(s, PositiveFields, new.value) = {}
    PROVE  Sound(Append(s, new))
<1> DEFINE t == Append(s, new)
<1>1. /\ t \in Seq(Signal) /\ Len(t) = Len(s) + 1 /\ Len(s) \in Nat
      /\ DOMAIN t = 1 .. Len(s) + 1 /\ DOMAIN s = 1 .. Len(s)
      /\ \A i \in 1 .. Len(s) : t[i] = s[i]
      /\ t[Len(s) + 1] = new
  BY AppendProperties, LenProperties
<1> HIDE DEF t
<1>2. OneSided(t)
  <2> SUFFICES ASSUME NEW v \in Values, NEW i \in LiveAt(t, PositiveFields, v),
                      NEW j \in LiveAt(t, NegativeFields, v)
               PROVE  FALSE
    BY DEF OneSided
  <2>1. CASE i = Len(s) + 1
    <3>1. j # i /\ new.field \in PositiveFields /\ new.value = v
      BY <1>1, <2>1, Fielded DEF LiveAt
    <3>2. j \in LiveAt(s, NegativeFields, v)
      BY <1>1, <2>1, <3>1 DEF LiveAt
    <3> QED
      BY <3>1, <3>2
  <2>2. CASE j = Len(s) + 1
    <3>1. j # i /\ new.field \in NegativeFields /\ new.value = v
      BY <1>1, <2>2, Fielded DEF LiveAt
    <3>2. i \in LiveAt(s, PositiveFields, v)
      BY <1>1, <2>2, <3>1 DEF LiveAt
    <3> QED
      BY <3>1, <3>2
  <2>3. CASE i # Len(s) + 1 /\ j # Len(s) + 1
    BY <1>1, <2>3 DEF LiveAt, Sound, OneSided
  <2> QED
    BY <2>1, <2>2, <2>3
<1>3. SingleIn(t)
  <2> SUFFICES ASSUME NEW i \in 1 .. Len(s) + 1, NEW j \in 1 .. Len(s) + 1,
                      t[i].status # "superseded", t[j].status # "superseded",
                      t[i].value = t[j].value,
                      \/ t[i].field = t[j].field
                      \/ t[i].field = "wants" /\ t[j].field = "unaffordable"
               PROVE  i = j
    BY <1>1 DEF SingleIn
  <2>1. CASE i = Len(s) + 1 /\ j \in 1 .. Len(s)
    <3>1. j \in LiveAt(s, {new.field}, new.value) \cup LiveAt(s, PreviousFields(new.field), new.value)
      BY <1>1, <2>1, Fielded DEF LiveAt
    <3> QED
      BY <3>1
  <2>2. CASE j = Len(s) + 1 /\ i \in 1 .. Len(s)
    <3>1. i \in LiveAt(s, {new.field}, new.value) \cup LiveAt(s, PreviousFields(new.field), new.value)
      BY <1>1, <2>2, Fielded DEF LiveAt
    <3> QED
      BY <3>1
  <2>3. CASE i \in 1 .. Len(s) /\ j \in 1 .. Len(s)
    BY <1>1, <2>3 DEF Sound, SingleIn
  <2> QED
    BY <1>1, <2>1, <2>2, <2>3
<1>4. EarnedIn(t)
  BY <1>1 DEF Sound, EarnedIn
<1> QED
  BY <1>2, <1>3, <1>4 DEF Sound, t

\* An item ends a dislike only as DislikesHold says.
LEMMA EndsDislike ==
    ASSUME NEW item \in Items, item \in Item, ~Contradicted(item),
           NEW i \in Opposed(item) \cup LiveAt(merged, PreviousFields(item.field), item.value),
           merged[i].field \in NegativeFields
    PROVE  Reversed(merged[i].value)
<1>1. item.field \in Fields
  BY DEF Item
<1>2. i \in Opposed(item)
  BY <1>1, Fielded DEF LiveAt
<1>3. item.field \in PositiveFields /\ i \in LiveAt(merged, NegativeFields, item.value)
  BY <1>2, Fielded DEF Opposed, LiveAt
<1>4. merged[i].value = item.value
  BY <1>3 DEF LiveAt
<1> QED
  BY <1>3, <1>4 DEF Contradicted, Reversed

\* Whether the item is one more mention of s.
Mentions(item, s) == item.field = s.field /\ item.value = s.value /\ item.said = "now"

\* What one item may do to the copy.
Merged(item) ==
    /\ merged' \in Seq(Signal) /\ Sound(merged')
    /\ Len(merged) <= Len(merged')
    /\ \A i \in 1 .. Len(merged) :
          /\ merged'[i].field = merged[i].field /\ merged'[i].value = merged[i].value
          /\ merged[i].status = "superseded" => merged'[i] = merged[i]
          /\ merged[i].field \in NegativeFields /\ merged[i].status # "superseded"
               /\ merged'[i].status = "superseded" => Reversed(merged[i].value)
          /\ merged'[i].mention_count
               <= merged[i].mention_count + (IF Mentions(item, merged[i]) THEN 1 ELSE 0)
    /\ \A i \in Len(merged) + 1 .. Len(merged') : Founded(merged'[i])

LEMMA RejectMerged ==
    ASSUME IInv, NEW item \in Item, Reject(item)
    PROVE  Merged(item)
<1>1. merged' = merged
  BY DEF Reject
<1>2. \A i \in 1 .. Len(merged) : merged[i] \in Signal
  BY ElementOfSeq DEF IInv, TypeOK
<1>3. Len(merged) \in Nat
  BY LenProperties DEF IInv, TypeOK
<1>4. Sound(merged')
  BY <1>1 DEF IInv, Sound, OneSided, SingleIn, EarnedIn, LiveAt
<1>5. \A i \in 1 .. Len(merged) : merged[i].mention_count \in Nat
  BY <1>2 DEF Signal
<1> QED
  BY <1>1, <1>3, <1>4, <1>5 DEF IInv, TypeOK, Merged

\* The entries that an item ends, and no other change.
LEMMA SupersedeMerged ==
    ASSUME IInv, NEW item \in Items, item \in Item, ~Contradicted(item),
           NEW P, P \subseteq Opposed(item) \cup LiveAt(merged, PreviousFields(item.field), item.value),
           NEW t, t = Supersede(merged, P)
    PROVE  /\ t \in Seq(Signal) /\ Sound(t) /\ Len(t) = Len(merged) /\ Len(merged) \in Nat
           /\ \A i \in 1 .. Len(merged) :
                 /\ t[i].field = merged[i].field /\ t[i].value = merged[i].value
                 /\ merged[i].status = "superseded" => t[i] = merged[i]
                 /\ i \in P => t[i].status = "superseded"
                 /\ i \notin P => t[i] = merged[i]
                 /\ merged[i].field \in NegativeFields /\ merged[i].status # "superseded"
                      /\ t[i].status = "superseded" => Reversed(merged[i].value)
                 /\ t[i].mention_count = merged[i].mention_count /\ merged[i].mention_count \in Nat
<1>1. merged \in Seq(Signal) /\ Sound(merged) /\ Len(merged) \in Nat
  BY LenProperties DEF IInv, TypeOK
<1>2. t \in Seq(Signal) /\ Len(t) = Len(merged) /\ Sound(t)
  BY <1>1, SupersedeFacts, SupersedeSound
<1>3. ASSUME NEW i \in 1 .. Len(merged)
      PROVE  /\ t[i].field = merged[i].field /\ t[i].value = merged[i].value
             /\ merged[i].status = "superseded" => t[i] = merged[i]
             /\ i \in P => t[i].status = "superseded"
             /\ i \notin P => t[i] = merged[i]
             /\ t[i].mention_count = merged[i].mention_count
  BY <1>1, SupersedeFacts
<1>4. ASSUME NEW i \in 1 .. Len(merged), merged[i].field \in NegativeFields,
             merged[i].status # "superseded", t[i].status = "superseded"
      PROVE  Reversed(merged[i].value)
  <2>1. i \in P
    BY <1>3, <1>4
  <2> QED
    BY <1>4, <2>1, EndsDislike
<1>5. ASSUME NEW i \in 1 .. Len(merged) PROVE merged[i].mention_count \in Nat
  <2>1. merged[i] \in Signal
    BY <1>1, ElementOfSeq
  <2> QED
    BY <2>1 DEF Signal
<1> QED
  BY <1>1, <1>2, <1>3, <1>4, <1>5

LEMMA RecallMerged ==
    ASSUME IInv, NEW item \in Items, item \in Item, ~Contradicted(item), Recall(item)
    PROVE  Merged(item)
<1>1. merged' = Supersede(merged, Opposed(item))
  BY DEF Recall
<1>2. /\ merged' \in Seq(Signal) /\ Sound(merged') /\ Len(merged') = Len(merged) /\ Len(merged) \in Nat
      /\ \A i \in 1 .. Len(merged) :
            /\ merged'[i].field = merged[i].field /\ merged'[i].value = merged[i].value
            /\ merged[i].status = "superseded" => merged'[i] = merged[i]
            /\ merged[i].field \in NegativeFields /\ merged[i].status # "superseded"
                 /\ merged'[i].status = "superseded" => Reversed(merged[i].value)
            /\ merged'[i].mention_count = merged[i].mention_count /\ merged[i].mention_count \in Nat
  BY <1>1, SupersedeMerged
<1> QED
  BY <1>2 DEF Merged

\* What Cleared ends is never an entry of the item's own field.
LEMMA OwnFieldStays ==
    ASSUME NEW item \in Item, NEW i \in Known(item)
    PROVE  /\ i \notin Opposed(item) \cup LiveAt(merged, PreviousFields(item.field), item.value)
           /\ i \in DOMAIN merged /\ merged[i].field = item.field /\ merged[i].value = item.value
           /\ merged[i].status # "superseded"
<1>1. /\ i \in DOMAIN merged /\ merged[i].field = item.field /\ merged[i].value = item.value
      /\ merged[i].status # "superseded" /\ item.field \in Fields
  BY DEF Known, LiveAt, Item
<1>2. i \notin LiveAt(merged, PreviousFields(item.field), item.value)
  BY <1>1, Fielded DEF LiveAt
<1>3. i \notin Opposed(item)
  BY <1>1, Fielded DEF Opposed, LiveAt
<1> QED
  BY <1>1, <1>2, <1>3

LEMMA RepeatMerged ==
    ASSUME IInv, NEW item \in Items, item \in Item, ~Contradicted(item), Repeat(item)
    PROVE  Merged(item)
<1> DEFINE ended == Opposed(item) \cup LiveAt(merged, PreviousFields(item.field), item.value)
           c == Supersede(merged, ended)
<1>1. /\ c \in Seq(Signal) /\ Sound(c) /\ Len(c) = Len(merged) /\ Len(merged) \in Nat
      /\ \A i \in 1 .. Len(merged) :
            /\ c[i].field = merged[i].field /\ c[i].value = merged[i].value
            /\ merged[i].status = "superseded" => c[i] = merged[i]
            /\ i \notin ended => c[i] = merged[i]
            /\ merged[i].field \in NegativeFields /\ merged[i].status # "superseded"
                 /\ c[i].status = "superseded" => Reversed(merged[i].value)
            /\ c[i].mention_count = merged[i].mention_count /\ merged[i].mention_count \in Nat
  BY SupersedeMerged
<1>2. DOMAIN c = 1 .. Len(merged) /\ DOMAIN merged = 1 .. Len(merged)
  BY <1>1, LenProperties DEF IInv, TypeOK
<1>3. PICK p \in Known(item) : merged' = [c EXCEPT ![p] = Reworded(c[p], item)]
  BY DEF Repeat, Cleared
<1>4. item.said = "now"
  BY DEF Repeat
<1> HIDE DEF c
<1>5. /\ p \in 1 .. Len(merged) /\ p \notin ended
      /\ merged[p].field = item.field /\ merged[p].value = item.value
      /\ merged[p].status # "superseded"
  BY <1>2, OwnFieldStays
<1> HIDE DEF ended
<1>6. c[p] = merged[p] /\ c[p] \in Signal /\ c[p].confidence <= Ceiling[c[p].evidence_type]
  BY <1>1, <1>2, <1>5, ElementOfSeq DEF Sound, EarnedIn
<1> DEFINE new == Reworded(c[p], item)
<1>7. /\ new \in Signal /\ new.field = c[p].field /\ new.value = c[p].value
      /\ new.status = "active" /\ new.mention_count = c[p].mention_count + 1
      /\ new.confidence <= Ceiling[new.evidence_type]
  <2>1. turn \in Nat
    BY MergerConstants DEF IInv, TypeOK
  <2> QED
    BY <1>6, <2>1, RewordedFacts
<1> HIDE DEF new
<1>8. /\ merged' \in Seq(Signal) /\ Len(merged') = Len(merged)
      /\ \A i \in 1 .. Len(merged) : merged'[i] = IF i = p THEN new ELSE c[i]
  BY <1>1, <1>3, <1>5, <1>7, ExceptSeq DEF new
<1>9. Sound(merged')
  <2>1. \A i \in 1 .. Len(c) : c[i].confidence <= Ceiling[c[i].evidence_type]
    BY <1>1, <1>2 DEF Sound, EarnedIn
  <2>2. \A i \in 1 .. Len(c) :
          /\ merged'[i].field = c[i].field /\ merged'[i].value = c[i].value
          /\ merged'[i].status # "superseded" => c[i].status # "superseded"
          /\ merged'[i].confidence <= Ceiling[merged'[i].evidence_type]
    BY <1>1, <1>5, <1>6, <1>7, <1>8, <2>1
  <2> QED
    BY <1>1, <1>8, <2>2, EndingKeepsSound
<1>10. ASSUME NEW i \in 1 .. Len(merged)
       PROVE  /\ merged'[i].field = merged[i].field /\ merged'[i].value = merged[i].value
              /\ merged[i].status = "superseded" => merged'[i] = merged[i]
              /\ merged[i].field \in NegativeFields /\ merged[i].status # "superseded"
                   /\ merged'[i].status = "superseded" => Reversed(merged[i].value)
              /\ merged'[i].mention_count
                   <= merged[i].mention_count + (IF Mentions(item, merged[i]) THEN 1 ELSE 0)
  <2>1. CASE i = p
    BY <1>1, <1>4, <1>5, <1>6, <1>7, <1>8, <2>1 DEF Mentions
  <2>2. CASE i # p
    BY <1>1, <1>8, <2>2
  <2> QED
    BY <2>1, <2>2
<1> QED
  BY <1>1, <1>8, <1>9, <1>10 DEF Merged

LEMMA AddMerged ==
    ASSUME IInv, NEW item \in Items, item \in Item, ~Unfounded(item), ~Contradicted(item), Add(item)
    PROVE  Merged(item)
<1> DEFINE ended == Opposed(item) \cup LiveAt(merged, PreviousFields(item.field), item.value)
           c == Supersede(merged, ended)
           new == NewSignal(item)
<1>1. /\ c \in Seq(Signal) /\ Sound(c) /\ Len(c) = Len(merged) /\ Len(merged) \in Nat
      /\ \A i \in 1 .. Len(merged) :
            /\ c[i].field = merged[i].field /\ c[i].value = merged[i].value
            /\ merged[i].status = "superseded" => c[i] = merged[i]
            /\ i \in ended => c[i].status = "superseded"
            /\ i \notin ended => c[i] = merged[i]
            /\ merged[i].field \in NegativeFields /\ merged[i].status # "superseded"
                 /\ c[i].status = "superseded" => Reversed(merged[i].value)
            /\ c[i].mention_count = merged[i].mention_count /\ merged[i].mention_count \in Nat
  BY SupersedeMerged
<1>2. DOMAIN c = 1 .. Len(merged) /\ DOMAIN merged = 1 .. Len(merged)
  BY <1>1, LenProperties DEF IInv, TypeOK
<1>3. merged' = Append(c, new) /\ Known(item) = {}
  BY DEF Add, Cleared
<1>4. /\ new \in Signal /\ new.field = item.field /\ new.value = item.value
      /\ new.confidence <= Ceiling[new.evidence_type]
  <2>1. turn \in Nat
    BY MergerConstants DEF IInv, TypeOK
  <2> QED
    BY <2>1, NewSignalFacts
<1> HIDE DEF c, new
<1>5. \A fields, v : LiveAt(c, fields, v) \subseteq LiveAt(merged, fields, v) \ ended
  <2> SUFFICES ASSUME NEW fields, NEW v, NEW i \in LiveAt(c, fields, v)
               PROVE  i \in LiveAt(merged, fields, v) \ ended
    OBVIOUS
  <2>1. i \in 1 .. Len(merged) /\ c[i].status # "superseded"
    BY <1>2 DEF LiveAt
  <2>2. i \notin ended /\ c[i] = merged[i]
    BY <1>1, <2>1
  <2> QED
    BY <1>2, <2>1, <2>2 DEF LiveAt
<1>6. Sound(merged')
  <2>1. LiveAt(c, {new.field}, new.value) = {}
    BY <1>3, <1>4, <1>5 DEF Known
  <2>2. LiveAt(c, PreviousFields(new.field), new.value) = {}
    BY <1>4, <1>5
  <2>3. new.field \in PositiveFields => LiveAt(c, NegativeFields, new.value) = {}
    BY <1>4, <1>5 DEF Opposed
  <2>4. new.field \in NegativeFields => LiveAt(c, PositiveFields, new.value) = {}
    BY <1>4, <1>5, Fielded DEF Opposed
  <2> QED
    BY <1>1, <1>3, <1>4, <2>1, <2>2, <2>3, <2>4, AppendSound
<1>7. /\ merged' \in Seq(Signal) /\ Len(merged') = Len(merged) + 1
      /\ \A i \in 1 .. Len(merged) : merged'[i] = c[i]
      /\ merged'[Len(merged) + 1] = new
  BY <1>1, <1>3, <1>4, AppendProperties
<1>8. Founded(new)
  <2>1. <<Polarity(new.field), new.value>> \notin DroppedNow
    BY <1>4 DEF Unfounded
  <2>2. new.value \in superseded_values => item.said = "now"
    BY <1>4 DEF Unfounded
  <2> QED
    BY <1>4, <2>1, <2>2 DEF Founded
<1> HIDE DEF ended
<1>9. \A i \in Len(merged) + 1 .. Len(merged') : Founded(merged'[i])
  <2>1. \A i \in Len(merged) + 1 .. Len(merged') : i = Len(merged) + 1
    BY <1>1, <1>7
  <2> QED
    BY <1>7, <1>8, <2>1
<1> QED
  BY <1>1, <1>6, <1>7, <1>9 DEF Merged

LEMMA ItemMerged ==
    ASSUME IInv, MergeItem
    PROVE  \E item \in Item : item = delta.items[at] /\ Merged(item)
<1>1. PICK item : item = delta.items[at]
  OBVIOUS
<1>2. item \in Items /\ item \in Item
  <2>1. at \in DOMAIN delta.items /\ delta.items \in Seq(Item)
    BY DEF MergeItem, IInv, TypeOK, Delta
  <2> QED
    BY <1>1, <2>1, LenProperties, ElementOfSeq DEF Items
<1>3. Reject(item) \/ TakeIn(item)
  BY <1>1 DEF MergeItem
<1>4. CASE Reject(item)
  BY <1>1, <1>2, <1>4, RejectMerged
<1>5. CASE TakeIn(item)
  BY <1>1, <1>2, <1>5, RecallMerged, RepeatMerged, AddMerged DEF TakeIn
<1> QED
  BY <1>3, <1>4, <1>5

-----------------------------------------------------------------------------
(* The invariant.                                                             *)

LEMMA SeqFacts ==
    ASSUME NEW s \in Seq(Signal)
    PROVE  /\ DOMAIN s = 1 .. Len(s) /\ Len(s) \in Nat
           /\ \A i \in 1 .. Len(s) : /\ s[i] \in Signal /\ s[i].mention_count \in Nat
                                     /\ s[i].field \in Fields /\ s[i].value \in Values
<1>1. \A i \in 1 .. Len(s) : s[i] \in Signal
  BY ElementOfSeq
<1> QED
  BY <1>1, LenProperties DEF Signal

LEMMA InitIInv ==
    Init => IInv
<1> SUFFICES ASSUME Init PROVE IInv
  OBVIOUS
<1>1. profile = <<>> /\ merged = <<>> /\ turn = 0 /\ at = 0 /\ superseded_values = {}
      /\ delta = [drop |-> {}, items |-> <<>>]
  BY DEF Init, NoDelta
<1>2. delta \in Delta /\ Len(delta.items) = 0
  BY <1>1 DEF Delta
<1>3. <<>> \in Seq(Signal) /\ DOMAIN <<>> = {}
  OBVIOUS
<1>4. TypeOK
  BY <1>1, <1>2, <1>3, MergerConstants DEF TypeOK
<1>5. Sound(<<>>)
  BY <1>3 DEF Sound, OneSided, SingleIn, EarnedIn, LiveAt
<1> QED
  BY <1>1, <1>4, <1>5 DEF IInv

LEMMA StartMergeIInv ==
    ASSUME IInv, NEW d \in Delta, StartMerge(d)
    PROVE  IInv'
<1> DEFINE P == UNION {LiveAt(profile, {e.field}, e.value) : e \in d.drop}
<1>1. /\ at = 0 /\ turn < MaxTurns /\ turn' = turn + 1 /\ delta' = d /\ at' = 1
      /\ merged' = Supersede(profile, P) /\ profile' = profile
      /\ superseded_values' =
            {merged'[i].value : i \in {j \in DOMAIN merged' : merged'[j].status = "superseded"}}
  BY DEF StartMerge, Dropped
<1>2. profile \in Seq(Signal) /\ Sound(profile)
  BY DEF IInv, TypeOK
<1>3. /\ merged' \in Seq(Signal) /\ Len(merged') = Len(profile) /\ Len(profile) \in Nat
      /\ DOMAIN merged' = 1 .. Len(profile) /\ DOMAIN profile = 1 .. Len(profile)
      /\ \A i \in 1 .. Len(profile) :
            /\ merged'[i].field = profile[i].field /\ merged'[i].value = profile[i].value
            /\ merged'[i].value \in Values
            /\ merged'[i].mention_count = profile[i].mention_count
            /\ profile[i].mention_count \in Nat
            /\ i \notin P => merged'[i] = profile[i]
            /\ profile[i].status = "superseded" => merged'[i] = profile[i]
  <2>1. /\ merged' \in Seq(Signal) /\ Len(merged') = Len(profile)
        /\ \A i \in 1 .. Len(profile) :
            /\ merged'[i].field = profile[i].field /\ merged'[i].value = profile[i].value
            /\ merged'[i].mention_count = profile[i].mention_count
            /\ i \notin P => merged'[i] = profile[i]
            /\ profile[i].status = "superseded" => merged'[i] = profile[i]
    <3>1. PICK m : m = merged' /\ m = Supersede(profile, P)
      BY <1>1
    <3> HIDE DEF P
    <3> QED
      BY <1>2, <3>1, SupersedeFacts
  <2>2. PICK m : m = merged'
    OBVIOUS
  <2> QED
    BY <1>2, <2>1, <2>2, SeqFacts
<1>4. Sound(merged')
  BY <1>1, <1>2, SupersedeSound
<1>5. Sound(profile)'
  BY <1>1, <1>2 DEF Sound, OneSided, SingleIn, EarnedIn, LiveAt
<1>6. TypeOK'
  <2>1. Len(d.items) \in Nat
    BY DEF Delta
  <2>2. superseded_values' \subseteq Values
    BY <1>1, <1>3
  <2>3. turn' \in 0 .. MaxTurns
    BY <1>1, MergerConstants DEF IInv, TypeOK
  <2>4. at' \in 0 .. Len(delta'.items) + 1
    BY <1>1, <2>1
  <2> QED
    BY <1>1, <1>2, <1>3, <2>2, <2>3, <2>4 DEF TypeOK
<1>7. DislikesHeld'
  <2> SUFFICES ASSUME NEW v \in Values, LiveAt(profile, NegativeFields, v) # {},
                      LiveAt(merged', NegativeFields, v) = {}
               PROVE  \E e \in delta'.drop : e.field \in NegativeFields /\ e.value = v
    BY <1>1 DEF DislikesHeld, Reversed, LiveAt
  <2>1. PICK i \in 1 .. Len(profile) : /\ profile[i].field \in NegativeFields /\ profile[i].value = v
                                       /\ profile[i].status # "superseded"
    BY <1>3 DEF LiveAt
  <2>2. merged'[i].status = "superseded"
    BY <1>3, <2>1 DEF LiveAt
  <2>3. i \in P
    BY <1>3, <2>1, <2>2
  <2>4. PICK e \in d.drop : i \in LiveAt(profile, {e.field}, e.value)
    BY <2>3
  <2> QED
    BY <1>1, <2>1, <2>4 DEF LiveAt
<1> HIDE DEF P
<1>8. EndedKept'
  <2>1. ASSUME NEW j \in 1 .. Len(profile), profile[j].status = "superseded"
        PROVE  merged'[j] = profile[j] /\ profile[j].value \in superseded_values'
    BY <1>1, <1>3, <2>1
  <2> QED
    BY <1>1, <1>3, <2>1 DEF EndedKept
<1>9. NewFounded'
  BY <1>1, <1>3 DEF NewFounded
<1>10. Counted'
  <2>1. \A i \in 1 .. Len(profile) : (Spoken(profile[i], at - 1))' = {}
    BY <1>1 DEF Spoken
  <2>2. Cardinality({}) = 0
    BY FS_EmptySet
  <2>3. \A i \in 1 .. Len(profile) : (Cardinality(Spoken(profile[i], at - 1)))' = 0
    BY <2>1, <2>2
  <2> QED
    BY <1>1, <1>3, <2>3 DEF Counted
<1> QED
  BY <1>4, <1>5, <1>6, <1>7, <1>8, <1>9, <1>10 DEF IInv, Sound, OneSided, SingleIn, EarnedIn, LiveAt

\* One more item speaks of an entry at most once more.
LEMMA SpokenStep ==
    ASSUME NEW n \in Nat \ {0}, NEW s
    PROVE  /\ Cardinality(Spoken(s, n)) \in Nat /\ Cardinality(Spoken(s, n - 1)) \in Nat
           /\ Cardinality(Spoken(s, n))
                = Cardinality(Spoken(s, n - 1)) + (IF Mentions(delta.items[n], s) THEN 1 ELSE 0)
<1>1. \A m \in Nat : IsFiniteSet(Spoken(s, m)) /\ Cardinality(Spoken(s, m)) \in Nat
  <2> SUFFICES ASSUME NEW m \in Nat
               PROVE  IsFiniteSet(Spoken(s, m)) /\ Cardinality(Spoken(s, m)) \in Nat
    OBVIOUS
  <2>1. IsFiniteSet(1 .. m) /\ Spoken(s, m) \subseteq 1 .. m
    BY FS_Interval DEF Spoken
  <2> QED
    BY <2>1, FS_Subset, FS_CardinalityType
<1>2. CASE Mentions(delta.items[n], s)
  <2>1. Spoken(s, n) = Spoken(s, n - 1) \cup {n}
    BY <1>2 DEF Spoken, Mentions
  <2>2. n \notin Spoken(s, n - 1)
    BY DEF Spoken
  <2> QED
    <3>1. n \in Nat /\ n - 1 \in Nat
      OBVIOUS
    <3>2. Cardinality(Spoken(s, n - 1) \cup {n}) = Cardinality(Spoken(s, n - 1)) + 1
      BY <1>1, <2>2, <3>1, FS_AddElement
    <3> QED
      BY <1>1, <1>2, <2>1, <3>1, <3>2
<1>3. CASE ~Mentions(delta.items[n], s)
  <2>1. Spoken(s, n) = Spoken(s, n - 1)
    BY <1>3 DEF Spoken, Mentions
  <2> QED
    <3>1. n \in Nat /\ n - 1 \in Nat
      OBVIOUS
    <3> QED
      BY <1>1, <1>3, <2>1, <3>1
<1> QED
  BY <1>2, <1>3

LEMMA MergeItemIInv ==
    ASSUME IInv, MergeItem
    PROVE  IInv'
<1>1. /\ at' = at + 1 /\ profile' = profile /\ turn' = turn /\ delta' = delta
      /\ superseded_values' = superseded_values
  BY DEF MergeItem
<1>2. /\ delta.items \in Seq(Item) /\ at \in 1 .. Len(delta.items) /\ Len(delta.items) \in Nat
  BY LenProperties DEF MergeItem, IInv, TypeOK, Delta
<1>3. PICK item \in Item : item = delta.items[at] /\ Merged(item)
  BY ItemMerged
<1>4. /\ profile \in Seq(Signal) /\ merged \in Seq(Signal) /\ Sound(profile)
      /\ DislikesHeld /\ EndedKept /\ NewFounded /\ Counted
  BY <1>2 DEF IInv, TypeOK
<1>5. /\ merged' \in Seq(Signal) /\ Sound(merged') /\ Len(merged) <= Len(merged')
      /\ \A i \in 1 .. Len(merged) :
            /\ merged'[i].field = merged[i].field /\ merged'[i].value = merged[i].value
            /\ merged[i].status = "superseded" => merged'[i] = merged[i]
            /\ merged[i].field \in NegativeFields /\ merged[i].status # "superseded"
                 /\ merged'[i].status = "superseded" => Reversed(merged[i].value)
            /\ merged'[i].mention_count
                 <= merged[i].mention_count + (IF Mentions(item, merged[i]) THEN 1 ELSE 0)
      /\ \A i \in Len(merged) + 1 .. Len(merged') : Founded(merged'[i])
  BY <1>3 DEF Merged
<1>6. /\ Len(profile) \in Nat /\ Len(merged) \in Nat /\ Len(merged') \in Nat
      /\ DOMAIN profile = 1 .. Len(profile) /\ DOMAIN merged = 1 .. Len(merged)
      /\ DOMAIN merged' = 1 .. Len(merged')
      /\ \A i \in 1 .. Len(profile) : profile[i].mention_count \in Nat
      /\ \A i \in 1 .. Len(merged) : merged[i].mention_count \in Nat
      /\ \A i \in 1 .. Len(merged') : merged'[i].mention_count \in Nat
  <2>1. PICK m : m = merged'
    OBVIOUS
  <2> QED
    BY <1>4, <1>5, <2>1, SeqFacts
<1>7. /\ Len(profile) <= Len(merged)
      /\ \A j \in 1 .. Len(profile) :
            profile[j].status = "superseded" => /\ merged[j] = profile[j]
                                                /\ profile[j].value \in superseded_values
  BY <1>4 DEF EndedKept
<1>8. TypeOK'
  <2>1. at' \in 0 .. Len(delta'.items) + 1
    BY <1>1, <1>2
  <2> QED
    BY <1>1, <1>5, <2>1 DEF IInv, TypeOK
<1>9. DislikesHeld'
  <2>1. \A v : Reversed(v)' <=> Reversed(v)
    BY <1>1 DEF Reversed, Items, NegativeInTurn
  <2> SUFFICES ASSUME NEW v \in Values, LiveAt(profile, NegativeFields, v) # {},
                      LiveAt(merged', NegativeFields, v) = {}
               PROVE  Reversed(v)
    BY <1>1, <2>1 DEF DislikesHeld, LiveAt
  <2>2. CASE LiveAt(merged, NegativeFields, v) = {}
    BY <1>4, <2>2 DEF DislikesHeld
  <2>3. CASE LiveAt(merged, NegativeFields, v) # {}
    <3>1. PICK i \in 1 .. Len(merged) : /\ merged[i].field \in NegativeFields /\ merged[i].value = v
                                        /\ merged[i].status # "superseded"
      BY <1>6, <2>3 DEF LiveAt
    <3>2. merged'[i].field \in NegativeFields /\ merged'[i].value = v
      BY <1>5, <3>1
    <3>3. i \in DOMAIN merged'
      BY <1>5, <1>6
    <3>4. merged'[i].status = "superseded"
      BY <3>2, <3>3 DEF LiveAt
    <3> QED
      BY <1>5, <3>1, <3>4
  <2> QED
    BY <2>2, <2>3
<1>10. EndedKept'
  <2>1. Len(profile) <= Len(merged')
    BY <1>5, <1>6, <1>7
  <2>2. \A j \in 1 .. Len(profile) :
          profile[j].status = "superseded" => /\ merged'[j] = profile[j]
                                              /\ profile[j].value \in superseded_values
    BY <1>5, <1>6, <1>7
  <2> QED
    BY <1>1, <2>1, <2>2 DEF EndedKept
<1>11. NewFounded'
  <2>1. \A s : Founded(s)' <=> Founded(s)
    BY <1>1 DEF Founded, Items, DroppedNow
  <2>2. ASSUME NEW i \in Len(profile) + 1 .. Len(merged')
        PROVE  Founded(merged'[i])
    <3>1. CASE i \in Len(profile) + 1 .. Len(merged)
      <4>1. Founded(merged[i]) /\ i \in 1 .. Len(merged)
        BY <1>4, <1>6, <3>1 DEF NewFounded
      <4>2. merged'[i].field = merged[i].field /\ merged'[i].value = merged[i].value
        BY <1>5, <4>1
      <4> QED
        BY <4>1, <4>2 DEF Founded
    <3>2. CASE i \in Len(merged) + 1 .. Len(merged')
      BY <1>5, <3>2
    <3> QED
      BY <1>6, <1>7, <2>2, <3>1, <3>2
  <2> QED
    BY <1>1, <2>1, <2>2 DEF NewFounded, Founded, Items, DroppedNow
<1>12. Counted'
  <2>1. ASSUME NEW i \in 1 .. Len(profile)
        PROVE  /\ merged'[i].field = profile[i].field /\ merged'[i].value = profile[i].value
               /\ merged'[i].mention_count <= profile[i].mention_count
                                                + Cardinality(Spoken(profile[i], at))
    <3>1. /\ merged[i].field = profile[i].field /\ merged[i].value = profile[i].value
          /\ merged[i].mention_count <= profile[i].mention_count
                                          + Cardinality(Spoken(profile[i], at - 1))
      BY <1>4 DEF Counted
    <3>2. i \in 1 .. Len(merged)
      BY <1>6, <1>7
    <3>3. /\ Cardinality(Spoken(profile[i], at)) \in Nat
          /\ Cardinality(Spoken(profile[i], at - 1)) \in Nat
          /\ Cardinality(Spoken(profile[i], at))
               = Cardinality(Spoken(profile[i], at - 1))
                   + (IF Mentions(delta.items[at], profile[i]) THEN 1 ELSE 0)
      <4>1. PICK n : n = at
        OBVIOUS
      <4>2. PICK s : s = profile[i]
        OBVIOUS
      <4>3. n \in Nat \ {0}
        BY <1>2, <4>1
      <4>4. /\ Cardinality(Spoken(s, n)) \in Nat /\ Cardinality(Spoken(s, n - 1)) \in Nat
            /\ Cardinality(Spoken(s, n))
                 = Cardinality(Spoken(s, n - 1)) + (IF Mentions(delta.items[n], s) THEN 1 ELSE 0)
        BY <4>3, SpokenStep
      <4> QED
        BY <4>1, <4>2, <4>4
    <3>4. Mentions(item, merged[i]) <=> Mentions(delta.items[at], profile[i])
      BY <1>3, <3>1 DEF Mentions
    <3>5. merged'[i].mention_count
            <= merged[i].mention_count + (IF Mentions(delta.items[at], profile[i]) THEN 1 ELSE 0)
      BY <1>5, <3>2, <3>4
    <3>6. /\ profile[i].mention_count \in Nat /\ merged[i].mention_count \in Nat
          /\ merged'[i].mention_count \in Nat
      BY <1>5, <1>6, <3>2
    <3>7. merged'[i].mention_count <= profile[i].mention_count
                                        + Cardinality(Spoken(profile[i], at))
      BY <3>1, <3>3, <3>5, <3>6
    <3> QED
      BY <1>5, <3>1, <3>2, <3>7
  <2>2. \A i \in 1 .. Len(profile) : (Spoken(profile[i], at - 1))' = Spoken(profile[i], at)
    BY <1>1, <1>2 DEF Spoken
  <2> QED
    BY <1>1, <2>1, <2>2 DEF Counted
<1>13. Sound(profile)' /\ Sound(merged)'
  BY <1>1, <1>4, <1>5 DEF Sound, OneSided, SingleIn, EarnedIn, LiveAt
<1> QED
  BY <1>8, <1>9, <1>10, <1>11, <1>12, <1>13 DEF IInv

\* What the end of a merge makes of the copy.
LEMMA Finished ==
    ASSUME IInv, FinishMerge
    PROVE  /\ at > 0 /\ profile' \in Seq(Signal) /\ Sound(profile') /\ Len(profile') = Len(merged)
           /\ DOMAIN profile' = 1 .. Len(merged) /\ DOMAIN profile = 1 .. Len(profile)
           /\ DOMAIN merged = 1 .. Len(merged)
           /\ Len(merged) \in Nat /\ Len(profile) \in Nat
           /\ \A i \in 1 .. Len(merged) :
                 /\ profile'[i].field = merged[i].field /\ profile'[i].value = merged[i].value
                 /\ profile'[i].mention_count = merged[i].mention_count
                 /\ profile'[i].status = "superseded" <=> merged[i].status = "superseded"
                 /\ merged[i].status = "superseded" => profile'[i] = merged[i]
<1>1. PICK p : p = profile' /\ p = WorkingSet(merged)
  BY DEF FinishMerge
<1>2. merged \in Seq(Signal) /\ Sound(merged) /\ profile \in Seq(Signal)
  BY DEF IInv, TypeOK
<1>3. /\ p \in Seq(Signal) /\ Len(p) = Len(merged)
      /\ \A i \in 1 .. Len(merged) :
                 /\ p[i].field = merged[i].field /\ p[i].value = merged[i].value
                 /\ p[i].confidence = merged[i].confidence /\ p[i].evidence_type = merged[i].evidence_type
                 /\ p[i].mention_count = merged[i].mention_count
                 /\ p[i].status = "superseded" <=> merged[i].status = "superseded"
                 /\ merged[i].status = "superseded" => p[i] = merged[i]
  BY <1>1, <1>2, WorkingSetFacts
<1>4. /\ DOMAIN p = 1 .. Len(merged) /\ DOMAIN profile = 1 .. Len(profile)
      /\ DOMAIN merged = 1 .. Len(merged) /\ Len(merged) \in Nat /\ Len(profile) \in Nat
  BY <1>2, <1>3, SeqFacts
<1>5. \A i \in 1 .. Len(merged) : merged[i].confidence <= Ceiling[merged[i].evidence_type]
  BY <1>2, <1>4 DEF Sound, EarnedIn
<1>6. Sound(p)
  BY <1>2, <1>3, <1>5, EndingKeepsSound
<1>7. at > 0
  <2>1. Len(delta.items) \in Nat /\ at = Len(delta.items) + 1
    BY LenProperties DEF FinishMerge, IInv, TypeOK, Delta
  <2> QED
    BY <2>1
<1> QED
  BY <1>1, <1>3, <1>4, <1>6, <1>7

LEMMA FinishMergeIInv ==
    ASSUME IInv, FinishMerge
    PROVE  IInv'
<1>1. at' = 0 /\ merged' = <<>> /\ superseded_values' = {} /\ delta' = NoDelta /\ turn' = turn
  BY DEF FinishMerge
<1>2. <<>> \in Seq(Signal) /\ DOMAIN <<>> = {}
  OBVIOUS
<1>3. Sound(<<>>)
  BY <1>2 DEF Sound, OneSided, SingleIn, EarnedIn, LiveAt
<1>4. profile' \in Seq(Signal) /\ Sound(profile')
  BY Finished
<1>5. NoDelta \in Delta /\ Len(NoDelta.items) = 0
  BY DEF NoDelta, Delta
<1>6. TypeOK'
  BY <1>1, <1>2, <1>4, <1>5 DEF IInv, TypeOK
<1>7. Sound(profile)' /\ Sound(merged)'
  BY <1>1, <1>3, <1>4 DEF Sound, OneSided, SingleIn, EarnedIn, LiveAt
<1> QED
  BY <1>1, <1>6, <1>7 DEF IInv

LEMMA NextIInv ==
    IInv /\ [Next]_vars => IInv'
<1> SUFFICES ASSUME IInv, [Next]_vars PROVE IInv'
  OBVIOUS
<1>1. ASSUME NEW d \in Delta, StartMerge(d) PROVE IInv'
  BY <1>1, StartMergeIInv
<1>2. CASE MergeItem
  BY <1>2, MergeItemIInv
<1>3. CASE FinishMerge
  BY <1>3, FinishMergeIInv
<1>4. CASE UNCHANGED vars
  <2>1. TypeOK' /\ Sound(profile)' /\ Sound(merged)'
    BY <1>4 DEF vars, IInv, TypeOK, Sound, OneSided, SingleIn, EarnedIn, LiveAt
  <2>2. DislikesHeld => DislikesHeld'
    BY <1>4 DEF vars, DislikesHeld, LiveAt, Reversed, NegativeInTurn, Items
  <2>3. EndedKept => EndedKept'
    BY <1>4 DEF vars, EndedKept
  <2>4. NewFounded => NewFounded'
    BY <1>4 DEF vars, NewFounded, Founded, DroppedNow, Items
  <2>5. Counted => Counted'
    BY <1>4 DEF vars, Counted, Spoken
  <2> QED
    BY <1>4, <2>1, <2>2, <2>3, <2>4, <2>5 DEF vars, IInv
<1> QED
  BY <1>1, <1>2, <1>3, <1>4 DEF Next

-----------------------------------------------------------------------------
(* The theorems.                                                              *)

\* The inductive invariant holds in every state of a session's merges.
THEOREM Invariance == Spec => []IInv
<1>1. Init => IInv
  BY InitIInv
<1>2. IInv /\ [Next]_vars => IInv'
  BY NextIInv
<1> QED
  BY <1>1, <1>2, PTL DEF Spec

\* Every entry the merge makes or changes is a well-formed one.
THEOREM TypeCorrect == Spec => []TypeOK
<1>1. IInv => TypeOK
  BY DEF IInv
<1> QED
  BY <1>1, Invariance, PTL

\* Nothing is on the liked and the disliked side at once, at any point of a merge.
THEOREM OneSideHolds == Spec => []OneSide
<1>1. IInv => OneSide
  BY DEF IInv, Sound, OneSide
<1> QED
  BY <1>1, Invariance, PTL

\* A thing has one live entry in a field, and is not both wanted and given up.
THEOREM OneEntryHolds == Spec => []OneEntry
<1>1. IInv => OneEntry
  BY DEF IInv, Sound, OneEntry
<1> QED
  BY <1>1, Invariance, PTL

\* No entry is more certain than its evidence allows, however it came about.
THEOREM ConfidenceHolds == Spec => []ConfidenceEarned
<1>1. IInv => ConfidenceEarned
  BY DEF IInv, Sound, ConfidenceEarned
<1> QED
  BY <1>1, Invariance, PTL

\* Only the end of a merge changes the stored profile.
LEMMA OnlyFinishChanges ==
    Next => FinishMerge \/ UNCHANGED profile
BY DEF Next, StartMerge, MergeItem

\* A turn ends a dislike only if it takes it back or says the opposite outright.
THEOREM DislikesHoldAlways == Spec => DislikesHold
<1> DEFINE A == \A v \in Values :
                    LiveAt(profile, NegativeFields, v) # {} /\ LiveAt(profile', NegativeFields, v) = {} =>
                      \/ \E d \in delta.drop : d.field \in NegativeFields /\ d.value = v
                      \/ /\ v \notin NegativeInTurn
                         /\ \E item \in Items :
                               /\ item.field \in PositiveFields /\ item.value = v
                               /\ item.evidence_type = "explicit" /\ item.said = "now"
<1>1. IInv /\ FinishMerge => A
  <2> SUFFICES ASSUME IInv, FinishMerge, NEW v \in Values,
                      LiveAt(profile, NegativeFields, v) # {}, LiveAt(profile', NegativeFields, v) = {}
               PROVE  Reversed(v)
    BY DEF Reversed
  <2>1. LiveAt(merged, NegativeFields, v) = {}
    <3> SUFFICES ASSUME NEW i \in LiveAt(merged, NegativeFields, v)
                 PROVE  i \in LiveAt(profile', NegativeFields, v)
      OBVIOUS
    <3> QED
      BY Finished DEF LiveAt
  <2> QED
    BY <2>1, Finished DEF IInv, DislikesHeld
<1>2. IInv /\ [Next]_vars => [A]_profile
  BY <1>1, OnlyFinishChanges DEF vars
<1> QED
  BY <1>2, Invariance, PTL DEF Spec, DislikesHold

\* What was taken back does not come back on old words, and the record of what
\* has ended is not rewritten.
THEOREM TakenBackStaysAlways == Spec => TakenBackStays
<1> DEFINE A == /\ \A i \in DOMAIN profile' \ DOMAIN profile :
                      /\ <<Polarity(profile'[i].field), profile'[i].value>> \notin DroppedNow
                      /\ (\E j \in DOMAIN profile : /\ profile[j].status = "superseded"
                                                    /\ profile[j].value = profile'[i].value)
                           => \E item \in Items : item.value = profile'[i].value /\ item.said = "now"
                /\ \A j \in DOMAIN profile : profile[j].status = "superseded" => profile'[j] = profile[j]
<1>1. IInv /\ FinishMerge => A
  <2> SUFFICES ASSUME IInv, FinishMerge PROVE A
    OBVIOUS
  <2>1. EndedKept /\ NewFounded
    BY Finished DEF IInv
  <2>2. ASSUME NEW i \in DOMAIN profile' \ DOMAIN profile
        PROVE  /\ <<Polarity(profile'[i].field), profile'[i].value>> \notin DroppedNow
               /\ (\E j \in DOMAIN profile : /\ profile[j].status = "superseded"
                                             /\ profile[j].value = profile'[i].value)
                    => \E item \in Items : item.value = profile'[i].value /\ item.said = "now"
    <3>1. i \in Len(profile) + 1 .. Len(merged) /\ i \in 1 .. Len(merged)
      BY <2>2, Finished
    <3>2. Founded(merged[i])
      BY <2>1, <3>1 DEF NewFounded
    <3>3. profile'[i].field = merged[i].field /\ profile'[i].value = merged[i].value
      BY <3>1, Finished
    <3>4. \A j \in DOMAIN profile : profile[j].status = "superseded" => profile[j].value \in superseded_values
      BY <2>1, Finished DEF EndedKept
    <3> QED
      BY <3>2, <3>3, <3>4 DEF Founded
  <2>3. ASSUME NEW j \in DOMAIN profile, profile[j].status = "superseded"
        PROVE  profile'[j] = profile[j]
    <3>1. j \in 1 .. Len(profile) /\ j \in 1 .. Len(merged)
      BY <2>1, Finished DEF EndedKept
    <3>2. merged[j] = profile[j]
      BY <2>1, <2>3, <3>1 DEF EndedKept
    <3> QED
      BY <2>3, <3>1, <3>2, Finished
  <2> QED
    BY <2>2, <2>3
<1>2. IInv /\ [Next]_vars => [A]_profile
  BY <1>1, OnlyFinishChanges DEF vars
<1> QED
  BY <1>2, Invariance, PTL DEF Spec, TakenBackStays

\* An entry gains a mention only from an item the user said in the same turn.
THEOREM MentionsSpokenAlways == Spec => MentionsSpoken
<1> DEFINE A == \A i \in DOMAIN profile :
                    profile'[i].mention_count <= profile[i].mention_count
                       + Cardinality({k \in DOMAIN delta.items :
                                        /\ delta.items[k].field = profile[i].field
                                        /\ delta.items[k].value = profile[i].value
                                        /\ delta.items[k].said = "now"})
<1>1. IInv /\ FinishMerge => A
  <2> SUFFICES ASSUME IInv, FinishMerge PROVE A
    OBVIOUS
  <2>0. DOMAIN delta.items = 1 .. at - 1
    <3>1. delta.items \in Seq(Item)
      BY DEF IInv, TypeOK, Delta
    <3>2. DOMAIN delta.items = 1 .. Len(delta.items) /\ Len(delta.items) \in Nat
      BY <3>1, LenProperties
    <3>3. at = Len(delta.items) + 1
      BY DEF FinishMerge
    <3> QED
      BY <3>2, <3>3
  <2> SUFFICES ASSUME NEW i \in DOMAIN profile
               PROVE  profile'[i].mention_count <= profile[i].mention_count
                         + Cardinality(Spoken(profile[i], at - 1))
    BY <2>0 DEF Spoken
  <2>1. EndedKept /\ Counted
    BY Finished DEF IInv
  <2>2. i \in 1 .. Len(profile) /\ i \in 1 .. Len(merged)
    BY <2>1, Finished DEF EndedKept
  <2>3. merged[i].mention_count <= profile[i].mention_count + Cardinality(Spoken(profile[i], at - 1))
    BY <2>1, <2>2 DEF Counted
  <2> QED
    BY <2>2, <2>3, Finished
<1>2. IInv /\ [Next]_vars => [A]_profile
  BY <1>1, OnlyFinishChanges DEF vars
<1> QED
  BY <1>2, Invariance, PTL DEF Spec, MentionsSpoken

-----------------------------------------------------------------------------
(* Places in an order.  R is a set of pairs, the first of which comes before  *)
(* the second.                                                                *)

StrictOrder(R, C) ==
    /\ \A i \in C : <<i, i>> \notin R
    /\ \A i, j, k \in C : <<i, j>> \in R /\ <<j, k>> \in R => <<i, k>> \in R
    /\ \A i, j \in C : i # j => <<i, j>> \in R \/ <<j, i>> \in R

Before(R, C, i) == {j \in C : <<j, i>> \in R}

PlaceOf(R, C, i) == Cardinality(Before(R, C, i))

\* Who comes later has more before.
LEMMA LaterHasMore ==
    ASSUME NEW C, IsFiniteSet(C), NEW R, StrictOrder(R, C),
           NEW i \in C, NEW j \in C, <<i, j>> \in R
    PROVE  /\ PlaceOf(R, C, i) \in Nat /\ PlaceOf(R, C, j) \in Nat
           /\ PlaceOf(R, C, i) < PlaceOf(R, C, j)
<1>1. Before(R, C, i) \in SUBSET Before(R, C, j)
  BY DEF StrictOrder, Before
<1>2. i \in Before(R, C, j) /\ i \notin Before(R, C, i)
  BY DEF StrictOrder, Before
<1>3. Before(R, C, j) \in SUBSET C
  BY DEF Before
<1>4. IsFiniteSet(Before(R, C, j))
  BY <1>3, FS_Subset
<1>5. /\ IsFiniteSet(Before(R, C, i))
      /\ Cardinality(Before(R, C, i)) <= Cardinality(Before(R, C, j))
      /\ Cardinality(Before(R, C, j)) = Cardinality(Before(R, C, i)) => Before(R, C, j) = Before(R, C, i)
  BY <1>1, <1>4, FS_Subset
<1>6. Cardinality(Before(R, C, i)) \in Nat /\ Cardinality(Before(R, C, j)) \in Nat
  BY <1>4, <1>5, FS_CardinalityType
<1> QED
  BY <1>2, <1>5, <1>6 DEF PlaceOf

\* The places are the numbers below the size, each taken once.
LEMMA PlacesFill ==
    ASSUME NEW C, IsFiniteSet(C), NEW R, StrictOrder(R, C)
    PROVE  /\ Cardinality(C) \in Nat
           /\ \A i \in C : PlaceOf(R, C, i) \in 0 .. Cardinality(C) - 1
           /\ \A i, j \in C : PlaceOf(R, C, i) = PlaceOf(R, C, j) => i = j
           /\ \A n \in 0 .. Cardinality(C) - 1 : \E i \in C : PlaceOf(R, C, i) = n
<1> DEFINE f == [i \in C |-> PlaceOf(R, C, i)]
           T == 0 .. Cardinality(C) - 1
<1>1. Cardinality(C) \in Nat
  BY FS_CardinalityType
<1>2. ASSUME NEW i \in C PROVE PlaceOf(R, C, i) \in T
  <2>1. Before(R, C, i) \in SUBSET C /\ i \notin Before(R, C, i)
    BY DEF Before, StrictOrder
  <2>2. /\ IsFiniteSet(Before(R, C, i))
        /\ Cardinality(Before(R, C, i)) <= Cardinality(C)
        /\ Cardinality(C) = Cardinality(Before(R, C, i)) => C = Before(R, C, i)
    BY <2>1, FS_Subset
  <2>3. Cardinality(Before(R, C, i)) \in Nat
    BY <2>2, FS_CardinalityType
  <2> QED
    BY <1>1, <2>1, <2>2, <2>3 DEF PlaceOf
<1>3. ASSUME NEW i \in C, NEW j \in C, i # j PROVE PlaceOf(R, C, i) # PlaceOf(R, C, j)
  <2>1. <<i, j>> \in R \/ <<j, i>> \in R
    BY <1>3 DEF StrictOrder
  <2>2. CASE <<i, j>> \in R
    BY <2>2, LaterHasMore
  <2>3. CASE <<j, i>> \in R
    BY <2>3, LaterHasMore
  <2> QED
    BY <2>1, <2>2, <2>3
<1>4. f \in Injection(C, T)
  <2>1. f \in [C -> T]
    BY <1>2
  <2>2. IsInjective(f)
    BY <1>3 DEF IsInjective
  <2> QED
    BY <2>1, <2>2 DEF Injection
<1>5. IsFiniteSet(T) /\ Cardinality(T) = Cardinality(C)
  <2>1. IsFiniteSet(T) /\ Cardinality(T) = IF 0 > Cardinality(C) - 1 THEN 0 ELSE Cardinality(C) - 1 - 0 + 1
    BY <1>1, FS_Interval
  <2> QED
    BY <1>1, <2>1
<1>6. Cardinality(C) = Cardinality(T) <=> f \in Surjection(C, T)
  <2> HIDE DEF f, T
  <2> QED
    BY <1>4, <1>5, FS_Injection
<1>7. f \in Surjection(C, T)
  BY <1>5, <1>6
<1>8. \A n \in T : \E i \in C : f[i] = n
  BY <1>7 DEF Surjection
<1> QED
  BY <1>1, <1>2, <1>3, <1>8

\* As many come first as are asked for, or all there are.
LEMMA FirstPlaces ==
    ASSUME NEW C, IsFiniteSet(C), NEW R, StrictOrder(R, C), NEW limit \in Nat
    PROVE  Cardinality({i \in C : PlaceOf(R, C, i) < limit}) = Lesser(limit, Cardinality(C))
<1> DEFINE n == Lesser(limit, Cardinality(C))
           S == {i \in C : PlaceOf(R, C, i) < limit}
           f == [i \in S |-> PlaceOf(R, C, i)]
           T == 0 .. n - 1
<1>1. /\ Cardinality(C) \in Nat
      /\ \A i \in C : PlaceOf(R, C, i) \in 0 .. Cardinality(C) - 1
      /\ \A i, j \in C : PlaceOf(R, C, i) = PlaceOf(R, C, j) => i = j
      /\ \A m \in 0 .. Cardinality(C) - 1 : \E i \in C : PlaceOf(R, C, i) = m
  BY PlacesFill
<1>2. n \in Nat /\ n <= limit /\ n <= Cardinality(C) /\ (n = limit \/ n = Cardinality(C))
  BY <1>1 DEF Lesser
<1>3. IsFiniteSet(T) /\ Cardinality(T) = n
  <2> HIDE DEF n
  <2>1. 0 \in Int /\ n - 1 \in Int
    BY <1>2
  <2>2. IsFiniteSet(T) /\ Cardinality(T) = IF 0 > n - 1 THEN 0 ELSE n - 1 - 0 + 1
    BY <2>1, FS_Interval
  <2> QED
    BY <1>2, <2>2
<1>4. f \in [S -> T]
  <2> HIDE DEF n
  <2>1. ASSUME NEW i \in S PROVE PlaceOf(R, C, i) \in T
    BY <1>1, <1>2
  <2> QED
    BY <2>1
<1>5. f \in Injection(S, T)
  <2>1. IsInjective(f)
    BY <1>1 DEF IsInjective
  <2> QED
    BY <1>4, <2>1 DEF Injection
<1>6. f \in Surjection(S, T)
  <2> HIDE DEF n
  <2>1. ASSUME NEW m \in T PROVE \E i \in S : f[i] = m
    <3>1. m \in 0 .. Cardinality(C) - 1 /\ m < limit
      BY <1>1, <1>2
    <3>2. PICK i \in C : PlaceOf(R, C, i) = m
      BY <1>1, <3>1
    <3> QED
      BY <3>1, <3>2
  <2> QED
    BY <1>4, <2>1 DEF Surjection
<1>7. Cardinality(S) = Cardinality(T)
  <2> HIDE DEF f, S, T
  <2> QED
    BY <1>3, <1>5, <1>6, FS_Injection
<1> QED
  BY <1>3, <1>7

-----------------------------------------------------------------------------
(* The keys entries are sorted by.                                            *)

SortKeys == [1 .. 7 -> Int]

LEMMA LeastNumber ==
    ASSUME NEW T \in SUBSET Nat, T # {}
    PROVE  \E x \in T : \A y \in T : x <= y
<1>1. PICK x \in T : \A y \in T : ~ (<<y, x>> \in OpToRel(<, Nat))
  BY NatLessThanWellFounded, WFMin
<1>2. ASSUME NEW y \in T, ~(x <= y)
      PROVE  FALSE
  <2>1. y < x /\ x \in Nat /\ y \in Nat
    BY <1>2
  <2>2. <<y, x>> \in OpToRel(<, Nat)
    BY <2>1 DEF OpToRel
  <2> QED
    BY <1>1, <2>2
<1> QED
  BY <1>2

\* The order of keys is that of their first difference.
LEMMA ExceedsOrder ==
    ASSUME NEW a \in SortKeys, NEW b \in SortKeys, NEW c \in SortKeys
    PROVE  /\ ~Exceeds(a, a)
           /\ Exceeds(a, b) /\ Exceeds(b, c) => Exceeds(a, c)
           /\ Exceeds(a, b) \/ Exceeds(b, a) \/ a = b
<1>1. /\ DOMAIN a = 1 .. 7 /\ DOMAIN b = 1 .. 7
      /\ \A k \in 1 .. 7 : a[k] \in Int /\ b[k] \in Int /\ c[k] \in Int
  BY DEF SortKeys
<1>2. ~Exceeds(a, a)
  BY <1>1 DEF Exceeds
<1>3. ASSUME Exceeds(a, b), Exceeds(b, c) PROVE Exceeds(a, c)
  <2>1. PICK k \in 1 .. 7 : a[k] > b[k] /\ \A m \in 1 .. k - 1 : a[m] = b[m]
    BY <1>1, <1>3 DEF Exceeds
  <2>2. PICK l \in 1 .. 7 : b[l] > c[l] /\ \A m \in 1 .. l - 1 : b[m] = c[m]
    BY <1>1, <1>3 DEF Exceeds
  <2>3. PICK h \in 1 .. 7 : h = Lesser(k, l)
    BY <2>1, <2>2 DEF Lesser
  <2>4. a[h] > c[h]
    <3>1. CASE k < l
      BY <1>1, <2>1, <2>2, <2>3, <3>1 DEF Lesser
    <3>2. CASE k = l
      BY <1>1, <2>1, <2>2, <2>3, <3>2 DEF Lesser
    <3>3. CASE k > l
      BY <1>1, <2>1, <2>2, <2>3, <3>3 DEF Lesser
    <3> QED
      BY <2>1, <2>2, <3>1, <3>2, <3>3
  <2>5. \A m \in 1 .. h - 1 : a[m] = c[m]
    <3>1. h <= k /\ h <= l
      BY <2>1, <2>2, <2>3 DEF Lesser
    <3> QED
      BY <2>1, <2>2, <2>3, <3>1
  <2> QED
    BY <1>1, <2>4, <2>5 DEF Exceeds
<1>4. ASSUME a # b PROVE Exceeds(a, b) \/ Exceeds(b, a)
  <2> DEFINE D == {k \in 1 .. 7 : a[k] # b[k]}
  <2>1. D \in SUBSET Nat /\ D # {}
    BY <1>4 DEF SortKeys
  <2>2. PICK k \in D : \A l \in D : k <= l
    <3> HIDE DEF D
    <3> QED
      BY <2>1, LeastNumber
  <2>3. \A m \in 1 .. k - 1 : a[m] = b[m]
    <3>1. ASSUME NEW m \in 1 .. k - 1, a[m] # b[m] PROVE FALSE
      <4>1. m \in D /\ k \in 1 .. 7 /\ m < k
        BY <3>1
      <4> QED
        BY <2>2, <4>1
    <3> QED
      BY <3>1
  <2>4. a[k] > b[k] \/ b[k] > a[k]
    BY <1>1
  <2> QED
    BY <1>1, <2>3, <2>4 DEF Exceeds
<1> QED
  BY <1>2, <1>3, <1>4

LEMMA PrecedesIs ==
    ASSUME NEW a \in SortKeys, NEW b \in SortKeys, NEW i, NEW j
    PROVE  Precedes(a, i, b, j) <=> Exceeds(a, b) \/ (a = b /\ i < j)
<1>1. /\ ~Exceeds(a, a) /\ (Exceeds(a, b) \/ Exceeds(b, a) \/ a = b)
      /\ Exceeds(a, b) /\ Exceeds(b, a) => Exceeds(a, a)
  BY ExceedsOrder
<1> QED
  BY <1>1 DEF Precedes

LEMMA PrecedesOrder ==
    ASSUME NEW a \in SortKeys, NEW b \in SortKeys, NEW c \in SortKeys,
           NEW i \in Nat, NEW j \in Nat, NEW k \in Nat
    PROVE  /\ ~Precedes(a, i, a, i)
           /\ Precedes(a, i, b, j) /\ Precedes(b, j, c, k) => Precedes(a, i, c, k)
           /\ i # j => Precedes(a, i, b, j) \/ Precedes(b, j, a, i)
<1>1. /\ ~Exceeds(a, a)
      /\ Exceeds(a, b) /\ Exceeds(b, c) => Exceeds(a, c)
      /\ Exceeds(a, b) \/ Exceeds(b, a) \/ a = b
  BY ExceedsOrder
<1>2. ~Precedes(a, i, a, i)
  BY <1>1, PrecedesIs
<1>3. Precedes(a, i, b, j) <=> Exceeds(a, b) \/ (a = b /\ i < j)
  BY PrecedesIs
<1>4. Precedes(b, j, c, k) <=> Exceeds(b, c) \/ (b = c /\ j < k)
  BY PrecedesIs
<1>5. Precedes(a, i, c, k) <=> Exceeds(a, c) \/ (a = c /\ i < k)
  BY PrecedesIs
<1>6. Precedes(b, j, a, i) <=> Exceeds(b, a) \/ (b = a /\ j < i)
  BY PrecedesIs
<1>7. i < j /\ j < k => i < k
  OBVIOUS
<1>8. i # j => i < j \/ j < i
  OBVIOUS
<1> QED
  BY <1>1, <1>2, <1>3, <1>4, <1>5, <1>6, <1>7, <1>8

-----------------------------------------------------------------------------
(* The parts of Ranked, by name.                                              *)

MembersOf(signals, C, g) == {k \in C : GroupOf(signals[k]) = g}

AnchoredKey(signals, anchors, k) ==
    <<IF signals[k].target \in anchors THEN 1 ELSE 0>> \o SortKey(signals[k])

LeadsIn(signals, anchors, k, l) ==
    Precedes(AnchoredKey(signals, anchors, k), k, AnchoredKey(signals, anchors, l), l)

DepthOf(signals, C, anchors, k) ==
    Cardinality({l \in MembersOf(signals, C, GroupOf(signals[k])) : LeadsIn(signals, anchors, l, k)})

TargetsOf(signals, C, g) == {signals[k].target : k \in MembersOf(signals, C, g)} \ {None}

MentionsOf(signals, C, g) ==
    Cardinality({p \in MembersOf(signals, C, g) \X (1 .. 4 * (MaxTurns + 1)) :
                    p[2] <= signals[p[1]].mention_count})

StrengthOf(signals, C, g) ==
    MentionsOf(signals, C, g) + (IF TargetsOf(signals, C, g) = {} THEN 0
                                 ELSE Cardinality(TargetsOf(signals, C, g)) - 1)

HeadOf(signals, C, anchors, g) ==
    CHOOSE k \in MembersOf(signals, C, g) : DepthOf(signals, C, anchors, k) = 0

OldestOf(signals, C, g) ==
    CHOOSE k \in MembersOf(signals, C, g) : \A l \in MembersOf(signals, C, g) : k <= l

GroupKeyOf(signals, C, anchors, g) ==
    <<StrengthOf(signals, C, g)>> \o SortKey(signals[HeadOf(signals, C, anchors, g)])

GroupPrecedes(signals, C, anchors, g, h) ==
    Precedes(GroupKeyOf(signals, C, anchors, g), OldestOf(signals, C, g),
             GroupKeyOf(signals, C, anchors, h), OldestOf(signals, C, h))

LEMMA RankedIs ==
    ASSUME NEW signals, NEW C, NEW anchors, NEW i, NEW j
    PROVE  Ranked(signals, C, anchors, i, j) <=>
              \/ DepthOf(signals, C, anchors, i) < DepthOf(signals, C, anchors, j)
              \/ /\ DepthOf(signals, C, anchors, i) = DepthOf(signals, C, anchors, j)
                 /\ GroupPrecedes(signals, C, anchors, GroupOf(signals[i]), GroupOf(signals[j]))
BY DEF Ranked, GroupPrecedes, GroupKeyOf, OldestOf, HeadOf, StrengthOf, MentionsOf, TargetsOf,
       DepthOf, LeadsIn, AnchoredKey, MembersOf

LEMMA SortKeyTyped ==
    ASSUME NEW s \in Signal, NEW n \in Int
    PROVE  <<n>> \o SortKey(s) \in SortKeys
<1>1. /\ s.confidence \in Int /\ s.mention_count \in Int /\ s.updated_at \in Int
      /\ s.value \in Values /\ s.evidence_type \in EvidenceTypes
  BY DEF Signal
<1>2. RankScore(s) \in Int
  <2>1. PICK h : h \in {0, 5} /\ h = IF s.field = "hobbies" THEN 5 ELSE 0
    OBVIOUS
  <2>2. PICK m \in Int : m = Lesser(s.mention_count - 1, 3)
    BY <1>1 DEF Lesser
  <2>3. s.confidence + 5 * m + h \in Int
    BY <1>1, <2>1
  <2> QED
    BY <2>1, <2>2, <2>3 DEF RankScore, Lesser
<1>3. Length[s.value] \in Int
  BY <1>1, MergerConstants
<1>4. Priority[s.evidence_type] \in Int
  BY <1>1 DEF Priority, EvidenceTypes
<1>5. PICK a, b : a = <<n>> /\ b = SortKey(s)
  OBVIOUS
<1>6. a \in Seq(Int) /\ Len(a) = 1
  BY <1>5
<1>7. b \in Seq(Int) /\ Len(b) = 6
  BY <1>1, <1>2, <1>3, <1>4, <1>5 DEF SortKey
<1>8. a \o b \in Seq(Int) /\ Len(a \o b) = 7
  <2>1. a \o b \in Seq(Int) /\ Len(a \o b) = Len(a) + Len(b)
    BY <1>6, <1>7, ConcatProperties
  <2> QED
    BY <1>6, <1>7, <2>1
<1>9. a \o b \in [1 .. Len(a \o b) -> Int]
  BY <1>8, LenProperties
<1> QED
  BY <1>5, <1>8, <1>9 DEF SortKeys

\* In its group each entry has a depth of its own, and one leads it.
LEMMA DepthFacts ==
    ASSUME NEW signals \in Seq(Signal), NEW C \in SUBSET (1 .. Len(signals)), NEW anchors, NEW g,
           NEW M, M = MembersOf(signals, C, g)
    PROVE  /\ IsFiniteSet(M) /\ M \in SUBSET C
           /\ \A k \in M : DepthOf(signals, C, anchors, k) \in Nat
           /\ \A k, l \in M : DepthOf(signals, C, anchors, k) = DepthOf(signals, C, anchors, l) => k = l
           /\ M # {} => \E k \in M : DepthOf(signals, C, anchors, k) = 0
<1> DEFINE R == {p \in M \X M : LeadsIn(signals, anchors, p[1], p[2])}
           Key(k) == AnchoredKey(signals, anchors, k)
<1>1. Len(signals) \in Nat /\ \A k \in 1 .. Len(signals) : signals[k] \in Signal
  BY LenProperties, ElementOfSeq
<1>2. M \in SUBSET C /\ M \in SUBSET (1 .. Len(signals))
  BY DEF MembersOf
<1>3. IsFiniteSet(M)
  <2>1. 1 \in Int /\ Len(signals) \in Int
    BY <1>1
  <2>2. IsFiniteSet(1 .. Len(signals))
    BY <2>1, FS_Interval
  <2> QED
    BY <1>2, <2>2, FS_Subset
<1>4. \A k \in M : k \in Nat /\ Key(k) \in SortKeys
  <2>1. ASSUME NEW k \in M PROVE Key(k) \in SortKeys
    <3>1. PICK n \in Int : n = IF signals[k].target \in anchors THEN 1 ELSE 0
      OBVIOUS
    <3>2. signals[k] \in Signal
      BY <1>1, <1>2
    <3> QED
      BY <3>1, <3>2, SortKeyTyped DEF AnchoredKey
  <2> QED
    BY <1>2, <2>1
<1>5. StrictOrder(R, M)
  <2>1. \A k, l \in M : <<k, l>> \in R <=> Precedes(Key(k), k, Key(l), l)
    BY DEF LeadsIn
  <2> HIDE DEF R, Key
  <2>2. ASSUME NEW i \in M PROVE <<i, i>> \notin R
    BY <1>4, <2>1, PrecedesOrder
  <2>3. ASSUME NEW i \in M, NEW j \in M, NEW k \in M, <<i, j>> \in R, <<j, k>> \in R
        PROVE  <<i, k>> \in R
    <3>1. Precedes(Key(i), i, Key(j), j) /\ Precedes(Key(j), j, Key(k), k)
      BY <2>1, <2>3
    <3>2. Precedes(Key(i), i, Key(k), k)
      BY <1>4, <3>1, PrecedesOrder
    <3> QED
      BY <2>1, <3>2
  <2>4. ASSUME NEW i \in M, NEW j \in M, i # j PROVE <<i, j>> \in R \/ <<j, i>> \in R
    <3>1. Precedes(Key(i), i, Key(j), j) \/ Precedes(Key(j), j, Key(i), i)
      BY <1>4, <2>4, PrecedesOrder
    <3> QED
      BY <2>1, <3>1
  <2> QED
    BY <2>2, <2>3, <2>4 DEF StrictOrder
<1>6. \A k \in M : DepthOf(signals, C, anchors, k) = PlaceOf(R, M, k)
  <2>1. ASSUME NEW k \in M
        PROVE  {l \in MembersOf(signals, C, GroupOf(signals[k])) : LeadsIn(signals, anchors, l, k)}
                  = Before(R, M, k)
    <3>1. MembersOf(signals, C, GroupOf(signals[k])) = M
      BY DEF MembersOf
    <3> QED
      BY <3>1 DEF Before
  <2> QED
    BY <2>1 DEF DepthOf, PlaceOf
<1>7. /\ Cardinality(M) \in Nat
      /\ \A i \in M : PlaceOf(R, M, i) \in 0 .. Cardinality(M) - 1
      /\ \A i, j \in M : PlaceOf(R, M, i) = PlaceOf(R, M, j) => i = j
      /\ \A n \in 0 .. Cardinality(M) - 1 : \E i \in M : PlaceOf(R, M, i) = n
  <2> HIDE DEF R
  <2> QED
    BY <1>3, <1>5, PlacesFill
<1>8. M # {} => 0 \in 0 .. Cardinality(M) - 1
  BY <1>3, <1>7, FS_EmptySet
<1> HIDE DEF R
<1>9. M # {} => \E k \in M : DepthOf(signals, C, anchors, k) = 0
  BY <1>6, <1>7, <1>8
<1>10. \A k \in M : DepthOf(signals, C, anchors, k) \in Nat
  BY <1>6, <1>7
<1> QED
  BY <1>2, <1>3, <1>6, <1>7, <1>9, <1>10

\* What a group is ranked by is a key, and the place of its oldest entry its own.
LEMMA GroupFacts ==
    ASSUME NEW signals \in Seq(Signal), NEW C \in SUBSET (1 .. Len(signals)), NEW anchors, NEW g,
           MembersOf(signals, C, g) # {}
    PROVE  /\ GroupKeyOf(signals, C, anchors, g) \in SortKeys
           /\ OldestOf(signals, C, g) \in MembersOf(signals, C, g) /\ OldestOf(signals, C, g) \in Nat
<1>0. \A k \in C : k \in Nat
  <2>1. Len(signals) \in Nat
    BY LenProperties
  <2> QED
    BY <2>1
<1>1. PICK M : M = MembersOf(signals, C, g)
  OBVIOUS
<1>2. /\ IsFiniteSet(M) /\ M \in SUBSET C
      /\ \E k \in M : DepthOf(signals, C, anchors, k) = 0
  <2>1. /\ IsFiniteSet(M) /\ M \in SUBSET C
        /\ M # {} => \E k \in M : DepthOf(signals, C, anchors, k) = 0
    BY <1>1, DepthFacts
  <2> QED
    BY <1>1, <2>1
<1>3. \A k \in 1 .. Len(signals) : signals[k] \in Signal
  BY ElementOfSeq
<1>4. HeadOf(signals, C, anchors, g) \in M
  BY <1>1, <1>2 DEF HeadOf
<1>5. signals[HeadOf(signals, C, anchors, g)] \in Signal
  BY <1>2, <1>3, <1>4
<1>6. MentionsOf(signals, C, g) \in Nat
  <2>1. 1 \in Int /\ 4 * (MaxTurns + 1) \in Int
    BY MergerConstants
  <2>2. IsFiniteSet(1 .. 4 * (MaxTurns + 1))
    BY <2>1, FS_Interval
  <2>3. IsFiniteSet(M \X (1 .. 4 * (MaxTurns + 1)))
    BY <1>2, <2>2, FS_Product
  <2>4. PICK ones : /\ ones = {p \in M \X (1 .. 4 * (MaxTurns + 1)) : p[2] <= signals[p[1]].mention_count}
                    /\ ones \in SUBSET (M \X (1 .. 4 * (MaxTurns + 1)))
    OBVIOUS
  <2>5. IsFiniteSet(ones)
    BY <2>3, <2>4, FS_Subset
  <2>6. Cardinality(ones) \in Nat
    BY <2>5, FS_CardinalityType
  <2> QED
    BY <1>1, <2>4, <2>6 DEF MentionsOf
<1>7. Cardinality(TargetsOf(signals, C, g)) \in Nat
  <2>1. PICK T : T = {signals[k].target : k \in M}
    OBVIOUS
  <2>2. PICK f : f = [k \in M |-> signals[k].target]
    OBVIOUS
  <2>3. f \in Surjection(M, T)
    BY <2>1, <2>2 DEF Surjection
  <2>4. IsFiniteSet(T)
    BY <1>2, <2>3, FS_Surjection
  <2>5. TargetsOf(signals, C, g) \in SUBSET T
    BY <1>1, <2>1 DEF TargetsOf
  <2>6. IsFiniteSet(TargetsOf(signals, C, g))
    BY <2>4, <2>5, FS_Subset
  <2> QED
    BY <2>6, FS_CardinalityType
<1>8. StrengthOf(signals, C, g) \in Int
  BY <1>6, <1>7 DEF StrengthOf
<1>9. GroupKeyOf(signals, C, anchors, g) \in SortKeys
  BY <1>5, <1>8, SortKeyTyped DEF GroupKeyOf
<1>10. OldestOf(signals, C, g) \in M
  <2>1. M \in SUBSET Nat /\ M # {}
    BY <1>0, <1>1, <1>2
  <2>2. \E k \in M : \A l \in M : k <= l
    BY <2>1, LeastNumber
  <2> QED
    BY <1>1, <2>2 DEF OldestOf
<1>11. OldestOf(signals, C, g) \in Nat
  BY <1>0, <1>2, <1>10
<1> QED
  BY <1>1, <1>9, <1>10, <1>11

\* The ranking leaves no two entries at one place: what ties is in order of age.
LEMMA RankedOrder ==
    ASSUME NEW signals \in Seq(Signal), NEW C \in SUBSET (1 .. Len(signals)), NEW anchors,
           NEW R, R \subseteq C \X C,
           \A i, j \in C : <<i, j>> \in R <=> Ranked(signals, C, anchors, i, j)
    PROVE  StrictOrder(R, C)
<1> DEFINE Group(i) == GroupOf(signals[i])
           Depth(i) == DepthOf(signals, C, anchors, i)
           Key(i) == GroupKeyOf(signals, C, anchors, Group(i))
           Oldest(i) == OldestOf(signals, C, Group(i))
           Leads(i, j) == Precedes(Key(i), Oldest(i), Key(j), Oldest(j))
<1>1. \A i, j \in C : <<i, j>> \in R <=> Depth(i) < Depth(j) \/ (Depth(i) = Depth(j) /\ Leads(i, j))
  BY RankedIs DEF GroupPrecedes
<1>2. ASSUME NEW i \in C
      PROVE  /\ Depth(i) \in Nat /\ Key(i) \in SortKeys
             /\ Oldest(i) \in Nat /\ Group(Oldest(i)) = Group(i)
  <2>1. PICK M : M = MembersOf(signals, C, Group(i))
    OBVIOUS
  <2>2. i \in M
    BY <2>1 DEF MembersOf
  <2>3. Depth(i) \in Nat
    BY <2>1, <2>2, DepthFacts
  <2>4. Key(i) \in SortKeys /\ Oldest(i) \in M /\ Oldest(i) \in Nat
    <3> HIDE DEF Group
    <3> QED
      BY <2>1, <2>2, GroupFacts
  <2> QED
    BY <2>1, <2>3, <2>4 DEF MembersOf
<1>3. ASSUME NEW i \in C, NEW j \in C, Depth(i) = Depth(j), i # j
      PROVE  Oldest(i) # Oldest(j)
  <2>1. Group(i) # Group(j)
    <3>1. PICK M : M = MembersOf(signals, C, Group(i))
      OBVIOUS
    <3>2. i \in M /\ (Group(i) = Group(j) => j \in M)
      BY <3>1 DEF MembersOf
    <3>3. \A k, l \in M : Depth(k) = Depth(l) => k = l
      BY <3>1, DepthFacts
    <3> QED
      BY <1>3, <3>2, <3>3
  <2> QED
    BY <1>2, <2>1
<1> HIDE DEF Group, Depth, Key, Oldest
<1>4. ASSUME NEW i \in C PROVE <<i, i>> \notin R
  <2>1. ~Leads(i, i)
    BY <1>2, PrecedesOrder
  <2> QED
    BY <1>1, <1>2, <2>1
<1>5. ASSUME NEW i \in C, NEW j \in C, NEW k \in C, <<i, j>> \in R, <<j, k>> \in R
      PROVE  <<i, k>> \in R
  <2>1. Leads(i, j) /\ Leads(j, k) => Leads(i, k)
    BY <1>2, PrecedesOrder
  <2> HIDE DEF Leads
  <2>2. Depth(i) \in Nat /\ Depth(j) \in Nat /\ Depth(k) \in Nat
    BY <1>2
  <2> QED
    BY <1>1, <1>5, <2>1, <2>2
<1>6. ASSUME NEW i \in C, NEW j \in C, i # j PROVE <<i, j>> \in R \/ <<j, i>> \in R
  <2>1. Depth(i) = Depth(j) => Leads(i, j) \/ Leads(j, i)
    BY <1>2, <1>3, <1>6, PrecedesOrder
  <2> HIDE DEF Leads
  <2>2. Depth(i) \in Nat /\ Depth(j) \in Nat
    BY <1>2
  <2> QED
    BY <1>1, <2>1, <2>2
<1> QED
  BY <1>4, <1>5, <1>6 DEF StrictOrder

\* As many entries are chosen as the limit allows, or all.
LEMMA TopFacts ==
    ASSUME NEW signals \in Seq(Signal), NEW C \in SUBSET (1 .. Len(signals)), NEW anchors,
           NEW limit \in Nat
    PROVE  /\ Top(signals, C, limit, anchors) \in SUBSET C
           /\ Cardinality(Top(signals, C, limit, anchors)) = Lesser(limit, Cardinality(C))
<1>1. PICK R : R = {p \in C \X C : Ranked(signals, C, anchors, p[1], p[2])}
  OBVIOUS
<1>2. R \subseteq C \X C /\ \A i, j \in C : <<i, j>> \in R <=> Ranked(signals, C, anchors, i, j)
  BY <1>1
<1>3. StrictOrder(R, C)
  BY <1>2, RankedOrder
<1>4. IsFiniteSet(C)
  <2>1. 1 \in Int /\ Len(signals) \in Int
    BY LenProperties
  <2>2. IsFiniteSet(1 .. Len(signals))
    BY <2>1, FS_Interval
  <2> QED
    BY <2>2, FS_Subset
<1>5. \A i \in C : Cardinality({j \in C \ {i} : Ranked(signals, C, anchors, j, i)}) = PlaceOf(R, C, i)
  <2>1. ASSUME NEW i \in C
        PROVE  {j \in C \ {i} : Ranked(signals, C, anchors, j, i)} = Before(R, C, i)
    BY <1>2, <1>3 DEF Before, StrictOrder
  <2> QED
    BY <2>1 DEF PlaceOf
<1>6. Top(signals, C, limit, anchors) = {i \in C : PlaceOf(R, C, i) < limit}
  BY <1>5 DEF Top
<1>7. Cardinality({i \in C : PlaceOf(R, C, i) < limit}) = Lesser(limit, Cardinality(C))
  BY <1>3, <1>4, FirstPlaces
<1> QED
  BY <1>6, <1>7

-----------------------------------------------------------------------------
(* The limits on the entries that count.                                      *)

LiveIn(signals, fields) ==
    {i \in {k \in DOMAIN signals : signals[k].status # "superseded"} : signals[i].field \in fields}

ActiveIn(signals, fields) == {i \in LiveIn(signals, fields) : signals[i].status = "active"}

FilledIn(signals, fields, limit) ==
    Cardinality(ActiveIn(signals, fields)) = Lesser(limit, Cardinality(LiveIn(signals, fields)))

LimitsIn(signals) ==
    /\ FilledIn(signals, QueryFields, MaxQuery)
    /\ FilledIn(signals, WeightFields, MaxWeight)
    /\ FilledIn(signals, {"owned"}, MaxOwned)
    /\ FilledIn(signals, NegativeFields, Len(signals))

LEMMA LimitsMetIs == LimitsMet <=> LimitsIn(profile)
<1>1. ASSUME NEW fields, NEW limit
      PROVE  FilledUpTo(fields, limit) <=> FilledIn(profile, fields, limit)
  <2>1. {i \in DOMAIN profile : profile[i].status # "superseded" /\ profile[i].field \in fields}
            = LiveIn(profile, fields)
    BY DEF LiveIn
  <2> QED
    BY <2>1 DEF FilledUpTo, FilledIn, ActiveIn
<1> QED
  BY <1>1 DEF LimitsMet, LimitsIn

LEMMA WorkingSetLimits ==
    ASSUME NEW s \in Seq(Signal), NEW t, t = WorkingSet(s)
    PROVE  LimitsIn(t)
<1> DEFINE Live(fields) == LiveIn(s, fields)
<1>1. PICK I, O, W :
        /\ I = Top(s, Live(QueryFields), MaxQuery, {})
        /\ O = Top(s, Live({"owned"}), MaxOwned, {})
        /\ W = Top(s, Live(WeightFields), MaxWeight, {s[i].value : i \in I})
  OBVIOUS
<1>2. Chosen(s) = I \cup Live(NegativeFields) \cup O \cup W
  BY <1>1 DEF Chosen, LiveIn
<1>3. /\ DOMAIN s = 1 .. Len(s) /\ Len(s) \in Nat
      /\ \A i \in 1 .. Len(s) : s[i] \in Signal
  BY LenProperties, ElementOfSeq
<1>4. \A fields : Live(fields) \in SUBSET (1 .. Len(s))
  BY <1>3 DEF LiveIn
<1>5. /\ I \in SUBSET Live(QueryFields) /\ Cardinality(I) = Lesser(MaxQuery, Cardinality(Live(QueryFields)))
      /\ O \in SUBSET Live({"owned"}) /\ Cardinality(O) = Lesser(MaxOwned, Cardinality(Live({"owned"})))
      /\ W \in SUBSET Live(WeightFields) /\ Cardinality(W) = Lesser(MaxWeight, Cardinality(Live(WeightFields)))
  <2>1. MaxQuery \in Nat /\ MaxOwned \in Nat /\ MaxWeight \in Nat
    BY MergerConstants
  <2> HIDE DEF Live
  <2>2. Live(QueryFields) \in SUBSET (1 .. Len(s))
    BY <1>4
  <2>3. Live({"owned"}) \in SUBSET (1 .. Len(s))
    BY <1>4
  <2>4. Live(WeightFields) \in SUBSET (1 .. Len(s))
    BY <1>4
  <2>5. I \in SUBSET Live(QueryFields) /\ Cardinality(I) = Lesser(MaxQuery, Cardinality(Live(QueryFields)))
    BY <1>1, <2>1, <2>2, TopFacts
  <2>6. O \in SUBSET Live({"owned"}) /\ Cardinality(O) = Lesser(MaxOwned, Cardinality(Live({"owned"})))
    BY <1>1, <2>1, <2>3, TopFacts
  <2>7. W \in SUBSET Live(WeightFields) /\ Cardinality(W) = Lesser(MaxWeight, Cardinality(Live(WeightFields)))
    BY <1>1, <2>1, <2>4, TopFacts
  <2> QED
    BY <2>5, <2>6, <2>7
<1>6. ASSUME NEW fields
      PROVE  LiveIn(t, fields) = Live(fields) /\ ActiveIn(t, fields) = Chosen(s) \cap Live(fields)
  <2>1. PICK chosen : chosen = Chosen(s)
    OBVIOUS
  <2>2. t = [i \in DOMAIN s |-> IF s[i].status = "superseded" THEN s[i]
                ELSE [s[i] EXCEPT !.status = IF i \in chosen THEN "active" ELSE "inactive"]]
    BY <2>1 DEF WorkingSet
  <2>3. DOMAIN t = DOMAIN s
    BY <2>2
  <2>4. ASSUME NEW i \in DOMAIN s
        PROVE  /\ t[i].field = s[i].field
               /\ t[i].status = "superseded" <=> s[i].status = "superseded"
               /\ s[i].status # "superseded" => (t[i].status = "active" <=> i \in chosen)
    <3>1. s[i] \in Signal
      BY <1>3
    <3>2. CASE s[i].status = "superseded"
      BY <2>2, <3>2
    <3>3. CASE s[i].status # "superseded"
      <4>1. t[i] = [s[i] EXCEPT !.status = IF i \in chosen THEN "active" ELSE "inactive"]
        BY <2>2, <3>3
      <4> QED
        BY <3>1, <3>3, <4>1 DEF Signal
    <3> QED
      BY <3>2, <3>3
  <2>5. LiveIn(t, fields) = LiveIn(s, fields)
    BY <2>3, <2>4 DEF LiveIn
  <2>6. ActiveIn(t, fields) = chosen \cap LiveIn(s, fields)
    BY <2>3, <2>4, <2>5 DEF ActiveIn, LiveIn
  <2> QED
    BY <2>1, <2>5, <2>6
<1>7. \A i \in Chosen(s) \cup Live(QueryFields) \cup Live(WeightFields) \cup Live({"owned"}) :
         /\ i \in Live(QueryFields) => s[i].field \in QueryFields
         /\ i \in Live(WeightFields) => s[i].field \in WeightFields
         /\ i \in Live({"owned"}) => s[i].field = "owned"
         /\ i \in Live(NegativeFields) => s[i].field \in NegativeFields
  BY DEF LiveIn
<1>8. \A f : /\ ~(f \in QueryFields /\ f \in WeightFields) /\ ~(f \in QueryFields /\ f \in NegativeFields)
             /\ ~(f \in WeightFields /\ f \in NegativeFields)
             /\ "owned" \notin QueryFields /\ "owned" \notin WeightFields /\ "owned" \notin NegativeFields
  BY DEF QueryFields, WeightFields, NegativeFields
<1> HIDE DEF Live
<1>9. /\ Chosen(s) \cap Live(QueryFields) = I
      /\ Chosen(s) \cap Live(WeightFields) = W
      /\ Chosen(s) \cap Live({"owned"}) = O
      /\ Chosen(s) \cap Live(NegativeFields) = Live(NegativeFields)
  BY <1>2, <1>5, <1>7, <1>8
<1>10. /\ FilledIn(t, QueryFields, MaxQuery) /\ FilledIn(t, WeightFields, MaxWeight)
       /\ FilledIn(t, {"owned"}, MaxOwned)
  BY <1>5, <1>6, <1>9 DEF FilledIn
<1>11. FilledIn(t, NegativeFields, Len(t))
  <2>1. Len(t) = Len(s)
    BY WorkingSetFacts
  <2>2. IsFiniteSet(1 .. Len(s)) /\ Cardinality(1 .. Len(s)) = Len(s)
    <3>1. 1 \in Int /\ Len(s) \in Int
      BY <1>3
    <3>2. IsFiniteSet(1 .. Len(s)) /\ Cardinality(1 .. Len(s)) = IF 1 > Len(s) THEN 0 ELSE Len(s) - 1 + 1
      BY <3>1, FS_Interval
    <3> QED
      BY <1>3, <3>2
  <2>3. IsFiniteSet(Live(NegativeFields)) /\ Cardinality(Live(NegativeFields)) <= Len(s)
    BY <1>4, <2>2, FS_Subset
  <2>4. Cardinality(Live(NegativeFields)) \in Nat
    BY <2>3, FS_CardinalityType
  <2>5. Lesser(Len(s), Cardinality(Live(NegativeFields))) = Cardinality(Live(NegativeFields))
    BY <1>3, <2>3, <2>4 DEF Lesser
  <2> QED
    BY <1>6, <1>9, <2>1, <2>5 DEF FilledIn
<1> QED
  BY <1>10, <1>11 DEF LimitsIn

\* Between turns each kind of entry is active up to its limit and no further,
\* for any limits, and every dislike and constraint is: _apply_working_set.
THEOREM LimitsMetHolds == Spec => []LimitsMet
<1>1. Init => LimitsIn(profile)
  <2> SUFFICES ASSUME Init PROVE LimitsIn(profile)
    OBVIOUS
  <2>1. PICK s : s = profile /\ s = <<>>
    BY DEF Init
  <2>2. s \in Seq(Signal) /\ DOMAIN s = {}
    BY <2>1
  <2>3. WorkingSet(s) = s
    BY <2>1, <2>2 DEF WorkingSet
  <2> QED
    BY <2>1, <2>2, <2>3, WorkingSetLimits
<1>2. IInv /\ LimitsIn(profile) /\ [Next]_vars => LimitsIn(profile)'
  <2> SUFFICES ASSUME IInv, LimitsIn(profile), [Next]_vars PROVE LimitsIn(profile)'
    OBVIOUS
  <2>1. CASE FinishMerge
    <3>1. PICK t : t = profile' /\ t = WorkingSet(merged)
      BY <2>1 DEF FinishMerge
    <3>2. LimitsIn(t)
      BY <3>1, WorkingSetLimits DEF IInv, TypeOK
    <3> QED
      BY <3>1, <3>2 DEF LimitsIn, FilledIn, ActiveIn, LiveIn
  <2>2. CASE UNCHANGED profile
    BY <2>2 DEF LimitsIn, FilledIn, ActiveIn, LiveIn
  <2> QED
    BY <2>1, <2>2, OnlyFinishChanges DEF vars
<1> QED
  BY <1>1, <1>2, Invariance, LimitsMetIs, PTL DEF Spec

-----------------------------------------------------------------------------
(* Folds. *)

\* What holds at 0 and of the next number holds up to N.
LEMMA StepByStep ==
    ASSUME NEW N \in Nat, NEW T, 0 \in T, \A n \in 0 .. N - 1 : n \in T => n + 1 \in T
    PROVE  \A n \in 0 .. N : n \in T
<1> DEFINE Bad == {n \in 0 .. N : n \notin T}
<1> SUFFICES ASSUME Bad # {} PROVE FALSE
  OBVIOUS
<1>1. Bad \in SUBSET Nat
  OBVIOUS
<1>2. PICK b \in Bad : \A n \in Bad : b <= n
  <2> HIDE DEF Bad
  <2> QED
    BY <1>1, LeastNumber
<1>3. b # 0 /\ b - 1 \in 0 .. N - 1
  OBVIOUS
<1>4. b - 1 \in T
  <2>1. b - 1 \in 0 .. N /\ ~(b <= b - 1)
    BY <1>3
  <2> QED
    BY <1>2, <2>1
<1>5. (b - 1) + 1 = b
  BY <1>3
<1> QED
  BY <1>3, <1>4, <1>5

LEMMA MaxIn ==
    ASSUME NEW N \in Nat, NEW s \in SUBSET (1 .. N), s # {}
    PROVE  Max(s) \in s /\ \A x \in s : x <= Max(s)
<1> DEFINE D == {N - x : x \in s}
<1>1. D \in SUBSET Nat /\ D # {}
  <2>1. \A x \in s : x \in 1 .. N /\ N - x \in Nat
    OBVIOUS
  <2> QED
    BY <2>1
<1>2. PICK d \in D : \A e \in D : d <= e
  <2> HIDE DEF D
  <2> QED
    BY <1>1, LeastNumber
<1>3. PICK m \in s : d = N - m
  OBVIOUS
<1>4. \A x \in s : m >= x
  <2> SUFFICES ASSUME NEW x \in s PROVE m >= x
    OBVIOUS
  <2>1. N - x \in D
    OBVIOUS
  <2>2. d <= N - x
    BY <1>2, <2>1
  <2>3. m \in 1 .. N /\ x \in 1 .. N
    OBVIOUS
  <2> QED
    BY <1>3, <2>2, <2>3
<1>5. PICK top : top = Max(s)
  OBVIOUS
<1>6. top \in s /\ \A x \in s : top >= x
  BY <1>4, <1>5 DEF Max
<1>7. \A x \in s : x \in Int
  <2>1. \A x \in s : x \in 1 .. N
    OBVIOUS
  <2> QED
    BY <2>1
<1>8. top \in Int
  BY <1>6, <1>7
<1>9. \A x \in s : x <= top
  <2> SUFFICES ASSUME NEW x \in s PROVE x <= top
    OBVIOUS
  <2>1. x \in Int /\ top >= x
    BY <1>6, <1>7
  <2> QED
    BY <1>8, <2>1
<1> QED
  BY <1>5, <1>6, <1>9

LEMMA MaxIs ==
    ASSUME NEW n \in Nat, NEW s \in SUBSET (1 .. n + 1), n + 1 \in s
    PROVE  Max(s) = n + 1
<1>1. n + 1 \in Nat /\ s # {}
  OBVIOUS
<1>2. PICK top : top = Max(s)
  OBVIOUS
<1>3. top \in s /\ n + 1 <= top
  BY <1>1, <1>2, MaxIn
<1>4. top \in 1 .. n + 1
  BY <1>3
<1> QED
  BY <1>2, <1>3, <1>4

LEMMA UpTo ==
    ASSUME NEW n \in Nat, NEW s, s = 1 .. n + 1
    PROVE  Max(s) = n + 1 /\ s # {} /\ s \ {Max(s)} = 1 .. n
<1>1. s \in SUBSET (1 .. n + 1) /\ n + 1 \in s
  OBVIOUS
<1>2. Max(s) = n + 1
  BY <1>1, MaxIs
<1>3. \A x : x \in s \ {n + 1} <=> x \in 1 .. n
  OBVIOUS
<1>4. s \ {n + 1} = 1 .. n
  BY <1>3
<1> QED
  BY <1>1, <1>2, <1>4

\* The function a fold is computed by: step takes what the elements before the
\* greatest come to, and the greatest.
Iterates(h, n, X, base, step) ==
    /\ h \in [SUBSET (1 .. n) -> X]
    /\ \A s \in SUBSET (1 .. n) : h[s] = IF s = {} THEN base ELSE step[<<h[s \ {Max(s)}], Max(s)>>]

LEMMA FoldExists ==
    ASSUME NEW N \in Nat, NEW X, NEW base \in X, NEW step \in [X \X (1 .. N) -> X]
    PROVE  \E h : Iterates(h, N, X, base, step)
<1> DEFINE T == {n \in 0 .. N : \E h : Iterates(h, n, X, base, step)}
<1>1. 0 \in T
  <2>1. SUBSET (1 .. 0) = {{}}
    OBVIOUS
  <2>2. Iterates([s \in SUBSET (1 .. 0) |-> base], 0, X, base, step)
    BY <2>1 DEF Iterates
  <2> QED
    BY <2>2
<1>2. ASSUME NEW n \in 0 .. N - 1, n \in T PROVE n + 1 \in T
  <2>1. PICK h : Iterates(h, n, X, base, step)
    BY <1>2
  <2> DEFINE g == [s \in SUBSET (1 .. n + 1) |->
                      IF n + 1 \in s THEN step[<<h[s \ {n + 1}], n + 1>>] ELSE h[s]]
  <2>2. ASSUME NEW s \in SUBSET (1 .. n + 1)
        PROVE  g[s] \in X /\ g[s] = IF s = {} THEN base ELSE step[<<g[s \ {Max(s)}], Max(s)>>]
    <3>1. CASE n + 1 \in s
      <4>1. Max(s) = n + 1
        BY <3>1, MaxIs
      <4>2. s \ {n + 1} \in SUBSET (1 .. n) /\ s \ {n + 1} \in SUBSET (1 .. n + 1)
        OBVIOUS
      <4>3. g[s] = step[<<h[s \ {n + 1}], n + 1>>] /\ g[s \ {n + 1}] = h[s \ {n + 1}]
        BY <3>1, <4>2
      <4>4. h[s \ {n + 1}] \in X /\ n + 1 \in 1 .. N
        BY <2>1, <4>2 DEF Iterates
      <4> HIDE DEF g
      <4> QED
        BY <3>1, <4>1, <4>3, <4>4
    <3>2. CASE n + 1 \notin s
      <4>0. \A x \in s : x \in 1 .. n + 1 /\ x # n + 1 /\ n \in Int
        BY <3>2
      <4>a. \A x \in s : x \in 1 .. n
        BY <4>0
      <4>1. PICK rest : rest = s \ {Max(s)}
        OBVIOUS
      <4>b. s \in SUBSET (1 .. n) /\ rest \in SUBSET s
        BY <4>a, <4>1
      <4>c. rest \in SUBSET (1 .. n) /\ rest \in SUBSET (1 .. n + 1) /\ n + 1 \notin rest
        BY <3>2, <4>b
      <4>2. g[s] = h[s] /\ g[rest] = h[rest]
        BY <3>2, <4>c
      <4>3. h[s] \in X /\ h[s] = IF s = {} THEN base ELSE step[<<h[s \ {Max(s)}], Max(s)>>]
        BY <2>1, <4>b DEF Iterates
      <4> HIDE DEF g
      <4> QED
        BY <4>1, <4>2, <4>3
    <3> QED
      BY <3>1, <3>2
  <2>3. g \in [SUBSET (1 .. n + 1) -> X]
    BY <2>2
  <2>4. Iterates(g, n + 1, X, base, step)
    <3> HIDE DEF g
    <3> QED
      BY <2>2, <2>3 DEF Iterates
  <2>5. n + 1 \in 0 .. N
    OBVIOUS
  <2> HIDE DEF g
  <2> QED
    BY <2>4, <2>5
<1>3. \A n \in 0 .. N : n \in T
  <2> HIDE DEF T
  <2> QED
    BY <1>1, <1>2, StepByStep
<1>4. N \in T
  BY <1>3
<1> QED
  BY <1>4

-----------------------------------------------------------------------------
(* The entries that friends may see. *)

\* Unseen, the step of RankedFriendSignals.
UnseenStep(ranked, i) ==
    IF \E s \in Range(ranked) : s.value = profile[i].value THEN ranked
    ELSE Append(ranked, profile[i])

\* Of entries in any order: only they are kept, and something of them is.
LEMMA UnseenFold ==
    ASSUME NEW C, NEW N \in Nat, NEW q \in [1 .. N -> C],
           NEW S, S = {profile[i] : i \in C}, NEW made, made = FoldLeft(UnseenStep, <<>>, q)
    PROVE  made \in Seq(S) /\ (N # 0 => made # <<>>)
<1> DEFINE X == Seq(S)
           step == [p \in X \X (1 .. N) |-> UnseenStep(p[1], q[p[2]])]
           Fold(f) == [s \in SUBSET (1 .. N) |->
                          IF s = {} THEN <<>> ELSE UnseenStep(f[s \ {Max(s)}], q[Max(s)])]
<1>1. ASSUME NEW k \in X, NEW n \in 1 .. N
      PROVE  UnseenStep(k, q[n]) \in X /\ UnseenStep(k, q[n]) # <<>>
  <2>1. profile[q[n]] \in S
    OBVIOUS
  <2>2. Append(k, profile[q[n]]) \in X /\ Append(k, profile[q[n]]) # <<>>
    BY <2>1, AppendProperties
  <2>3. CASE \E s \in Range(k) : s.value = profile[q[n]].value
    <3>1. k # <<>>
      BY <2>3 DEF Range
    <3> QED
      BY <2>3, <3>1 DEF UnseenStep
  <2> QED
    BY <2>2, <2>3 DEF UnseenStep
<1>2. step \in [X \X (1 .. N) -> X] /\ <<>> \in X
  BY <1>1
<1>3. PICK h : Iterates(h, N, X, <<>>, step)
  <2> HIDE DEF X, step
  <2> QED
    BY <1>2, FoldExists
<1>4. h = Fold(h)
  <2>1. ASSUME NEW s \in SUBSET (1 .. N), s # {}
        PROVE  h[s] = UnseenStep(h[s \ {Max(s)}], q[Max(s)])
    <3>1. PICK m, rest : m = Max(s) /\ rest = s \ {m}
      OBVIOUS
    <3>2. m \in 1 .. N /\ rest \in SUBSET (1 .. N)
      BY <2>1, <3>1, MaxIn
    <3>3. h[rest] \in X /\ h[s] = step[<<h[rest], m>>]
      <4> HIDE DEF X, step
      <4> QED
        BY <1>3, <2>1, <3>1, <3>2 DEF Iterates
    <3>4. step[<<h[rest], m>>] = UnseenStep(h[rest], q[m])
      BY <3>2, <3>3
    <3> QED
      BY <3>1, <3>3, <3>4
  <2>2. h[{}] = <<>> /\ h \in [SUBSET (1 .. N) -> X]
    BY <1>3 DEF Iterates
  <2> HIDE DEF X
  <2> QED
    BY <2>1, <2>2
<1>5. PICK iter : iter = CHOOSE f : f = Fold(f)
  OBVIOUS
<1>6. iter = Fold(iter)
  <2> HIDE DEF Fold
  <2> QED
    BY <1>4, <1>5
<1>7. made = iter[1 .. N]
  <2>1. DOMAIN q = 1 .. N
    OBVIOUS
  <2> QED
    BY <1>5, <2>1 DEF FoldLeft, MapThenFoldSet
<1> DEFINE T == {n \in 0 .. N : iter[1 .. n] \in X /\ (n # 0 => iter[1 .. n] # <<>>)}
<1>8. 0 \in T
  <2>1. 1 .. 0 = {}
    OBVIOUS
  <2>2. iter[1 .. 0] = <<>>
    BY <1>6, <2>1
  <2>3. iter[1 .. 0] \in X /\ 0 \in 0 .. N
    BY <1>2, <2>2
  <2> QED
    BY <2>3
<1>9. ASSUME NEW n \in 0 .. N - 1, n \in T PROVE n + 1 \in T
  <2>1. PICK s : s = 1 .. n + 1
    OBVIOUS
  <2>2. n \in Nat /\ n + 1 \in 1 .. N
    OBVIOUS
  <2>3. Max(s) = n + 1 /\ s # {} /\ s \ {Max(s)} = 1 .. n
    BY <2>1, <2>2, UpTo
  <2>4. s \in SUBSET (1 .. N)
    BY <2>1, <2>2
  <2>5. iter[s] = UnseenStep(iter[1 .. n], q[n + 1])
    BY <1>6, <2>3, <2>4
  <2>6. iter[1 .. n] \in X
    BY <1>9
  <2>7. iter[s] \in X /\ iter[s] # <<>>
    BY <1>1, <2>2, <2>5, <2>6
  <2>8. n + 1 \in 0 .. N
    BY <2>2
  <2> HIDE DEF X
  <2> QED
    BY <2>1, <2>7, <2>8
<1>10. \A n \in 0 .. N : n \in T
  <2> HIDE DEF T
  <2> QED
    BY <1>8, <1>9, StepByStep
<1>11. N \in T
  BY <1>10
<1> QED
  BY <1>7, <1>11

\* A set of places in the order of their ranks: every place of it once.
LEMMA InRankOrderTyped ==
    ASSUME profile \in Seq(Signal), NEW C \in SUBSET (DOMAIN profile), NEW anchors,
           NEW q, q = InRankOrder(C, anchors)
    PROVE  /\ Cardinality(C) \in Nat /\ q \in [1 .. Cardinality(C) -> C]
           /\ C # {} => Cardinality(C) # 0
<1>1. PICK R : R = {p \in C \X C : Ranked(profile, C, anchors, p[1], p[2])}
  OBVIOUS
<1>2. R \subseteq C \X C /\ \A i, j \in C : <<i, j>> \in R <=> Ranked(profile, C, anchors, i, j)
  BY <1>1
<1>3. C \in SUBSET (1 .. Len(profile)) /\ 1 \in Int /\ Len(profile) \in Int
  BY LenProperties
<1>4. StrictOrder(R, C)
  BY <1>2, <1>3, RankedOrder
<1>5. IsFiniteSet(C)
  <2>1. IsFiniteSet(1 .. Len(profile))
    BY <1>3, FS_Interval
  <2> QED
    BY <1>3, <2>1, FS_Subset
<1>6. /\ Cardinality(C) \in Nat
      /\ \A n \in 0 .. Cardinality(C) - 1 : \E i \in C : PlaceOf(R, C, i) = n
  BY <1>4, <1>5, PlacesFill
<1>7. \A i \in C : Cardinality({j \in C \ {i} : Ranked(profile, C, anchors, j, i)}) = PlaceOf(R, C, i)
  <2>1. ASSUME NEW i \in C
        PROVE  {j \in C \ {i} : Ranked(profile, C, anchors, j, i)} = Before(R, C, i)
    BY <1>2, <1>4 DEF Before, StrictOrder
  <2> QED
    BY <2>1 DEF PlaceOf
<1> DEFINE v(n) == CHOOSE i \in C : Cardinality({j \in C \ {i} : Ranked(profile, C, anchors, j, i)}) = n - 1
<1>8. ASSUME NEW n \in 1 .. Cardinality(C)
      PROVE  v(n) \in C
  <2>1. n - 1 \in 0 .. Cardinality(C) - 1
    BY <1>6
  <2>2. \E i \in C : Cardinality({j \in C \ {i} : Ranked(profile, C, anchors, j, i)}) = n - 1
    BY <1>6, <1>7, <2>1
  <2> QED
    BY <2>2
<1>9. q \in [1 .. Cardinality(C) -> C]
  <2>1. q = [n \in 1 .. Cardinality(C) |-> v(n)]
    BY DEF InRankOrder
  <2> HIDE DEF v
  <2> QED
    BY <1>8, <2>1
<1> QED
  BY <1>5, <1>6, <1>9, FS_EmptySet

\* The places that RankedFriendSignals looks at.
FriendPlaces(fields, statuses) ==
    {i \in DOMAIN profile : /\ profile[i].status \in statuses
                            /\ profile[i].field \in fields \cap VisibleToFriends}

LEMMA FriendSignals ==
    ASSUME profile \in Seq(Signal), NEW fields, NEW statuses,
           NEW S, S = {profile[i] : i \in FriendPlaces(fields, statuses)},
           NEW ranked, ranked = RankedFriendSignals(fields, statuses)
    PROVE  ranked \in Seq(S) /\ (FriendPlaces(fields, statuses) # {} <=> ranked # <<>>)
<1>1. PICK C : C = FriendPlaces(fields, statuses)
  OBVIOUS
<1>2. PICK anchors, q :
        /\ anchors = {profile[i].value : i \in {j \in DOMAIN profile : /\ profile[j].status = "active"
                                                                       /\ profile[j].field \in QueryFields}}
        /\ q = InRankOrder(C, anchors)
  OBVIOUS
<1>3. C \in SUBSET (DOMAIN profile)
  BY <1>1 DEF FriendPlaces
<1>4. PICK N : N = Cardinality(C)
  OBVIOUS
<1>5. N \in Nat /\ q \in [1 .. N -> C] /\ (C # {} => N # 0)
  BY <1>2, <1>3, <1>4, InRankOrderTyped
<1>6. ranked = FoldLeft(UnseenStep, <<>>, q)
  BY <1>1, <1>2 DEF RankedFriendSignals, FriendPlaces, UnseenStep
<1>7. ranked \in Seq(S) /\ (N # 0 => ranked # <<>>)
  BY <1>1, <1>5, <1>6, UnseenFold
<1>8. C = {} => ranked = <<>>
  <2> SUFFICES ASSUME C = {}, ranked # <<>> PROVE FALSE
    OBVIOUS
  <2>1. S = {}
    BY <1>1
  <2>2. Len(ranked) \in Nat \ {0}
    BY <1>7, EmptySeq
  <2>3. ranked[1] \in S
    BY <1>7, <2>2, ElementOfSeq
  <2> QED
    BY <2>1, <2>3
<1> QED
  BY <1>1, <1>5, <1>7, <1>8

\* The first of a list, up to a limit.
LEMMA FirstOfList ==
    ASSUME NEW S, NEW s \in Seq(S), NEW limit \in Nat \ {0},
           NEW t, t = SubSeq(s, 1, Lesser(limit, Len(s)))
    PROVE  t \in Seq(S) /\ (s # <<>> => t # <<>>)
<1>1. PICK n : n = Lesser(limit, Len(s))
  OBVIOUS
<1>2. n \in Int /\ n <= Len(s) /\ Len(s) \in Nat /\ (Len(s) # 0 => n >= 1)
  BY <1>1, LenProperties DEF Lesser
<1>3. \A i \in 1 .. n : s[i] \in S
  <2>1. \A i \in 1 .. n : i \in 1 .. Len(s)
    BY <1>2
  <2> QED
    BY <2>1, ElementOfSeq
<1>4. 1 \in Int
  OBVIOUS
<1>5. t \in Seq(S) /\ Len(t) = IF 1 <= n THEN n - 1 + 1 ELSE 0
  BY <1>1, <1>2, <1>3, <1>4, SubSeqProperties
<1>6. s # <<>> => Len(t) # 0
  <2>1. s # <<>> => Len(s) \in Nat \ {0}
    BY EmptySeq
  <2> QED
    BY <1>2, <1>5, <2>1
<1> QED
  BY <1>5, <1>6

-----------------------------------------------------------------------------
(* The keywords. *)

\* Keywords on entries of S.
KeywordsOn(S) == Seq([label : Labels, sources : SUBSET S])

\* Compose and Take, the steps of ComposedKeywords and FallbackKeywords.
ComposeStep(signals, taste, keywords, item) ==
    LET sources == {signals[i] : i \in item.sources \cap DOMAIN signals}
        label == IF taste THEN StripTargets(item.label, sources) ELSE item.label
    IN  IF /\ Len(keywords) < KeywordLimit
           /\ sources # {}
           /\ label \notin TooLong \cup {Nothing} \cup SeenLabels(keywords)
           /\ taste => AxesOf(sources) \cap SeenAxes(keywords) = {}
        THEN Append(keywords, [label |-> label, sources |-> sources])
        ELSE keywords

TakeStep(taste, keywords, s) ==
    LET label == IF taste THEN WithoutTarget(s) ELSE s.value
    IN  IF /\ Len(keywords) < KeywordLimit
           /\ label \notin SeenLabels(keywords)
           /\ taste => s.path \notin SeenAxes(keywords)
        THEN Append(keywords, [label |-> label, sources |-> {s}])
        ELSE keywords

LEMMA StrippedTyped ==
    ASSUME NEW sources \in SUBSET Signal, NEW label \in Labels
    PROVE  StripTargets(label, sources) \in Labels
<1>1. Nothing \in Labels /\ CutLabel \in [Labels \X SUBSET Values -> Labels]
  BY KeywordConstants
<1>2. PICK targets : targets = {t \in {u.target : u \in sources} \ {None} : Length[t] >= 2}
  OBVIOUS
<1>3. targets \in SUBSET Values
  BY <1>2 DEF Signal
<1>4. CutLabel[label, targets] \in Labels
  BY <1>1, <1>3
<1> QED
  BY <1>1, <1>2, <1>4 DEF StripTargets

LEMMA WithoutTyped ==
    ASSUME NEW s \in Signal
    PROVE  WithoutTarget(s) \in Labels
<1>1. Values \subseteq Labels /\ CutLabel \in [Labels \X SUBSET Values -> Labels]
  BY KeywordConstants
<1>2. {s.target} \ {None} \in SUBSET Values /\ s.value \in Labels
  BY <1>1 DEF Signal
<1>3. CutLabel[s.value, {s.target} \ {None}] \in Labels
  BY <1>1, <1>2
<1> QED
  BY <1>2, <1>3 DEF WithoutTarget

\* What is kept of an answer stands on the entries it was given.
LEMMA ComposedStands ==
    ASSUME NEW S \in SUBSET Signal, NEW signals \in Seq(S), NEW raw \in Seq(Composed),
           NEW taste \in BOOLEAN, NEW made, made = ComposedKeywords(raw, signals, taste)
    PROVE  made \in KeywordsOn(S)
<1>a. PICK N : N = Len(raw)
  OBVIOUS
<1> DEFINE X == KeywordsOn(S)
           Step(k, n) == ComposeStep(signals, taste, k, raw[n])
           step == [p \in X \X (1 .. N) |-> Step(p[1], p[2])]
           Fold(f) == [s \in SUBSET (1 .. N) |->
                          IF s = {} THEN <<>> ELSE Step(f[s \ {Max(s)}], Max(s))]
<1>0. N \in Nat /\ DOMAIN raw = 1 .. N
  BY <1>a, LenProperties
<1>1. ASSUME NEW k \in X, NEW n \in 1 .. N
      PROVE  Step(k, n) \in X
  <2>1. raw[n] \in Composed
    BY <1>a, ElementOfSeq
  <2>2. PICK sources : sources = {signals[i] : i \in raw[n].sources \cap DOMAIN signals}
    OBVIOUS
  <2>3. sources \in SUBSET S /\ raw[n].label \in Labels
    BY <2>1, <2>2, LenProperties, ElementOfSeq DEF Composed
  <2>4. PICK label : label = IF taste THEN StripTargets(raw[n].label, sources) ELSE raw[n].label
    OBVIOUS
  <2>5. label \in Labels
    <3>1. sources \in SUBSET Signal
      BY <2>3
    <3>2. StripTargets(raw[n].label, sources) \in Labels
      BY <2>3, <3>1, StrippedTyped
    <3> QED
      BY <2>3, <2>4, <3>2
  <2>6. [label |-> label, sources |-> sources] \in [label : Labels, sources : SUBSET S]
    BY <2>3, <2>5
  <2>7. Append(k, [label |-> label, sources |-> sources]) \in X
    BY <2>6, AppendProperties DEF KeywordsOn
  <2> QED
    BY <2>2, <2>4, <2>7 DEF ComposeStep
<1>2. step \in [X \X (1 .. N) -> X] /\ <<>> \in X
  <2>1. <<>> \in X
    BY DEF KeywordsOn
  <2> HIDE DEF X, Step
  <2> QED
    BY <1>1, <2>1
<1>3. PICK h : Iterates(h, N, X, <<>>, step)
  <2> HIDE DEF X, step
  <2> QED
    BY <1>0, <1>2, FoldExists
<1>4. h = Fold(h)
  <2>1. ASSUME NEW s \in SUBSET (1 .. N), s # {}
        PROVE  h[s] = Step(h[s \ {Max(s)}], Max(s))
    <3>1. PICK m, rest : m = Max(s) /\ rest = s \ {m}
      OBVIOUS
    <3>2. m \in 1 .. N /\ rest \in SUBSET (1 .. N)
      BY <1>0, <2>1, <3>1, MaxIn
    <3>3. h[rest] \in X /\ h[s] = step[<<h[rest], m>>]
      <4> HIDE DEF X, step
      <4> QED
        BY <1>3, <2>1, <3>1, <3>2 DEF Iterates
    <3>4. step[<<h[rest], m>>] = Step(h[rest], m)
      <4> HIDE DEF X, Step
      <4> QED
        BY <3>2, <3>3
    <3> QED
      BY <3>1, <3>3, <3>4
  <2>2. h[{}] = <<>> /\ h \in [SUBSET (1 .. N) -> X]
    BY <1>3 DEF Iterates
  <2> HIDE DEF X, Step
  <2> QED
    BY <2>1, <2>2
<1>5. PICK iter : iter = CHOOSE f : f = Fold(f)
  OBVIOUS
<1>6. iter = Fold(iter)
  <2> HIDE DEF Fold
  <2> QED
    BY <1>4, <1>5
<1>7. made = iter[1 .. N]
  BY <1>0, <1>5 DEF ComposedKeywords, ComposeStep, FoldLeft, MapThenFoldSet
<1> DEFINE T == {n \in 0 .. N : iter[1 .. n] \in X}
<1>8. 0 \in T
  <2>1. 1 .. 0 = {}
    OBVIOUS
  <2>2. iter[1 .. 0] = <<>>
    BY <1>6, <2>1
  <2>3. iter[1 .. 0] \in X /\ 0 \in 0 .. N
    BY <1>0, <1>2, <2>2
  <2> HIDE DEF X
  <2> QED
    BY <2>3
<1>9. ASSUME NEW n \in 0 .. N - 1, n \in T PROVE n + 1 \in T
  <2>1. PICK s : s = 1 .. n + 1
    OBVIOUS
  <2>2. n \in Nat /\ n + 1 \in 1 .. N
    BY <1>0
  <2>3. Max(s) = n + 1 /\ s # {} /\ s \ {Max(s)} = 1 .. n
    BY <2>1, <2>2, UpTo
  <2>4. s \in SUBSET (1 .. N)
    BY <1>0, <2>1, <2>2
  <2>5. iter[s] = Step(iter[1 .. n], n + 1)
    <3> HIDE DEF Step
    <3> QED
      BY <1>6, <2>3, <2>4
  <2>6. iter[1 .. n] \in X
    BY <1>9
  <2>7. iter[s] \in X
    <3> HIDE DEF X, Step
    <3> QED
      BY <1>1, <2>2, <2>5, <2>6
  <2>8. n + 1 \in 0 .. N
    BY <2>2
  <2> HIDE DEF X
  <2> QED
    BY <2>1, <2>7, <2>8
<1>10. \A n \in 0 .. N : n \in T
  <2> HIDE DEF T
  <2> QED
    BY <1>0, <1>8, <1>9, StepByStep
<1>11. N \in T
  BY <1>0, <1>10
<1> QED
  BY <1>7, <1>11

\* What is made of the entries alone stands on them, and there is some.
LEMMA FallbackStands ==
    ASSUME NEW S \in SUBSET Signal, NEW signals \in Seq(S), NEW taste \in BOOLEAN,
           NEW made, made = FallbackKeywords(signals, taste)
    PROVE  made \in KeywordsOn(S) /\ (signals # <<>> => made # <<>>)
<1>a. PICK N : N = Len(signals)
  OBVIOUS
<1> DEFINE X == KeywordsOn(S)
           Step(k, n) == TakeStep(taste, k, signals[n])
           step == [p \in X \X (1 .. N) |-> Step(p[1], p[2])]
           Fold(f) == [s \in SUBSET (1 .. N) |->
                          IF s = {} THEN <<>> ELSE Step(f[s \ {Max(s)}], Max(s))]
<1>0. N \in Nat /\ DOMAIN signals = 1 .. N /\ (signals # <<>> => N # 0)
  BY <1>a, LenProperties, EmptySeq
<1>1. ASSUME NEW k \in X, NEW n \in 1 .. N
      PROVE  Step(k, n) \in X /\ Step(k, n) # <<>>
  <2>1. signals[n] \in S /\ signals[n] \in Signal
    BY <1>a, ElementOfSeq
  <2>2. PICK label : label = IF taste THEN WithoutTarget(signals[n]) ELSE signals[n].value
    OBVIOUS
  <2>3. label \in Labels
    <3>1. Nothing \in Labels /\ signals[n].value \in Labels
      BY <2>1, KeywordConstants DEF Signal
    <3>2. WithoutTarget(signals[n]) \in Labels
      BY <2>1, WithoutTyped
    <3> QED
      BY <2>2, <3>1, <3>2
  <2>4. PICK new : new = [label |-> label, sources |-> {signals[n]}]
    OBVIOUS
  <2>5. new \in [label : Labels, sources : SUBSET S]
    BY <2>1, <2>3, <2>4
  <2>6. Append(k, new) \in X /\ Append(k, new) # <<>>
    BY <2>5, AppendProperties DEF KeywordsOn
  <2>7. Step(k, n) = Append(k, new) \/ Step(k, n) = k
    BY <2>2, <2>4 DEF TakeStep
  <2>8. CASE k = <<>>
    <3>1. Len(k) = 0 /\ DOMAIN k = {}
      BY <2>8
    <3>2. SeenLabels(k) = {} /\ SeenAxes(k) = {}
      BY <3>1 DEF SeenLabels, SeenAxes, Range
    <3>3. Len(k) < KeywordLimit
      BY <3>1, KeywordConstants
    <3>4. Step(k, n) = Append(k, new)
      BY <2>2, <2>4, <3>2, <3>3 DEF TakeStep
    <3> QED
      BY <2>6, <3>4
  <2> QED
    BY <2>6, <2>7, <2>8
<1>2. step \in [X \X (1 .. N) -> X] /\ <<>> \in X
  <2>1. <<>> \in X
    BY DEF KeywordsOn
  <2> HIDE DEF X, Step
  <2> QED
    BY <1>1, <2>1
<1>3. PICK h : Iterates(h, N, X, <<>>, step)
  <2> HIDE DEF X, step
  <2> QED
    BY <1>0, <1>2, FoldExists
<1>4. h = Fold(h)
  <2>1. ASSUME NEW s \in SUBSET (1 .. N), s # {}
        PROVE  h[s] = Step(h[s \ {Max(s)}], Max(s))
    <3>1. PICK m, rest : m = Max(s) /\ rest = s \ {m}
      OBVIOUS
    <3>2. m \in 1 .. N /\ rest \in SUBSET (1 .. N)
      BY <1>0, <2>1, <3>1, MaxIn
    <3>3. h[rest] \in X /\ h[s] = step[<<h[rest], m>>]
      <4> HIDE DEF X, step
      <4> QED
        BY <1>3, <2>1, <3>1, <3>2 DEF Iterates
    <3>4. step[<<h[rest], m>>] = Step(h[rest], m)
      <4> HIDE DEF X, Step
      <4> QED
        BY <3>2, <3>3
    <3> QED
      BY <3>1, <3>3, <3>4
  <2>2. h[{}] = <<>> /\ h \in [SUBSET (1 .. N) -> X]
    BY <1>3 DEF Iterates
  <2> HIDE DEF X, Step
  <2> QED
    BY <2>1, <2>2
<1>5. PICK iter : iter = CHOOSE f : f = Fold(f)
  OBVIOUS
<1>6. iter = Fold(iter)
  <2> HIDE DEF Fold
  <2> QED
    BY <1>4, <1>5
<1>7. made = iter[1 .. N]
  BY <1>0, <1>5 DEF FallbackKeywords, TakeStep, FoldLeft, MapThenFoldSet
<1> DEFINE T == {n \in 0 .. N : iter[1 .. n] \in X /\ (n # 0 => iter[1 .. n] # <<>>)}
<1>8. 0 \in T
  <2>1. 1 .. 0 = {}
    OBVIOUS
  <2>2. iter[1 .. 0] = <<>>
    BY <1>6, <2>1
  <2>3. iter[1 .. 0] \in X /\ 0 \in 0 .. N
    BY <1>0, <1>2, <2>2
  <2> HIDE DEF X
  <2> QED
    BY <2>3
<1>9. ASSUME NEW n \in 0 .. N - 1, n \in T PROVE n + 1 \in T
  <2>1. PICK s : s = 1 .. n + 1
    OBVIOUS
  <2>2. n \in Nat /\ n + 1 \in 1 .. N
    BY <1>0
  <2>3. Max(s) = n + 1 /\ s # {} /\ s \ {Max(s)} = 1 .. n
    BY <2>1, <2>2, UpTo
  <2>4. s \in SUBSET (1 .. N)
    BY <1>0, <2>1, <2>2
  <2>5. iter[s] = Step(iter[1 .. n], n + 1)
    <3> HIDE DEF Step
    <3> QED
      BY <1>6, <2>3, <2>4
  <2>6. iter[1 .. n] \in X
    BY <1>9
  <2>7. iter[s] \in X /\ iter[s] # <<>>
    <3> HIDE DEF X, Step
    <3> QED
      BY <1>1, <2>2, <2>5, <2>6
  <2>8. n + 1 \in 0 .. N
    BY <2>2
  <2> HIDE DEF X
  <2> QED
    BY <2>1, <2>7, <2>8
<1>10. \A n \in 0 .. N : n \in T
  <2> HIDE DEF T
  <2> QED
    BY <1>0, <1>8, <1>9, StepByStep
<1>11. N \in T
  BY <1>0, <1>10
<1> QED
  BY <1>0, <1>7, <1>11

-----------------------------------------------------------------------------
(* What an analysis shows. *)

\* Entries that an analysis may stand on.
Showable ==
    {s \in Signal : /\ LiveAt(profile, {"preferences", "interests", "hobbies"}, s.value) # {}
                    /\ LiveAt(profile, NegativeFields, s.value) = {}}

LEMMA FriendsAreShowable ==
    ASSUME IInv, NEW fields, NEW limit \in Nat \ {0}, NEW ranked, NEW first,
           ranked = RankedFriendSignals(fields, StoredStatuses),
           first = SubSeq(ranked, 1, Lesser(limit, Len(ranked)))
    PROVE  first \in Seq(Showable) /\ (FriendPlaces(fields, StoredStatuses) # {} => first # <<>>)
<1>1. profile \in Seq(Signal) /\ OneSided(profile)
  BY DEF IInv, TypeOK, Sound
<1>2. PICK S : S = {profile[i] : i \in FriendPlaces(fields, StoredStatuses)}
  OBVIOUS
<1>3. ranked \in Seq(S) /\ (FriendPlaces(fields, StoredStatuses) # {} => ranked # <<>>)
  BY <1>1, <1>2, FriendSignals
<1>4. first \in Seq(S) /\ (ranked # <<>> => first # <<>>)
  BY <1>3, FirstOfList
<1>5. ASSUME NEW i \in FriendPlaces(fields, StoredStatuses)
      PROVE  profile[i] \in Showable
  <2>1. /\ i \in DOMAIN profile /\ profile[i].status \in {"active", "inactive"}
        /\ profile[i].field \in {"interests", "hobbies", "preferences"}
    BY DEF FriendPlaces, StoredStatuses, VisibleToFriends
  <2>2. profile[i] \in Signal /\ profile[i].value \in Values
    BY <1>1, <2>1, SeqFacts
  <2>3. i \in LiveAt(profile, {"preferences", "interests", "hobbies"}, profile[i].value)
    BY <2>1 DEF LiveAt
  <2>4. i \in LiveAt(profile, PositiveFields, profile[i].value)
    BY <2>1 DEF LiveAt, PositiveFields, QueryFields
  <2>5. LiveAt(profile, NegativeFields, profile[i].value) = {}
    BY <1>1, <2>2, <2>4 DEF OneSided
  <2> QED
    BY <2>2, <2>3, <2>5 DEF Showable
<1>6. S \subseteq Showable
  BY <1>2, <1>5
<1>7. first \in Seq(Showable)
  <2>1. PICK n : n = Len(first)
    OBVIOUS
  <2>2. first \in [1 .. n -> S] /\ n \in Nat
    BY <1>4, <2>1, LenProperties
  <2>3. first \in [1 .. n -> Showable]
    BY <1>6, <2>2
  <2> QED
    BY <2>2, <2>3, SeqDef
<1> QED
  BY <1>3, <1>4, <1>7

\* Made, of Keywords, on the side of tastes and of interests.
Made(answer, signals, taste) ==
    LET composed == ComposedKeywords(answer, signals, taste)
    IN  IF composed # <<>> THEN composed ELSE FallbackKeywords(signals, taste)

LEMMA MadeStands ==
    ASSUME NEW S \in SUBSET Signal, NEW signals \in Seq(S), NEW answer \in Seq(Composed),
           NEW taste \in BOOLEAN
    PROVE  /\ Made(answer, signals, taste) \in KeywordsOn(S)
           /\ signals # <<>> => Made(answer, signals, taste) # <<>>
<1>1. PICK composed, fallback : /\ composed = ComposedKeywords(answer, signals, taste)
                                /\ fallback = FallbackKeywords(signals, taste)
  OBVIOUS
<1>2. composed \in KeywordsOn(S)
  BY <1>1, ComposedStands
<1>3. fallback \in KeywordsOn(S) /\ (signals # <<>> => fallback # <<>>)
  BY <1>1, FallbackStands
<1> QED
  BY <1>1, <1>2, <1>3 DEF Made

\* The entries that keywords and clues stand on.
UsedBy(made, clues) == Range(clues) \cup UNION {k.sources : k \in Range(made.taste \o made.interest)}

LEMMA UsedIs ==
    ASSUME NEW made, NEW clues, NEW s \in UsedBy(made, clues)
    PROVE  s \in Range(clues) \/ \E k \in Range(made.taste \o made.interest) : s \in k.sources
BY DEF UsedBy

\* What AnalysisShows says of the lists it hands to the models and an answer.
ShowsFor(tastes, interests, clues, raw) ==
    LET Shown(fields) == \E i \in DOMAIN profile : /\ profile[i].field \in fields
                                                   /\ profile[i].status # "superseded"
        made == Keywords(tastes, interests, raw)
        used == UsedBy(made, clues)
    IN  /\ Shown({"preferences"}) => made.taste # <<>>
        /\ Shown({"interests", "hobbies"}) => made.interest # <<>>
        /\ turn = MaxTurns /\ ~ProfileTooSparse => made.taste \o made.interest # <<>> /\ SummaryAsked
        /\ SummaryAsked => clues # <<>>
        /\ \A s \in used :
              /\ LiveAt(profile, {"preferences", "interests", "hobbies"}, s.value) # {}
              /\ LiveAt(profile, NegativeFields, s.value) = {}

LEMMA WhatIsShown ==
    ASSUME IInv PROVE AnalysisShows
<1>1. PICK tastes, interests, clues :
        /\ tastes = KeywordInput(TasteKeywordFields)
        /\ interests = KeywordInput(InterestKeywordFields)
        /\ clues = SummaryClues
  OBVIOUS
<1>2. KeywordInputLimit \in Nat \ {0} /\ SummaryClueLimit \in Nat \ {0}
  BY KeywordConstants
<1>3. /\ tastes \in Seq(Showable)
      /\ FriendPlaces(TasteKeywordFields, StoredStatuses) # {} => tastes # <<>>
  BY <1>1, <1>2, FriendsAreShowable DEF KeywordInput
<1>4. /\ interests \in Seq(Showable)
      /\ FriendPlaces(InterestKeywordFields, StoredStatuses) # {} => interests # <<>>
  BY <1>1, <1>2, FriendsAreShowable DEF KeywordInput
<1>5. /\ clues \in Seq(Showable)
      /\ FriendPlaces(VisibleToFriends, StoredStatuses) # {} => clues # <<>>
  BY <1>1, <1>2, FriendsAreShowable DEF SummaryClues
<1> DEFINE Shown(fields) == \E i \in DOMAIN profile : /\ profile[i].field \in fields
                                                      /\ profile[i].status # "superseded"
<1>6. \A i \in DOMAIN profile : profile[i].status \in {"active", "inactive", "superseded"}
  <2>1. \A i \in DOMAIN profile : profile[i] \in Signal
    BY SeqFacts DEF IInv, TypeOK
  <2> QED
    BY <2>1 DEF Signal
<1>7. Shown({"preferences"}) => tastes # <<>>
  BY <1>3, <1>6 DEF FriendPlaces, StoredStatuses, TasteKeywordFields, VisibleToFriends
<1>8. Shown({"interests", "hobbies"}) => interests # <<>>
  BY <1>4, <1>6 DEF FriendPlaces, StoredStatuses, InterestKeywordFields, VisibleToFriends
<1>9. SummaryAsked => clues # <<>>
  BY <1>5 DEF SummaryAsked, FriendPlaces, StoredStatuses, VisibleToFriends
<1>10. turn = MaxTurns /\ ~ProfileTooSparse =>
          SummaryAsked /\ (Shown({"preferences"}) \/ Shown({"interests", "hobbies"}))
  <2> SUFFICES ASSUME turn = MaxTurns, ~ProfileTooSparse
               PROVE  SummaryAsked /\ (Shown({"preferences"}) \/ Shown({"interests", "hobbies"}))
    OBVIOUS
  <2>1. PICK fields, ranked : /\ fields = TasteKeywordFields \cup InterestKeywordFields
                              /\ ranked = RankedFriendSignals(fields, {"active"})
    OBVIOUS
  <2>2. ranked # <<>>
    <3>1. MaxTurns \in Nat
      BY MergerConstants
    <3> QED
      BY <2>1, <3>1 DEF ProfileTooSparse
  <2>3. PICK S : S = {profile[i] : i \in FriendPlaces(fields, {"active"})}
    OBVIOUS
  <2>4. FriendPlaces(fields, {"active"}) # {}
    BY <2>1, <2>2, <2>3, FriendSignals DEF IInv, TypeOK
  <2>5. PICK i \in DOMAIN profile : /\ profile[i].status = "active"
                                    /\ profile[i].field \in {"interests", "hobbies", "preferences"}
    BY <2>4 DEF FriendPlaces, VisibleToFriends
  <2> QED
    BY <2>5 DEF SummaryAsked, VisibleToFriends
<1>11. Showable \in SUBSET Signal
  BY DEF Showable
<1>12. ASSUME NEW raw \in Answers
       PROVE  ShowsFor(tastes, interests, clues, raw)
  <2>0. PICK made, used :
          /\ made = Keywords(tastes, interests, raw)
          /\ used = UsedBy(made, clues)
    OBVIOUS
  <2>1. raw.taste \in Seq(Composed) /\ raw.interest \in Seq(Composed)
    BY KeywordConstants
  <2>2. PICK taste, interest : /\ taste = Made(raw.taste, tastes, TRUE)
                               /\ interest = Made(raw.interest, interests, FALSE)
    OBVIOUS
  <2>3. taste \in KeywordsOn(Showable) /\ (tastes # <<>> => taste # <<>>)
    BY <1>3, <1>11, <2>1, <2>2, MadeStands
  <2>4. interest \in KeywordsOn(Showable) /\ (interests # <<>> => interest # <<>>)
    BY <1>4, <1>11, <2>1, <2>2, MadeStands
  <2>5. made.taste = taste /\ made.interest = interest
    BY <2>0, <2>2 DEF Keywords, Made
  <2>6. PICK K, all : K = [label : Labels, sources : SUBSET Showable] /\ all = taste \o interest
    OBVIOUS
  <2>7. all \in Seq(K) /\ (all = <<>> <=> taste = <<>> /\ interest = <<>>)
    BY <2>3, <2>4, <2>6, ConcatProperties, ConcatEqualIffEmpty DEF KeywordsOn
  <2>8. \A k \in Range(all) : k.sources \in SUBSET Showable
    <3>1. \A k \in Range(all) : k \in K
      BY <2>7, LenProperties, ElementOfSeq DEF Range
    <3> QED
      BY <2>6, <3>1
  <2>9. \A s \in Range(clues) : s \in Showable
    BY <1>5, LenProperties, ElementOfSeq DEF Range
  <2>10. ASSUME NEW s \in used PROVE s \in Showable
    <3>1. made.taste \o made.interest = all
      BY <2>5, <2>6
    <3>2. s \in Range(clues) \/ \E k \in Range(all) : s \in k.sources
      BY <2>0, <3>1, UsedIs
    <3> QED
      BY <2>8, <2>9, <3>2
  <2>11. \A s \in used : /\ LiveAt(profile, {"preferences", "interests", "hobbies"}, s.value) # {}
                         /\ LiveAt(profile, NegativeFields, s.value) = {}
    BY <2>10 DEF Showable
  <2>12. /\ Shown({"preferences"}) => made.taste # <<>>
         /\ Shown({"interests", "hobbies"}) => made.interest # <<>>
         /\ turn = MaxTurns /\ ~ProfileTooSparse => made.taste \o made.interest # <<>> /\ SummaryAsked
         /\ SummaryAsked => clues # <<>>
    <3> HIDE DEF Shown
    <3> QED
      BY <1>7, <1>8, <1>9, <1>10, <2>3, <2>4, <2>5, <2>6, <2>7
  <2> QED
    BY <2>0, <2>11, <2>12 DEF ShowsFor
<1> HIDE DEF Shown
<1>13. AnalysisShows <=>
          (at = 0 => \A raw \in Answers :
                        ShowsFor(KeywordInput(TasteKeywordFields), KeywordInput(InterestKeywordFields),
                                 SummaryClues, raw))
  BY DEF AnalysisShows, ShowsFor, UsedBy
<1> QED
  BY <1>1, <1>12, <1>13

\* Whatever the model answers or fails to, on every profile that merges can make:
\* a keyword on every side there is something to show on, and no keyword and no
\* clue on something private, taken back or by now disliked.
THEOREM AnalysisShowsHolds == Spec => []AnalysisShows
<1>1. IInv => AnalysisShows
  BY WhatIsShown
<1> QED
  BY <1>1, Invariance, PTL

===============================================================================
