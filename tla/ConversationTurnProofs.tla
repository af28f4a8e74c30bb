------------------------- MODULE ConversationTurnProofs -------------------------
(***************************************************************************)
(* The turns of a session, for any topics, scenes and utterances, any limits   *)
(* of the policy and replies of any length.                                   *)
(*                                                                         *)
(* A turn keeps nothing of its own but the decision it was begun with, and the *)
(* session stands still until it ends: so what the decision was made from is   *)
(* what it is recorded in, and what turns do to a session follows from what    *)
(* the policy decides (ChooseMove, WrapReason) and what the record does with   *)
(* it (CompleteTurn).                                                         *)
(*                                                                         *)
(* What is streamed follows from the text alone: the first part of this module *)
(* says of each step of ReplyGuards what it makes of the beginning of a text   *)
(* and what it makes of all of it, so that whatever StablePrefix shows of a    *)
(* beginning FinalReply keeps.                                                *)
(***************************************************************************)
EXTENDS ConversationTurn, SequenceTheorems, FiniteSetTheorems, WellFoundedInduction, TLAPS

Typed ==
    /\ session \in Session
    /\ said \in Utterance \cup {None}
    /\ decision \in Decision

\* While a turn is under way its decision is what the session would have it be.
Decided ==
    IF said = None THEN decision = NoDecision
    ELSE session.status = "active" /\ decision = DecideGoal(session, said)

\* A session that goes on has a turn left.
TurnLeft(s) == s.status = "active" => s.turn_count < MAX_TURNS

\* How the moves of a session follow each other.
Varied(s) ==
    /\ TopicFollowCount(s) <= TOPIC_FOLLOW_LIMIT_ENGAGED
    /\ \A k \in 1 .. Len(s.moves) - 1 : ~(s.moves[k] = "choice" /\ s.moves[k + 1] = "choice")

\* The topic to go back to is an interest that the user was found to have.
BestKnown(s) == s.best_topic # None => s.best_topic \in s.known

SessionInv(s) == TurnLeft(s) /\ Varied(s) /\ BestKnown(s)

\* The inductive invariant.
IInv == Typed /\ Decided /\ SessionInv(session)

-----------------------------------------------------------------------------
\* A number is the least of every set of them that is not empty.
LEMMA Least ==
    ASSUME NEW T \in SUBSET Nat, T # {}
    PROVE  \E x \in T : \A y \in T : x <= y
<1>1. PICK x \in T : \A y \in T : ~ (<<y, x>> \in OpToRel(<, Nat))
  BY NatLessThanWellFounded, WFMin
<1>2. ASSUME NEW y \in T, ~(x <= y)
      PROVE  FALSE
  <2>1. y < x /\ x \in Nat /\ y \in Nat
    BY <1>2
  <2>2. <<y, x>> \in OpToRel(<, Nat)
    BY <2>1 DEF OpToRel
  <2> QED
    BY <1>1, <2>2
<1> QED
  BY <1>2

-----------------------------------------------------------------------------
(* Places in a text.                                                          *)

Texts == Seq(Symbols)

LEMMA TextFacts ==
    ASSUME NEW t \in Texts
    PROVE  /\ Len(t) \in Nat /\ DOMAIN t = 1 .. Len(t)
           /\ \A i \in 1 .. Len(t) : t[i] \in Symbols
BY LenProperties, ElementOfSeq DEF Texts

\* Two texts with the same symbols at the same places are the same.
LEMMA SameText ==
    ASSUME NEW S, NEW s \in Seq(S), NEW t \in Seq(S), Len(s) = Len(t),
           \A i \in 1 .. Len(s) : s[i] = t[i]
    PROVE  s = t
BY SeqEqual

LEMMA UpToFacts ==
    ASSUME NEW S, NEW t \in Seq(S), NEW n \in 0 .. Len(t)
    PROVE  /\ UpTo(t, n) \in Seq(S) /\ Len(UpTo(t, n)) = n
           /\ \A i \in 1 .. n : UpTo(t, n)[i] = t[i]
<1>1. Len(t) \in Nat
  BY LenProperties
<1>2. \A i \in 1 .. n : t[i] \in S
  BY <1>1, ElementOfSeq
<1>3. 1 \in Int /\ n \in Int
  BY <1>1
<1>4. /\ UpTo(t, n) \in Seq(S) /\ Len(UpTo(t, n)) = IF 1 <= n THEN n - 1 + 1 ELSE 0
      /\ \A i \in 1 .. n - 1 + 1 : UpTo(t, n)[i] = t[1 + i - 1]
  BY <1>2, <1>3, SubSeqProperties DEF UpTo
<1> QED
  BY <1>1, <1>4

LEMMA FromFacts ==
    ASSUME NEW S, NEW t \in Seq(S), NEW b \in 1 .. Len(t) + 1
    PROVE  /\ From(t, b) \in Seq(S) /\ Len(From(t, b)) = Len(t) - b + 1
           /\ \A i \in 1 .. Len(t) - b + 1 : From(t, b)[i] = t[b + i - 1]
<1>1. Len(t) \in Nat
  BY LenProperties
<1>2. \A i \in b .. Len(t) : t[i] \in S
  BY <1>1, ElementOfSeq
<1>3. b \in Int /\ Len(t) \in Int
  BY <1>1
<1>4. /\ From(t, b) \in Seq(S) /\ Len(From(t, b)) = IF b <= Len(t) THEN Len(t) - b + 1 ELSE 0
      /\ \A i \in 1 .. Len(t) - b + 1 : From(t, b)[i] = t[b + i - 1]
  BY <1>2, <1>3, SubSeqProperties DEF From
<1> QED
  BY <1>1, <1>4

LEMMA PrefixIs ==
    ASSUME NEW S, NEW s \in Seq(S), NEW t \in Seq(S)
    PROVE  IsPrefix(s, t) <=> Len(s) <= Len(t) /\ \A i \in 1 .. Len(s) : s[i] = t[i]
<1>1. Len(s) \in Nat /\ Len(t) \in Nat
  BY LenProperties
<1>2. UpTo(s, Len(s)) \in Seq(S) /\ Len(UpTo(s, Len(s))) = Len(s)
      /\ \A i \in 1 .. Len(s) : UpTo(s, Len(s))[i] = s[i]
  <2>1. Len(s) \in 0 .. Len(s)
    BY <1>1
  <2> QED
    BY <2>1, UpToFacts
<1>3. ASSUME Len(s) <= Len(t)
      PROVE  UpTo(t, Len(s)) \in Seq(S) /\ Len(UpTo(t, Len(s))) = Len(s)
             /\ \A i \in 1 .. Len(s) : UpTo(t, Len(s))[i] = t[i]
  <2>1. Len(s) \in 0 .. Len(t)
    BY <1>1, <1>3
  <2> QED
    BY <2>1, UpToFacts
<1>4. ASSUME Len(s) <= Len(t), \A i \in 1 .. Len(s) : s[i] = t[i]
      PROVE  UpTo(s, Len(s)) = UpTo(t, Len(s))
  BY <1>2, <1>3, <1>4, SameText
<1>5. IsPrefix(s, t) <=> Len(s) <= Len(t) /\ UpTo(s, Len(s)) = UpTo(t, Len(s))
  BY DEF IsPrefix, UpTo
<1> QED
  BY <1>2, <1>3, <1>4, <1>5

\* A first place and a last one.
LEMMA MinIs ==
    ASSUME NEW T \in SUBSET Nat, T # {}
    PROVE  Min(T) \in T /\ \A x \in T : Min(T) <= x
<1>1. \E m \in T : \A x \in T : m <= x
  BY Least
<1> QED
  BY <1>1 DEF Min

LEMMA MaxIs ==
    ASSUME NEW N \in Nat, NEW T \in SUBSET (0 .. N), T # {}
    PROVE  Max(T) \in T /\ \A x \in T : x <= Max(T)
<1> DEFINE D == {N - x : x \in T}
<1>1. \A x \in T : x \in 0 .. N /\ N - x \in Nat
  OBVIOUS
<1>2. PICK d \in D : \A e \in D : d <= e
  <2>1. D \in SUBSET Nat /\ D # {}
    BY <1>1
  <2> HIDE DEF D
  <2> QED
    BY <2>1, Least
<1>3. PICK m \in T : d = N - m
  OBVIOUS
<1>4. \A x \in T : m >= x
  <2> SUFFICES ASSUME NEW x \in T PROVE m >= x
    OBVIOUS
  <2>1. d <= N - x
    BY <1>2
  <2> QED
    BY <1>1, <1>3, <2>1
<1>5. PICK top : top = Max(T)
  OBVIOUS
<1>6. top \in T /\ \A x \in T : top >= x
  BY <1>4, <1>5 DEF Max
<1>7. \A x \in T : x <= top
  <2> SUFFICES ASSUME NEW x \in T PROVE x <= top
    OBVIOUS
  <2> QED
    BY <1>1, <1>6
<1> QED
  BY <1>5, <1>6, <1>7

LEMMA LastOfFacts ==
    ASSUME NEW S, NEW t \in Seq(S), NEW symbols, NEW n, n = LastOf(t, symbols)
    PROVE  /\ n \in 0 .. Len(t) /\ (n # 0 => t[n] \in symbols)
           /\ \A i \in 1 .. Len(t) : t[i] \in symbols => i <= n
<1>1. Len(t) \in Nat /\ DOMAIN t = 1 .. Len(t)
  BY LenProperties
<1>2. PICK T : T = {0} \cup {i \in DOMAIN t : t[i] \in symbols}
  OBVIOUS
<1>3. T \in SUBSET (0 .. Len(t)) /\ T # {}
  BY <1>1, <1>2
<1>4. n \in T /\ \A x \in T : x <= n
  BY <1>1, <1>2, <1>3, MaxIs DEF LastOf
<1> QED
  BY <1>1, <1>2, <1>3, <1>4

-----------------------------------------------------------------------------
(* Blanks at the ends of a text.                                              *)

\* From b on the text has no blanks in front.
StartsAt(t, b) ==
    /\ b \in 1 .. Len(t) + 1
    /\ \A i \in 1 .. b - 1 : t[i] \in Blank
    /\ b <= Len(t) => t[b] \notin Blank

\* Up to n it has none behind.
EndsAt(t, n) ==
    /\ n \in 0 .. Len(t)
    /\ n # 0 => t[n] \notin Blank
    /\ \A i \in n + 1 .. Len(t) : t[i] \in Blank

LEMMA StartExists ==
    ASSUME NEW t \in Texts
    PROVE  \E b : StartsAt(t, b)
<1>1. Len(t) \in Nat /\ DOMAIN t = 1 .. Len(t)
  BY TextFacts
<1>2. PICK kept : kept = {i \in DOMAIN t : t[i] \notin Blank}
  OBVIOUS
<1>3. CASE kept = {}
  <2>1. StartsAt(t, Len(t) + 1)
    BY <1>1, <1>2, <1>3 DEF StartsAt
  <2> QED
    BY <2>1
<1>4. CASE kept # {}
  <2>1. kept \in SUBSET Nat
    BY <1>1, <1>2
  <2>2. PICK b \in kept : \A x \in kept : b <= x
    BY <1>4, <2>1, Least
  <2>3. StartsAt(t, b)
    BY <1>1, <1>2, <2>2 DEF StartsAt
  <2> QED
    BY <2>3
<1> QED
  BY <1>3, <1>4

LEMMA LStripIs ==
    ASSUME NEW t \in Texts, NEW b, StartsAt(t, b)
    PROVE  LStrip(t) = From(t, b)
<1>1. Len(t) \in Nat /\ DOMAIN t = 1 .. Len(t) /\ b \in 1 .. Len(t) + 1
  BY TextFacts DEF StartsAt
<1>2. PICK kept : kept = {i \in DOMAIN t : t[i] \notin Blank}
  OBVIOUS
<1>3. CASE kept = {}
  <2>1. b = Len(t) + 1
    BY <1>1, <1>2, <1>3 DEF StartsAt
  <2>2. From(t, b) \in Seq(Symbols) /\ Len(From(t, b)) = 0
    BY <1>1, <2>1, FromFacts DEF Texts
  <2>3. From(t, b) = <<>>
    BY <2>2, EmptySeq
  <2> QED
    BY <1>2, <1>3, <2>3 DEF LStrip
<1>4. CASE kept # {}
  <2>1. kept \in SUBSET Nat
    BY <1>1, <1>2
  <2>2. PICK m : m = Min(kept)
    OBVIOUS
  <2>3. m \in kept /\ \A x \in kept : m <= x
    BY <1>4, <2>1, <2>2, MinIs
  <2>4. m \in 1 .. Len(t) /\ t[m] \notin Blank
    BY <1>1, <1>2, <2>3
  <2>5. ~(m < b)
    BY <1>1, <2>4 DEF StartsAt
  <2>6. b <= Len(t) /\ b \in kept
    BY <1>1, <1>2, <2>4, <2>5 DEF StartsAt
  <2>7. m = b
    BY <1>1, <2>3, <2>4, <2>5, <2>6
  <2> QED
    BY <1>2, <1>4, <2>2, <2>7 DEF LStrip
<1> QED
  BY <1>3, <1>4

LEMMA EndExists ==
    ASSUME NEW t \in Texts, NEW n, n = LastOf(t, Symbols \ Blank)
    PROVE  EndsAt(t, n) /\ RStrip(t) = UpTo(t, n)
<1>1. Len(t) \in Nat /\ \A i \in 1 .. Len(t) : t[i] \in Symbols
  BY TextFacts
<1>2. /\ n \in 0 .. Len(t) /\ (n # 0 => t[n] \in Symbols \ Blank)
      /\ \A i \in 1 .. Len(t) : t[i] \in Symbols \ Blank => i <= n
  BY LastOfFacts DEF Texts
<1>3. \A i \in n + 1 .. Len(t) : t[i] \in Blank
  <2> SUFFICES ASSUME NEW i \in n + 1 .. Len(t) PROVE t[i] \in Blank
    OBVIOUS
  <2>1. i \in 1 .. Len(t) /\ ~(i <= n)
    BY <1>1, <1>2
  <2> QED
    BY <1>1, <1>2, <2>1
<1> QED
  BY <1>2, <1>3 DEF EndsAt, RStrip

LEMMA EndIsOne ==
    ASSUME NEW t \in Texts, NEW m, EndsAt(t, m), NEW n, EndsAt(t, n)
    PROVE  m = n
<1>1. Len(t) \in Nat
  BY TextFacts
<1> QED
  BY <1>1 DEF EndsAt

LEMMA RStripIs ==
    ASSUME NEW t \in Texts, NEW n, EndsAt(t, n)
    PROVE  RStrip(t) = UpTo(t, n)
BY EndExists, EndIsOne

\* The whole of a text.
LEMMA UpToAll ==
    ASSUME NEW t \in Texts
    PROVE  UpTo(t, Len(t)) = t /\ From(t, 1) = t
<1>1. Len(t) \in Nat
  BY TextFacts
<1>2. Len(t) \in 0 .. Len(t) /\ 1 \in 1 .. Len(t) + 1
  BY <1>1
<1>3. UpTo(t, Len(t)) = t
  BY <1>2, UpToFacts, SameText DEF Texts
<1>4. /\ From(t, 1) \in Seq(Symbols) /\ Len(From(t, 1)) = Len(t) - 1 + 1
      /\ \A i \in 1 .. Len(t) - 1 + 1 : From(t, 1)[i] = t[1 + i - 1]
  BY <1>2, FromFacts DEF Texts
<1>5. Len(From(t, 1)) = Len(t) /\ \A i \in 1 .. Len(t) : From(t, 1)[i] = t[i]
  BY <1>1, <1>4
<1>6. From(t, 1) = t
  BY <1>1, <1>4, <1>5, SameText DEF Texts
<1> QED
  BY <1>3, <1>6

LEMMA LStripped ==
    ASSUME NEW t \in Texts, t # <<>> => t[1] \notin Blank
    PROVE  LStrip(t) = t
<1>1. Len(t) \in Nat /\ (t = <<>> => Len(t) = 0)
  BY TextFacts
<1>2. Len(t) # 0 => t # <<>>
  BY <1>1
<1>3. StartsAt(t, 1)
  BY <1>1, <1>2 DEF StartsAt
<1> QED
  BY <1>3, LStripIs, UpToAll

LEMMA Stripped ==
    ASSUME NEW t \in Texts, t # <<>> => t[1] \notin Blank /\ t[Len(t)] \notin Blank
    PROVE  Strip(t) = t
<1>1. Len(t) \in Nat /\ (Len(t) # 0 => t # <<>>)
  BY TextFacts
<1>2. LStrip(t) = t
  BY LStripped
<1>3. EndsAt(t, Len(t))
  BY <1>1 DEF EndsAt
<1>4. RStrip(t) = t
  BY <1>3, RStripIs, UpToAll
<1> QED
  BY <1>2, <1>4 DEF Strip

-----------------------------------------------------------------------------
(* The speaker's name.                                                        *)

LEMMA FromFrom ==
    ASSUME NEW t \in Texts, NEW b \in 1 .. Len(t) + 1, NEW d \in 1 .. Len(t) - b + 2
    PROVE  From(From(t, b), d) = From(t, b + d - 1)
<1>1. Len(t) \in Nat
  BY TextFacts
<1>2. PICK s : s = From(t, b)
  OBVIOUS
<1>3. /\ s \in Texts /\ Len(s) = Len(t) - b + 1
      /\ \A i \in 1 .. Len(t) - b + 1 : s[i] = t[b + i - 1]
  BY <1>2, FromFacts DEF Texts
<1>4. d \in 1 .. Len(s) + 1 /\ b + d - 1 \in 1 .. Len(t) + 1
  BY <1>1, <1>3
<1>5. /\ From(s, d) \in Texts /\ Len(From(s, d)) = Len(s) - d + 1
      /\ \A i \in 1 .. Len(s) - d + 1 : From(s, d)[i] = s[d + i - 1]
  BY <1>3, <1>4, FromFacts DEF Texts
<1>6. /\ From(t, b + d - 1) \in Texts /\ Len(From(t, b + d - 1)) = Len(t) - (b + d - 1) + 1
      /\ \A i \in 1 .. Len(t) - (b + d - 1) + 1 : From(t, b + d - 1)[i] = t[(b + d - 1) + i - 1]
  BY <1>4, FromFacts DEF Texts
<1>7. \A i \in 1 .. Len(s) - d + 1 : From(s, d)[i] = From(t, b + d - 1)[i]
  <2> SUFFICES ASSUME NEW i \in 1 .. Len(s) - d + 1 PROVE From(s, d)[i] = From(t, b + d - 1)[i]
    OBVIOUS
  <2>1. d + i - 1 \in 1 .. Len(t) - b + 1 /\ i \in 1 .. Len(t) - (b + d - 1) + 1
    BY <1>1, <1>3
  <2>2. From(s, d)[i] = t[b + (d + i - 1) - 1] /\ From(t, b + d - 1)[i] = t[(b + d - 1) + i - 1]
    BY <1>3, <1>5, <1>6, <2>1
  <2>3. b + (d + i - 1) - 1 = (b + d - 1) + i - 1
    BY <1>1
  <2> QED
    BY <2>2, <2>3
<1>8. Len(From(s, d)) = Len(From(t, b + d - 1))
  BY <1>1, <1>3, <1>5, <1>6
<1> QED
  BY <1>2, <1>5, <1>6, <1>7, <1>8, SameText DEF Texts

\* The colon of a label, with blanks before it.
Label(t, c) ==
    /\ c \in 2 .. Len(t) /\ t[1] = "N" /\ t[c] = ":"
    /\ \A i \in 2 .. c - 1 : t[i] \in Blank

\* Where the text begins that is not a label.
Content(t, b) ==
    \/ b = 1 /\ \A c : ~Label(t, c)
    \/ \E c : /\ Label(t, c) /\ b \in c + 1 .. Len(t) + 1
              /\ \A i \in c + 1 .. b - 1 : t[i] \in Blank
              /\ b <= Len(t) => t[b] \notin Blank

LEMMA UnlabelledIs ==
    ASSUME NEW t \in Texts
    PROVE  \E b \in 1 .. Len(t) + 1 : Content(t, b) /\ Unlabelled(t) = From(t, b)
<1>1. Len(t) \in Nat /\ (t # <<>> <=> Len(t) # 0)
  BY TextFacts, EmptySeq DEF Texts
<1>2. CASE t = <<>> \/ t[1] # "N"
  <2>1. t # <<>> => Head(t) = t[1]
    BY DEF Head
  <2>2. Unlabelled(t) = t
    BY <1>2, <2>1 DEF Unlabelled
  <2>3. \A c : ~Label(t, c)
    BY <1>1, <1>2 DEF Label
  <2>4. 1 \in 1 .. Len(t) + 1
    BY <1>1
  <2> QED
    BY <2>2, <2>3, <2>4, UpToAll DEF Content
<1>3. CASE t # <<>> /\ t[1] = "N"
  <2>1. PICK rest : rest = Tail(t)
    OBVIOUS
  <2>2. rest = From(t, 2) /\ 2 \in 1 .. Len(t) + 1 /\ Head(t) = "N"
    BY <1>1, <1>3, <2>1, TailIsSubSeq DEF From, Head, Texts
  <2>3. /\ rest \in Texts /\ Len(rest) = Len(t) - 1
        /\ \A i \in 1 .. Len(t) - 1 : rest[i] = t[i + 1]
    <3>1. /\ rest \in Texts /\ Len(rest) = Len(t) - 2 + 1
          /\ \A i \in 1 .. Len(t) - 2 + 1 : rest[i] = t[2 + i - 1]
      BY <2>2, FromFacts DEF Texts
    <3> QED
      BY <1>1, <3>1
  <2>4. PICK d : StartsAt(rest, d)
    BY <2>3, StartExists
  <2>5. PICK c : c = d + 1
    OBVIOUS
  <2>6. /\ d \in 1 .. Len(t) /\ c \in 2 .. Len(t) + 1
        /\ \A i \in 1 .. d - 1 : rest[i] \in Blank
        /\ d <= Len(rest) => rest[d] \notin Blank
    BY <1>1, <2>3, <2>4, <2>5 DEF StartsAt
  <2>7. \A i \in 2 .. c - 1 : t[i] \in Blank
    <3> SUFFICES ASSUME NEW i \in 2 .. c - 1 PROVE t[i] \in Blank
      OBVIOUS
    <3>1. i - 1 \in 1 .. d - 1 /\ i - 1 \in 1 .. Len(t) - 1 /\ (i - 1) + 1 = i
      BY <1>1, <2>5, <2>6
    <3>2. rest[i - 1] = t[(i - 1) + 1] /\ rest[i - 1] \in Blank
      BY <2>3, <2>6, <3>1
    <3> QED
      BY <3>1, <3>2
  <2>8. PICK after : after = LStrip(rest)
    OBVIOUS
  <2>9. after = From(t, c)
    <3>1. after = From(rest, d)
      BY <2>3, <2>4, <2>8, LStripIs
    <3>2. d \in 1 .. Len(t) - 2 + 2 /\ 2 + d - 1 = c
      BY <1>1, <2>5, <2>6
    <3> QED
      BY <2>2, <3>1, <3>2, FromFrom
  <2>10. /\ after \in Texts /\ Len(after) = Len(t) - c + 1
         /\ c <= Len(t) => after # <<>> /\ after[1] = t[c] /\ t[c] \notin Blank
         /\ c > Len(t) => after = <<>>
    <3>1. /\ after \in Texts /\ Len(after) = Len(t) - c + 1
          /\ \A i \in 1 .. Len(t) - c + 1 : after[i] = t[c + i - 1]
      BY <2>6, <2>9, FromFacts DEF Texts
    <3>2. ASSUME c <= Len(t)
          PROVE  after # <<>> /\ after[1] = t[c] /\ t[c] \notin Blank
      <4>1. 1 \in 1 .. Len(t) - c + 1 /\ c + 1 - 1 = c /\ Len(after) # 0 /\ Len(<<>>) = 0
        BY <1>1, <2>6, <3>1, <3>2
      <4>2. d \in 1 .. Len(t) - 1 /\ d <= Len(rest)
        BY <1>1, <2>3, <2>5, <2>6, <3>2
      <4>3. rest[d] = t[d + 1]
        BY <2>3, <4>2
      <4> QED
        BY <2>5, <2>6, <3>1, <4>1, <4>2, <4>3
    <3>3. ASSUME c > Len(t) PROVE after = <<>>
      <4>1. Len(after) = 0
        BY <1>1, <2>6, <3>1, <3>3
      <4> QED
        BY <3>1, <4>1, EmptySeq DEF Texts
    <3> QED
      BY <3>1, <3>2, <3>3
  <2>11. CASE c <= Len(t) /\ t[c] = ":"
    <3>1. Label(t, c)
      BY <1>1, <1>3, <2>6, <2>7, <2>11 DEF Label
    <3>2. Head(after) = ":" /\ Tail(after) = From(after, 2) /\ 2 \in 1 .. Len(after) + 1
      BY <1>1, <2>6, <2>10, <2>11, TailIsSubSeq DEF Head, From, Texts
    <3>3. PICK back : back = Tail(after)
      OBVIOUS
    <3>4. back = From(t, c + 1) /\ c + 1 \in 1 .. Len(t) + 1
      <4>1. c \in 1 .. Len(t) + 1 /\ 2 \in 1 .. Len(t) - c + 2 /\ c + 2 - 1 = c + 1
        BY <1>1, <2>6, <2>11
      <4>2. From(From(t, c), 2) = From(t, c + 1)
        BY <4>1, FromFrom
      <4> QED
        BY <1>1, <2>6, <2>9, <2>11, <3>2, <3>3, <4>2
    <3>5. /\ back \in Texts /\ Len(back) = Len(t) - (c + 1) + 1
          /\ \A i \in 1 .. Len(t) - (c + 1) + 1 : back[i] = t[(c + 1) + i - 1]
      BY <3>4, FromFacts DEF Texts
    <3>6. PICK e : StartsAt(back, e)
      BY <3>5, StartExists
    <3>7. PICK b : b = c + e
      OBVIOUS
    <3>8. /\ e \in 1 .. Len(t) - c + 1 /\ b \in c + 1 .. Len(t) + 1 /\ b \in 1 .. Len(t) + 1
          /\ Len(back) = Len(t) - c
      BY <1>1, <2>6, <3>5, <3>6, <3>7 DEF StartsAt
    <3>9. LStrip(back) = From(t, b)
      <4>1. LStrip(back) = From(back, e)
        BY <3>5, <3>6, LStripIs
      <4>2. e \in 1 .. Len(t) - (c + 1) + 2 /\ (c + 1) + e - 1 = b
        BY <1>1, <2>6, <3>7, <3>8
      <4> QED
        BY <3>4, <4>1, <4>2, FromFrom
    <3>10. \A i \in 1 .. Len(t) - c : back[i] = t[c + i]
      <4> SUFFICES ASSUME NEW i \in 1 .. Len(t) - c PROVE back[i] = t[c + i]
        OBVIOUS
      <4>1. i \in 1 .. Len(t) - (c + 1) + 1 /\ (c + 1) + i - 1 = c + i
        BY <1>1, <2>6
      <4> QED
        BY <3>5, <4>1
    <3>11. \A i \in c + 1 .. b - 1 : t[i] \in Blank
      <4> SUFFICES ASSUME NEW i \in c + 1 .. b - 1 PROVE t[i] \in Blank
        OBVIOUS
      <4>1. i - c \in 1 .. e - 1 /\ i - c \in 1 .. Len(t) - c /\ c + (i - c) = i
        BY <1>1, <2>6, <3>7, <3>8
      <4> QED
        BY <3>6, <3>10, <4>1 DEF StartsAt
    <3>12. b <= Len(t) => t[b] \notin Blank
      <4> SUFFICES ASSUME b <= Len(t) PROVE t[b] \notin Blank
        OBVIOUS
      <4>1. e \in 1 .. Len(t) - c /\ e <= Len(back)
        BY <1>1, <2>6, <3>7, <3>8
      <4> QED
        BY <3>6, <3>7, <3>10, <4>1 DEF StartsAt
    <3>13. Unlabelled(t) = LStrip(back)
      BY <1>3, <2>1, <2>2, <2>8, <2>10, <2>11, <3>2, <3>3 DEF Unlabelled
    <3> QED
      BY <3>1, <3>8, <3>9, <3>11, <3>12, <3>13 DEF Content
  <2>12. CASE ~(c <= Len(t) /\ t[c] = ":")
    <3>1. Unlabelled(t) = t
      <4>1. after = <<>> \/ Head(after) # ":"
        BY <1>1, <2>6, <2>10, <2>12 DEF Head
      <4> QED
        BY <2>1, <2>8, <4>1 DEF Unlabelled
    <3>2. ASSUME NEW k, Label(t, k) PROVE FALSE
      <4>1. k \in 2 .. Len(t) /\ t[k] = ":" /\ \A i \in 2 .. k - 1 : t[i] \in Blank
        BY <3>2 DEF Label
      <4>2. ~(k < c)
        BY <1>1, <2>6, <2>7, <4>1 DEF Blank
      <4>3. ~(c < k)
        BY <1>1, <2>6, <2>10, <4>1
      <4>4. k = c
        BY <1>1, <2>6, <4>1, <4>2, <4>3
      <4> QED
        BY <1>1, <2>12, <4>1, <4>4
    <3>3. 1 \in 1 .. Len(t) + 1
      BY <1>1
    <3> QED
      BY <3>1, <3>2, <3>3, UpToAll DEF Content
  <2> QED
    BY <2>11, <2>12
<1> QED
  BY <1>2, <1>3

LEMMA LabelIsOne ==
    ASSUME NEW t \in Texts, NEW c, Label(t, c), NEW d, Label(t, d)
    PROVE  c = d
<1>1. Len(t) \in Nat /\ c \in 2 .. Len(t) /\ d \in 2 .. Len(t)
  BY TextFacts DEF Label
<1>2. t[c] \notin Blank /\ t[d] \notin Blank
  BY DEF Label, Blank
<1>3. ~(c < d) /\ ~(d < c)
  BY <1>1, <1>2 DEF Label
<1> QED
  BY <1>1, <1>3

LEMMA FromUpTo ==
    ASSUME NEW t \in Texts, NEW n \in 0 .. Len(t), NEW b \in 1 .. n + 1
    PROVE  /\ From(UpTo(t, n), b) = UpTo(From(t, b), n - b + 1)
           /\ n - b + 1 \in 0 .. Len(From(t, b))
<1>1. Len(t) \in Nat /\ b \in 1 .. Len(t) + 1
  BY TextFacts
<1>2. PICK x : x = UpTo(t, n)
  OBVIOUS
<1>3. x \in Texts /\ Len(x) = n /\ \A i \in 1 .. n : x[i] = t[i]
  BY <1>2, UpToFacts DEF Texts
<1>4. /\ From(x, b) \in Texts /\ Len(From(x, b)) = n - b + 1
      /\ \A i \in 1 .. n - b + 1 : From(x, b)[i] = x[b + i - 1]
  BY <1>3, FromFacts DEF Texts
<1>5. PICK f : f = From(t, b)
  OBVIOUS
<1>6. /\ f \in Texts /\ Len(f) = Len(t) - b + 1
      /\ \A i \in 1 .. Len(t) - b + 1 : f[i] = t[b + i - 1]
  BY <1>1, <1>5, FromFacts DEF Texts
<1>7. n - b + 1 \in 0 .. Len(f)
  BY <1>1, <1>6
<1>8. /\ UpTo(f, n - b + 1) \in Texts /\ Len(UpTo(f, n - b + 1)) = n - b + 1
      /\ \A i \in 1 .. n - b + 1 : UpTo(f, n - b + 1)[i] = f[i]
  BY <1>6, <1>7, UpToFacts DEF Texts
<1>9. ASSUME NEW i \in 1 .. n - b + 1
      PROVE  From(x, b)[i] = UpTo(f, n - b + 1)[i]
  <2>1. b + i - 1 \in 1 .. n /\ i \in 1 .. Len(t) - b + 1
    BY <1>1
  <2> QED
    BY <1>3, <1>4, <1>6, <1>8, <2>1
<1> QED
  BY <1>2, <1>4, <1>5, <1>7, <1>8, <1>9, SameText DEF Texts

LEMMA UpToNone ==
    ASSUME NEW t \in Texts
    PROVE  UpTo(t, 0) = <<>> /\ From(t, Len(t) + 1) = <<>>
<1>1. Len(t) \in Nat
  BY TextFacts
<1>2. 0 \in 0 .. Len(t) /\ Len(t) + 1 \in 1 .. Len(t) + 1
  BY <1>1
<1>3. UpTo(t, 0) \in Texts /\ Len(UpTo(t, 0)) = 0
  BY <1>2, UpToFacts DEF Texts
<1>4. From(t, Len(t) + 1) \in Texts /\ Len(From(t, Len(t) + 1)) = Len(t) - (Len(t) + 1) + 1
  BY <1>2, FromFacts DEF Texts
<1>5. Len(From(t, Len(t) + 1)) = 0
  BY <1>1, <1>4
<1> QED
  BY <1>3, <1>4, <1>5, EmptySeq DEF Texts

\* The beginning of a text with blanks in front.
LEMMA LStripOfPrefix ==
    ASSUME NEW t \in Texts, NEW L, L = LStrip(t)
    PROVE  /\ L \in Texts /\ (L # <<>> => L[1] \notin Blank)
           /\ \A k \in 0 .. Len(t) : \E n \in 0 .. Len(L) : LStrip(UpTo(t, k)) = UpTo(L, n)
<1>1. Len(t) \in Nat
  BY TextFacts
<1>2. PICK b : StartsAt(t, b)
  BY StartExists
<1>3. L = From(t, b) /\ b \in 1 .. Len(t) + 1
  BY <1>2, LStripIs DEF StartsAt
<1>4. /\ L \in Texts /\ Len(L) = Len(t) - b + 1
      /\ \A i \in 1 .. Len(t) - b + 1 : L[i] = t[b + i - 1]
  BY <1>3, FromFacts DEF Texts
<1>5. L # <<>> => L[1] \notin Blank
  <2> SUFFICES ASSUME L # <<>> PROVE L[1] \notin Blank
    OBVIOUS
  <2>1. Len(L) \in Nat \ {0}
    BY <1>4, EmptySeq DEF Texts
  <2>2. b <= Len(t) /\ 1 \in 1 .. Len(t) - b + 1 /\ b + 1 - 1 = b
    BY <1>1, <1>3, <1>4, <2>1
  <2> QED
    BY <1>2, <1>4, <2>2 DEF StartsAt
<1>6. ASSUME NEW k \in 0 .. Len(t)
      PROVE  \E n \in 0 .. Len(L) : LStrip(UpTo(t, k)) = UpTo(L, n)
  <2>1. PICK x : x = UpTo(t, k)
    OBVIOUS
  <2>2. x \in Texts /\ Len(x) = k /\ \A i \in 1 .. k : x[i] = t[i]
    BY <2>1, UpToFacts DEF Texts
  <2>3. CASE b <= k
    <3>1. StartsAt(x, b)
      <4>1. \A i \in 1 .. b - 1 : i \in 1 .. k
        BY <1>1, <1>3, <2>3
      <4>2. b \in 1 .. k /\ b <= Len(t)
        BY <1>1, <1>3, <2>3
      <4> QED
        BY <1>2, <2>2, <4>1, <4>2 DEF StartsAt
    <3>2. b \in 1 .. k + 1
      BY <1>1, <1>3, <2>3
    <3>3. From(x, b) = UpTo(L, k - b + 1) /\ k - b + 1 \in 0 .. Len(L)
      BY <1>3, <2>1, <3>2, FromUpTo
    <3> QED
      BY <2>1, <2>2, <3>1, <3>3, LStripIs
  <2>4. CASE ~(b <= k)
    <3>1. StartsAt(x, k + 1)
      <4>1. \A i \in 1 .. k : i \in 1 .. b - 1
        BY <1>1, <1>3, <2>4
      <4>2. k + 1 \in 1 .. Len(x) + 1 /\ ~(k + 1 <= Len(x)) /\ (k + 1) - 1 = k
        BY <1>1, <2>2
      <4> QED
        BY <1>2, <2>2, <4>1, <4>2 DEF StartsAt
    <3>2. LStrip(x) = <<>>
      BY <2>2, <3>1, LStripIs, UpToNone
    <3>3. 0 \in 0 .. Len(L) /\ UpTo(L, 0) = <<>>
      BY <1>4, TextFacts, UpToNone
    <3> QED
      BY <2>1, <3>2, <3>3
  <2> QED
    BY <2>3, <2>4
<1> QED
  BY <1>4, <1>5, <1>6

\* No more than a name that a colon may still follow.
NameOnly(t) == \A i \in 1 .. Len(t) : t[i] \in Blank \/ (i = 1 /\ t[i] = "N")

\* What is content of a beginning is the beginning of the content.
LEMMA ContentOfPrefix ==
    ASSUME NEW L \in Texts, NEW b \in 1 .. Len(L) + 1, Content(L, b),
           NEW V, V = From(L, b), NEW n \in 0 .. Len(L), NEW x, x = UpTo(L, n)
    PROVE  \/ \E g \in 0 .. Len(V) : /\ Unlabelled(x) = UpTo(V, g)
                                     /\ g = IF n >= b THEN n - b + 1 ELSE 0
           \/ /\ NameOnly(x) /\ Unlabelled(x) = x
              /\ \E c \in n + 1 .. Len(L) : L[c] \notin Blank
<1>1. Len(L) \in Nat /\ n \in Nat
  BY TextFacts
<1>2. x \in Texts /\ Len(x) = n /\ \A i \in 1 .. n : x[i] = L[i]
  BY UpToFacts DEF Texts
<1>3. PICK e \in 1 .. Len(x) + 1 : Content(x, e) /\ Unlabelled(x) = From(x, e)
  BY <1>2, UnlabelledIs
<1>4. \A c : Label(x, c) => Label(L, c)
  <2> SUFFICES ASSUME NEW c, Label(x, c) PROVE Label(L, c)
    OBVIOUS
  <2>1. c \in 2 .. n /\ 1 \in 1 .. n /\ c \in 1 .. n /\ \A i \in 2 .. c - 1 : i \in 1 .. n
    BY <1>1, <1>2 DEF Label
  <2>2. c \in 2 .. Len(L)
    BY <1>1, <2>1
  <2> QED
    BY <1>2, <2>1, <2>2 DEF Label
<1>5. V \in Texts /\ Len(V) = Len(L) - b + 1 /\ UpTo(V, 0) = <<>> /\ 0 \in 0 .. Len(V)
  <2>1. V \in Texts /\ Len(V) = Len(L) - b + 1
    BY FromFacts DEF Texts
  <2> QED
    BY <2>1, TextFacts, UpToNone
<1>6. CASE b = 1 /\ \A c : ~Label(L, c)
  <2>1. e = 1
    BY <1>3, <1>4, <1>6 DEF Content
  <2>2. Unlabelled(x) = x /\ V = L
    BY <1>2, <1>3, <1>6, <2>1, UpToAll
  <2>3. n = IF n >= b THEN n - b + 1 ELSE 0
    BY <1>1, <1>6
  <2> QED
    BY <2>2, <2>3
<1>7. CASE \E c : /\ Label(L, c) /\ b \in c + 1 .. Len(L) + 1
                  /\ \A i \in c + 1 .. b - 1 : L[i] \in Blank
                  /\ b <= Len(L) => L[b] \notin Blank
  <2>1. PICK c : /\ Label(L, c) /\ b \in c + 1 .. Len(L) + 1
                 /\ \A i \in c + 1 .. b - 1 : L[i] \in Blank
                 /\ b <= Len(L) => L[b] \notin Blank
    BY <1>7
  <2>2. /\ c \in 2 .. Len(L) /\ L[1] = "N" /\ L[c] = ":" /\ \A i \in 2 .. c - 1 : L[i] \in Blank
    BY <2>1 DEF Label
  <2>3. CASE n < c
    <3>1. NameOnly(x)
      <4> SUFFICES ASSUME NEW i \in 1 .. n PROVE x[i] \in Blank \/ (i = 1 /\ x[i] = "N")
        BY <1>2 DEF NameOnly
      <4>1. i = 1 \/ i \in 2 .. c - 1
        BY <1>1, <2>2, <2>3
      <4> QED
        BY <1>2, <2>2, <4>1
    <3>2. \A d : ~Label(x, d)
      <4> SUFFICES ASSUME NEW d, Label(x, d) PROVE FALSE
        OBVIOUS
      <4>1. d = c
        BY <1>4, <2>1, LabelIsOne
      <4> QED
        BY <1>1, <1>2, <2>3, <4>1 DEF Label
    <3>3. e = 1
      BY <1>3, <3>2 DEF Content
    <3>4. c \in n + 1 .. Len(L) /\ L[c] \notin Blank
      BY <1>1, <2>2, <2>3 DEF Blank
    <3>5. Unlabelled(x) = x
      BY <1>2, <1>3, <3>3, UpToAll
    <3> QED
      BY <3>1, <3>4, <3>5
  <2>4. CASE ~(n < c)
    <3>1. Label(x, c)
      <4>1. 1 \in 1 .. n /\ c \in 1 .. n /\ c \in 2 .. n /\ \A i \in 2 .. c - 1 : i \in 1 .. n
        BY <1>1, <2>2, <2>4
      <4> QED
        BY <1>2, <2>2, <4>1 DEF Label
    <3>2. /\ e \in c + 1 .. n + 1
          /\ \A i \in c + 1 .. e - 1 : x[i] \in Blank
          /\ e <= n => x[e] \notin Blank
      <4>1. PICK d : /\ Label(x, d) /\ e \in d + 1 .. Len(x) + 1
                     /\ \A i \in d + 1 .. e - 1 : x[i] \in Blank
                     /\ e <= Len(x) => x[e] \notin Blank
        BY <1>3, <3>1 DEF Content
      <4>2. d = c
        BY <1>4, <2>1, <4>1, LabelIsOne
      <4> QED
        BY <1>2, <4>1, <4>2
    <3>3. CASE b <= n
      <4>1. b \in 1 .. n /\ e \in 1 .. n + 1 /\ c \in 2 .. n
        BY <1>1, <2>1, <2>2, <2>4, <3>2, <3>3
      <4>2. x[b] \notin Blank
        BY <1>1, <1>2, <2>1, <3>3, <4>1
      <4>3. ~(b < e)
        BY <1>1, <2>1, <3>2, <4>1, <4>2
      <4>4. ~(e < b)
        <5> SUFFICES ASSUME e < b PROVE FALSE
          OBVIOUS
        <5>1. e \in 1 .. n /\ e \in c + 1 .. b - 1 /\ e <= n
          BY <1>1, <3>2, <4>1
        <5> QED
          BY <1>2, <2>1, <3>2, <5>1
      <4>5. e = b /\ b \in 1 .. n + 1
        BY <1>1, <4>1, <4>3, <4>4
      <4>6. From(x, b) = UpTo(V, n - b + 1) /\ n - b + 1 \in 0 .. Len(V)
        BY <4>5, FromUpTo
      <4>7. n >= b
        BY <1>1, <3>3
      <4> QED
        BY <1>3, <4>5, <4>6, <4>7
    <3>4. CASE ~(b <= n)
      <4>1. ~(e <= n)
        <5> SUFFICES ASSUME e <= n PROVE FALSE
          OBVIOUS
        <5>1. e \in 1 .. n /\ e \in c + 1 .. b - 1
          BY <1>1, <2>1, <2>2, <3>2, <3>4
        <5> QED
          BY <1>2, <2>1, <3>2, <5>1
      <4>2. e = n + 1
        BY <1>1, <2>2, <3>2, <4>1
      <4>3. Unlabelled(x) = <<>>
        BY <1>2, <1>3, <4>2, UpToNone
      <4>4. ~(n >= b)
        BY <1>1, <3>4
      <4> QED
        BY <1>5, <4>3, <4>4
    <3> QED
      BY <3>3, <3>4
  <2> QED
    BY <2>3, <2>4
<1> QED
  BY <1>6, <1>7 DEF Content

\* The content has no blanks in front.
LEMMA ContentFacts ==
    ASSUME NEW L \in Texts, L # <<>> => L[1] \notin Blank, NEW b \in 1 .. Len(L) + 1,
           Content(L, b), NEW V, V = From(L, b)
    PROVE  V \in Texts /\ (V # <<>> => V[1] \notin Blank)
<1>1. Len(L) \in Nat
  BY TextFacts
<1>2. /\ V \in Texts /\ Len(V) = Len(L) - b + 1
      /\ \A i \in 1 .. Len(L) - b + 1 : V[i] = L[b + i - 1]
  BY FromFacts DEF Texts
<1>3. ASSUME V # <<>>
      PROVE  V[1] \notin Blank
  <2>1. Len(V) # 0
    BY <1>2, <1>3, EmptySeq DEF Texts
  <2>2. b \in 1 .. Len(L) /\ 1 \in 1 .. Len(L) - b + 1 /\ b + 1 - 1 = b
    BY <1>1, <1>2, <2>1
  <2>3. V[1] = L[b]
    BY <1>2, <2>2
  <2>4. L # <<>>
    BY <2>2
  <2>5. b = 1 \/ L[b] \notin Blank
    BY <2>2 DEF Content
  <2> QED
    BY <2>3, <2>4, <2>5
<1> QED
  BY <1>2, <1>3

\* V is what t says once a label is gone.
HasContent(t, L, b, V) ==
    L = LStrip(t) /\ b \in 1 .. Len(L) + 1 /\ Content(L, b) /\ V = From(L, b)

LEMMA ContentExists ==
    ASSUME NEW t \in Texts
    PROVE  \E L, b, V : HasContent(t, L, b, V)
<1>1. PICK L : L = LStrip(t)
  OBVIOUS
<1>2. L \in Texts
  BY <1>1, LStripOfPrefix
<1>3. PICK b \in 1 .. Len(L) + 1 : Content(L, b)
  BY <1>2, UnlabelledIs
<1>4. HasContent(t, L, b, From(L, b))
  BY <1>1, <1>3 DEF HasContent
<1> QED
  BY <1>4

LEMMA ContentIs ==
    ASSUME NEW t \in Texts, NEW L, NEW b, NEW V, HasContent(t, L, b, V)
    PROVE  V \in Texts /\ (V # <<>> => V[1] \notin Blank)
<1>1. L \in Texts /\ (L # <<>> => L[1] \notin Blank)
  BY LStripOfPrefix DEF HasContent
<1> QED
  BY <1>1, ContentFacts DEF HasContent

\* What has come so far of a text is, without a label, the beginning of what it says.
LEMMA ContentSoFar ==
    ASSUME NEW t \in Texts, NEW L, NEW b, NEW V, HasContent(t, L, b, V),
           NEW k \in 0 .. Len(t), NEW x, x = LStrip(UpTo(t, k))
    PROVE  /\ x \in Texts /\ (x # <<>> => x[1] \notin Blank)
           /\ \/ \E g \in 0 .. Len(V) : Unlabelled(x) = UpTo(V, g)
              \/ NameOnly(x) /\ Unlabelled(x) = x
<1>0. L = LStrip(t) /\ b \in 1 .. Len(L) + 1 /\ Content(L, b) /\ V = From(L, b)
  BY DEF HasContent
<1>1. UpTo(t, k) \in Texts
  BY UpToFacts DEF Texts
<1>2. x \in Texts /\ (x # <<>> => x[1] \notin Blank)
  BY <1>1, LStripOfPrefix
<1>3. L \in Texts /\ \E n \in 0 .. Len(L) : x = UpTo(L, n)
  BY <1>0, LStripOfPrefix
<1>4. PICK n \in 0 .. Len(L) : x = UpTo(L, n)
  BY <1>3
<1>5. \/ \E g \in 0 .. Len(V) : /\ Unlabelled(x) = UpTo(V, g)
                                /\ g = IF n >= b THEN n - b + 1 ELSE 0
      \/ /\ NameOnly(x) /\ Unlabelled(x) = x
         /\ \E c \in n + 1 .. Len(L) : L[c] \notin Blank
  BY <1>0, <1>3, <1>4, ContentOfPrefix
<1> QED
  BY <1>2, <1>5

\* The content of the whole text.
LEMMA ContentOfAll ==
    ASSUME NEW t \in Texts, NEW L, NEW b, NEW V, HasContent(t, L, b, V)
    PROVE  Unlabelled(Strip(t)) = RStrip(V)
<1>0. L = LStrip(t) /\ b \in 1 .. Len(L) + 1 /\ Content(L, b) /\ V = From(L, b)
  BY DEF HasContent
<1>1. L \in Texts
  BY <1>0, LStripOfPrefix
<1>2. Len(L) \in Nat
  BY <1>1, TextFacts
<1>3. PICK e : EndsAt(L, e) /\ RStrip(L) = UpTo(L, e)
  BY <1>1, EndExists
<1>4. e \in 0 .. Len(L) /\ (e # 0 => L[e] \notin Blank) /\ \A i \in e + 1 .. Len(L) : L[i] \in Blank
  BY <1>3 DEF EndsAt
<1>5. PICK x : x = UpTo(L, e)
  OBVIOUS
<1>6. \/ \E g \in 0 .. Len(V) : /\ Unlabelled(x) = UpTo(V, g)
                                /\ g = IF e >= b THEN e - b + 1 ELSE 0
      \/ /\ NameOnly(x) /\ Unlabelled(x) = x
         /\ \E c \in e + 1 .. Len(L) : L[c] \notin Blank
  BY <1>0, <1>1, <1>4, <1>5, ContentOfPrefix
<1>7. PICK g \in 0 .. Len(V) : Unlabelled(x) = UpTo(V, g) /\ g = IF e >= b THEN e - b + 1 ELSE 0
  BY <1>4, <1>6
<1>8. /\ V \in Texts /\ Len(V) = Len(L) - b + 1
      /\ \A i \in 1 .. Len(L) - b + 1 : V[i] = L[b + i - 1]
  BY <1>0, <1>1, FromFacts DEF Texts
<1>9. g # 0 => V[g] \notin Blank
  <2> SUFFICES ASSUME g # 0
               PROVE  V[g] \notin Blank
    OBVIOUS
  <2>1. e \in 1 .. Len(L) /\ g \in 1 .. Len(L) - b + 1 /\ b + g - 1 = e
    BY <1>0, <1>2, <1>4, <1>7, <1>8
  <2> QED
    BY <1>4, <1>8, <2>1
<1>10. \A i \in g + 1 .. Len(V) : V[i] \in Blank
  <2> SUFFICES ASSUME NEW i \in g + 1 .. Len(V)
               PROVE  V[i] \in Blank
    OBVIOUS
  <2>1. i \in 1 .. Len(L) - b + 1 /\ b + i - 1 \in e + 1 .. Len(L)
    BY <1>0, <1>2, <1>4, <1>7, <1>8
  <2> QED
    BY <1>4, <1>8, <2>1
<1>11. EndsAt(V, g)
  BY <1>9, <1>10 DEF EndsAt
<1>12. RStrip(V) = UpTo(V, g)
  BY <1>8, <1>11, RStripIs
<1> QED
  BY <1>0, <1>3, <1>5, <1>7, <1>12 DEF Strip

LEMMA UpToUpTo ==
    ASSUME NEW t \in Texts, NEW m \in 0 .. Len(t), NEW n \in 0 .. m
    PROVE  UpTo(UpTo(t, m), n) = UpTo(t, n)
<1>1. Len(t) \in Nat /\ n \in 0 .. Len(t)
  BY TextFacts
<1>2. PICK x : x = UpTo(t, m)
  OBVIOUS
<1>3. x \in Texts /\ Len(x) = m /\ \A i \in 1 .. m : x[i] = t[i]
  BY <1>2, UpToFacts DEF Texts
<1>4. /\ UpTo(x, n) \in Texts /\ Len(UpTo(x, n)) = n
      /\ \A i \in 1 .. n : UpTo(x, n)[i] = x[i]
  BY <1>3, UpToFacts DEF Texts
<1>5. /\ UpTo(t, n) \in Texts /\ Len(UpTo(t, n)) = n
      /\ \A i \in 1 .. n : UpTo(t, n)[i] = t[i]
  BY <1>1, UpToFacts DEF Texts
<1>6. \A i \in 1 .. n : UpTo(x, n)[i] = UpTo(t, n)[i]
  <2> SUFFICES ASSUME NEW i \in 1 .. n
               PROVE  UpTo(x, n)[i] = UpTo(t, n)[i]
    OBVIOUS
  <2>1. i \in 1 .. m
    BY <1>1
  <2> QED
    BY <1>3, <1>4, <1>5, <2>1
<1> QED
  BY <1>2, <1>4, <1>5, <1>6, SameText DEF Texts

\* A name with blanks behind it.
LEMMA NameAlone ==
    ASSUME NEW x \in Texts, NameOnly(x)
    PROVE  RStrip(x) \in {<<>>, <<"N">>}
<1>1. Len(x) \in Nat
  BY TextFacts
<1>2. PICK e : EndsAt(x, e) /\ RStrip(x) = UpTo(x, e)
  BY EndExists
<1>3. e \in 0 .. Len(x) /\ (e # 0 => x[e] \notin Blank)
  BY <1>2 DEF EndsAt
<1>4. CASE e = 0
  BY <1>2, <1>4, UpToNone
<1>5. CASE e # 0
  <2>1. e \in 1 .. Len(x)
    BY <1>1, <1>3, <1>5
  <2>2. e = 1 /\ x[1] = "N"
    BY <1>3, <2>1 DEF NameOnly
  <2>3. UpTo(x, 1) \in Texts /\ Len(UpTo(x, 1)) = 1 /\ \A i \in 1 .. 1 : UpTo(x, 1)[i] = x[i]
    <3>1. 1 \in 0 .. Len(x)
      BY <1>1, <2>1, <2>2
    <3> QED
      BY <3>1, UpToFacts DEF Texts
  <2>4. UpTo(x, 1)[1] = "N"
    BY <2>2, <2>3
  <2>5. <<"N">> \in Texts /\ Len(<<"N">>) = 1 /\ <<"N">>[1] = "N"
    BY DEF Texts, Symbols
  <2>6. \A i \in 1 .. Len(UpTo(x, 1)) : UpTo(x, 1)[i] = <<"N">>[i]
    BY <2>3, <2>4, <2>5
  <2>7. UpTo(x, 1) = <<"N">>
    BY <2>3, <2>5, <2>6, SameText DEF Texts
  <2> QED
    BY <1>2, <2>2, <2>7
<1> QED
  BY <1>4, <1>5

-----------------------------------------------------------------------------
(* What is leaked of the prompt.                                              *)

\* The reply ends at m, where the first leak begins if there is one.
LeaksAfter(t, m) ==
    /\ m \in 0 .. Len(t)
    /\ \/ Leaks(t) = {} /\ m = Len(t)
       \/ m + 1 \in Leaks(t) /\ \A i \in Leaks(t) : m + 1 <= i

LEMMA LeakExists ==
    ASSUME NEW t \in Texts
    PROVE  \E m : LeaksAfter(t, m)
<1>1. Len(t) \in Nat
  BY TextFacts
<1>2. CASE Leaks(t) = {}
  <2>1. LeaksAfter(t, Len(t))
    BY <1>1, <1>2 DEF LeaksAfter
  <2> QED
    BY <2>1
<1>3. CASE Leaks(t) # {}
  <2>1. Leaks(t) \in SUBSET Nat
    BY <1>1 DEF Leaks
  <2>2. PICK x \in Leaks(t) : \A y \in Leaks(t) : x <= y
    BY <1>3, <2>1, Least
  <2>3. x \in 1 .. Len(t) - 1
    BY <2>2 DEF Leaks
  <2>4. x - 1 \in 0 .. Len(t) /\ x - 1 + 1 = x
    BY <1>1, <2>3
  <2>5. LeaksAfter(t, x - 1)
    BY <2>2, <2>4 DEF LeaksAfter
  <2> QED
    BY <2>5
<1> QED
  BY <1>2, <1>3

\* A text that has come up to g: where it leaks.
LEMMA LeakSoFar ==
    ASSUME NEW t \in Texts, NEW m, LeaksAfter(t, m), NEW g \in 0 .. Len(t),
           NEW x, x = UpTo(t, g), NEW w, w = IF g <= m + 1 THEN g ELSE m
    PROVE  /\ w \in 0 .. Len(t) /\ BeforeLeak(x) = UpTo(t, w)
           /\ w > m => w = m + 1 /\ g = w /\ t[w] = "M" /\ Leaks(x) = {}
           /\ g <= m + 1 <=> Leaks(x) = {}
<1>1. Len(t) \in Nat /\ m \in 0 .. Len(t)
  BY TextFacts DEF LeaksAfter
<1>2. x \in Texts /\ Len(x) = g /\ \A i \in 1 .. g : x[i] = t[i]
  BY UpToFacts DEF Texts
<1>3. \A i \in Leaks(x) : i \in Leaks(t) /\ i \in 1 .. g - 1
  <2> SUFFICES ASSUME NEW i \in Leaks(x)
               PROVE  i \in Leaks(t) /\ i \in 1 .. g - 1
    OBVIOUS
  <2>1. i \in 1 .. g - 1 /\ x[i] = "M" /\ x[i + 1] = "m"
    BY <1>2 DEF Leaks
  <2>2. i \in 1 .. g /\ i + 1 \in 1 .. g /\ i \in 1 .. Len(t) - 1
    BY <1>1, <2>1
  <2> QED
    BY <1>2, <2>1, <2>2 DEF Leaks
<1>4. CASE g <= m + 1
  <2>1. Leaks(x) = {}
    <3>1. ASSUME NEW i \in Leaks(x)
          PROVE  FALSE
      <4>1. m + 1 <= i /\ i \in 1 .. g - 1
        BY <1>3 DEF LeaksAfter
      <4> QED
        BY <1>1, <1>4, <4>1
    <3> QED
      BY <3>1
  <2>2. w = g /\ BeforeLeak(x) = UpTo(t, w)
    BY <1>4, <2>1 DEF BeforeLeak
  <2>3. w > m => w = m + 1 /\ t[w] = "M"
    <3> SUFFICES ASSUME w > m
                 PROVE  w = m + 1 /\ t[w] = "M"
      OBVIOUS
    <3>1. w = m + 1 /\ m # Len(t)
      BY <1>1, <1>4, <2>2
    <3>2. m + 1 \in Leaks(t)
      BY <3>1 DEF LeaksAfter
    <3> QED
      BY <3>1, <3>2 DEF Leaks
  <2> QED
    BY <1>4, <2>1, <2>2, <2>3
<1>5. CASE ~(g <= m + 1)
  <2>1. w = m /\ m + 1 \in 1 .. g - 1 /\ m \in 0 .. g /\ m # Len(t)
    BY <1>1, <1>5
  <2>2. m + 1 \in Leaks(t) /\ \A i \in Leaks(t) : m + 1 <= i
    BY <2>1 DEF LeaksAfter
  <2>3. m + 1 \in 1 .. g /\ m + 1 + 1 \in 1 .. g
    BY <1>1, <2>1
  <2>4. m + 1 \in Leaks(x)
    BY <1>2, <2>1, <2>2, <2>3 DEF Leaks
  <2>5. Leaks(x) \in SUBSET Nat /\ Leaks(x) # {}
    BY <1>1, <1>3, <2>4
  <2>6. PICK l : l = Min(Leaks(x))
    OBVIOUS
  <2>7. l \in Leaks(x) /\ \A y \in Leaks(x) : l <= y
    BY <2>5, <2>6, MinIs
  <2>8. l \in Nat /\ l <= m + 1 /\ m + 1 <= l
    BY <1>1, <1>3, <2>2, <2>4, <2>5, <2>7
  <2>9. l - 1 = m
    BY <1>1, <2>8
  <2>10. BeforeLeak(x) = UpTo(x, m)
    BY <2>5, <2>6, <2>9 DEF BeforeLeak
  <2>11. UpTo(x, m) = UpTo(t, m)
    BY <2>1, UpToUpTo
  <2> QED
    BY <1>1, <1>5, <2>1, <2>5, <2>10, <2>11
<1> QED
  BY <1>4, <1>5

\* What is left in the end.
LEMMA LeakOfAll ==
    ASSUME NEW V \in Texts, NEW m, LeaksAfter(V, m)
    PROVE  \E f \in 0 .. m : /\ RStrip(BeforeLeak(RStrip(V))) = UpTo(V, f)
                             /\ f # 0 => V[f] \notin Blank
                             /\ \A i \in f + 1 .. m : V[i] \in Blank
<1>1. Len(V) \in Nat /\ m \in 0 .. Len(V)
  BY TextFacts DEF LeaksAfter
<1>2. PICK e : EndsAt(V, e) /\ RStrip(V) = UpTo(V, e)
  BY EndExists
<1>3. e \in 0 .. Len(V) /\ (e # 0 => V[e] \notin Blank) /\ \A i \in e + 1 .. Len(V) : V[i] \in Blank
  BY <1>2 DEF EndsAt
<1>4. PICK x : x = UpTo(V, e)
  OBVIOUS
<1>5. PICK w : w = IF e <= m + 1 THEN e ELSE m
  OBVIOUS
<1>6. w \in 0 .. Len(V) /\ BeforeLeak(x) = UpTo(V, w)
  BY <1>3, <1>4, <1>5, LeakSoFar
<1>7. w <= m /\ \A i \in w + 1 .. m : V[i] \in Blank
  <2>1. CASE e <= m
    <3>1. w = e
      BY <1>1, <1>3, <1>5, <2>1
    <3>2. \A i \in w + 1 .. m : i \in e + 1 .. Len(V)
      BY <1>1, <3>1
    <3> QED
      BY <1>3, <2>1, <3>1, <3>2
  <2>2. CASE e = m + 1
    <3>1. m # Len(V)
      BY <1>1, <1>3, <2>2
    <3>2. m + 1 \in Leaks(V)
      BY <3>1 DEF LeaksAfter
    <3>3. m + 1 + 1 \in e + 1 .. Len(V) /\ V[m + 1 + 1] = "m"
      BY <1>1, <2>2, <3>2 DEF Leaks
    <3> QED
      BY <1>3, <3>3 DEF Blank
  <2>3. CASE e > m + 1
    BY <1>1, <1>3, <1>5, <2>3
  <2> QED
    BY <1>1, <1>3, <2>1, <2>2, <2>3
<1>8. PICK y : y = UpTo(V, w)
  OBVIOUS
<1>9. y \in Texts /\ Len(y) = w /\ \A i \in 1 .. w : y[i] = V[i]
  BY <1>6, <1>8, UpToFacts DEF Texts
<1>10. PICK f : EndsAt(y, f) /\ RStrip(y) = UpTo(y, f)
  BY <1>9, EndExists
<1>11. f \in 0 .. w /\ (f # 0 => y[f] \notin Blank) /\ \A i \in f + 1 .. w : y[i] \in Blank
  BY <1>9, <1>10 DEF EndsAt
<1>12. UpTo(y, f) = UpTo(V, f)
  BY <1>6, <1>8, <1>11, UpToUpTo
<1>13. f \in 0 .. m /\ (f # 0 => V[f] \notin Blank)
  <2>1. f # 0 => f \in 1 .. w
    BY <1>11
  <2>2. f \in 0 .. m
    BY <1>1, <1>6, <1>7, <1>11
  <2> QED
    BY <1>9, <1>11, <2>1, <2>2
<1>14. \A i \in f + 1 .. m : V[i] \in Blank
  <2> SUFFICES ASSUME NEW i \in f + 1 .. m
               PROVE  V[i] \in Blank
    OBVIOUS
  <2>1. CASE i <= w
    <3>1. i \in f + 1 .. w /\ i \in 1 .. w
      BY <1>11, <2>1
    <3> QED
      BY <1>9, <1>11, <3>1
  <2>2. CASE ~(i <= w)
    <3>1. i \in w + 1 .. m
      BY <1>6, <1>11, <2>2
    <3> QED
      BY <1>7, <3>1
  <2> QED
    BY <2>1, <2>2
<1>15. RStrip(BeforeLeak(RStrip(V))) = UpTo(V, f)
  BY <1>2, <1>4, <1>6, <1>8, <1>10, <1>12
<1> QED
  BY <1>13, <1>14, <1>15

\* What of a text that has come up to g is looked at: half a marker waits, or is
\* held back with what is said last.
LookedAt(u, hold) ==
    IF ~hold /\ Leaks(u) = {} /\ Len(u) > 0 /\ Last(u) = "M"
    THEN UpTo(u, Len(u) - 1) ELSE BeforeLeak(u)

LEMMA Looked ==
    ASSUME NEW V \in Texts, NEW m, LeaksAfter(V, m), NEW g \in 0 .. Len(V), NEW u, u = UpTo(V, g),
           NEW hold, NEW whole, whole = LookedAt(u, hold)
    PROVE  \E w \in 0 .. Len(V) : /\ whole = UpTo(V, w)
                                  /\ w <= m \/ (hold /\ w = m + 1 /\ V[w] = "M")
<1>1. Len(V) \in Nat /\ m \in 0 .. Len(V)
  BY TextFacts DEF LeaksAfter
<1>2. u \in Texts /\ Len(u) = g /\ \A i \in 1 .. g : u[i] = V[i]
  BY UpToFacts DEF Texts
<1>3. PICK w : w = IF g <= m + 1 THEN g ELSE m
  OBVIOUS
<1>4. /\ w \in 0 .. Len(V) /\ BeforeLeak(u) = UpTo(V, w)
      /\ w > m => w = m + 1 /\ g = w /\ V[w] = "M" /\ Leaks(u) = {}
      /\ g <= m + 1 <=> Leaks(u) = {}
  BY <1>3, LeakSoFar
<1>5. CASE ~hold /\ Leaks(u) = {} /\ Len(u) > 0 /\ Last(u) = "M"
  <2>1. g - 1 \in 0 .. g /\ g - 1 \in 0 .. Len(V) /\ g - 1 <= m
    BY <1>1, <1>2, <1>4, <1>5
  <2>2. whole = UpTo(u, g - 1)
    BY <1>2, <1>5 DEF LookedAt
  <2>3. UpTo(u, g - 1) = UpTo(V, g - 1)
    BY <2>1, UpToUpTo
  <2> QED
    BY <2>1, <2>2, <2>3
<1>6. CASE ~(~hold /\ Leaks(u) = {} /\ Len(u) > 0 /\ Last(u) = "M")
  <2>1. whole = UpTo(V, w)
    BY <1>4, <1>6 DEF LookedAt
  <2>2. CASE w <= m
    BY <1>4, <2>1, <2>2
  <2>3. CASE w > m
    <3>1. w = m + 1 /\ g = w /\ V[w] = "M" /\ Leaks(u) = {} /\ g \in 1 .. g
      BY <1>1, <1>4, <2>3
    <3>2. Last(u) = "M" /\ Len(u) > 0
      BY <1>2, <3>1 DEF Last
    <3> QED
      BY <1>4, <1>6, <2>1, <3>1, <3>2
  <2> QED
    BY <1>1, <1>4, <2>2, <2>3
<1> QED
  BY <1>5, <1>6

-----------------------------------------------------------------------------
(* One paragraph.                                                             *)

\* What holds at 0 and of the next number holds up to N.
LEMMA StepByStep ==
    ASSUME NEW N \in Nat, NEW T, 0 \in T, \A n \in 0 .. N - 1 : n \in T => n + 1 \in T
    PROVE  \A n \in 0 .. N : n \in T
<1> DEFINE Bad == {n \in 0 .. N : n \notin T}
<1> SUFFICES ASSUME Bad # {} PROVE FALSE
  OBVIOUS
<1>1. Bad \in SUBSET Nat
  OBVIOUS
<1>2. PICK b \in Bad : \A n \in Bad : b <= n
  <2> HIDE DEF Bad
  <2> QED
    BY <1>1, Least
<1>3. b # 0 /\ b - 1 \in 0 .. N - 1
  OBVIOUS
<1>4. b - 1 \in T
  <2>1. b - 1 \in 0 .. N /\ ~(b <= b - 1)
    BY <1>3
  <2> QED
    BY <1>2, <2>1
<1>5. (b - 1) + 1 = b
  BY <1>3
<1> QED
  BY <1>3, <1>4, <1>5

\* h tells what the first n symbols of t have become.
Joins(h, t, N) ==
    /\ h \in [0 .. N -> Texts] /\ h[0] = <<>>
    /\ \A n \in 1 .. N : h[n] = Joined(h[n - 1], t[n])

\* A blank leaves everything up to the last symbol that is none; others are appended.
LEMMA JoinedFacts ==
    ASSUME NEW x \in Texts, NEW c \in Symbols, NEW y, y = Joined(x, c), NEW e, EndsAt(x, e)
    PROVE  /\ y \in Texts /\ e <= Len(y) /\ e \in 0 .. Len(x)
           /\ \A i \in 1 .. e : y[i] = x[i]
           /\ c \in Blank => EndsAt(y, e)
           /\ c \notin Blank => /\ y = Append(x, c) /\ Len(y) = Len(x) + 1 /\ y[Len(x) + 1] = c
                                /\ \A i \in 1 .. Len(x) : y[i] = x[i]
                                /\ EndsAt(y, Len(x) + 1)
           /\ \A i \in 1 .. Len(y) : y[i] = c \/ (i \in 1 .. Len(x) /\ y[i] = x[i])
<1>1. Len(x) \in Nat /\ e \in 0 .. Len(x) /\ (e # 0 => x[e] \notin Blank)
      /\ \A i \in e + 1 .. Len(x) : x[i] \in Blank
  BY TextFacts DEF EndsAt
<1>2. /\ Append(x, c) \in Texts /\ Len(Append(x, c)) = Len(x) + 1
      /\ Append(x, c)[Len(x) + 1] = c
      /\ \A i \in 1 .. Len(x) : Append(x, c)[i] = x[i]
  BY AppendProperties DEF Texts
<1>3. CASE c = "n"
  <2>1. PICK r : r = RStrip(x)
    OBVIOUS
  <2>2. r = UpTo(x, e)
    BY <2>1, RStripIs
  <2>3. r \in Texts /\ Len(r) = e /\ \A i \in 1 .. e : r[i] = x[i]
    BY <1>1, <2>2, UpToFacts DEF Texts
  <2>4. y = Append(r, c)
    BY <1>3, <2>1 DEF Joined
  <2>5. /\ y \in Texts /\ Len(y) = e + 1 /\ y[e + 1] = "n"
        /\ \A i \in 1 .. e : y[i] = r[i]
    <3>1. /\ Append(r, c) \in Seq(Symbols) /\ Len(Append(r, c)) = Len(r) + 1
          /\ Append(r, c)[Len(r) + 1] = c
          /\ \A i \in 1 .. Len(r) : Append(r, c)[i] = r[i]
      BY <2>3, AppendProperties DEF Texts
    <3> QED
      BY <1>3, <2>3, <2>4, <3>1 DEF Texts
  <2>6. e <= Len(y) /\ \A i \in 1 .. e : y[i] = x[i]
    BY <1>1, <2>3, <2>5
  <2>7. EndsAt(y, e)
    <3>1. e # 0 => e \in 1 .. e
      BY <1>1
    <3>2. e # 0 => y[e] \notin Blank
      BY <1>1, <2>6, <3>1
    <3>3. \A i \in e + 1 .. Len(y) : i = e + 1
      BY <1>1, <2>5
    <3>4. \A i \in e + 1 .. Len(y) : y[i] \in Blank
      BY <2>5, <3>3 DEF Blank
    <3>5. e \in 0 .. Len(y)
      BY <1>1, <2>5
    <3> QED
      BY <3>2, <3>4, <3>5 DEF EndsAt
  <2>8. \A i \in 1 .. Len(y) : y[i] = c \/ (i \in 1 .. Len(x) /\ y[i] = x[i])
    <3> SUFFICES ASSUME NEW i \in 1 .. Len(y)
                 PROVE  y[i] = c \/ (i \in 1 .. Len(x) /\ y[i] = x[i])
      OBVIOUS
    <3>1. i = e + 1 \/ (i \in 1 .. e /\ i \in 1 .. Len(x))
      BY <1>1, <2>5
    <3> QED
      BY <1>3, <2>5, <2>6, <3>1
  <2>9. c \in Blank
    BY <1>3 DEF Blank
  <2> QED
    BY <1>1, <2>5, <2>6, <2>7, <2>8, <2>9
<1>4. CASE c = "s" /\ x # <<>> /\ Last(x) = "n"
  <2>1. y = x /\ c \in Blank
    BY <1>4 DEF Joined, Blank
  <2> QED
    BY <1>1, <2>1
<1>5. CASE c # "n" /\ ~(c = "s" /\ x # <<>> /\ Last(x) = "n")
  <2>1. y = Append(x, c)
    BY <1>5 DEF Joined
  <2>2. /\ y \in Texts /\ Len(y) = Len(x) + 1 /\ y[Len(x) + 1] = c
        /\ \A i \in 1 .. Len(x) : y[i] = x[i]
    BY <1>2, <2>1
  <2>3. e <= Len(y) /\ \A i \in 1 .. e : y[i] = x[i]
    <3>1. \A i \in 1 .. e : i \in 1 .. Len(x)
      BY <1>1
    <3> QED
      BY <1>1, <2>2, <3>1
  <2>4. \A i \in 1 .. Len(y) : i = Len(x) + 1 \/ i \in 1 .. Len(x)
    BY <1>1, <2>2
  <2>5. \A i \in 1 .. Len(y) : y[i] = c \/ (i \in 1 .. Len(x) /\ y[i] = x[i])
    BY <2>2, <2>4
  <2>6. ASSUME c \in Blank
        PROVE  EndsAt(y, e)
    <3>1. e # 0 => e \in 1 .. e
      BY <1>1
    <3>2. e # 0 => y[e] \notin Blank
      BY <1>1, <2>3, <3>1
    <3>3. \A i \in e + 1 .. Len(y) : i = Len(x) + 1 \/ (i \in e + 1 .. Len(x) /\ i \in 1 .. Len(x))
      BY <1>1, <2>2
    <3>4. \A i \in e + 1 .. Len(y) : y[i] \in Blank
      BY <1>1, <2>2, <2>6, <3>3
    <3>5. e \in 0 .. Len(y)
      BY <1>1, <2>2
    <3> QED
      BY <3>2, <3>4, <3>5 DEF EndsAt
  <2>7. ASSUME c \notin Blank
        PROVE  EndsAt(y, Len(x) + 1)
    <3>1. Len(x) + 1 \in 0 .. Len(y) /\ Len(x) + 1 + 1 .. Len(y) = {}
      BY <1>1, <2>2
    <3> QED
      BY <2>2, <2>7, <3>1 DEF EndsAt
  <2> QED
    BY <1>1, <2>1, <2>2, <2>3, <2>5, <2>6, <2>7
<1> QED
  BY <1>3, <1>4, <1>5

LEMMA JoinsExists ==
    ASSUME NEW t \in Texts
    PROVE  \E h : Joins(h, t, Len(t))
<1>1. Len(t) \in Nat /\ \A i \in 1 .. Len(t) : t[i] \in Symbols
  BY TextFacts
<1> DEFINE T == {n \in 0 .. Len(t) : \E h : Joins(h, t, n)}
<1>2. 0 \in T
  <2>1. PICK h : h = [n \in 0 .. 0 |-> <<>>]
    OBVIOUS
  <2>2. <<>> \in Texts
    BY DEF Texts
  <2>3. h \in [0 .. 0 -> Texts] /\ h[0] = <<>> /\ 1 .. 0 = {}
    BY <2>1, <2>2
  <2>4. Joins(h, t, 0)
    BY <2>3 DEF Joins
  <2> QED
    BY <1>1, <2>4
<1>3. ASSUME NEW n \in 0 .. Len(t) - 1, n \in T
      PROVE  n + 1 \in T
  <2>1. PICK h : Joins(h, t, n)
    BY <1>3
  <2>2. n \in Nat /\ n + 1 \in 1 .. Len(t) /\ n \in 0 .. n /\ t[n + 1] \in Symbols
    BY <1>1
  <2>3. PICK y : y = Joined(h[n], t[n + 1])
    OBVIOUS
  <2>4. h[n] \in Texts
    BY <2>1, <2>2 DEF Joins
  <2>5. PICK e : EndsAt(h[n], e)
    BY <2>4, EndExists
  <2>6. y \in Texts
    BY <2>2, <2>3, <2>4, <2>5, JoinedFacts
  <2>7. PICK g : g = [k \in 0 .. n + 1 |-> IF k = n + 1 THEN y ELSE h[k]]
    OBVIOUS
  <2>8. \A k \in 0 .. n : k \in 0 .. n + 1 /\ k # n + 1
    BY <2>2
  <2>9. n + 1 \in 0 .. n + 1 /\ \A k \in 0 .. n + 1 : k = n + 1 \/ k \in 0 .. n
    BY <2>2
  <2>10. g[n + 1] = y /\ \A k \in 0 .. n : g[k] = h[k]
    BY <2>7, <2>8, <2>9
  <2>11. g \in [0 .. n + 1 -> Texts]
    BY <2>1, <2>6, <2>7, <2>9 DEF Joins
  <2>12. g[0] = <<>>
    BY <2>1, <2>2, <2>10 DEF Joins
  <2>13. \A k \in 1 .. n + 1 : g[k] = Joined(g[k - 1], t[k])
    <3> SUFFICES ASSUME NEW k \in 1 .. n + 1
                 PROVE  g[k] = Joined(g[k - 1], t[k])
      OBVIOUS
    <3>1. CASE k = n + 1
      <4>1. k - 1 = n
        BY <2>2, <3>1
      <4> QED
        BY <2>2, <2>3, <2>10, <3>1, <4>1
    <3>2. CASE k # n + 1
      <4>1. k \in 1 .. n /\ k \in 0 .. n /\ k - 1 \in 0 .. n
        BY <2>2, <3>2
      <4>2. h[k] = Joined(h[k - 1], t[k])
        BY <2>1, <4>1 DEF Joins
      <4> QED
        BY <2>10, <4>1, <4>2
    <3> QED
      BY <3>1, <3>2
  <2>14. Joins(g, t, n + 1)
    BY <2>11, <2>12, <2>13 DEF Joins
  <2>15. n + 1 \in 0 .. Len(t)
    BY <2>2
  <2> QED
    BY <2>14, <2>15
<1>4. \A n \in 0 .. Len(t) : n \in T
  <2> HIDE DEF T
  <2> QED
    BY <1>1, <1>2, <1>3, StepByStep
<1>5. Len(t) \in T
  BY <1>1, <1>4
<1> QED
  BY <1>5

\* Nothing that is no blank is moved once it stands, and blanks add none.
Stands(h, t, n, a, k, e) ==
    /\ EndsAt(h[k], e) /\ a <= e
    /\ \A i \in 1 .. a : h[k][i] = h[n][i]
    /\ (\A i \in n + 1 .. k : t[i] \in Blank) => e = a

LEMMA Stays ==
    ASSUME NEW t \in Texts, NEW h, Joins(h, t, Len(t)), NEW n \in 0 .. Len(t),
           NEW a, EndsAt(h[n], a)
    PROVE  \A k \in n .. Len(t) : \E e : Stands(h, t, n, a, k, e)
<1>1. Len(t) \in Nat /\ \A i \in 1 .. Len(t) : t[i] \in Symbols
  BY TextFacts
<1>2. \A k \in 0 .. Len(t) : h[k] \in Texts
  BY DEF Joins
<1>3. a \in Nat
  <2>1. Len(h[n]) \in Nat
    BY <1>2, TextFacts
  <2> QED
    BY <2>1 DEF EndsAt
<1> DEFINE Q(k, e) == /\ EndsAt(h[k], e) /\ a <= e
                      /\ \A i \in 1 .. a : h[k][i] = h[n][i]
                      /\ (\A i \in n + 1 .. k : t[i] \in Blank) => e = a
           M == Len(t) - n
           T == {d \in 0 .. M : \E e : Q(n + d, e)}
<1>4. 0 \in T
  <2>1. n + 0 = n /\ 0 \in 0 .. M
    BY <1>1
  <2>2. Q(n, a)
    BY <1>3
  <2> QED
    BY <2>1, <2>2
<1>5. ASSUME NEW d \in 0 .. M - 1, d \in T
      PROVE  d + 1 \in T
  <2>1. PICK k : k = n + d
    OBVIOUS
  <2>2. PICK e : Q(k, e)
    BY <1>5, <2>1
  <2>3. k \in 0 .. Len(t) /\ k + 1 \in 1 .. Len(t) /\ n + (d + 1) = k + 1 /\ d + 1 \in 0 .. M
        /\ k + 1 - 1 = k /\ k + 1 \in n + 1 .. k + 1
    BY <1>1, <2>1
  <2>4. h[k] \in Texts /\ t[k + 1] \in Symbols
    BY <1>1, <1>2, <2>3
  <2>5. PICK y : y = Joined(h[k], t[k + 1])
    OBVIOUS
  <2>6. h[k + 1] = y
    BY <2>3, <2>5 DEF Joins
  <2>7. /\ e \in 0 .. Len(h[k]) /\ (\A i \in 1 .. e : y[i] = h[k][i])
        /\ t[k + 1] \in Blank => EndsAt(y, e)
        /\ t[k + 1] \notin Blank => EndsAt(y, Len(h[k]) + 1)
    BY <2>2, <2>4, <2>5, JoinedFacts
  <2>8. Len(h[k]) \in Nat
    BY <2>4, TextFacts
  <2>9. \A i \in 1 .. a : y[i] = h[n][i]
    <3> SUFFICES ASSUME NEW i \in 1 .. a
                 PROVE  y[i] = h[n][i]
      OBVIOUS
    <3>1. i \in 1 .. e
      BY <1>3, <2>2, <2>7, <2>8
    <3> QED
      BY <2>2, <2>7, <3>1
  <2>10. CASE t[k + 1] \in Blank
    <3>1. (\A i \in n + 1 .. k + 1 : t[i] \in Blank) => \A i \in n + 1 .. k : t[i] \in Blank
      BY <2>3
    <3>2. Q(k + 1, e)
      BY <2>2, <2>6, <2>7, <2>9, <2>10, <3>1
    <3> QED
      BY <2>3, <3>2
  <2>11. CASE t[k + 1] \notin Blank
    <3>1. a <= Len(h[k]) + 1
      BY <1>3, <2>2, <2>7, <2>8
    <3>2. Q(k + 1, Len(h[k]) + 1)
      BY <2>3, <2>6, <2>7, <2>9, <2>11, <3>1
    <3> QED
      BY <2>3, <3>2
  <2> QED
    BY <2>10, <2>11
<1>6. M \in Nat
  BY <1>1
<1>7. \A d \in 0 .. M : d \in T
  <2> HIDE DEF T, M
  <2> QED
    BY <1>4, <1>5, <1>6, StepByStep
<1>8. ASSUME NEW k \in n .. Len(t)
      PROVE  \E e : Stands(h, t, n, a, k, e)
  <2>1. k - n \in 0 .. M /\ n + (k - n) = k
    BY <1>1
  <2>2. \E e : Q(k, e)
    BY <1>7, <2>1
  <2> QED
    BY <2>2 DEF Stands
<1> QED
  BY <1>8

\* No symbol comes up that was not there.
LEMMA NothingNew ==
    ASSUME NEW t \in Texts, NEW h, Joins(h, t, Len(t)), NEW n \in 0 .. Len(t),
           NEW symbol, \A i \in 1 .. n : t[i] # symbol
    PROVE  \A i \in 1 .. Len(h[n]) : h[n][i] # symbol
<1>1. Len(t) \in Nat /\ \A i \in 1 .. Len(t) : t[i] \in Symbols
  BY TextFacts
<1> DEFINE T == {k \in 0 .. n : \A i \in 1 .. Len(h[k]) : h[k][i] # symbol}
<1>2. 0 \in T
  <2>1. h[0] = <<>> /\ Len(h[0]) = 0 /\ 0 \in 0 .. n
    BY <1>1 DEF Joins
  <2> QED
    BY <2>1
<1>3. ASSUME NEW k \in 0 .. n - 1, k \in T
      PROVE  k + 1 \in T
  <2>1. k \in 0 .. Len(t) /\ k + 1 \in 1 .. Len(t) /\ k + 1 \in 1 .. n /\ k + 1 \in 0 .. n /\ k + 1 - 1 = k
    BY <1>1
  <2>2. h[k] \in Texts /\ h[k + 1] = Joined(h[k], t[k + 1])
    BY <2>1 DEF Joins
  <2>3. PICK e : EndsAt(h[k], e)
    BY <2>2, EndExists
  <2>4. t[k + 1] \in Symbols
    BY <1>1, <2>1
  <2>5. \A i \in 1 .. Len(h[k + 1]) : h[k + 1][i] = t[k + 1]
                                      \/ (i \in 1 .. Len(h[k]) /\ h[k + 1][i] = h[k][i])
    BY <2>2, <2>3, <2>4, JoinedFacts
  <2>6. \A i \in 1 .. Len(h[k]) : h[k][i] # symbol
    BY <1>3
  <2>7. \A i \in 1 .. Len(h[k + 1]) : h[k + 1][i] # symbol
    BY <2>1, <2>5, <2>6
  <2> QED
    BY <2>1, <2>7
<1>4. n \in Nat
  BY <1>1
<1>5. \A k \in 0 .. n : k \in T
  <2> HIDE DEF T
  <2> QED
    BY <1>2, <1>3, <1>4, StepByStep
<1>6. n \in T
  BY <1>4, <1>5
<1> QED
  BY <1>6

\* A break is written as a space.
Spaced(t) == [k \in DOMAIN t |-> IF t[k] = "n" THEN "s" ELSE t[k]]

LEMMA SpacedFacts ==
    ASSUME NEW t \in Texts, NEW p, p = Spaced(t)
    PROVE  /\ p \in Texts /\ Len(p) = Len(t)
           /\ \A i \in 1 .. Len(t) : /\ p[i] = IF t[i] = "n" THEN "s" ELSE t[i]
                                     /\ p[i] \in Blank <=> t[i] \in Blank
           /\ \A e : EndsAt(p, e) <=> EndsAt(t, e)
<1>1. Len(t) \in Nat /\ DOMAIN t = 1 .. Len(t) /\ \A i \in 1 .. Len(t) : t[i] \in Symbols
  BY TextFacts
<1>2. p \in [1 .. Len(t) -> Symbols]
  BY <1>1 DEF Spaced, Symbols
<1>3. p \in Texts /\ Len(p) = Len(t)
  <2>1. p \in Seq(Symbols)
    BY <1>1, <1>2, SeqDef
  <2> QED
    BY <1>1, <1>2, <2>1, LenProperties DEF Texts
<1>4. \A i \in 1 .. Len(t) : /\ p[i] = IF t[i] = "n" THEN "s" ELSE t[i]
                             /\ p[i] \in Blank <=> t[i] \in Blank
  BY <1>1 DEF Spaced, Blank
<1>5. ASSUME NEW e
      PROVE  EndsAt(p, e) <=> EndsAt(t, e)
  <2>1. e \in 0 .. Len(t) => (e # 0 => e \in 1 .. Len(t)) /\ \A i \in e + 1 .. Len(t) : i \in 1 .. Len(t)
    BY <1>1
  <2> QED
    BY <1>3, <1>4, <2>1 DEF EndsAt
<1> QED
  BY <1>3, <1>4, <1>5

LEMMA ParagraphIs ==
    ASSUME NEW t \in Texts, NEW h, Joins(h, t, Len(t)), NEW n \in 0 .. Len(t)
    PROVE  OneParagraph(UpTo(t, n)) = Spaced(h[n])
<1>1. Len(t) \in Nat
  BY TextFacts
<1>2. PICK x : x = UpTo(t, n)
  OBVIOUS
<1>3. x \in Texts /\ Len(x) = n /\ \A i \in 1 .. n : x[i] = t[i]
  BY <1>2, UpToFacts DEF Texts
<1> DEFINE F(f) == [k \in 0 .. n |-> IF k = 0 THEN <<>> ELSE Joined(f[k - 1], x[k])]
<1>4. PICK g : g = [k \in 0 .. n |-> h[k]]
  OBVIOUS
<1>5. g = F(g)
  <2>1. ASSUME NEW k \in 0 .. n
        PROVE  g[k] = IF k = 0 THEN <<>> ELSE Joined(g[k - 1], x[k])
    <3>1. CASE k = 0
      BY <1>4, <3>1 DEF Joins
    <3>2. CASE k # 0
      <4>1. k \in 1 .. n /\ k \in 1 .. Len(t) /\ k - 1 \in 0 .. n
        BY <1>1, <3>2
      <4>2. h[k] = Joined(h[k - 1], t[k])
        BY <4>1 DEF Joins
      <4>3. g[k] = h[k] /\ g[k - 1] = h[k - 1] /\ x[k] = t[k]
        BY <1>3, <1>4, <4>1
      <4> QED
        BY <3>2, <4>2, <4>3
    <3> QED
      BY <3>1, <3>2
  <2> QED
    BY <1>4, <2>1
<1>6. PICK before : before = CHOOSE f : f = F(f)
  OBVIOUS
<1>7. before = F(before)
  <2> HIDE DEF F
  <2> QED
    BY <1>5, <1>6
<1>8. OneParagraph(x) = Spaced(before[n])
  BY <1>3, <1>6 DEF OneParagraph, Spaced
<1> DEFINE T == {k \in 0 .. n : before[k] = h[k]}
<1>9. 0 \in T
  <2>1. 0 \in 0 .. n
    BY <1>1
  <2>2. before[0] = <<>>
    BY <1>7, <2>1
  <2> QED
    BY <2>1, <2>2 DEF Joins
<1>10. ASSUME NEW k \in 0 .. n - 1, k \in T
       PROVE  k + 1 \in T
  <2>1. k + 1 \in 0 .. n /\ k + 1 # 0 /\ k + 1 - 1 = k /\ k + 1 \in 1 .. n /\ k + 1 \in 1 .. Len(t)
    BY <1>1
  <2>2. before[k + 1] = Joined(before[k + 1 - 1], x[k + 1])
    BY <1>7, <2>1
  <2>3. h[k + 1] = Joined(h[k + 1 - 1], t[k + 1])
    BY <2>1 DEF Joins
  <2>4. before[k] = h[k]
    BY <1>10
  <2>5. before[k + 1] = h[k + 1]
    BY <1>3, <2>1, <2>2, <2>3, <2>4
  <2> QED
    BY <2>1, <2>5
<1>11. n \in Nat
  BY <1>1
<1>12. \A k \in 0 .. n : k \in T
  <2> HIDE DEF T
  <2> QED
    BY <1>9, <1>10, <1>11, StepByStep
<1>13. n \in T
  BY <1>11, <1>12
<1> QED
  BY <1>2, <1>8, <1>13

\* The paragraph of a beginning, and of a longer one: what is no blank stays,
\* and blanks behind it add nothing that would.
LEMMA ParagraphStays ==
    ASSUME NEW t \in Texts, NEW n \in 0 .. Len(t), NEW p, p = OneParagraph(UpTo(t, n)),
           NEW a, EndsAt(p, a), NEW k \in n .. Len(t), NEW q, q = OneParagraph(UpTo(t, k))
    PROVE  /\ p \in Texts /\ q \in Texts
           /\ \E e : /\ EndsAt(q, e) /\ a <= e
                     /\ \A i \in 1 .. a : q[i] = p[i]
                     /\ (\A i \in n + 1 .. k : t[i] \in Blank) => e = a
<1>1. Len(t) \in Nat /\ k \in 0 .. Len(t)
  BY TextFacts
<1>2. PICK h : Joins(h, t, Len(t))
  BY JoinsExists
<1>3. p = Spaced(h[n]) /\ q = Spaced(h[k])
  BY <1>1, <1>2, ParagraphIs
<1>4. h[n] \in Texts /\ h[k] \in Texts
  BY <1>1, <1>2 DEF Joins
<1>5. EndsAt(h[n], a) /\ p \in Texts
  BY <1>3, <1>4, SpacedFacts
<1>6. PICK e : /\ EndsAt(h[k], e) /\ a <= e
               /\ \A i \in 1 .. a : h[k][i] = h[n][i]
               /\ (\A i \in n + 1 .. k : t[i] \in Blank) => e = a
  <2>1. \E e : Stands(h, t, n, a, k, e)
    BY <1>2, <1>5, Stays
  <2> QED
    BY <2>1 DEF Stands
<1>7. EndsAt(q, e) /\ q \in Texts
  BY <1>3, <1>4, <1>6, SpacedFacts
<1>8. ASSUME NEW i \in 1 .. a
      PROVE  q[i] = p[i]
  <2>1. Len(h[n]) \in Nat /\ Len(h[k]) \in Nat
    BY <1>4, TextFacts
  <2>2. i \in 1 .. Len(h[n]) /\ i \in 1 .. Len(h[k])
    BY <1>5, <1>6, <2>1 DEF EndsAt
  <2>3. h[k][i] = h[n][i]
    BY <1>6
  <2>4. p[i] = IF h[n][i] = "n" THEN "s" ELSE h[n][i]
    BY <1>3, <1>4, <2>2, SpacedFacts
  <2>5. q[i] = IF h[k][i] = "n" THEN "s" ELSE h[k][i]
    BY <1>3, <1>4, <2>2, SpacedFacts
  <2> QED
    BY <2>3, <2>4, <2>5
<1> QED
  BY <1>5, <1>6, <1>7, <1>8

\* What is no blank is added to it.
LEMMA ParagraphGrows ==
    ASSUME NEW t \in Texts, NEW n \in 1 .. Len(t), t[n] \notin Blank,
           NEW p, p = OneParagraph(UpTo(t, n - 1)), NEW q, q = OneParagraph(UpTo(t, n))
    PROVE  /\ p \in Texts /\ q \in Texts /\ Len(q) = Len(p) + 1 /\ q[Len(q)] = t[n]
           /\ \A i \in 1 .. Len(p) : q[i] = p[i]
<1>1. Len(t) \in Nat /\ n \in 0 .. Len(t) /\ n - 1 \in 0 .. Len(t) /\ t[n] \in Symbols
  <2>1. Len(t) \in Nat /\ t[n] \in Symbols
    BY TextFacts
  <2> QED
    BY <2>1
<1>2. PICK h : Joins(h, t, Len(t))
  BY JoinsExists
<1>3. p = Spaced(h[n - 1]) /\ q = Spaced(h[n])
  BY <1>1, <1>2, ParagraphIs
<1>4. h[n - 1] \in Texts /\ h[n] \in Texts /\ h[n] = Joined(h[n - 1], t[n])
  BY <1>1, <1>2 DEF Joins
<1>5. PICK e : EndsAt(h[n - 1], e)
  BY <1>4, EndExists
<1>6. /\ Len(h[n]) = Len(h[n - 1]) + 1 /\ h[n][Len(h[n - 1]) + 1] = t[n]
      /\ \A i \in 1 .. Len(h[n - 1]) : h[n][i] = h[n - 1][i]
  BY <1>1, <1>4, <1>5, JoinedFacts
<1>7. Len(h[n - 1]) \in Nat
  BY <1>4, TextFacts
<1>8. /\ p \in Texts /\ Len(p) = Len(h[n - 1])
      /\ \A i \in 1 .. Len(h[n - 1]) : p[i] = IF h[n - 1][i] = "n" THEN "s" ELSE h[n - 1][i]
  BY <1>3, <1>4, SpacedFacts
<1>9. /\ q \in Texts /\ Len(q) = Len(h[n])
      /\ \A i \in 1 .. Len(h[n]) : q[i] = IF h[n][i] = "n" THEN "s" ELSE h[n][i]
  BY <1>3, <1>4, SpacedFacts
<1>10. q[Len(q)] = t[n]
  <2>1. Len(q) = Len(h[n - 1]) + 1 /\ Len(q) \in 1 .. Len(h[n])
    BY <1>6, <1>7, <1>9
  <2> QED
    BY <1>6, <1>9, <2>1 DEF Blank
<1>11. \A i \in 1 .. Len(p) : q[i] = p[i]
  <2> SUFFICES ASSUME NEW i \in 1 .. Len(p)
               PROVE  q[i] = p[i]
    OBVIOUS
  <2>1. i \in 1 .. Len(h[n - 1]) /\ i \in 1 .. Len(h[n])
    BY <1>6, <1>7, <1>8
  <2> QED
    BY <1>6, <1>8, <1>9, <2>1
<1> QED
  BY <1>6, <1>8, <1>9, <1>10, <1>11

LEMMA ParagraphEmpty ==
    ASSUME NEW t \in Texts
    PROVE  OneParagraph(UpTo(t, 0)) = <<>>
<1>1. Len(t) \in Nat /\ 0 \in 0 .. Len(t)
  BY TextFacts
<1>2. PICK h : Joins(h, t, Len(t))
  BY JoinsExists
<1>3. OneParagraph(UpTo(t, 0)) = Spaced(<<>>)
  BY <1>1, <1>2, ParagraphIs DEF Joins
<1>4. <<>> \in Texts /\ Len(<<>>) = 0
  BY DEF Texts
<1>5. Spaced(<<>>) \in Texts /\ Len(Spaced(<<>>)) = 0
  BY <1>4, SpacedFacts
<1> QED
  BY <1>3, <1>5, EmptySeq DEF Texts

LEMMA ParagraphHasNot ==
    ASSUME NEW t \in Texts, NEW symbol, symbol # "s", \A i \in 1 .. Len(t) : t[i] # symbol
    PROVE  \A i \in 1 .. Len(OneParagraph(t)) : OneParagraph(t)[i] # symbol
<1>1. Len(t) \in Nat /\ Len(t) \in 0 .. Len(t)
  BY TextFacts
<1>2. PICK h : Joins(h, t, Len(t))
  BY JoinsExists
<1>3. OneParagraph(t) = Spaced(h[Len(t)])
  BY <1>1, <1>2, ParagraphIs, UpToAll
<1>4. h[Len(t)] \in Texts
  BY <1>1, <1>2 DEF Joins
<1>5. \A i \in 1 .. Len(h[Len(t)]) : h[Len(t)][i] # symbol
  BY <1>1, <1>2, NothingNew
<1> QED
  BY <1>3, <1>4, <1>5, SpacedFacts

LEMMA ParagraphStart ==
    ASSUME NEW t \in Texts, t # <<>> => t[1] \notin Blank, NEW n \in 0 .. Len(t),
           NEW p, p = OneParagraph(UpTo(t, n))
    PROVE  /\ p \in Texts /\ Len(p) \in Nat /\ (p # <<>> <=> n # 0)
           /\ n # 0 => Len(p) >= 1 /\ p[1] = t[1] /\ p[1] \notin Blank
           /\ LStrip(p) = p
<1>1. Len(t) \in Nat
  BY TextFacts
<1>2. CASE n = 0
  <2>1. p = <<>>
    BY <1>2, ParagraphEmpty
  <2>a. <<>> \in Texts /\ Len(<<>>) = 0
    BY DEF Texts
  <2> QED
    BY <1>2, <2>1, <2>a, LStripped
<1>3. CASE n # 0
  <2>1. t # <<>> /\ 1 \in 1 .. Len(t) /\ n \in 1 .. Len(t) /\ 1 \in 0 .. Len(t) /\ 1 - 1 = 0
    BY <1>1, <1>3
  <2>2. PICK p0, p1 : p0 = OneParagraph(UpTo(t, 1 - 1)) /\ p1 = OneParagraph(UpTo(t, 1))
    OBVIOUS
  <2>3. p0 = <<>>
    BY <2>1, <2>2, ParagraphEmpty
  <2>4. p1 \in Texts /\ Len(p1) = Len(p0) + 1 /\ p1[Len(p1)] = t[1]
    BY <2>1, <2>2, ParagraphGrows
  <2>5. Len(p1) = 1 /\ p1[1] = t[1] /\ t[1] \notin Blank
    BY <2>1, <2>3, <2>4
  <2>6. EndsAt(p1, 1)
    BY <2>5 DEF EndsAt
  <2>7. /\ p \in Texts
        /\ \E e : EndsAt(p, e) /\ 1 <= e /\ \A i \in 1 .. 1 : p[i] = p1[i]
    BY <2>1, <2>2, <2>6, ParagraphStays
  <2>8. Len(p) \in Nat
    BY <2>7, TextFacts
  <2>9. Len(p) >= 1 /\ p[1] = t[1]
    BY <2>5, <2>7, <2>8 DEF EndsAt
  <2>10. p # <<>>
    BY <2>9
  <2> QED
    BY <1>3, <2>5, <2>7, <2>8, <2>9, <2>10, LStripped
<1> QED
  BY <1>2, <1>3

-----------------------------------------------------------------------------
(* How a reply ends.                                                          *)

\* What does not end in a blank ends as before when it is stripped.
LEMMA StripKeepsEnd ==
    ASSUME NEW y \in Texts, y # <<>>, y[Len(y)] \notin Blank, NEW s, s = Strip(y)
    PROVE  s \in Texts /\ Len(s) >= 1 /\ s[Len(s)] = y[Len(y)]
<1>1. Len(y) \in Nat /\ Len(y) # 0
  BY TextFacts, EmptySeq DEF Texts
<1>2. PICK b : StartsAt(y, b)
  BY StartExists
<1>3. b \in 1 .. Len(y)
  <2>1. b \in 1 .. Len(y) + 1 /\ \A i \in 1 .. b - 1 : y[i] \in Blank
    BY <1>2 DEF StartsAt
  <2>2. b # Len(y) + 1
    <3>1. b = Len(y) + 1 => Len(y) \in 1 .. b - 1
      BY <1>1
    <3> QED
      BY <2>1, <3>1
  <2> QED
    BY <1>1, <2>1, <2>2
<1>4. PICK l : l = LStrip(y)
  OBVIOUS
<1>5. l = From(y, b)
  BY <1>2, <1>4, LStripIs
<1>6. b \in 1 .. Len(y) + 1
  BY <1>1, <1>3
<1>7. /\ l \in Texts /\ Len(l) = Len(y) - b + 1
      /\ \A i \in 1 .. Len(y) - b + 1 : l[i] = y[b + i - 1]
  BY <1>5, <1>6, FromFacts DEF Texts
<1>8. Len(l) \in 1 .. Len(y) - b + 1 /\ b + Len(l) - 1 = Len(y) /\ Len(l) >= 1
  BY <1>1, <1>3, <1>7
<1>9. l[Len(l)] = y[Len(y)]
  BY <1>7, <1>8
<1>10. EndsAt(l, Len(l))
  <2>1. Len(l) \in 0 .. Len(l) /\ Len(l) + 1 .. Len(l) = {}
    BY <1>8
  <2> QED
    BY <1>9, <2>1 DEF EndsAt
<1>11. RStrip(l) = l
  BY <1>7, <1>10, RStripIs, UpToAll
<1> QED
  BY <1>4, <1>7, <1>8, <1>9, <1>11 DEF Strip

LEMMA StripTyped ==
    ASSUME NEW t \in Texts
    PROVE  Strip(t) \in Texts /\ RStrip(t) \in Texts /\ LStrip(t) \in Texts
<1>1. ASSUME NEW x \in Texts
      PROVE  RStrip(x) \in Texts
  <2>1. PICK e : EndsAt(x, e) /\ RStrip(x) = UpTo(x, e)
    BY EndExists
  <2>2. e \in 0 .. Len(x)
    BY <2>1 DEF EndsAt
  <2> QED
    BY <2>1, <2>2, UpToFacts DEF Texts
<1>2. LStrip(t) \in Texts
  BY LStripOfPrefix
<1> QED
  BY <1>1, <1>2 DEF Strip

LEMMA UnquotedTyped ==
    ASSUME NEW t \in Texts
    PROVE  Unquoted(t) \in Texts
<1>1. CASE Len(t) > 1 /\ Head(t) = "q" /\ Last(t) = "q"
  <2>1. Len(t) \in Nat
    BY TextFacts
  <2>2. \A i \in 2 .. Len(t) - 1 : t[i] \in Symbols
    <3>1. \A i \in 2 .. Len(t) - 1 : i \in 1 .. Len(t)
      BY <2>1
    <3> QED
      BY <3>1, TextFacts
  <2>3. 2 \in Int /\ Len(t) - 1 \in Int
    BY <2>1
  <2>4. SubSeq(t, 2, Len(t) - 1) \in Texts
    BY <2>2, <2>3, SubSeqProperties DEF Texts
  <2> QED
    BY <1>1, <2>4, StripTyped DEF Unquoted
<1>2. CASE ~(Len(t) > 1 /\ Head(t) = "q" /\ Last(t) = "q")
  BY <1>2 DEF Unquoted
<1> QED
  BY <1>1, <1>2

\* A tail is left out after a question.
LEMMA WithoutTailIs ==
    ASSUME NEW t \in Texts, NEW s, s = WithoutTail(t)
    PROVE  /\ s \in Texts
           /\ \/ s = t
              \/ \E end \in 1 .. Len(t) : /\ s = UpTo(t, end) /\ t[end] = "?"
                                          /\ \A i \in 1 .. Len(t) : t[i] = "?" => i <= end
<1>1. Len(t) \in Nat
  BY TextFacts
<1>2. PICK end : end = LastOf(t, {"?"})
  OBVIOUS
<1>3. /\ end \in 0 .. Len(t) /\ (end # 0 => t[end] \in {"?"})
      /\ \A i \in 1 .. Len(t) : t[i] \in {"?"} => i <= end
  BY <1>2, LastOfFacts DEF Texts
<1>4. s = t \/ (end > 0 /\ s = UpTo(t, end))
  BY <1>2 DEF WithoutTail
<1>5. UpTo(t, end) \in Texts
  BY <1>3, UpToFacts DEF Texts
<1>6. end > 0 => end \in 1 .. Len(t) /\ t[end] = "?"
  BY <1>1, <1>3
<1> QED
  BY <1>3, <1>4, <1>5, <1>6

\* The symbols of a reply that is stored.
Words == Symbols \cup {"fallback", "closing"}

LEMMA TextsAreWords ==
    /\ \A t \in Texts : t \in Seq(Words)
    /\ FALLBACK \in Seq(Words) /\ CLOSING_MESSAGE \in Seq(Words) /\ <<"s">> \in Seq(Words)
<1>1. ASSUME NEW t \in Texts
      PROVE  t \in Seq(Words)
  <2>1. Len(t) \in Nat /\ t \in [1 .. Len(t) -> Symbols]
    BY LenProperties DEF Texts
  <2>2. t \in [1 .. Len(t) -> Words]
    BY <2>1 DEF Words
  <2> QED
    BY <2>1, <2>2, SeqDef
<1> QED
  BY <1>1 DEF FALLBACK, CLOSING_MESSAGE, Words, Symbols

-----------------------------------------------------------------------------
(* What is shown and what is stored.                                          *)

\* C is what is left of content V that leaks after m: blanks at its end are gone.
Kept(V, m, f, C) ==
    /\ f \in 0 .. m /\ C = OneParagraph(UpTo(V, f))
    /\ f # 0 => V[f] \notin Blank
    /\ \A i \in f + 1 .. m : V[i] \in Blank

LEMMA KeptFacts ==
    ASSUME NEW V \in Texts, V # <<>> => V[1] \notin Blank, NEW m \in 0 .. Len(V),
           NEW f, NEW C, Kept(V, m, f, C)
    PROVE  /\ C \in Texts /\ Len(C) \in Nat /\ Strip(C) = C /\ EndsAt(C, Len(C))
           /\ C # <<>> => C[1] = V[1] /\ C[1] \notin Blank /\ C[Len(C)] \notin Blank
<1>1. Len(V) \in Nat /\ f \in 0 .. Len(V) /\ C = OneParagraph(UpTo(V, f))
  <2>1. Len(V) \in Nat
    BY TextFacts
  <2> QED
    BY <2>1 DEF Kept
<1>2. /\ C \in Texts /\ Len(C) \in Nat /\ (C # <<>> <=> f # 0)
      /\ f # 0 => Len(C) >= 1 /\ C[1] = V[1] /\ C[1] \notin Blank
  BY <1>1, ParagraphStart
<1>3. C # <<>> => C[Len(C)] \notin Blank
  <2> SUFFICES ASSUME C # <<>>
               PROVE  C[Len(C)] \notin Blank
    OBVIOUS
  <2>1. f \in 1 .. Len(V) /\ V[f] \notin Blank
    BY <1>1, <1>2 DEF Kept
  <2>2. C[Len(C)] = V[f]
    BY <1>1, <2>1, ParagraphGrows
  <2> QED
    BY <2>1, <2>2
<1>4. Strip(C) = C
  BY <1>2, <1>3, Stripped
<1>5. EndsAt(C, Len(C))
  <2>1. Len(C) # 0 => C # <<>>
    BY <1>2
  <2>2. Len(C) \in 0 .. Len(C) /\ Len(C) + 1 .. Len(C) = {}
    BY <1>2
  <2> QED
    BY <1>3, <2>1, <2>2 DEF EndsAt
<1> QED
  BY <1>2, <1>3, <1>4, <1>5

\* What is shown of a beginning that does not leak is in it.
LEMMA ReachBefore ==
    ASSUME NEW V \in Texts, V # <<>> => V[1] \notin Blank, NEW m \in 0 .. Len(V),
           NEW f, NEW C, Kept(V, m, f, C),
           NEW w \in 0 .. m, NEW p, p = OneParagraph(UpTo(V, w)),
           NEW d \in 1 .. Len(p), p[d] \notin Blank
    PROVE  d \in 1 .. Len(C) /\ \A i \in 1 .. d : C[i] = p[i]
<1>1. Len(V) \in Nat /\ m \in Nat /\ f \in 0 .. m /\ f \in 0 .. Len(V) /\ w \in 0 .. Len(V)
      /\ C = OneParagraph(UpTo(V, f))
  <2>1. Len(V) \in Nat
    BY TextFacts
  <2> QED
    BY <2>1 DEF Kept
<1>2. p \in Texts /\ Len(p) \in Nat
  BY <1>1, ParagraphStart
<1>3. C \in Texts /\ Len(C) \in Nat /\ EndsAt(C, Len(C))
  BY KeptFacts
<1>4. CASE w <= f
  <2>1. PICK a : EndsAt(p, a)
    BY <1>2, EndExists
  <2>2. f \in w .. Len(V)
    BY <1>1, <1>4
  <2>3. \E e : EndsAt(C, e) /\ a <= e /\ \A i \in 1 .. a : C[i] = p[i]
    BY <1>1, <2>1, <2>2, ParagraphStays
  <2>4. PICK e : EndsAt(C, e) /\ a <= e /\ \A i \in 1 .. a : C[i] = p[i]
    BY <2>3
  <2>5. a \in 0 .. Len(p) /\ \A i \in a + 1 .. Len(p) : p[i] \in Blank
    BY <2>1 DEF EndsAt
  <2>6. d <= a
    <3>1. ~(d <= a) => d \in a + 1 .. Len(p)
      BY <1>2, <2>5
    <3> QED
      BY <2>5, <3>1
  <2>7. e \in 0 .. Len(C)
    BY <2>4 DEF EndsAt
  <2>8. d \in 1 .. Len(C) /\ \A i \in 1 .. d : i \in 1 .. a
    BY <1>2, <1>3, <2>4, <2>5, <2>6, <2>7
  <2> QED
    BY <2>4, <2>8
<1>5. CASE ~(w <= f)
  <2>1. w \in f .. Len(V)
    BY <1>1, <1>5
  <2>2. \A i \in f + 1 .. w : V[i] \in Blank
    <3>1. \A i \in f + 1 .. w : i \in f + 1 .. m
      BY <1>1
    <3> QED
      BY <3>1 DEF Kept
  <2>3. \E e : /\ EndsAt(p, e) /\ Len(C) <= e /\ \A i \in 1 .. Len(C) : p[i] = C[i]
               /\ (\A i \in f + 1 .. w : V[i] \in Blank) => e = Len(C)
    <3>1. PICK c : c = Len(C)
      OBVIOUS
    <3>2. EndsAt(C, c)
      BY <1>3, <3>1
    <3>3. \E e : /\ EndsAt(p, e) /\ c <= e
                 /\ \A i \in 1 .. c : p[i] = C[i]
                 /\ (\A i \in f + 1 .. w : V[i] \in Blank) => e = c
      BY <1>1, <2>1, <3>2, ParagraphStays
    <3> QED
      BY <3>1, <3>3
  <2>4. EndsAt(p, Len(C)) /\ \A i \in 1 .. Len(C) : p[i] = C[i]
    BY <2>2, <2>3
  <2>5. d <= Len(C)
    <3>1. ~(d <= Len(C)) => d \in Len(C) + 1 .. Len(p)
      BY <1>2, <1>3
    <3> QED
      BY <2>4, <3>1 DEF EndsAt
  <2>6. d \in 1 .. Len(C) /\ \A i \in 1 .. d : i \in 1 .. Len(C)
    BY <1>2, <1>3, <2>5
  <2> QED
    BY <2>4, <2>6
<1> QED
  BY <1>4, <1>5

\* Where half a marker was looked at too, it is not shown.
LEMMA Reach ==
    ASSUME NEW V \in Texts, V # <<>> => V[1] \notin Blank, NEW m \in 0 .. Len(V),
           NEW f, NEW C, Kept(V, m, f, C),
           NEW w \in 0 .. Len(V), w <= m \/ (w = m + 1 /\ V[w] = "M"),
           NEW p, p = OneParagraph(UpTo(V, w)),
           NEW d \in 1 .. Len(p), p[d] \notin Blank, w <= m \/ p[d] # "M"
    PROVE  d \in 1 .. Len(C) /\ \A i \in 1 .. d : C[i] = p[i]
<1>1. Len(V) \in Nat /\ m \in Nat
  BY TextFacts
<1>2. CASE w <= m
  <2>1. w \in 0 .. m
    BY <1>1, <1>2
  <2> QED
    BY <2>1, ReachBefore
<1>3. CASE w = m + 1 /\ V[w] = "M" /\ p[d] # "M"
  <2>1. w \in 1 .. Len(V) /\ w - 1 = m /\ m \in 0 .. m /\ V[w] \notin Blank
    BY <1>1, <1>3 DEF Blank
  <2>2. PICK q : q = OneParagraph(UpTo(V, w - 1))
    OBVIOUS
  <2>3. /\ q \in Texts /\ p \in Texts /\ Len(p) = Len(q) + 1 /\ p[Len(p)] = V[w]
        /\ \A i \in 1 .. Len(q) : p[i] = q[i]
    BY <2>1, <2>2, ParagraphGrows
  <2>4. Len(q) \in Nat
    BY <2>3, TextFacts
  <2>5. d \in 1 .. Len(q)
    <3>1. d # Len(p)
      BY <1>3, <2>3
    <3> QED
      BY <2>3, <2>4, <3>1
  <2>6. q[d] \notin Blank
    BY <2>3, <2>5
  <2>7. q = OneParagraph(UpTo(V, m))
    BY <2>1, <2>2
  <2>8. d \in 1 .. Len(C) /\ \A i \in 1 .. d : C[i] = q[i]
    BY <2>1, <2>5, <2>6, <2>7, ReachBefore
  <2>9. \A i \in 1 .. d : i \in 1 .. Len(q)
    BY <2>4, <2>5
  <2> QED
    BY <2>3, <2>8, <2>9
<1> QED
  BY <1>2, <1>3

\* How much of what has been looked at is shown.
ShownOf(p, hold, d) ==
    LET question == LastOf(p, {"?"})
        spoken == IF question > 0 THEN question - 1 ELSE Len(p)
    IN  /\ d \in 1 .. Len(p) /\ p[d] \notin Blank /\ p[1] # "q"
        /\ hold => p[d] = "." /\ d <= spoken
        /\ ~hold => IF question > 0 THEN d = question ELSE TRUE

LEMMA ShownIs ==
    ASSUME NEW p \in Texts, NEW hold \in BOOLEAN, NEW shown,
           LET question == LastOf(p, {"?"})
               spoken == IF question > 0 THEN question - 1 ELSE Len(p)
           IN  shown = IF p # <<>> /\ Head(p) = "q" THEN <<>>
                       ELSE IF hold THEN UpTo(p, LastOf(UpTo(p, spoken), {"."}))
                       ELSE IF question > 0 THEN UpTo(p, question)
                       ELSE RStrip(p)
    PROVE  shown = <<>> \/ \E d : ShownOf(p, hold, d) /\ shown = UpTo(p, d)
<1>1. Len(p) \in Nat
  BY TextFacts
<1>2. PICK question : question = LastOf(p, {"?"})
  OBVIOUS
<1>3. question \in 0 .. Len(p) /\ (question # 0 => p[question] \in {"?"})
  BY <1>2, LastOfFacts DEF Texts
<1>4. PICK spoken : spoken = IF question > 0 THEN question - 1 ELSE Len(p)
  OBVIOUS
<1>5. spoken \in 0 .. Len(p)
  BY <1>1, <1>3, <1>4
<1>6. shown = IF p # <<>> /\ Head(p) = "q" THEN <<>>
              ELSE IF hold THEN UpTo(p, LastOf(UpTo(p, spoken), {"."}))
              ELSE IF question > 0 THEN UpTo(p, question)
              ELSE RStrip(p)
  BY <1>2, <1>4
<1> SUFFICES ASSUME shown # <<>>
             PROVE  \E d : ShownOf(p, hold, d) /\ shown = UpTo(p, d)
  OBVIOUS
<1>7. ~(p # <<>> /\ Head(p) = "q")
  BY <1>6
<1>8. ASSUME NEW d \in 1 .. Len(p)
      PROVE  p[1] # "q"
  <2>1. p # <<>>
    <3>1. Len(p) # 0
      BY <1>1
    <3> QED
      BY <3>1
  <2>2. Head(p) = p[1]
    BY <2>1 DEF Head
  <2> QED
    BY <1>7, <2>1, <2>2
<1>9. CASE hold
  <2>1. PICK y, d : y = UpTo(p, spoken) /\ d = LastOf(y, {"."})
    OBVIOUS
  <2>2. y \in Texts /\ Len(y) = spoken /\ \A i \in 1 .. spoken : y[i] = p[i]
    BY <1>5, <2>1, UpToFacts DEF Texts
  <2>3. d \in 0 .. spoken /\ (d # 0 => y[d] \in {"."})
    BY <2>1, <2>2, LastOfFacts DEF Texts
  <2>4. shown = UpTo(p, d)
    BY <1>6, <1>7, <1>9, <2>1
  <2>5. d # 0
    BY <2>4, UpToNone
  <2>6. d \in 1 .. Len(p) /\ d \in 1 .. spoken /\ d <= spoken
    BY <1>1, <1>5, <2>3, <2>5
  <2>7. p[d] = "."
    BY <2>2, <2>3, <2>5, <2>6
  <2>8. ShownOf(p, hold, d)
    BY <1>2, <1>4, <1>8, <1>9, <2>6, <2>7 DEF ShownOf, Blank
  <2> QED
    BY <2>4, <2>8
<1>10. CASE ~hold /\ question > 0
  <2>1. question \in 1 .. Len(p) /\ p[question] = "?"
    BY <1>1, <1>3, <1>10
  <2>2. ShownOf(p, hold, question)
    BY <1>2, <1>8, <1>10, <2>1 DEF ShownOf, Blank
  <2> QED
    BY <1>6, <1>7, <1>10, <2>2
<1>11. CASE ~hold /\ ~(question > 0)
  <2>1. PICK d : EndsAt(p, d) /\ RStrip(p) = UpTo(p, d)
    BY EndExists
  <2>2. shown = UpTo(p, d)
    BY <1>6, <1>7, <1>11, <2>1
  <2>3. d # 0
    BY <2>2, UpToNone
  <2>4. d \in 1 .. Len(p) /\ p[d] \notin Blank
    BY <1>1, <2>1, <2>3 DEF EndsAt
  <2>5. ShownOf(p, hold, d)
    BY <1>2, <1>8, <1>11, <2>4 DEF ShownOf
  <2> QED
    BY <2>2, <2>5
<1> QED
  BY <1>9, <1>10, <1>11

\* It stands where the reply is cleaned up.
LEMMA ShownStays ==
    ASSUME NEW V \in Texts, V # <<>> => V[1] \notin Blank, NEW m \in 0 .. Len(V),
           NEW f, NEW C, Kept(V, m, f, C), NEW hold \in BOOLEAN,
           NEW w \in 0 .. Len(V), w <= m \/ (hold /\ w = m + 1 /\ V[w] = "M"),
           NEW p, p = OneParagraph(UpTo(V, w)), NEW d, ShownOf(p, hold, d),
           NEW S, S = WithoutTail(Unquoted(Strip(C)))
    PROVE  /\ S \in Texts /\ d \in 1 .. Len(S) /\ S[1] \notin Blank
           /\ \A i \in 1 .. d : S[i] = p[i]
<1>1. Len(V) \in Nat
  BY TextFacts
<1>2. p \in Texts /\ Len(p) \in Nat
  BY ParagraphStart
<1>3. C \in Texts /\ Len(C) \in Nat /\ Strip(C) = C /\ (C # <<>> => C[1] \notin Blank)
  BY KeptFacts
<1>4. d \in 1 .. Len(p) /\ p[d] \notin Blank /\ p[1] # "q" /\ (hold => p[d] = ".")
  BY DEF ShownOf
<1>5. ASSUME NEW c \in 1 .. Len(p), p[c] \notin Blank, ~hold \/ p[c] # "M"
      PROVE  c \in 1 .. Len(C) /\ \A i \in 1 .. c : C[i] = p[i]
  <2>1. w <= m \/ (w = m + 1 /\ V[w] = "M")
    OBVIOUS
  <2>2. w <= m \/ p[c] # "M"
    BY <1>5
  <2> QED
    BY <1>5, <2>1, <2>2, Reach
<1>6. d \in 1 .. Len(C) /\ \A i \in 1 .. d : C[i] = p[i]
  BY <1>4, <1>5
<1>7. C # <<>> /\ C[1] = p[1] /\ 1 \in 1 .. d /\ Head(C) = C[1]
  <2>1. 1 \in 1 .. d /\ Len(C) # 0
    BY <1>3, <1>6
  <2>2. C # <<>>
    BY <2>1
  <2> QED
    BY <1>6, <2>1, <2>2 DEF Head
<1>8. Unquoted(C) = C
  BY <1>4, <1>7 DEF Unquoted
<1>9. S = WithoutTail(C)
  BY <1>3, <1>8
<1>10. /\ S \in Texts
       /\ \/ S = C
          \/ \E end \in 1 .. Len(C) : /\ S = UpTo(C, end) /\ C[end] = "?"
                                      /\ \A i \in 1 .. Len(C) : C[i] = "?" => i <= end
  BY <1>3, <1>9, WithoutTailIs
<1>11. CASE S = C
  BY <1>3, <1>6, <1>7, <1>10, <1>11
<1>12. CASE S # C
  <2>1. PICK end \in 1 .. Len(C) : /\ S = UpTo(C, end) /\ C[end] = "?"
                                   /\ \A i \in 1 .. Len(C) : C[i] = "?" => i <= end
    BY <1>10, <1>12
  <2>2. PICK question : question = LastOf(p, {"?"})
    OBVIOUS
  <2>3. /\ question \in 0 .. Len(p) /\ (question # 0 => p[question] \in {"?"})
        /\ \A i \in 1 .. Len(p) : p[i] \in {"?"} => i <= question
    BY <1>2, <2>2, LastOfFacts DEF Texts
  <2>4. d <= end
    <3>1. CASE question > 0
      <4>1. question \in 1 .. Len(p) /\ p[question] = "?"
        BY <1>2, <2>3, <3>1
      <4>2. question \in 1 .. Len(C) /\ \A i \in 1 .. question : C[i] = p[i]
        BY <1>5, <4>1 DEF Blank
      <4>3. C[question] = "?"
        BY <4>1, <4>2
      <4>4. question <= end
        BY <2>1, <4>2, <4>3
      <4>5. d <= question
        <5>1. CASE hold
          <6>1. d <= question - 1
            BY <2>2, <3>1, <5>1 DEF ShownOf
          <6> QED
            BY <1>4, <4>1, <6>1
        <5>2. CASE ~hold
          BY <2>2, <3>1, <4>1, <5>2 DEF ShownOf
        <5> QED
          BY <5>1, <5>2
      <4> QED
        BY <1>3, <1>4, <2>1, <4>1, <4>4, <4>5
    <3>2. CASE ~(question > 0)
      <4>1. question = 0
        BY <1>2, <2>3, <3>2
      <4>2. ASSUME ~(d <= end)
            PROVE  FALSE
        <5>1. end \in 1 .. d /\ end \in 1 .. Len(p)
          BY <1>2, <1>3, <1>4, <2>1, <4>2
        <5>2. p[end] = "?"
          BY <1>6, <2>1, <5>1
        <5>3. end <= 0
          BY <2>3, <4>1, <5>1, <5>2
        <5> QED
          BY <5>1, <5>3
      <4> QED
        BY <4>2
    <3> QED
      BY <3>1, <3>2
  <2>5. end \in 0 .. Len(C)
    BY <1>3, <2>1
  <2>6. Len(S) = end /\ \A i \in 1 .. end : S[i] = C[i]
    BY <1>3, <2>1, <2>5, UpToFacts DEF Texts
  <2>7. d \in 1 .. Len(S) /\ \A i \in 1 .. d : i \in 1 .. end
    BY <1>3, <1>4, <2>1, <2>4, <2>6
  <2>8. S[1] = C[1]
    BY <1>7, <2>6, <2>7
  <2> QED
    BY <1>3, <1>6, <1>7, <1>10, <2>6, <2>7, <2>8
<1> QED
  BY <1>11, <1>12

LEMMA TwoBehind ==
    ASSUME NEW S, NEW s \in Seq(S), NEW a \in S, NEW b \in S
    PROVE  \E u \in Seq(S) : /\ u = s \o <<a>> \o <<b>> /\ Len(u) = Len(s) + 2
                             /\ \A i \in 1 .. Len(s) : u[i] = s[i]
<1>1. PICK g : g = Append(s, a)
  OBVIOUS
<1>2. /\ g \in Seq(S) /\ Len(g) = Len(s) + 1 /\ Len(s) \in Nat
      /\ \A i \in 1 .. Len(s) : g[i] = s[i]
  BY <1>1, AppendProperties, LenProperties
<1>3. PICK u : u = Append(g, b)
  OBVIOUS
<1>4. /\ u \in Seq(S) /\ Len(u) = Len(g) + 1
      /\ \A i \in 1 .. Len(g) : u[i] = g[i]
  BY <1>2, <1>3, AppendProperties
<1>5. Len(u) = Len(s) + 2 /\ \A i \in 1 .. Len(s) : i \in 1 .. Len(g)
  BY <1>2, <1>4
<1>6. g = s \o <<a>>
  BY <1>1, AppendIsConcat
<1>7. u = g \o <<b>>
  BY <1>2, <1>3, AppendIsConcat
<1>8. u = s \o <<a>> \o <<b>>
  BY <1>6, <1>7, Zenon
<1> QED
  BY <1>2, <1>4, <1>5, <1>8

\* The closing message is put behind what is kept.
LEMMA ClosedIs ==
    ASSUME NEW kept \in Seq(Words), NEW F,
           F = IF kept = <<>> THEN CLOSING_MESSAGE ELSE kept \o <<"s">> \o CLOSING_MESSAGE
    PROVE  /\ F \in Seq(Words) /\ Len(kept) \in Nat
           /\ kept = <<>> => Len(F) = 1
           /\ kept # <<>> => Len(F) = Len(kept) + 2 /\ Len(kept) >= 1
           /\ \A i \in 1 .. Len(kept) : F[i] = kept[i]
<1>1. Len(kept) \in Nat /\ (kept # <<>> => Len(kept) # 0)
  BY LenProperties, EmptySeq
<1>2. CASE kept = <<>>
  <2>1. F = CLOSING_MESSAGE /\ Len(F) = 1 /\ F \in Seq(Words) /\ Len(kept) = 0
    BY <1>2, TextsAreWords DEF CLOSING_MESSAGE
  <2> QED
    BY <1>2, <2>1
<1>3. CASE kept # <<>>
  <2>1. "s" \in Words /\ "closing" \in Words
    BY DEF Words, Symbols
  <2>2. PICK u \in Seq(Words) : /\ u = kept \o <<"s">> \o <<"closing">> /\ Len(u) = Len(kept) + 2
                                /\ \A i \in 1 .. Len(kept) : u[i] = kept[i]
    BY <2>1, TwoBehind
  <2>3. F = u
    BY <1>3, <2>2, Zenon DEF CLOSING_MESSAGE
  <2>4. Len(kept) >= 1
    BY <1>1, <1>3
  <2> QED
    BY <1>1, <1>3, <2>2, <2>3, <2>4
<1> QED
  BY <1>2, <1>3

\* What is shown of the last reply stands in it.
LEMMA ClosingKeeps ==
    ASSUME NEW S \in Texts, NEW d \in 1 .. Len(S), S[d] = ".", S[1] \notin Blank,
           NEW F, F = ClosingReply(S)
    PROVE  F \in Seq(Words) /\ d <= Len(F) /\ \A i \in 1 .. d : F[i] = S[i]
<1>1. Len(S) \in Nat /\ S # <<>>
  <2>1. Len(S) \in Nat
    BY TextFacts
  <2>2. Len(S) # 0
    BY <2>1
  <2> QED
    BY <2>1, <2>2
<1>2. PICK cut : cut = LastOf(UpTo(S, Len(S) - 1), {"."})
  OBVIOUS
<1>3. PICK kept : kept = IF S # <<>> /\ Last(S) = "?" THEN Strip(UpTo(S, cut)) ELSE S
  OBVIOUS
<1>4. F = IF kept = <<>> THEN CLOSING_MESSAGE ELSE kept \o <<"s">> \o CLOSING_MESSAGE
  BY <1>2, <1>3 DEF ClosingReply
<1>5. kept \in Texts /\ d \in 1 .. Len(kept) /\ \A i \in 1 .. d : kept[i] = S[i]
  <2>1. CASE ~(S # <<>> /\ Last(S) = "?")
    BY <1>3, <2>1
  <2>2. CASE S # <<>> /\ Last(S) = "?"
    <3>1. S[Len(S)] = "?"
      BY <2>2 DEF Last
    <3>2. d \in 1 .. Len(S) - 1 /\ Len(S) - 1 \in 0 .. Len(S)
      <4>1. d # Len(S)
        BY <3>1
      <4> QED
        BY <1>1, <4>1
    <3>3. PICK y : y = UpTo(S, Len(S) - 1)
      OBVIOUS
    <3>4. y \in Texts /\ Len(y) = Len(S) - 1 /\ \A i \in 1 .. Len(S) - 1 : y[i] = S[i]
      BY <3>2, <3>3, UpToFacts DEF Texts
    <3>5. /\ cut \in 0 .. Len(y) /\ (cut # 0 => y[cut] \in {"."})
          /\ \A i \in 1 .. Len(y) : y[i] \in {"."} => i <= cut
      BY <1>2, <3>3, <3>4, LastOfFacts DEF Texts
    <3>6. d <= cut
      BY <3>2, <3>4, <3>5
    <3>7. cut \in 1 .. Len(S) - 1 /\ cut \in 0 .. Len(S)
      BY <1>1, <3>2, <3>4, <3>5, <3>6
    <3>8. S[cut] = "."
      BY <3>4, <3>5, <3>7
    <3>9. PICK z : z = UpTo(S, cut)
      OBVIOUS
    <3>10. z \in Texts /\ Len(z) = cut /\ \A i \in 1 .. cut : z[i] = S[i]
      BY <3>7, <3>9, UpToFacts DEF Texts
    <3>11. z[1] \notin Blank /\ z[Len(z)] \notin Blank
      <4>1. 1 \in 1 .. cut /\ cut \in 1 .. cut
        BY <3>7
      <4> QED
        BY <3>8, <3>10, <4>1 DEF Blank
    <3>12. kept = z
      BY <1>3, <2>2, <3>9, <3>10, <3>11, Stripped
    <3>13. d \in 1 .. cut /\ \A i \in 1 .. d : i \in 1 .. cut
      BY <3>2, <3>6, <3>7
    <3> QED
      BY <3>10, <3>12, <3>13
  <2> QED
    BY <2>1, <2>2
<1>6. kept \in Seq(Words)
  BY <1>5, TextsAreWords
<1>7. kept # <<>>
  <2>1. Len(kept) # 0
    BY <1>1, <1>5
  <2> QED
    BY <2>1
<1>8. /\ F \in Seq(Words) /\ Len(kept) \in Nat /\ Len(F) = Len(kept) + 2
      /\ \A i \in 1 .. Len(kept) : F[i] = kept[i]
  BY <1>4, <1>6, <1>7, ClosedIs
<1>9. d <= Len(F) /\ \A i \in 1 .. d : i \in 1 .. Len(kept)
  BY <1>5, <1>8
<1> QED
  BY <1>5, <1>8, <1>9

\* The last reply asks nothing.
LEMMA ClosingAsksNothing ==
    ASSUME NEW X \in Texts \cup {FALLBACK}, NEW F, F = ClosingReply(X)
    PROVE  F \in Seq(Words) /\ (Len(F) = 1 \/ F[Len(F) - 2] # "?")
<1>1. PICK cut : cut = LastOf(UpTo(X, Len(X) - 1), {"."})
  OBVIOUS
<1>2. PICK kept : kept = IF X # <<>> /\ Last(X) = "?" THEN Strip(UpTo(X, cut)) ELSE X
  OBVIOUS
<1>3. F = IF kept = <<>> THEN CLOSING_MESSAGE ELSE kept \o <<"s">> \o CLOSING_MESSAGE
  BY <1>1, <1>2 DEF ClosingReply
<1>4. kept \in Seq(Words) /\ (kept # <<>> => kept[Len(kept)] # "?")
  <2>1. CASE X = FALLBACK
    <3>1. kept = FALLBACK
      BY <1>2, <2>1 DEF FALLBACK, Last
    <3> QED
      BY <3>1, TextsAreWords DEF FALLBACK
  <2>2. CASE X \in Texts /\ ~(X # <<>> /\ Last(X) = "?")
    BY <1>2, <2>2, TextsAreWords DEF Last
  <2>3. CASE X \in Texts /\ X # <<>> /\ Last(X) = "?"
    <3>1. Len(X) \in Nat /\ Len(X) # 0
      BY <2>3, TextFacts, EmptySeq DEF Texts
    <3>2. PICK y : y = UpTo(X, Len(X) - 1)
      OBVIOUS
    <3>3. Len(X) - 1 \in 0 .. Len(X)
      BY <3>1
    <3>4. y \in Texts /\ Len(y) = Len(X) - 1 /\ \A i \in 1 .. Len(X) - 1 : y[i] = X[i]
      BY <2>3, <3>2, <3>3, UpToFacts DEF Texts
    <3>5. cut \in 0 .. Len(y) /\ (cut # 0 => y[cut] \in {"."})
      BY <1>1, <3>2, <3>4, LastOfFacts DEF Texts
    <3>6. PICK z : z = UpTo(X, cut)
      OBVIOUS
    <3>7. cut \in 0 .. Len(X)
      BY <3>1, <3>4, <3>5
    <3>8. z \in Texts /\ Len(z) = cut /\ \A i \in 1 .. cut : z[i] = X[i]
      BY <2>3, <3>6, <3>7, UpToFacts DEF Texts
    <3>9. kept = Strip(z)
      BY <1>2, <2>3, <3>6
    <3>10. CASE cut = 0
      <4>1. z = <<>>
        BY <3>8, <3>10, EmptySeq DEF Texts
      <4>2. kept = <<>>
        BY <3>8, <3>9, <4>1, Stripped
      <4> QED
        BY <4>2
    <3>11. CASE cut # 0
      <4>1. cut \in 1 .. Len(X) - 1 /\ cut \in 1 .. cut
        BY <3>1, <3>4, <3>5, <3>11
      <4>2. z[Len(z)] = "."
        BY <3>4, <3>5, <3>8, <3>11, <4>1
      <4>3. z # <<>>
        BY <3>8, <3>11
      <4>4. kept \in Texts /\ kept[Len(kept)] = "."
        BY <3>8, <3>9, <4>2, <4>3, StripKeepsEnd DEF Blank
      <4> QED
        BY <4>4, TextsAreWords
    <3> QED
      BY <3>10, <3>11
  <2> QED
    BY <2>1, <2>2, <2>3
<1>5. /\ F \in Seq(Words) /\ Len(kept) \in Nat
      /\ kept = <<>> => Len(F) = 1
      /\ kept # <<>> => Len(F) = Len(kept) + 2 /\ Len(kept) >= 1
      /\ \A i \in 1 .. Len(kept) : F[i] = kept[i]
  BY <1>3, <1>4, ClosedIs
<1>6. ASSUME kept # <<>>
      PROVE  F[Len(F) - 2] # "?"
  <2>1. Len(F) - 2 = Len(kept) /\ Len(kept) \in 1 .. Len(kept)
    BY <1>5, <1>6
  <2> QED
    BY <1>4, <1>5, <1>6, <2>1
<1> QED
  BY <1>5, <1>6

\* What is shown of a beginning, in terms of the content it is the beginning of.
LEMMA ShownSoFar ==
    ASSUME NEW t \in Texts, NEW L, NEW b, NEW V, HasContent(t, L, b, V),
           NEW m, LeaksAfter(V, m), NEW k \in 0 .. Len(t),
           NEW hold \in BOOLEAN, NEW shown, shown = StablePrefix(UpTo(t, k), hold), shown # <<>>
    PROVE  \E w \in 0 .. Len(V) : \E d, p :
              /\ w <= m \/ (hold /\ w = m + 1 /\ V[w] = "M")
              /\ p = OneParagraph(UpTo(V, w)) /\ ShownOf(p, hold, d) /\ shown = UpTo(p, d)
<1>1. V \in Texts /\ (V # <<>> => V[1] \notin Blank)
  BY ContentIs
<1>2. PICK x : x = LStrip(UpTo(t, k))
  OBVIOUS
<1>3. PICK u : u = Unlabelled(x)
  OBVIOUS
<1>4. PICK whole : whole = LookedAt(u, hold)
  OBVIOUS
<1>5. PICK p : p = LStrip(OneParagraph(whole))
  OBVIOUS
<1>6. PICK question : question = LastOf(p, {"?"})
  OBVIOUS
<1>7. PICK spoken : spoken = IF question > 0 THEN question - 1 ELSE Len(p)
  OBVIOUS
<1>8. PICK rest : rest = IF p # <<>> /\ Head(p) = "q" THEN <<>>
                         ELSE IF hold THEN UpTo(p, LastOf(UpTo(p, spoken), {"."}))
                         ELSE IF question > 0 THEN UpTo(p, question)
                         ELSE RStrip(p)
  OBVIOUS
<1>9. shown = IF ~hold /\ RStrip(x) \in {<<>>, <<"N">>} THEN <<>> ELSE rest
  BY <1>2, <1>3, <1>4, <1>5, <1>6, <1>7, <1>8, Zenon DEF StablePrefix, LookedAt
<1>10. shown = rest /\ ~(~hold /\ RStrip(x) \in {<<>>, <<"N">>})
  BY <1>9
<1>11. /\ x \in Texts /\ (x # <<>> => x[1] \notin Blank)
       /\ \/ \E g \in 0 .. Len(V) : Unlabelled(x) = UpTo(V, g)
          \/ NameOnly(x) /\ Unlabelled(x) = x
  BY <1>2, ContentSoFar
<1>12. CASE \E g \in 0 .. Len(V) : u = UpTo(V, g)
  <2>1. PICK g \in 0 .. Len(V) : u = UpTo(V, g)
    BY <1>12
  <2>2. PICK w \in 0 .. Len(V) : whole = UpTo(V, w) /\ (w <= m \/ (hold /\ w = m + 1 /\ V[w] = "M"))
    BY <1>1, <1>4, <2>1, Looked
  <2>3. PICK pp : pp = OneParagraph(UpTo(V, w))
    OBVIOUS
  <2>4. pp \in Texts /\ LStrip(pp) = pp
    BY <1>1, <2>3, ParagraphStart
  <2>5. p = pp
    BY <1>5, <2>2, <2>3, <2>4
  <2>6. rest = <<>> \/ \E d : ShownOf(p, hold, d) /\ rest = UpTo(p, d)
    BY <1>6, <1>7, <1>8, <2>4, <2>5, ShownIs
  <2>7. PICK d : ShownOf(p, hold, d) /\ rest = UpTo(p, d)
    BY <1>10, <2>6
  <2> QED
    BY <1>10, <2>2, <2>3, <2>5, <2>7
<1>13. CASE NameOnly(x) /\ u = x
  <2>1. hold
    BY <1>10, <1>11, <1>13, NameAlone
  <2>2. Len(x) \in Nat
    BY <1>11, TextFacts
  <2>3. \A i \in 1 .. Len(x) : x[i] # "m" /\ x[i] # "."
    BY <1>13 DEF NameOnly, Blank
  <2>4. Leaks(x) = {}
    <3>1. ASSUME NEW i \in Leaks(x)
          PROVE  FALSE
      <4>1. i \in 1 .. Len(x) - 1 /\ x[i + 1] = "m"
        BY DEF Leaks
      <4>2. i + 1 \in 1 .. Len(x)
        BY <2>2, <4>1
      <4> QED
        BY <2>3, <4>1, <4>2
    <3> QED
      BY <3>1
  <2>5. whole = x
    BY <1>4, <1>13, <2>1, <2>4 DEF BeforeLeak, LookedAt
  <2>6. Len(x) \in 0 .. Len(x) /\ UpTo(x, Len(x)) = x
    BY <1>11, <2>2, UpToAll
  <2>7. PICK pp : pp = OneParagraph(x)
    OBVIOUS
  <2>8. pp \in Texts /\ LStrip(pp) = pp
    BY <1>11, <2>6, <2>7, ParagraphStart
  <2>9. p = pp
    BY <1>5, <2>5, <2>7, <2>8
  <2>10. \A i \in 1 .. Len(x) : x[i] # "."
    BY <2>3
  <2>11. \A i \in 1 .. Len(p) : p[i] # "."
    BY <1>11, <2>7, <2>9, <2>10, ParagraphHasNot
  <2>12. rest = <<>> \/ \E d : ShownOf(p, hold, d) /\ rest = UpTo(p, d)
    BY <1>6, <1>7, <1>8, <2>8, <2>9, ShownIs
  <2>13. PICK d : ShownOf(p, hold, d)
    BY <1>10, <2>12
  <2>14. d \in 1 .. Len(p) /\ p[d] = "."
    BY <2>1, <2>13 DEF ShownOf
  <2> QED
    BY <2>11, <2>14
<1> QED
  BY <1>3, <1>11, <1>12, <1>13

\* What is left of a reply once it is cleaned up.
LEMMA SanitizedIs ==
    ASSUME NEW t \in Texts, NEW L, NEW b, NEW V, HasContent(t, L, b, V), NEW m, LeaksAfter(V, m)
    PROVE  \E f, C, S : /\ Kept(V, m, f, C) /\ S = WithoutTail(Unquoted(Strip(C)))
                        /\ S \in Texts
                        /\ Sanitized(t) = IF S = <<>> THEN FALLBACK ELSE S
<1>1. V \in Texts /\ (V # <<>> => V[1] \notin Blank)
  BY ContentIs
<1>2. m \in 0 .. Len(V)
  BY DEF LeaksAfter
<1>3. PICK f \in 0 .. m : /\ RStrip(BeforeLeak(RStrip(V))) = UpTo(V, f)
                          /\ f # 0 => V[f] \notin Blank
                          /\ \A i \in f + 1 .. m : V[i] \in Blank
  BY <1>1, LeakOfAll
<1>4. PICK C : C = OneParagraph(UpTo(V, f))
  OBVIOUS
<1>5. Kept(V, m, f, C)
  BY <1>3, <1>4 DEF Kept
<1>6. C \in Texts
  BY <1>1, <1>2, <1>5, KeptFacts
<1>7. PICK S : S = WithoutTail(Unquoted(Strip(C)))
  OBVIOUS
<1>8. S \in Texts
  <2>1. Strip(C) \in Texts
    BY <1>6, StripTyped
  <2>2. Unquoted(Strip(C)) \in Texts
    BY <2>1, UnquotedTyped
  <2> QED
    BY <1>7, <2>2, WithoutTailIs
<1>9. Unlabelled(Strip(t)) = RStrip(V)
  BY ContentOfAll
<1>10. Sanitized(t) = IF S = <<>> THEN FALLBACK ELSE S
  <2>1. PICK spoken : spoken = Unlabelled(Strip(t))
    OBVIOUS
  <2>2. PICK left : left = RStrip(BeforeLeak(spoken))
    OBVIOUS
  <2>3. OneParagraph(left) = C
    BY <1>3, <1>4, <1>9, <2>1, <2>2, Zenon
  <2>4. Sanitized(t) = IF WithoutTail(Unquoted(Strip(OneParagraph(left)))) = <<>> THEN FALLBACK
                       ELSE WithoutTail(Unquoted(Strip(OneParagraph(left))))
    BY <2>1, <2>2, Zenon DEF Sanitized
  <2> QED
    BY <1>7, <2>3, <2>4, Zenon
<1> QED
  BY <1>5, <1>7, <1>8, <1>10

\* What has been shown of a reply that is being generated is how the stored one begins.
LEMMA ShownIsStored ==
    ASSUME NEW t \in Texts, NEW k \in 0 .. Len(t), NEW hold \in BOOLEAN,
           NEW shown, shown = StablePrefix(UpTo(t, k), hold), NEW final, final = FinalReply(t, hold)
    PROVE  /\ shown \in Texts /\ final \in Seq(Words) /\ IsPrefix(shown, final)
           /\ hold => Len(final) = 1 \/ final[Len(final) - 2] # "?"
<1>1. PICK L, b, V : HasContent(t, L, b, V)
  BY ContentExists
<1>2. V \in Texts /\ (V # <<>> => V[1] \notin Blank)
  BY <1>1, ContentIs
<1>3. PICK m : LeaksAfter(V, m)
  BY <1>2, LeakExists
<1>4. PICK f, C, S : /\ Kept(V, m, f, C) /\ S = WithoutTail(Unquoted(Strip(C)))
                     /\ S \in Texts
                     /\ Sanitized(t) = IF S = <<>> THEN FALLBACK ELSE S
  BY <1>1, <1>3, SanitizedIs
<1>5. PICK X : X = Sanitized(t)
  OBVIOUS
<1>6. X \in Texts \cup {FALLBACK} /\ X \in Seq(Words)
  BY <1>4, <1>5, TextsAreWords
<1>7. final = IF hold THEN ClosingReply(X) ELSE X
  BY <1>5 DEF FinalReply
<1>8. final \in Seq(Words) /\ (hold => Len(final) = 1 \/ final[Len(final) - 2] # "?")
  BY <1>6, <1>7, ClosingAsksNothing
<1>9. CASE shown = <<>>
  <2>1. shown \in Texts /\ shown \in Seq(Words) /\ Len(shown) = 0
    BY <1>9 DEF Texts
  <2>2. Len(final) \in Nat
    BY <1>8, LenProperties
  <2>3. Len(shown) <= Len(final) /\ \A i \in 1 .. Len(shown) : shown[i] = final[i]
    BY <2>1, <2>2
  <2> QED
    BY <1>8, <2>1, <2>3, PrefixIs
<1>10. CASE shown # <<>>
  <2>1. PICK w \in 0 .. Len(V) : \E d, p :
              /\ w <= m \/ (hold /\ w = m + 1 /\ V[w] = "M")
              /\ p = OneParagraph(UpTo(V, w)) /\ ShownOf(p, hold, d) /\ shown = UpTo(p, d)
    BY <1>1, <1>3, <1>10, ShownSoFar
  <2>2. PICK d, p : /\ w <= m \/ (hold /\ w = m + 1 /\ V[w] = "M")
                    /\ p = OneParagraph(UpTo(V, w)) /\ ShownOf(p, hold, d) /\ shown = UpTo(p, d)
    BY <2>1
  <2>3. m \in 0 .. Len(V)
    BY <1>3 DEF LeaksAfter
  <2>4. /\ S \in Texts /\ d \in 1 .. Len(S) /\ S[1] \notin Blank
        /\ \A i \in 1 .. d : S[i] = p[i]
    BY <1>2, <1>4, <2>2, <2>3, ShownStays
  <2>5. p \in Texts /\ Len(p) \in Nat
    BY <1>2, <2>2, ParagraphStart
  <2>6. d \in 1 .. Len(p) /\ (hold => p[d] = ".")
    BY <2>2 DEF ShownOf
  <2>7. d \in 0 .. Len(p) /\ d \in 1 .. d
    BY <2>5, <2>6
  <2>8. shown \in Texts /\ Len(shown) = d /\ \A i \in 1 .. d : shown[i] = p[i]
    BY <2>2, <2>5, <2>7, UpToFacts DEF Texts
  <2>9. S # <<>>
    <3>1. Len(S) # 0
      BY <2>4, <2>6, <2>5
    <3> QED
      BY <3>1
  <2>10. X = S
    BY <1>4, <1>5, <2>9
  <2>11. d <= Len(final) /\ \A i \in 1 .. d : final[i] = S[i]
    <3>1. CASE hold
      <4>1. S[d] = "."
        BY <2>4, <2>6, <2>7, <3>1
      <4> QED
        BY <1>7, <2>4, <2>10, <3>1, <4>1, ClosingKeeps
    <3>2. CASE ~hold
      <4>1. final = S /\ Len(S) \in Nat
        BY <1>7, <2>4, <2>10, <3>2, TextFacts
      <4> QED
        BY <2>4, <4>1
    <3> QED
      BY <3>1, <3>2
  <2>12. shown \in Seq(Words)
    BY <2>8, TextsAreWords
  <2>13. Len(shown) <= Len(final) /\ \A i \in 1 .. Len(shown) : shown[i] = final[i]
    BY <2>4, <2>8, <2>11
  <2> QED
    BY <1>8, <2>8, <2>12, <2>13, PrefixIs
<1> QED
  BY <1>9, <1>10

-----------------------------------------------------------------------------
(* The history of moves.                                                      *)

MoveLists == UNION {[1 .. n -> Moves] : n \in 0 .. MOVE_HISTORY_LIMIT}

LEMMA Nulls ==
    /\ None \notin Topics /\ None \notin Moves /\ None \notin Reasons /\ None \notin Utterance
    /\ None \notin 1 .. NScenes
BY PolicyConstants

LEMMA MoveListsAreSequences ==
    ASSUME NEW moves \in MoveLists
    PROVE  /\ moves \in Seq(Moves) /\ Len(moves) \in 0 .. MOVE_HISTORY_LIMIT
           /\ DOMAIN moves = 1 .. Len(moves) /\ \A i \in 1 .. Len(moves) : moves[i] \in Moves
<1>1. PICK n \in 0 .. MOVE_HISTORY_LIMIT : moves \in [1 .. n -> Moves]
  BY DEF MoveLists
<1>2. n \in Nat /\ moves \in Seq(Moves)
  BY <1>1, SeqDef, PolicyConstants
<1>3. Len(moves) = n
  BY <1>1, <1>2, LenProperties
<1> QED
  BY <1>1, <1>2, <1>3

\* A move that is added is the last one, and the oldest may have gone.
LEMMA MoveAdded ==
    ASSUME NEW moves \in MoveLists, NEW move \in Moves,
           NEW new, new = Recent(Append(moves, move), MOVE_HISTORY_LIMIT)
    PROVE  /\ new \in MoveLists /\ Len(new) \in Nat /\ DOMAIN new = 1 .. Len(new)
           /\ \E gone \in {0, 1} :
                 /\ Len(new) = Len(moves) + 1 - gone /\ gone <= Len(moves)
                 /\ \A i \in 1 .. Len(new) :
                       new[i] = IF i + gone <= Len(moves) THEN moves[i + gone] ELSE move
<1> DEFINE all == Append(moves, move)
           n == Len(moves)
<1>1. n \in 0 .. MOVE_HISTORY_LIMIT /\ moves \in Seq(Moves) /\ MOVE_HISTORY_LIMIT \in Nat \ {0}
  BY MoveListsAreSequences, PolicyConstants
<1>2. /\ all \in Seq(Moves) /\ Len(all) = n + 1 /\ all[n + 1] = move
      /\ \A i \in 1 .. n : all[i] = moves[i]
  BY <1>1, AppendProperties
<1>3. \A i \in 1 .. n + 1 : all[i] \in Moves
  BY <1>2, ElementOfSeq
<1> HIDE DEF all, n
<1>4. PICK gone \in {0, 1} : new = SubSeq(all, gone + 1, n + 1) /\ gone <= n
                             /\ n + 1 - gone <= MOVE_HISTORY_LIMIT
  <2>1. CASE n + 1 > MOVE_HISTORY_LIMIT
    <3>1. n + 1 - MOVE_HISTORY_LIMIT + 1 = 2 /\ new = SubSeq(all, 2, n + 1) /\ n >= 1
      BY <1>1, <1>2, <2>1 DEF Recent, all
    <3> QED
      BY <1>1, <3>1
  <2>2. CASE ~(n + 1 > MOVE_HISTORY_LIMIT)
    <3>1. new = SubSeq(all, 1, n + 1)
      BY <1>1, <1>2, <2>2 DEF Recent, all
    <3> QED
      BY <1>1, <2>2, <3>1
  <2> QED
    BY <2>1, <2>2
<1>5. /\ new \in Seq(Moves) /\ Len(new) = n + 1 - gone
      /\ \A i \in 1 .. n + 1 - gone : new[i] = all[i + gone]
  <2>1. gone + 1 \in Int /\ n + 1 \in Int /\ gone + 1 <= n + 1
        /\ \A i \in gone + 1 .. n + 1 : all[i] \in Moves
    BY <1>1, <1>3, <1>4
  <2>2. /\ new \in Seq(Moves) /\ Len(new) = (n + 1) - (gone + 1) + 1
        /\ \A i \in 1 .. (n + 1) - (gone + 1) + 1 : new[i] = all[(gone + 1) + i - 1]
    BY <1>4, <2>1, SubSeqProperties
  <2> QED
    BY <1>1, <1>4, <2>2
<1>6. /\ new \in [1 .. Len(new) -> Moves] /\ DOMAIN new = 1 .. Len(new)
      /\ Len(new) \in Nat /\ Len(new) \in 0 .. MOVE_HISTORY_LIMIT
  <2>1. new \in [1 .. Len(new) -> Moves] /\ Len(new) \in Nat
    BY <1>5, LenProperties
  <2>2. Len(new) <= MOVE_HISTORY_LIMIT
    BY <1>4, <1>5
  <2> QED
    BY <1>1, <2>1, <2>2
<1>7. new \in MoveLists
  BY <1>6 DEF MoveLists
<1>8. \A i \in 1 .. Len(new) : new[i] = IF i + gone <= n THEN moves[i + gone] ELSE move
  BY <1>1, <1>2, <1>4, <1>5
<1>9. /\ Len(new) = n + 1 - gone /\ gone <= n
      /\ \A i \in 1 .. Len(new) : new[i] = IF i + gone <= n THEN moves[i + gone] ELSE move
  BY <1>4, <1>5, <1>8
<1> QED
  BY <1>6, <1>7, <1>9 DEF n

\* The indices TopicFollowCount counts.
Follows(moves) ==
    {i \in DOMAIN moves :
        moves[i] = "follow" /\ \A j \in i .. Len(moves) : moves[j] \in {"follow", "add"}}

LEMMA FollowsFinite ==
    ASSUME NEW moves \in MoveLists
    PROVE  IsFiniteSet(Follows(moves)) /\ Cardinality(Follows(moves)) \in Nat
<1>1. Follows(moves) \subseteq 1 .. Len(moves) /\ Len(moves) \in Int
  BY MoveListsAreSequences DEF Follows
<1>2. IsFiniteSet(1 .. Len(moves))
  BY <1>1, FS_Interval
<1>3. IsFiniteSet(Follows(moves))
  BY <1>1, <1>2, FS_Subset
<1> QED
  BY <1>3, FS_CardinalityType

\* Only a follow-up counts as one, and it counts for one.
LEMMA FollowsAdded ==
    ASSUME NEW moves \in MoveLists, NEW move \in Moves,
           NEW new, new = Recent(Append(moves, move), MOVE_HISTORY_LIMIT)
    PROVE  /\ Cardinality(Follows(new)) <= Cardinality(Follows(moves)) + 1
           /\ move # "follow" => Cardinality(Follows(new)) <= Cardinality(Follows(moves))
<1>1. PICK gone \in {0, 1} :
        /\ Len(new) = Len(moves) + 1 - gone
        /\ \A i \in 1 .. Len(new) : new[i] = IF i + gone <= Len(moves) THEN moves[i + gone] ELSE move
  BY MoveAdded
<1>2. Len(moves) \in Nat /\ DOMAIN moves = 1 .. Len(moves) /\ DOMAIN new = 1 .. Len(new)
  BY MoveListsAreSequences, MoveAdded
<1>3. ASSUME NEW i \in Follows(new)
      PROVE  IF i + gone <= Len(moves) THEN i + gone \in Follows(moves)
             ELSE i + gone = Len(moves) + 1 /\ move = "follow"
  <2>1. i \in 1 .. Len(new) /\ new[i] = "follow" /\ \A j \in i .. Len(new) : new[j] \in {"follow", "add"}
    BY <1>2, <1>3 DEF Follows
  <2>2. CASE i + gone <= Len(moves)
    <3>1. moves[i + gone] = "follow" /\ i + gone \in 1 .. Len(moves)
      BY <1>1, <1>2, <2>1, <2>2
    <3>2. ASSUME NEW j \in i + gone .. Len(moves)
          PROVE  moves[j] \in {"follow", "add"}
      <4>1. j - gone \in i .. Len(new) /\ j - gone \in 1 .. Len(new) /\ (j - gone) + gone = j /\ j <= Len(moves)
        BY <1>1, <1>2, <2>1, <3>2
      <4>2. new[j - gone] = moves[j]
        BY <1>1, <4>1
      <4> QED
        BY <2>1, <4>1, <4>2
    <3> QED
      BY <1>2, <2>2, <3>1, <3>2 DEF Follows
  <2>3. CASE ~(i + gone <= Len(moves))
    BY <1>1, <1>2, <2>1, <2>3
  <2> QED
    BY <2>2, <2>3
<1>4. PICK f : f = [i \in Follows(new) |-> i + gone]
  OBVIOUS
<1>5. Follows(new) \subseteq Nat
  BY <1>1, <1>2 DEF Follows
<1>6. IsFiniteSet(Follows(moves)) /\ Cardinality(Follows(moves)) \in Nat
      /\ Cardinality(Follows(new)) \in Nat
  BY FollowsFinite, MoveAdded
<1>7. CASE move # "follow"
  <2>1. f \in Injection(Follows(new), Follows(moves))
    BY <1>3, <1>4, <1>5, <1>7 DEF Injection, IsInjective
  <2>2. Cardinality(Follows(new)) <= Cardinality(Follows(moves))
    BY <1>6, <2>1, FS_Injection
  <2> QED
    BY <1>6, <2>2
<1>8. CASE move = "follow"
  <2>1. PICK more : more = Follows(moves) \cup {Len(moves) + 1}
    OBVIOUS
  <2>2. f \in Injection(Follows(new), more)
    BY <1>3, <1>4, <1>5, <2>1 DEF Injection, IsInjective
  <2>3. IsFiniteSet(more) /\ Cardinality(more) <= Cardinality(Follows(moves)) + 1
    <3>1. PICK S, x : S = Follows(moves) /\ x = Len(moves) + 1
      OBVIOUS
    <3>2. IsFiniteSet(S) /\ Cardinality(S) \in Nat /\ more = S \cup {x}
      BY <1>6, <2>1, <3>1
    <3>3. IsFiniteSet(S \cup {x})
          /\ Cardinality(S \cup {x}) = IF x \in S THEN Cardinality(S) ELSE Cardinality(S) + 1
      BY <3>2, FS_AddElement
    <3> QED
      BY <3>1, <3>2, <3>3
  <2>4. Cardinality(Follows(new)) <= Cardinality(more) /\ Cardinality(more) \in Nat
    BY <2>2, <2>3, FS_Injection, FS_CardinalityType
  <2> QED
    BY <1>6, <1>8, <2>3, <2>4
<1> QED
  BY <1>7, <1>8

-----------------------------------------------------------------------------
(* What the policy decides.                                                   *)

LEMMA SessionFacts ==
    ASSUME NEW s \in Session
    PROVE  /\ s.moves \in MoveLists /\ s.turn_count \in 0 .. MAX_TURNS /\ s.streak \in Nat
           /\ s.best_topic \in Topics \cup {None} /\ s.best_energy \in 0 .. 100
           /\ s.known \in SUBSET Topics /\ s.recent \in Seq(SUBSET Topics)
           /\ TopicFollowCount(s) = Cardinality(Follows(s.moves)) /\ TopicFollowCount(s) \in Nat
<1>1. s.moves \in MoveLists
  BY DEF Session, MoveLists
<1>2. TopicFollowCount(s) = Cardinality(Follows(s.moves))
  BY DEF TopicFollowCount, Follows
<1> QED
  BY <1>1, <1>2, FollowsFinite DEF Session

LEMMA TurnEnergyType ==
    ASSUME NEW s \in Session, NEW u \in Utterance, NEW depth \in 0 .. 100 \cup {None}
    PROVE  TurnEnergy(s, u, depth) \in 0 .. 100
<1>1. PICK score \in 0 .. 100 : score = u.score
  BY DEF Utterance
<1>2. PICK felt : felt = IF depth = None THEN score ELSE (7 * score + 3 * depth) \div 10
  OBVIOUS
<1>3. felt \in 0 .. 100
  <2>1. CASE depth = None
    BY <1>2, <2>1
  <2>2. CASE depth # None
    <3>1. depth \in 0 .. 100 /\ felt = (7 * score + 3 * depth) \div 10
      BY <1>2, <2>2
    <3>2. PICK sum : sum = 7 * score + 3 * depth
      OBVIOUS
    <3>3. score \in 0 .. 100 /\ depth \in 0 .. 100
      BY <1>1, <3>1
    <3>4. sum \in 0 .. 1000
      BY <3>2, <3>3
    <3>5. sum \div 10 \in 0 .. 100
      BY <3>4
    <3> QED
      BY <3>1, <3>2, <3>5
  <2> QED
    BY <2>1, <2>2
<1> QED
  BY <1>1, <1>2, <1>3 DEF TurnEnergy, CHOICE_ANSWER_ENERGY

\* A choice that was the last move is one of the recent ones.
LEMMA LastIsRecent ==
    ASSUME NEW s \in Session, LastMove(s) = "choice",
           NEW recent, recent = Recent(s.moves, CHOICE_GAP)
    PROVE  \E k \in DOMAIN recent : recent[k] = "choice"
<1>1. /\ s.moves \in Seq(Moves) /\ Len(s.moves) \in Nat
      /\ \A i \in 1 .. Len(s.moves) : s.moves[i] \in Moves
  BY SessionFacts, MoveListsAreSequences
<1>2. PICK n \in Nat : n = Len(s.moves)
  BY <1>1
<1>3. n >= 1 /\ s.moves[n] = "choice"
  <2>1. s.moves # << >>
    BY Nulls DEF LastMove, Moves
  <2> QED
    BY <1>1, <1>2, <2>1, EmptySeq DEF LastMove
<1>4. PICK from : from = IF n > CHOICE_GAP THEN n - CHOICE_GAP + 1 ELSE 1
  OBVIOUS
<1>5. from \in 1 .. n /\ recent = SubSeq(s.moves, from, n)
  BY <1>2, <1>3, <1>4, PolicyConstants DEF Recent
<1>6. /\ recent \in Seq(Moves) /\ Len(recent) = n - from + 1
      /\ \A i \in 1 .. n - from + 1 : recent[i] = s.moves[from + i - 1]
  <2>1. from \in Int /\ n \in Int /\ from <= n /\ \A i \in from .. n : s.moves[i] \in Moves
    BY <1>1, <1>2, <1>5
  <2> QED
    BY <1>5, <2>1, SubSeqProperties
<1>7. n - from + 1 \in 1 .. Len(recent) /\ recent[n - from + 1] = "choice"
  <2>1. PICK i \in Int : i = n - from + 1
    BY <1>5
  <2>2. i \in 1 .. n - from + 1 /\ from + i - 1 = n
    BY <1>5, <2>1
  <2>3. recent[i] = s.moves[n]
    BY <1>6, <2>2
  <2> QED
    BY <1>3, <1>6, <2>1, <2>2, <2>3
<1> QED
  BY <1>6, <1>7, LenProperties

\* ReturnTopic: the best topic, or none; not one that was gone back to, nor one
\* that the user speaks of.
LEMMA ReturnTopicFacts ==
    ASSUME NEW s \in Session, NEW u \in Utterance, ReturnTopic(s, u) # None
    PROVE  /\ ReturnTopic(s, u) = s.best_topic /\ s.best_topic \in Topics
           /\ s.best_topic \notin s.returned /\ s.best_topic \notin u.names
BY SessionFacts DEF ReturnTopic

LEMMA PickSceneType ==
    ASSUME NEW s
    PROVE  PickScene(s) \in (1 .. NScenes) \cup {None}
<1>1. CASE Unused(s) = {}
  BY <1>1 DEF PickScene
<1>2. CASE Unused(s) # {}
  <2>1. Unused(s) \in SUBSET Nat /\ Unused(s) \subseteq 1 .. NScenes
    BY PolicyConstants DEF Unused
  <2>2. \E n \in Unused(s) : \A m \in Unused(s) : n <= m
    BY <1>2, <2>1, Least
  <2> QED
    BY <1>2, <2>1, <2>2 DEF PickScene
<1> QED
  BY <1>1, <1>2

\* What a turn that goes on may ask, whatever was said.
LEMMA ChooseMoveFacts ==
    ASSUME NEW s \in Session, NEW u \in Utterance, NEW d, d = ChooseMove(s, u)
    PROVE  /\ d \in Decision /\ d.goal = "CHAT" /\ d.move \in Moves
           /\ d.move = "choice" => LastMove(s) # "choice"
           /\ d.move = "follow" => TopicFollowCount(s) < TOPIC_FOLLOW_LIMIT_ENGAGED
           /\ d.topic # None => /\ d.topic = s.best_topic /\ d.topic \in Topics
                                /\ d.topic \notin s.returned /\ d.topic \notin u.names
<1> DEFINE energy == TurnEnergy(s, u, None)
           done == TopicDone(s, energy)
           topic == ReturnTopic(s, u)
           choices == Recent(s.moves, CHOICE_GAP)
           Right(e) == /\ e \in Decision /\ e.goal = "CHAT" /\ e.move \in Moves
                       /\ e.move = "choice" => LastMove(s) # "choice"
                       /\ e.move = "follow" => TopicFollowCount(s) < TOPIC_FOLLOW_LIMIT_ENGAGED
                       /\ e.topic # None => /\ e.topic = s.best_topic /\ e.topic \in Topics
                                            /\ e.topic \notin s.returned /\ e.topic \notin u.names
<1>1. /\ TopicFollowCount(s) \in Nat /\ TOPIC_FOLLOW_LIMIT_ENGAGED \in Nat
      /\ ~done => TopicFollowCount(s) < TOPIC_FOLLOW_LIMIT_ENGAGED
  BY SessionFacts, PolicyConstants DEF TopicDone
<1>2. Right(Chat("add"))
  BY DEF Chat, Decision, Moves
<1>3. ~done => Right(Chat("follow"))
  BY <1>1 DEF Chat, Decision, Moves
<1>4. LastMove(s) # "choice" => Right(Chat("choice"))
  BY DEF Chat, Decision, Moves
<1>5. Right(Scene(s, "shift")) /\ (LastMove(s) # "choice" => Right(Scene(s, "choice")))
  BY PickSceneType DEF Scene, Chat, Decision, Moves
<1>6. topic # None => Right([Chat("return") EXCEPT !.topic = topic])
  BY ReturnTopicFacts DEF Chat, Decision, Moves
<1>7. (~\E k \in DOMAIN choices : choices[k] = "choice") => LastMove(s) # "choice"
  BY LastIsRecent
<1> HIDE DEF Right, choices, topic, done, energy
<1>8. d = IF u.asks_back THEN IF done THEN Scene(s, "shift") ELSE Chat("follow")
          ELSE IF u.unsure /\ LastMove(s) # "choice" THEN Chat("choice")
          ELSE IF StreakAfter(s, energy) >= COMPANION_LIGHTEN_STREAK
          THEN IF topic # None /\ LastMove(s) # "return" THEN [Chat("return") EXCEPT !.topic = topic]
               ELSE IF LastMove(s) # "choice" THEN Scene(s, "choice") ELSE Chat("add")
          ELSE IF ~done THEN Chat("follow")
          ELSE IF \E k \in DOMAIN choices : choices[k] = "choice"
          THEN Scene(s, "shift") ELSE Scene(s, "choice")
  BY DEF ChooseMove, choices, topic, done, energy
<1>9. Right(d)
  BY <1>2, <1>3, <1>4, <1>5, <1>6, <1>7, <1>8
<1> QED
  BY <1>9 DEF Right

\* WrapReason, for an utterance and for what was recorded.
LEMMA WrapReasonFacts ==
    ASSUME NEW s \in Session, NEW u \in Utterance \cup {None}
    PROVE  /\ WrapReason(s, u) \in Reasons \cup {None}
           /\ s.status = "active" /\ s.pending_wrap # None => WrapReason(s, u) = s.pending_wrap
           /\ u # None /\ s.status = "active" /\ WrapReason(s, u) = None => s.turn_count + 1 < MAX_TURNS
<1>1. /\ s.completion_reason \in Reasons \cup {None} /\ s.pending_wrap \in Reasons \cup {None}
      /\ s.turn_count \in 0 .. MAX_TURNS
  BY DEF Session
<1>2. WrapReason(s, u) \in Reasons \cup {None}
  BY <1>1 DEF WrapReason, Reasons
<1>3. s.status = "active" /\ s.pending_wrap # None => WrapReason(s, u) = s.pending_wrap
  BY DEF WrapReason
<1>4. u # None /\ s.status = "active" /\ WrapReason(s, u) = None => s.turn_count + 1 < MAX_TURNS
  <2>1. u # None /\ s.status = "active" /\ s.pending_wrap = None /\ s.turn_count + 1 >= MAX_TURNS
          => WrapReason(s, u) = "MAX_CYCLES"
    BY DEF WrapReason
  <2>2. None # "MAX_CYCLES"
    BY Nulls DEF Reasons
  <2> QED
    BY <1>1, <1>3, <2>1, <2>2, PolicyConstants
<1> QED
  BY <1>2, <1>3, <1>4

\* A decision goes on with a move, or ends the conversation for a reason.
LEMMA DecideGoalFacts ==
    ASSUME NEW s \in Session, NEW u \in Utterance, NEW d, d = DecideGoal(s, u)
    PROVE  /\ d \in Decision
           /\ \/ d = Wrap(WrapReason(s, u)) /\ WrapReason(s, u) \in Reasons
              \/ d = ChooseMove(s, u) /\ WrapReason(s, u) = None /\ d.goal = "CHAT"
<1>1. CASE WrapReason(s, u) # None
  <2>1. WrapReason(s, u) \in Reasons /\ d = Wrap(WrapReason(s, u))
    BY <1>1, WrapReasonFacts DEF DecideGoal
  <2> QED
    BY <2>1 DEF Wrap, Decision
<1>2. CASE WrapReason(s, u) = None
  BY <1>2, ChooseMoveFacts DEF DecideGoal
<1> QED
  BY <1>1, <1>2

-----------------------------------------------------------------------------
(* What the record of a turn leaves.                                          *)

\* Session, with the names of what its fields hold.
Recents == Seq(SUBSET Topics)
Scenes == SUBSET (1 .. NScenes)
Ends == Reasons \cup {None}
Counts == 0 .. MAX_TURNS
Record ==
    [ status : {"active", "input_locked"}, turn_count : Counts,
      completion_reason : Ends, pending_wrap : Ends, moves : MoveLists, streak : Nat,
      best_topic : Topics \cup {None}, best_energy : 0 .. 100,
      returned : SUBSET Topics, used_scenes : Scenes,
      recent : Recents, known : SUBSET Topics, sufficient : BOOLEAN ]

LEMMA SessionIsRecord == Session = Record
BY DEF Session, Record, MoveLists, Recents, Scenes, Ends, Counts

\* A record of the turn, before and after what was said is added to it.
Recorded(r, s, d, new_interest) ==
    /\ r \in Session /\ r.status = s.status /\ r.turn_count = s.turn_count
    /\ r.known = s.known /\ r.recent = s.recent
    /\ r.best_topic = s.best_topic \/ r.best_topic = new_interest
    /\ r.moves = IF d.move = None THEN s.moves ELSE Recent(Append(s.moves, d.move), MOVE_HISTORY_LIMIT)

Added(q, u, new_interest, sufficient) ==
    [q EXCEPT !.recent = Recent(Append(@, u.names), 2),
              !.known = IF new_interest = None THEN @ ELSE @ \cup {new_interest},
              !.turn_count = @ + 1,
              !.sufficient = sufficient]

Counted(r, s, d) ==
    /\ r \in Session /\ r.status = s.status /\ r.turn_count = s.turn_count + 1 /\ BestKnown(r)
    /\ r.moves = IF d.move = None THEN s.moves ELSE Recent(Append(s.moves, d.move), MOVE_HISTORY_LIMIT)

LEMMA RecordTurnFacts ==
    ASSUME NEW s \in Session, NEW u \in Utterance, NEW d \in Decision,
           NEW depth \in 0 .. 100 \cup {None}, NEW new_interest \in Topics \cup {None},
           NEW r, r = RecordTurn(s, u, d, depth, new_interest)
    PROVE  Recorded(r, s, d, new_interest)
<1>1. PICK energy : energy = TurnEnergy(s, u, depth)
  OBVIOUS
<1>2. PICK streak : streak = StreakAfter(s, energy)
  OBVIOUS
<1>3. PICK best_topic, best_energy :
        LET better == new_interest # None /\ energy >= s.best_energy
        IN  /\ best_topic = IF better THEN new_interest ELSE s.best_topic
            /\ best_energy = IF better THEN energy ELSE s.best_energy
  OBVIOUS
<1>4. PICK moves : moves = IF d.move = None THEN s.moves
                           ELSE Recent(Append(s.moves, d.move), MOVE_HISTORY_LIMIT)
  OBVIOUS
<1>5. PICK returned, used_scenes :
        /\ returned = IF d.topic # None THEN s.returned \cup {d.topic} ELSE s.returned
        /\ used_scenes = IF d.scene # None THEN s.used_scenes \cup {d.scene} ELSE s.used_scenes
  OBVIOUS
<1>6. r = [s EXCEPT !.streak = streak, !.best_topic = best_topic, !.best_energy = best_energy,
                    !.moves = moves, !.returned = returned, !.used_scenes = used_scenes]
  BY <1>1, <1>2, <1>3, <1>4, <1>5 DEF RecordTurn
<1>7. streak \in Nat /\ best_topic \in Topics \cup {None} /\ best_energy \in 0 .. 100
  <2>1. energy \in 0 .. 100
    BY <1>1, TurnEnergyType
  <2>2. s.streak \in Nat /\ s.best_topic \in Topics \cup {None} /\ s.best_energy \in 0 .. 100
    BY SessionFacts
  <2>3. streak \in Nat
    BY <1>2, <2>2 DEF StreakAfter
  <2> QED
    BY <1>3, <2>1, <2>2, <2>3
<1>8. moves \in MoveLists
  <2>1. s.moves \in MoveLists /\ d.move \in Moves \cup {None}
    BY SessionFacts DEF Decision
  <2> QED
    BY <1>4, <2>1, MoveAdded
<1>9. returned \in SUBSET Topics /\ used_scenes \in Scenes
  BY <1>5 DEF Session, Decision, Scenes
<1>10. s \in Record
  BY SessionIsRecord
<1>11. PICK q : q = [s EXCEPT !.streak = streak, !.best_topic = best_topic, !.best_energy = best_energy]
  OBVIOUS
<1>12. /\ q \in Record /\ q.status = s.status /\ q.turn_count = s.turn_count /\ q.known = s.known
       /\ q.recent = s.recent /\ q.best_topic = best_topic
  BY <1>7, <1>10, <1>11 DEF Record
<1>13. r = [q EXCEPT !.moves = moves, !.returned = returned, !.used_scenes = used_scenes]
  BY <1>6, <1>11
<1>14. /\ r \in Record /\ r.status = q.status /\ r.turn_count = q.turn_count /\ r.known = q.known
       /\ r.recent = q.recent /\ r.best_topic = q.best_topic /\ r.moves = moves
  BY <1>8, <1>9, <1>12, <1>13 DEF Record
<1> QED
  BY <1>3, <1>4, <1>12, <1>14, SessionIsRecord DEF Recorded

LEMMA RecentType ==
    ASSUME NEW S, NEW seq \in Seq(S), NEW x \in S
    PROVE  Recent(Append(seq, x), 2) \in Seq(S)
<1>1. PICK all : all = Append(seq, x)
  OBVIOUS
<1>2. all \in Seq(S) /\ Len(all) \in Nat
  BY <1>1, AppendProperties, LenProperties
<1>3. PICK n, from : n = Len(all) /\ from = IF n > 2 THEN n - 2 + 1 ELSE 1
  OBVIOUS
<1>4. n \in Int /\ from \in Int /\ from >= 1
  BY <1>2, <1>3
<1>5. \A i \in from .. n : all[i] \in S
  BY <1>2, <1>3, <1>4, ElementOfSeq
<1>6. SubSeq(all, from, n) \in Seq(S)
  BY <1>4, <1>5, SubSeqProperties
<1> QED
  BY <1>1, <1>3, <1>6 DEF Recent

\* What is recorded of every turn, however it was decided.
LEMMA AddedFacts ==
    ASSUME NEW s \in Session, NEW u \in Utterance, NEW new_interest \in Topics \cup {None},
           NEW sufficient \in BOOLEAN, s.turn_count < MAX_TURNS, BestKnown(s), NEW d,
           NEW q, Recorded(q, s, d, new_interest),
           NEW r, r = Added(q, u, new_interest, sufficient)
    PROVE  Counted(r, s, d)
<1>1. PICK recent, known, count :
        /\ recent = Recent(Append(s.recent, u.names), 2) /\ count = s.turn_count + 1
        /\ known = IF new_interest = None THEN s.known ELSE s.known \cup {new_interest}
  OBVIOUS
<1>2. r = [q EXCEPT !.recent = recent, !.known = known, !.turn_count = count, !.sufficient = sufficient]
  <2>1. r = [q EXCEPT !.recent = Recent(Append(q.recent, u.names), 2),
                      !.known = IF new_interest = None THEN q.known ELSE q.known \cup {new_interest},
                      !.turn_count = q.turn_count + 1, !.sufficient = sufficient]
    BY DEF Added
  <2>2. q.recent = s.recent /\ q.known = s.known /\ q.turn_count = s.turn_count
    BY DEF Recorded
  <2> QED
    BY <1>1, <2>1, <2>2
<1>3. recent \in Recents /\ known \in SUBSET Topics
  <2>1. u.names \in SUBSET Topics /\ s.recent \in Seq(SUBSET Topics)
    BY SessionFacts DEF Utterance
  <2>2. PICK S, names, seq : S = SUBSET Topics /\ names = u.names /\ seq = s.recent
    OBVIOUS
  <2>3. Recent(Append(seq, names), 2) \in Seq(S)
    BY <2>1, <2>2, RecentType
  <2> QED
    BY <1>1, <2>2, <2>3, SessionFacts DEF Recents
<1>4. count \in Counts
  BY <1>1, SessionFacts, PolicyConstants DEF Counts
<1>5. q \in Record
  BY SessionIsRecord DEF Recorded
<1>6. /\ r \in Record /\ r.status = q.status /\ r.turn_count = count /\ r.known = known
      /\ r.best_topic = q.best_topic /\ r.moves = q.moves
  <2>1. PICK half : half = [q EXCEPT !.recent = recent, !.known = known]
    OBVIOUS
  <2>2. /\ half \in Record /\ half.status = q.status /\ half.known = known
        /\ half.best_topic = q.best_topic /\ half.moves = q.moves
    BY <1>3, <1>5, <2>1 DEF Record
  <2>3. r = [half EXCEPT !.turn_count = count, !.sufficient = sufficient]
    BY <1>2, <2>1
  <2> QED
    BY <1>4, <2>2, <2>3 DEF Record
<1>7. BestKnown(r)
  BY <1>1, <1>6 DEF BestKnown, Recorded
<1> QED
  BY <1>1, <1>6, <1>7, SessionIsRecord DEF Counted, Recorded

\* The moves vary on, when one is added that the policy may choose.
LEMMA VariedOn ==
    ASSUME NEW s \in Session, Varied(s), NEW move \in Moves,
           move = "choice" => LastMove(s) # "choice",
           move = "follow" => TopicFollowCount(s) < TOPIC_FOLLOW_LIMIT_ENGAGED,
           NEW r \in Session, r.moves = Recent(Append(s.moves, move), MOVE_HISTORY_LIMIT)
    PROVE  Varied(r)
<1>1. s.moves \in MoveLists /\ Len(s.moves) \in Nat /\ TOPIC_FOLLOW_LIMIT_ENGAGED \in Nat
  BY SessionFacts, MoveListsAreSequences, PolicyConstants
<1>2. TopicFollowCount(r) <= TOPIC_FOLLOW_LIMIT_ENGAGED
  <2>1. /\ TopicFollowCount(r) \in Nat /\ TopicFollowCount(r) = Cardinality(Follows(r.moves))
        /\ TopicFollowCount(s) \in Nat /\ TopicFollowCount(s) = Cardinality(Follows(s.moves))
    BY SessionFacts
  <2>2. /\ TopicFollowCount(r) <= TopicFollowCount(s) + 1
        /\ move # "follow" => TopicFollowCount(r) <= TopicFollowCount(s)
    BY <1>1, <2>1, FollowsAdded
  <2> QED
    BY <1>1, <2>1, <2>2 DEF Varied
<1>3. PICK gone \in {0, 1} :
        /\ Len(r.moves) = Len(s.moves) + 1 - gone
        /\ \A i \in 1 .. Len(r.moves) :
              r.moves[i] = IF i + gone <= Len(s.moves) THEN s.moves[i + gone] ELSE move
  <2>1. PICK old, more : old = s.moves /\ more = r.moves
    OBVIOUS
  <2>2. old \in MoveLists /\ more = Recent(Append(old, move), MOVE_HISTORY_LIMIT)
    BY <1>1, <2>1
  <2>3. \E gone \in {0, 1} :
          /\ Len(more) = Len(old) + 1 - gone
          /\ \A i \in 1 .. Len(more) : more[i] = IF i + gone <= Len(old) THEN old[i + gone] ELSE move
    BY <2>2, MoveAdded
  <2> QED
    BY <2>1, <2>3
<1>4. ASSUME NEW k \in 1 .. Len(r.moves) - 1, r.moves[k] = "choice", r.moves[k + 1] = "choice"
      PROVE  FALSE
  <2>1. /\ k \in 1 .. Len(r.moves) /\ k + 1 \in 1 .. Len(r.moves)
        /\ k + gone \in 1 .. Len(s.moves) /\ r.moves[k] = s.moves[k + gone]
    BY <1>1, <1>3, <1>4
  <2>2. CASE k + 1 + gone <= Len(s.moves)
    <3>1. r.moves[k + 1] = s.moves[(k + gone) + 1] /\ k + gone \in 1 .. Len(s.moves) - 1
      BY <1>1, <1>3, <2>1, <2>2
    <3> QED
      BY <1>4, <2>1, <3>1 DEF Varied
  <2>3. CASE ~(k + 1 + gone <= Len(s.moves))
    <3>1. k + gone = Len(s.moves) /\ r.moves[k + 1] = move
      BY <1>1, <1>3, <2>1, <2>3
    <3>2. LastMove(s) = s.moves[Len(s.moves)]
      <4>1. s.moves # << >>
        BY <1>1, <2>1, EmptySeq
      <4> QED
        BY <4>1 DEF LastMove
    <3> QED
      BY <1>4, <2>1, <3>1, <3>2
  <2> QED
    BY <2>2, <2>3
<1> QED
  BY <1>2, <1>4 DEF Varied

Completed(new, s, u, d) ==
    /\ new \in Session /\ SessionInv(new)
    /\ d.goal = "WRAP" => /\ new.status = "input_locked"
                          /\ new.completion_reason = WrapReason(s, u)
                          /\ WrapReason(s, u) \in Reasons
    /\ d.goal # "WRAP" => new.status = "active" /\ WrapReason(s, u) = None

\* A turn that goes on leaves the conversation open; the last one ends it.
LEMMA CompleteTurnFacts ==
    ASSUME NEW s \in Session, NEW u \in Utterance, SessionInv(s), s.status = "active",
           NEW depth \in 0 .. 100 \cup {None}, NEW new_interest \in Topics \cup {None},
           NEW sufficient \in BOOLEAN,
           NEW d, d = DecideGoal(s, u),
           NEW new, new = CompleteTurn(s, u, d, depth, new_interest, sufficient)
    PROVE  Completed(new, s, u, d)
<1>1. /\ d \in Decision
      /\ \/ d = Wrap(WrapReason(s, u)) /\ WrapReason(s, u) \in Reasons
         \/ d = ChooseMove(s, u) /\ WrapReason(s, u) = None /\ d.goal = "CHAT"
  BY DecideGoalFacts
<1>2. PICK q : q = RecordTurn(s, u, d, depth, new_interest)
  OBVIOUS
<1>3. Recorded(q, s, d, new_interest)
  <2>1. d \in Decision
    BY <1>1
  <2> QED
    BY <1>2, <2>1, RecordTurnFacts
<1>4. PICK r : r = Added(q, u, new_interest, sufficient)
  OBVIOUS
<1>5. /\ r \in Session /\ r.status = "active" /\ r.turn_count = s.turn_count + 1 /\ BestKnown(r)
      /\ r.moves = IF d.move = None THEN s.moves ELSE Recent(Append(s.moves, d.move), MOVE_HISTORY_LIMIT)
  <2>1. s.turn_count < MAX_TURNS /\ BestKnown(s)
    BY DEF SessionInv, TurnLeft
  <2>2. Counted(r, s, d)
    BY <1>3, <1>4, <2>1, AddedFacts
  <2> QED
    BY <2>2 DEF Counted
<1>6. new = IF d.goal = "WRAP"
            THEN [r EXCEPT !.status = "input_locked", !.completion_reason = d.reason, !.pending_wrap = None]
            ELSE [r EXCEPT !.pending_wrap = WrapReason(r, None)]
  BY <1>2, <1>4 DEF CompleteTurn, Added
<1>7. CASE d.goal = "WRAP"
  <2>1. d = Wrap(WrapReason(s, u)) /\ WrapReason(s, u) \in Reasons /\ d.move = None
    BY <1>1, <1>7 DEF Wrap
  <2>2. new = [r EXCEPT !.status = "input_locked", !.completion_reason = d.reason, !.pending_wrap = None]
        /\ d.reason \in Reasons /\ d.reason = WrapReason(s, u)
    BY <1>6, <1>7, <2>1 DEF Wrap
  <2>3. /\ new \in Session /\ new.status = "input_locked" /\ new.completion_reason = WrapReason(s, u)
        /\ new.moves = r.moves /\ new.best_topic = r.best_topic /\ new.known = r.known
    BY <1>5, <2>2 DEF Session
  <2>4. Varied(new)
    <3>1. new.moves = s.moves
      BY <1>5, <2>1, <2>3
    <3> QED
      BY <3>1 DEF SessionInv, Varied, TopicFollowCount
  <2> QED
    BY <1>5, <1>7, <2>1, <2>3, <2>4 DEF Completed, SessionInv, TurnLeft, BestKnown
<1>8. CASE d.goal # "WRAP"
  <2>1. d = ChooseMove(s, u) /\ WrapReason(s, u) = None
    BY <1>1, <1>8 DEF Wrap
  <2>2. /\ d.move \in Moves /\ (d.move = "choice" => LastMove(s) # "choice")
        /\ d.move = "follow" => TopicFollowCount(s) < TOPIC_FOLLOW_LIMIT_ENGAGED
    BY <2>1, ChooseMoveFacts
  <2>3. PICK wrap \in Reasons \cup {None} : new = [r EXCEPT !.pending_wrap = wrap]
    BY <1>5, <1>6, <1>8, WrapReasonFacts
  <2>4. /\ new \in Session /\ new.status = "active" /\ new.turn_count = s.turn_count + 1
        /\ new.moves = r.moves /\ new.best_topic = r.best_topic /\ new.known = r.known
    BY <1>5, <2>3 DEF Session
  <2>5. Varied(new)
    <3>1. new.moves = Recent(Append(s.moves, d.move), MOVE_HISTORY_LIMIT)
      BY <1>5, <2>2, <2>4, Nulls
    <3> QED
      BY <2>2, <2>4, <3>1, VariedOn DEF SessionInv
  <2>6. s.turn_count + 1 < MAX_TURNS
    BY <2>1, WrapReasonFacts, Nulls
  <2> QED
    BY <1>5, <1>8, <2>1, <2>4, <2>5, <2>6 DEF Completed, SessionInv, TurnLeft, BestKnown
<1> QED
  BY <1>7, <1>8

-----------------------------------------------------------------------------
(* The turns.                                                                 *)

LEMMA NewSessionFacts == NewSession \in Session /\ SessionInv(NewSession)
<1>1. << >> \in [1 .. 0 -> Moves] /\ 0 \in 0 .. MOVE_HISTORY_LIMIT
  BY PolicyConstants
<1>2. << >> \in MoveLists
  BY <1>1 DEF MoveLists
<1>3. << >> \in Recents /\ 0 \in Counts /\ {} \in Scenes /\ None \in Ends
  BY PolicyConstants, EmptySeq DEF Recents, Counts, Scenes, Ends
<1>4. NewSession \in Record
  BY <1>2, <1>3 DEF NewSession, Record
<1>5. /\ NewSession.moves = << >> /\ NewSession.turn_count = 0 /\ NewSession.best_topic = None
  BY DEF NewSession
<1>6. Varied(NewSession)
  <2>1. Follows(<< >>) = {} /\ Len(<< >>) = 0
    BY EmptySeq DEF Follows
  <2>2. TopicFollowCount(NewSession) = 0
    BY <1>4, <1>5, <2>1, SessionIsRecord, SessionFacts, FS_EmptySet
  <2> QED
    BY <1>5, <2>1, <2>2, PolicyConstants DEF Varied
<1> QED
  BY <1>4, <1>5, <1>6, SessionIsRecord, PolicyConstants DEF SessionInv, TurnLeft, BestKnown

\* A turn ends in the record of its decision, made from the session it is
\* recorded in; and it leaves the session what a session has to be.
LEMMA FinishTurnFacts ==
    ASSUME IInv, NEW depth \in 0 .. 100 \cup {None}, NEW new_interest \in Topics \cup {None},
           NEW sufficient \in BOOLEAN, FinishTurn(depth, new_interest, sufficient)
    PROVE  /\ IInv'
           /\ session.pending_wrap # None =>
                session'.status = "input_locked" /\ session'.completion_reason = session.pending_wrap
           /\ session'.status = "input_locked" =>
                decision.goal = "WRAP" /\ session'.completion_reason # None
<1>1. /\ session' = CompleteTurn(session, said, decision, depth, new_interest, sufficient)
      /\ said' = None /\ decision' = NoDecision /\ said # None
  BY DEF FinishTurn
<1>2. /\ session \in Session /\ said \in Utterance /\ SessionInv(session)
      /\ session.status = "active" /\ decision = DecideGoal(session, said)
  BY <1>1 DEF IInv, Typed, Decided
<1>3. PICK new : new = session'
  OBVIOUS
<1>4. Completed(new, session, said, decision)
  BY <1>1, <1>2, <1>3, CompleteTurnFacts
<1>5. NoDecision \in Decision
  BY DEF NoDecision, Wrap, Decision
<1>6. IInv'
  BY <1>1, <1>3, <1>4, <1>5 DEF Completed, IInv, Typed, Decided, SessionInv, TurnLeft, Varied, BestKnown, TopicFollowCount
<1>7. session.pending_wrap # None =>
        new.status = "input_locked" /\ new.completion_reason = session.pending_wrap
  BY <1>2, <1>4, WrapReasonFacts DEF Completed
<1>8. new.status = "input_locked" => decision.goal = "WRAP" /\ new.completion_reason # None
  BY <1>4, Nulls DEF Completed
<1> QED
  BY <1>3, <1>6, <1>7, <1>8

LEMMA InitIInv ==
    ASSUME Init
    PROVE  IInv
<1>1. session = NewSession /\ said = None /\ decision = NoDecision
  BY DEF Init
<1>2. NoDecision \in Decision
  BY DEF NoDecision, Wrap, Decision
<1> QED
  BY <1>1, <1>2, NewSessionFacts DEF IInv, Typed, Decided

LEMMA NextIInv ==
    ASSUME IInv, [Next]_vars
    PROVE  IInv'
<1>1. ASSUME NEW u \in Utterances, BeginTurn(u)
      PROVE  IInv'
  <2>1. u \in Utterance /\ u # None /\ session \in Session
    BY TurnConstants, Nulls DEF IInv, Typed
  <2>2. /\ session.status = "active" /\ said' = u /\ decision' = DecideGoal(session, u)
        /\ UNCHANGED session
    BY <1>1 DEF BeginTurn
  <2>3. decision' \in Decision
    BY <2>1, <2>2, DecideGoalFacts
  <2>4. Typed' /\ Decided'
    BY <2>1, <2>2, <2>3 DEF Typed, Decided
  <2> QED
    BY <2>2, <2>4 DEF IInv, SessionInv, TurnLeft, Varied, BestKnown, TopicFollowCount
<1>2. CASE (\E symbol \in Symbols : Token(symbol)) \/ UNCHANGED vars
  <2>1. UNCHANGED <<session, said, decision>>
    BY <1>2 DEF Token, vars
  <2> QED
    BY <2>1 DEF IInv, Typed, Decided, SessionInv, TurnLeft, Varied, BestKnown, TopicFollowCount
<1>3. CASE \E depth \in 0 .. 100 \cup {None}, topic \in Topics \cup {None}, sufficient \in BOOLEAN :
             FinishTurn(depth, topic, sufficient)
  BY <1>3, FinishTurnFacts
<1>4. CASE AbandonTurn
  <2>1. said' = None /\ decision' = NoDecision /\ UNCHANGED session
    BY <1>4 DEF AbandonTurn
  <2>2. NoDecision \in Decision
    BY DEF NoDecision, Wrap, Decision
  <2> QED
    BY <2>1, <2>2 DEF IInv, Typed, Decided, SessionInv, TurnLeft, Varied, BestKnown, TopicFollowCount
<1> QED
  BY <1>1, <1>2, <1>3, <1>4 DEF Next

\* The invariant holds of every session: decisions are those of the session they
\* will be recorded in.
THEOREM Invariance == Spec => []IInv
<1>1. Init => IInv
  BY InitIInv
<1>2. IInv /\ [Next]_vars => IInv'
  BY NextIInv
<1> QED
  BY <1>1, <1>2, PTL DEF Spec

\* A topic is followed up at most TOPIC_FOLLOW_LIMIT_ENGAGED times, no two choices
\* are offered in a row, and no topic is gone back to twice or while it is talked
\* of: choose_move and record_companion_turn, however the history is cut.
THEOREM TopicsVaryHolds == Spec => []TopicsVary
<1>1. ASSUME IInv PROVE TopicsVary
  <2>1. Varied(session) /\ BestKnown(session) /\ session \in Session
    BY <1>1 DEF IInv, SessionInv, Typed
  <2>2. ASSUME decision.topic # None
        PROVE  /\ decision.topic \in session.known \ session.returned
               /\ decision.topic \notin said.names
    <3>1. said # None
      BY <1>1, <2>2 DEF IInv, Decided, NoDecision, Wrap
    <3>2. said \in Utterance /\ decision = DecideGoal(session, said)
      BY <1>1, <3>1 DEF IInv, Typed, Decided
    <3>3. decision = ChooseMove(session, said)
      BY <2>1, <2>2, <3>2, DecideGoalFacts DEF Wrap
    <3> QED
      BY <2>1, <2>2, <3>2, <3>3, ChooseMoveFacts DEF BestKnown
  <2> QED
    BY <2>1, <2>2 DEF TopicsVary, Varied
<1> QED
  BY <1>1, Invariance, PTL

\* An end that was put off comes with the next turn, for the reason it was put
\* off for, and a session ends with an answered turn only: decide_goal reads the
\* pending reason first, and complete_turn is all that writes the status.
THEOREM AnnouncedEndHolds == Spec => AnnouncedEnd
<1>1. IInv /\ [Next]_vars =>
        [/\ session.pending_wrap # None =>
              session'.status = "input_locked" /\ session'.completion_reason = session.pending_wrap
         /\ session'.status = "input_locked" =>
              decision.goal = "WRAP" /\ session'.completion_reason # None]_session
  <2>1. SUFFICES ASSUME IInv, Next, session' # session
                 PROVE  /\ session.pending_wrap # None =>
                             session'.status = "input_locked" /\ session'.completion_reason = session.pending_wrap
                        /\ session'.status = "input_locked" =>
                             decision.goal = "WRAP" /\ session'.completion_reason # None
    BY DEF vars
  <2>2. \E depth \in 0 .. 100 \cup {None}, topic \in Topics \cup {None}, sufficient \in BOOLEAN :
          FinishTurn(depth, topic, sufficient)
    BY <2>1 DEF Next, BeginTurn, Token, AbandonTurn
  <2> QED
    BY <2>1, <2>2, FinishTurnFacts
<1> QED
  BY <1>1, Invariance, PTL DEF Spec, AnnouncedEnd

-----------------------------------------------------------------------------
(* The reply that is streamed.                                                *)

\* What was shown was what could be shown of the reply when it had come up to k.
Shown ==
    /\ raw \in Texts /\ Len(raw) <= MaxReply
    /\ emitted = <<>> \/ \E k \in 0 .. Len(raw) : emitted = StablePrefix(UpTo(raw, k), Holds)

LEMMA TokenShown ==
    ASSUME Shown, NEW symbol \in Symbols, Token(symbol)
    PROVE  Shown'
<1>1. /\ raw \in Texts /\ raw' = Append(raw, symbol) /\ Holds' = Holds /\ Len(raw) < MaxReply
      /\ Len(raw) \in Nat /\ MaxReply \in Nat
  BY TextFacts, TurnConstants DEF Shown, Token, Holds
<1>2. /\ raw' \in Texts /\ Len(raw') = Len(raw) + 1
      /\ \A i \in 1 .. Len(raw) : raw'[i] = raw[i]
  BY <1>1, AppendProperties DEF Texts
<1>3. Len(raw') <= MaxReply
  BY <1>1, <1>2
<1>4. ASSUME NEW k \in 0 .. Len(raw)
      PROVE  UpTo(raw', k) = UpTo(raw, k) /\ k \in 0 .. Len(raw')
  <2>1. k \in 0 .. Len(raw')
    BY <1>1, <1>2
  <2>2. UpTo(raw, k) \in Texts /\ Len(UpTo(raw, k)) = k /\ \A i \in 1 .. k : UpTo(raw, k)[i] = raw[i]
    BY <1>1, UpToFacts DEF Texts
  <2>3. UpTo(raw', k) \in Texts /\ Len(UpTo(raw', k)) = k /\ \A i \in 1 .. k : UpTo(raw', k)[i] = raw'[i]
    BY <1>2, <2>1, UpToFacts DEF Texts
  <2>4. \A i \in 1 .. k : i \in 1 .. Len(raw)
    BY <1>1
  <2>5. \A i \in 1 .. k : UpTo(raw', k)[i] = UpTo(raw, k)[i]
    BY <1>2, <2>2, <2>3, <2>4
  <2> QED
    BY <2>1, <2>2, <2>3, <2>5, SameText DEF Texts
<1>5. emitted' = StablePrefix(raw', Holds) \/ emitted' = emitted
  BY <1>1 DEF Token
<1>6. CASE emitted' = StablePrefix(raw', Holds)
  <2>1. Len(raw') \in 0 .. Len(raw') /\ UpTo(raw', Len(raw')) = raw'
    <3>1. PICK r : r = raw'
      OBVIOUS
    <3>2. r \in Texts /\ Len(r) \in Nat
      BY <1>1, <1>2, <3>1
    <3>3. Len(r) \in 0 .. Len(r) /\ UpTo(r, Len(r)) = r
      BY <3>2, UpToAll
    <3> QED
      BY <3>1, <3>3
  <2>2. emitted' = StablePrefix(UpTo(raw', Len(raw')), Holds')
    BY <1>1, <1>6, <2>1
  <2> QED
    BY <1>2, <1>3, <2>1, <2>2 DEF Shown
<1>7. CASE emitted' = emitted
  <2>1. CASE emitted = <<>>
    BY <1>2, <1>3, <1>7, <2>1 DEF Shown
  <2>2. CASE \E k \in 0 .. Len(raw) : emitted = StablePrefix(UpTo(raw, k), Holds)
    <3>1. PICK k \in 0 .. Len(raw) : emitted = StablePrefix(UpTo(raw, k), Holds)
      BY <2>2
    <3>2. k \in 0 .. Len(raw') /\ emitted' = StablePrefix(UpTo(raw', k), Holds')
      BY <1>1, <1>4, <1>7, <3>1
    <3> QED
      BY <1>2, <1>3, <3>2 DEF Shown
  <2> QED
    BY <2>1, <2>2 DEF Shown
<1> QED
  BY <1>5, <1>6, <1>7

\* Of every reply, however long, what was shown is what could once be shown of it.
THEOREM ShownHolds == Spec => []Shown
<1>1. ASSUME raw = <<>>, emitted = <<>>
      PROVE  Shown
  <2>1. raw \in Texts /\ Len(raw) = 0 /\ 0 <= MaxReply
    BY <1>1, TurnConstants DEF Texts
  <2> QED
    BY <1>1, <2>1 DEF Shown
<1>2. Init => Shown
  BY <1>1 DEF Init
<1>3. ASSUME Shown, [Next]_vars
      PROVE  Shown'
  <2>1. CASE raw' = <<>> /\ emitted' = <<>>
    <3>1. raw' \in Texts /\ Len(raw') = 0 /\ 0 <= MaxReply
      BY <2>1, TurnConstants DEF Texts
    <3> QED
      BY <2>1, <3>1 DEF Shown
  <2>2. CASE \E symbol \in Symbols : Token(symbol)
    BY <1>3, <2>2, TokenShown
  <2>3. CASE UNCHANGED vars
    BY <1>3, <2>3 DEF vars, Shown, Holds
  <2> QED
    BY <1>3, <2>1, <2>2, <2>3 DEF Next, BeginTurn, FinishTurn, AbandonTurn
<1> QED
  BY <1>2, <1>3, PTL DEF Spec

\* Whatever the model generates, symbol by symbol and however much of it, and
\* wherever it stops: what stable_reply_prefix let the user see is the beginning of
\* what sanitize_response and closing_reply store, and a reply that locks the input
\* asks nothing before the closing message.
THEOREM StreamedTextStandsHolds == Spec => []StreamedTextStands
<1>1. ASSUME Shown PROVE StreamedTextStands
  <2>1. PICK final : final = FinalReply(raw, Holds)
    OBVIOUS
  <2>2. raw \in Texts /\ Len(raw) \in Nat /\ Holds \in BOOLEAN
    BY <1>1, TextFacts DEF Shown, Holds
  <2>3. ASSUME NEW k \in 0 .. Len(raw)
        PROVE  /\ IsPrefix(StablePrefix(UpTo(raw, k), Holds), final) /\ final \in Seq(Words)
               /\ Holds => Len(final) = 1 \/ final[Len(final) - 2] # "?"
    BY <2>1, <2>2, ShownIsStored
  <2>4. 0 \in 0 .. Len(raw)
    BY <2>2
  <2>5. final \in Seq(Words) /\ (Holds => Len(final) = 1 \/ final[Len(final) - 2] # "?")
    BY <2>3, <2>4
  <2>6. IsPrefix(emitted, final)
    <3>1. CASE emitted = <<>>
      <4>1. emitted \in Seq(Words) /\ Len(emitted) = 0 /\ Len(final) \in Nat
        BY <2>5, <3>1, LenProperties
      <4>2. Len(emitted) <= Len(final) /\ \A i \in 1 .. Len(emitted) : emitted[i] = final[i]
        BY <4>1
      <4> QED
        BY <2>5, <4>1, <4>2, PrefixIs
    <3>2. CASE \E k \in 0 .. Len(raw) : emitted = StablePrefix(UpTo(raw, k), Holds)
      BY <2>3, <3>2
    <3> QED
      BY <1>1, <3>1, <3>2 DEF Shown
  <2> QED
    BY <2>1, <2>5, <2>6 DEF StreamedTextStands
<1> QED
  BY <1>1, ShownHolds, PTL

\* The turns keep the types of everything they keep.
THEOREM TypesKept == Spec => []TypeOK
<1>1. ASSUME IInv, Shown PROVE TypeOK
  <2>1. raw \in Texts /\ Len(raw) \in Nat /\ Len(raw) <= MaxReply /\ Holds \in BOOLEAN
    BY <1>1, TextFacts DEF Shown, Holds
  <2>2. emitted \in Texts
    <3>1. CASE emitted = <<>>
      BY <3>1 DEF Texts
    <3>2. CASE \E k \in 0 .. Len(raw) : emitted = StablePrefix(UpTo(raw, k), Holds)
      BY <2>1, <3>2, ShownIsStored
    <3> QED
      BY <1>1, <3>1, <3>2 DEF Shown
  <2>3. ASSUME NEW t \in Texts
        PROVE  Range(t) \subseteq Symbols
    BY TextFacts DEF Range
  <2> QED
    BY <1>1, <2>1, <2>2, <2>3 DEF TypeOK, IInv, Typed
<1> QED
  BY <1>1, Invariance, ShownHolds, PTL

===============================================================================
