-------------------------- MODULE RecommendationProofs --------------------------
(***************************************************************************)
(* A recommendation for any catalog, any profile and any limits, however near *)
(* the products are to whatever is searched for.                             *)
(*                                                                         *)
(* Nearly everything here is put into an order and taken from its front.  The *)
(* first part says what that is: in a strict order of a finite set each place *)
(* is taken by one element.  The second follows a request from its signals to *)
(* its queries, the third the ranking from the candidates to a list, and the  *)
(* last the request itself, whose searches are what ties a list to the        *)
(* conditions it was asked under.                                            *)
(***************************************************************************)
EXTENDS RecommendationRequest, SequenceTheorems, FiniteSetTheorems, WellFoundedInduction, TLAPS

-----------------------------------------------------------------------------
(* Orders.  R is a set of pairs, the first of which comes before the second.   *)

LEMMA LeastNumber ==
    ASSUME NEW T \in SUBSET Nat, T # {}
    PROVE  \E x \in T : \A y \in T : x <= y
<1>1. PICK x \in T : \A y \in T : ~ (<<y, x>> \in OpToRel(<, Nat))
  BY NatLessThanWellFounded, WFMin
<1>2. ASSUME NEW y \in T, ~(x <= y)
      PROVE  FALSE
  <2>1. y < x /\ x \in Nat /\ y \in Nat
    BY <1>2
  <2>2. <<y, x>> \in OpToRel(<, Nat)
    BY <2>1 DEF OpToRel
  <2> QED
    BY <1>1, <2>2
<1> QED
  BY <1>2

\* What holds at 0 and of the next number holds up to N.
LEMMA StepByStep ==
    ASSUME NEW N \in Nat, NEW T, 0 \in T, \A n \in 0 .. N - 1 : n \in T => n + 1 \in T
    PROVE  \A n \in 0 .. N : n \in T
<1> DEFINE Bad == {n \in 0 .. N : n \notin T}
<1> SUFFICES ASSUME Bad # {} PROVE FALSE
  OBVIOUS
<1>1. Bad \in SUBSET Nat
  OBVIOUS
<1>2. PICK b \in Bad : \A n \in Bad : b <= n
  <2> HIDE DEF Bad
  <2> QED
    BY <1>1, LeastNumber
<1>3. b # 0 /\ b - 1 \in 0 .. N - 1
  OBVIOUS
<1>4. b - 1 \in T
  <2>1. b - 1 \in 0 .. N /\ ~(b <= b - 1)
    BY <1>3
  <2> QED
    BY <1>2, <2>1
<1>5. (b - 1) + 1 = b
  BY <1>3
<1> QED
  BY <1>3, <1>4, <1>5

StrictOrder(R, C) ==
    /\ \A i \in C : <<i, i>> \notin R
    /\ \A i, j, k \in C : <<i, j>> \in R /\ <<j, k>> \in R => <<i, k>> \in R
    /\ \A i, j \in C : i # j => <<i, j>> \in R \/ <<j, i>> \in R

BeforeIn(R, C, i) == {j \in C : <<j, i>> \in R}

PlaceOf(R, C, i) == Cardinality(BeforeIn(R, C, i))

\* Who comes later has more before.
LEMMA LaterHasMore ==
    ASSUME NEW C, IsFiniteSet(C), NEW R, StrictOrder(R, C),
           NEW i \in C, NEW j \in C, <<i, j>> \in R
    PROVE  /\ PlaceOf(R, C, i) \in Nat /\ PlaceOf(R, C, j) \in Nat
           /\ PlaceOf(R, C, i) < PlaceOf(R, C, j)
<1>1. BeforeIn(R, C, i) \in SUBSET BeforeIn(R, C, j)
  BY DEF StrictOrder, BeforeIn
<1>2. i \in BeforeIn(R, C, j) /\ i \notin BeforeIn(R, C, i)
  BY DEF StrictOrder, BeforeIn
<1>3. BeforeIn(R, C, j) \in SUBSET C
  BY DEF BeforeIn
<1>4. IsFiniteSet(BeforeIn(R, C, j))
  BY <1>3, FS_Subset
<1>5. /\ IsFiniteSet(BeforeIn(R, C, i))
      /\ Cardinality(BeforeIn(R, C, i)) <= Cardinality(BeforeIn(R, C, j))
      /\ Cardinality(BeforeIn(R, C, j)) = Cardinality(BeforeIn(R, C, i)) => BeforeIn(R, C, j) = BeforeIn(R, C, i)
  BY <1>1, <1>4, FS_Subset
<1>6. Cardinality(BeforeIn(R, C, i)) \in Nat /\ Cardinality(BeforeIn(R, C, j)) \in Nat
  BY <1>4, <1>5, FS_CardinalityType
<1> QED
  BY <1>2, <1>5, <1>6 DEF PlaceOf

\* The places are the numbers below the size, each taken once.
LEMMA PlacesFill ==
    ASSUME NEW C, IsFiniteSet(C), NEW R, StrictOrder(R, C)
    PROVE  /\ Cardinality(C) \in Nat
           /\ \A i \in C : PlaceOf(R, C, i) \in 0 .. Cardinality(C) - 1
           /\ \A i, j \in C : PlaceOf(R, C, i) = PlaceOf(R, C, j) => i = j
           /\ \A n \in 0 .. Cardinality(C) - 1 : \E i \in C : PlaceOf(R, C, i) = n
<1> DEFINE f == [i \in C |-> PlaceOf(R, C, i)]
           T == 0 .. Cardinality(C) - 1
<1>1. Cardinality(C) \in Nat
  BY FS_CardinalityType
<1>2. ASSUME NEW i \in C PROVE PlaceOf(R, C, i) \in T
  <2>1. BeforeIn(R, C, i) \in SUBSET C /\ i \notin BeforeIn(R, C, i)
    BY DEF BeforeIn, StrictOrder
  <2>2. /\ IsFiniteSet(BeforeIn(R, C, i))
        /\ Cardinality(BeforeIn(R, C, i)) <= Cardinality(C)
        /\ Cardinality(C) = Cardinality(BeforeIn(R, C, i)) => C = BeforeIn(R, C, i)
    BY <2>1, FS_Subset
  <2>3. Cardinality(BeforeIn(R, C, i)) \in Nat
    BY <2>2, FS_CardinalityType
  <2> QED
    BY <1>1, <2>1, <2>2, <2>3 DEF PlaceOf
<1>3. ASSUME NEW i \in C, NEW j \in C, i # j PROVE PlaceOf(R, C, i) # PlaceOf(R, C, j)
  <2>1. <<i, j>> \in R \/ <<j, i>> \in R
    BY <1>3 DEF StrictOrder
  <2>2. CASE <<i, j>> \in R
    BY <2>2, LaterHasMore
  <2>3. CASE <<j, i>> \in R
    BY <2>3, LaterHasMore
  <2> QED
    BY <2>1, <2>2, <2>3
<1>4. f \in Injection(C, T)
  <2>1. f \in [C -> T]
    BY <1>2
  <2>2. IsInjective(f)
    BY <1>3 DEF IsInjective
  <2> QED
    BY <2>1, <2>2 DEF Injection
<1>5. IsFiniteSet(T) /\ Cardinality(T) = Cardinality(C)
  <2>1. IsFiniteSet(T) /\ Cardinality(T) = IF 0 > Cardinality(C) - 1 THEN 0 ELSE Cardinality(C) - 1 - 0 + 1
    BY <1>1, FS_Interval
  <2> QED
    BY <1>1, <2>1
<1>6. Cardinality(C) = Cardinality(T) <=> f \in Surjection(C, T)
  <2> HIDE DEF f, T
  <2> QED
    BY <1>4, <1>5, FS_Injection
<1>7. f \in Surjection(C, T)
  BY <1>5, <1>6
<1>8. \A n \in T : \E i \in C : f[i] = n
  BY <1>7 DEF Surjection
<1> QED
  BY <1>1, <1>2, <1>3, <1>8

\* q puts C in the order of R: whatever place an element has, q has it there.
PutInOrder(q, R, C) ==
    /\ q = [n \in 1 .. Cardinality(C) |-> q[n]]
    /\ \A n \in 1 .. Cardinality(C) :
            (\E x \in C : PlaceOf(R, C, x) = n - 1) => q[n] \in C /\ PlaceOf(R, C, q[n]) = n - 1

LEMMA Placed ==
    ASSUME NEW C, IsFiniteSet(C), NEW R, StrictOrder(R, C), NEW q, PutInOrder(q, R, C)
    PROVE  /\ Cardinality(C) \in Nat /\ q \in [1 .. Cardinality(C) -> C]
           /\ \A n \in 1 .. Cardinality(C) : PlaceOf(R, C, q[n]) = n - 1
<1>1. Cardinality(C) \in Nat /\ \A n \in 0 .. Cardinality(C) - 1 : \E i \in C : PlaceOf(R, C, i) = n
  BY PlacesFill
<1>2. ASSUME NEW n \in 1 .. Cardinality(C)
      PROVE  q[n] \in C /\ PlaceOf(R, C, q[n]) = n - 1
  <2>1. n - 1 \in 0 .. Cardinality(C) - 1
    BY <1>1
  <2>2. \E x \in C : PlaceOf(R, C, x) = n - 1
    BY <1>1, <2>1
  <2> QED
    BY <2>2 DEF PutInOrder
<1>3. q = [n \in 1 .. Cardinality(C) |-> q[n]]
  BY DEF PutInOrder
<1> QED
  BY <1>1, <1>2, <1>3

LEMMA FunctionIsSeq ==
    ASSUME NEW C, NEW N \in Nat, NEW q \in [1 .. N -> C]
    PROVE  q \in Seq(C) /\ Len(q) = N
OBVIOUS

\* In a strict order places and elements belong to each other one by one.
LEMMA PlacedFacts ==
    ASSUME NEW C, IsFiniteSet(C), NEW R, StrictOrder(R, C), NEW q, PutInOrder(q, R, C),
           NEW N, N = Cardinality(C)
    PROVE  /\ \A m, n \in 1 .. N : m < n => <<q[m], q[n]>> \in R
           /\ \A m, n \in 1 .. N : q[m] = q[n] => m = n
           /\ \A x \in C : \E n \in 1 .. N : q[n] = x
<1>1. /\ \A i \in C : PlaceOf(R, C, i) \in 0 .. N - 1
      /\ \A i, j \in C : PlaceOf(R, C, i) = PlaceOf(R, C, j) => i = j
  BY PlacesFill
<1>2. /\ N \in Nat /\ q \in [1 .. N -> C]
      /\ \A n \in 1 .. N : PlaceOf(R, C, q[n]) = n - 1
  BY Placed
<1>5. ASSUME NEW m \in 1 .. N, NEW n \in 1 .. N, m < n
      PROVE  <<q[m], q[n]>> \in R
  <2>1. q[m] \in C /\ q[n] \in C
    BY <1>2
  <2>2. PlaceOf(R, C, q[m]) < PlaceOf(R, C, q[n])
    BY <1>2, <1>5
  <2>3. q[m] # q[n]
    BY <1>1, <2>1, <2>2
  <2>4. <<q[m], q[n]>> \in R \/ <<q[n], q[m]>> \in R
    BY <2>1, <2>3 DEF StrictOrder
  <2>5. <<q[n], q[m]>> \in R => PlaceOf(R, C, q[n]) < PlaceOf(R, C, q[m])
    BY <2>1, LaterHasMore
  <2>6. PlaceOf(R, C, q[m]) \in Nat /\ PlaceOf(R, C, q[n]) \in Nat
    BY <1>1, <2>1
  <2> QED
    BY <2>2, <2>4, <2>5, <2>6
<1>6. ASSUME NEW m \in 1 .. N, NEW n \in 1 .. N, q[m] = q[n]
      PROVE  m = n
  <2>1. m - 1 = n - 1
    BY <1>2, <1>6
  <2> QED
    BY <2>1
<1>7. ASSUME NEW x \in C
      PROVE  \E n \in 1 .. N : q[n] = x
  <2>1. PICK k : k = PlaceOf(R, C, x)
    OBVIOUS
  <2>2. k \in 0 .. N - 1
    BY <1>1, <2>1
  <2>3. PICK n \in 1 .. N : n - 1 = k
    <3>1. k + 1 \in 1 .. N /\ (k + 1) - 1 = k
      BY <1>2, <2>2
    <3> QED
      BY <3>1
  <2>4. q[n] \in C /\ PlaceOf(R, C, q[n]) = k
    BY <1>2, <2>3
  <2>5. q[n] = x
    BY <1>1, <2>1, <2>4
  <2> QED
    BY <2>5
<1> QED
  BY <1>5, <1>6, <1>7

\* A set put into a strict order is a sequence of its elements, each of them once.
LEMMA OrderedFacts ==
    ASSUME NEW C, IsFiniteSet(C), NEW R, StrictOrder(R, C), NEW q, PutInOrder(q, R, C)
    PROVE  \E N \in Nat :
              /\ N = Cardinality(C) /\ q \in [1 .. N -> C] /\ q \in Seq(C) /\ Len(q) = N
              /\ \A m, n \in 1 .. N : m < n => <<q[m], q[n]>> \in R
              /\ \A m, n \in 1 .. N : q[m] = q[n] => m = n
              /\ \A x \in C : \E n \in 1 .. N : q[n] = x
<1>1. PICK N : N = Cardinality(C)
  OBVIOUS
<1>2. N \in Nat /\ q \in [1 .. N -> C] /\ \A n \in 1 .. N : PlaceOf(R, C, q[n]) = n - 1
  BY <1>1, Placed
<1>3. q \in Seq(C) /\ Len(q) = N
  BY <1>2, FunctionIsSeq
<1>4. /\ \A m, n \in 1 .. N : m < n => <<q[m], q[n]>> \in R
      /\ \A m, n \in 1 .. N : q[m] = q[n] => m = n
      /\ \A x \in C : \E n \in 1 .. N : q[n] = x
  BY <1>1, PlacedFacts
<1> QED
  BY <1>1, <1>2, <1>3, <1>4

\* A set of places has an end.
LEMMA PlacesFinite ==
    ASSUME NEW N \in Nat, NEW P \in SUBSET (1 .. N)
    PROVE  IsFiniteSet(P) /\ Cardinality(P) \in Nat /\ Cardinality(P) <= N
<1>1. IsFiniteSet(1 .. N) /\ Cardinality(1 .. N) = N
  <2>1. IsFiniteSet(1 .. N) /\ Cardinality(1 .. N) = IF 1 > N THEN 0 ELSE N - 1 + 1
    BY FS_Interval
  <2> QED
    BY <2>1
<1>2. IsFiniteSet(P) /\ Cardinality(P) <= Cardinality(1 .. N)
  BY <1>1, FS_Subset
<1> QED
  BY <1>1, <1>2, FS_CardinalityType

\* What stands at some places stands there in its order.
StandsAt(t, seq, P, at, N) ==
    /\ N \in Nat /\ at \in [1 .. N -> P]
    /\ t = [n \in 1 .. N |-> seq[at[n]]] /\ Len(t) = N
    /\ \A m, n \in 1 .. N : m < n => at[m] < at[n]
    /\ \A m, n \in 1 .. N : at[m] = at[n] => m = n
    /\ \A i \in P : \E n \in 1 .. N : at[n] = i

LEMMA AtFacts ==
    ASSUME NEW A, NEW seq \in Seq(A), NEW P \in SUBSET (1 .. Len(seq)), NEW t, t = At(seq, P)
    PROVE  t \in Seq(A) /\ \E N, at : StandsAt(t, seq, P, at, N)
<1>1. Len(seq) \in Nat /\ \A i \in 1 .. Len(seq) : seq[i] \in A
  BY LenProperties, ElementOfSeq
<1>2. IsFiniteSet(P)
  BY <1>1, PlacesFinite
<1>3. PICK R : R = {p \in P \X P : p[1] < p[2]}
  OBVIOUS
<1>4. \A i, j \in P : <<i, j>> \in R <=> i < j
  BY <1>3
<1>5. \A i \in P : i \in Nat
  BY <1>1
<1>6. StrictOrder(R, P)
  BY <1>4, <1>5 DEF StrictOrder
<1>7. PICK at : at = Ordered(P, LAMBDA i, j : i < j)
  OBVIOUS
<1>8. PutInOrder(at, R, P)
  <2>1. ASSUME NEW n \in 1 .. Cardinality(P), NEW x \in P, PlaceOf(R, P, x) = n - 1
        PROVE  at[n] \in P /\ PlaceOf(R, P, at[n]) = n - 1
    <3>1. ASSUME NEW z \in P PROVE {y \in P : y < z} = BeforeIn(R, P, z)
      BY <1>4 DEF BeforeIn
    <3>2. Cardinality({y \in P : y < x}) = n - 1
      BY <2>1, <3>1 DEF PlaceOf
    <3>4. at[n] = CHOOSE z \in P : Cardinality({y \in P : y < z}) = n - 1
      BY <1>7 DEF Ordered
    <3>3. at[n] \in P /\ Cardinality({y \in P : y < at[n]}) = n - 1
      BY <3>2, <3>4
    <3> QED
      BY <3>1, <3>3 DEF PlaceOf
  <2>2. at = [n \in 1 .. Cardinality(P) |-> at[n]]
    <3> DEFINE F(n) == CHOOSE z \in P : Cardinality({y \in P : y < z}) = n - 1
    <3>1. at = [n \in 1 .. Cardinality(P) |-> F(n)]
      BY <1>7 DEF Ordered
    <3> HIDE DEF F
    <3> QED
      BY <3>1
  <2> QED
    BY <2>1, <2>2 DEF PutInOrder
<1>14. PICK N \in Nat :
          /\ at \in [1 .. N -> P]
          /\ \A m, n \in 1 .. N : m < n => <<at[m], at[n]>> \in R
          /\ \A m, n \in 1 .. N : at[m] = at[n] => m = n
          /\ \A x \in P : \E n \in 1 .. N : at[n] = x
  BY <1>2, <1>6, <1>8, OrderedFacts
<1>9. t = [n \in 1 .. N |-> seq[at[n]]]
  <2>1. t = [n \in DOMAIN at |-> seq[at[n]]]
    BY <1>7 DEF At
  <2> QED
    BY <1>14, <2>1
<1>10. ASSUME NEW n \in 1 .. N
       PROVE  at[n] \in P /\ seq[at[n]] \in A
  <2>1. at[n] \in P
    BY <1>14
  <2> QED
    BY <1>1, <2>1
<1>11. [n \in 1 .. N |-> seq[at[n]]] \in [1 .. N -> A]
  BY <1>10
<1>12. t \in Seq(A) /\ Len(t) = N
  <2>1. t \in [1 .. N -> A] /\ N \in Nat
    BY <1>14, <1>9, <1>11
  <2> QED
    BY <2>1, FunctionIsSeq
<1>13. \A m, n \in 1 .. N : m < n => at[m] < at[n]
  BY <1>4, <1>14, <1>10
<1>15. StandsAt(t, seq, P, at, N)
  BY <1>14, <1>9, <1>12, <1>13 DEF StandsAt
<1> QED
  BY <1>12, <1>15

\* The front of a sequence.
LEMMA TakeFacts ==
    ASSUME NEW A, NEW seq \in Seq(A), NEW n \in Nat
    PROVE  /\ Take(seq, n) \in Seq(A) /\ Len(Take(seq, n)) \in Nat
           /\ Len(Take(seq, n)) <= n /\ Len(Take(seq, n)) <= Len(seq)
           /\ \A i \in 1 .. Len(Take(seq, n)) : Take(seq, n)[i] = seq[i]
<1>1. Len(seq) \in Nat /\ \A i \in 1 .. Len(seq) : seq[i] \in A
  BY LenProperties, ElementOfSeq
<1>2. PICK m : m = IF Len(seq) < n THEN Len(seq) ELSE n
  OBVIOUS
<1>3. m \in Nat /\ m <= n /\ m <= Len(seq)
  BY <1>1, <1>2
<1>4. /\ SubSeq(seq, 1, m) \in Seq(A)
      /\ Len(SubSeq(seq, 1, m)) = IF 1 <= m THEN m - 1 + 1 ELSE 0
      /\ \A i \in 1 .. m - 1 + 1 : SubSeq(seq, 1, m)[i] = seq[1 + i - 1]
  <2>1. \A i \in 1 .. m : seq[i] \in A
    BY <1>1, <1>3
  <2> QED
    BY <1>3, <2>1, SubSeqProperties
<1>5. Len(SubSeq(seq, 1, m)) = m
  BY <1>3, <1>4
<1>6. ASSUME NEW i \in 1 .. m
      PROVE  SubSeq(seq, 1, m)[i] = seq[i]
  <2>1. i \in 1 .. m - 1 + 1 /\ 1 + i - 1 = i
    BY <1>3
  <2> QED
    BY <1>4, <2>1
<1> QED
  BY <1>2, <1>3, <1>4, <1>5, <1>6 DEF Take

\* A value for each number from a first one and a step.
Follows(h, N, X, base, step) ==
    h \in [0 .. N -> X] /\ h[0] = base /\ \A n \in 1 .. N : h[n] = step[<<h[n - 1], n>>]

LEMMA Recursion ==
    ASSUME NEW N \in Nat, NEW X, NEW base \in X, NEW step \in [X \X (1 .. N) -> X]
    PROVE  \E h : Follows(h, N, X, base, step)
<1> DEFINE Upto(n) == \E h \in [0 .. n -> X] :
                            h[0] = base /\ \A m \in 1 .. n : h[m] = step[<<h[m - 1], m>>]
           T == {n \in 0 .. N : Upto(n)}
<1>1. 0 \in T
  <2>1. PICK h : h = [n \in 0 .. 0 |-> base]
    OBVIOUS
  <2>2. h \in [0 .. 0 -> X] /\ h[0] = base /\ \A m \in 1 .. 0 : FALSE
    BY <2>1
  <2>3. Upto(0)
    BY <2>2
  <2> QED
    BY <2>3
<1>2. ASSUME NEW n \in 0 .. N - 1, n \in T
      PROVE  n + 1 \in T
  <2>1. PICK h \in [0 .. n -> X] : h[0] = base /\ \A m \in 1 .. n : h[m] = step[<<h[m - 1], m>>]
    BY <1>2
  <2>2. n + 1 \in 1 .. N /\ n \in 0 .. n /\ n \in Nat
    OBVIOUS
  <2>3. PICK x : x = step[<<h[n], n + 1>>]
    OBVIOUS
  <2>4. x \in X
    BY <2>1, <2>2, <2>3
  <2>5. PICK g : g = [m \in 0 .. n + 1 |-> IF m = n + 1 THEN x ELSE h[m]]
    OBVIOUS
  <2>6. \A m \in 0 .. n : m # n + 1 /\ m \in 0 .. n + 1
    BY <2>2
  <2>7. /\ g \in [0 .. n + 1 -> X] /\ g[n + 1] = x
        /\ \A m \in 0 .. n : g[m] = h[m]
    <3>1. \A m \in 0 .. n + 1 : m = n + 1 \/ m \in 0 .. n
      BY <2>2
    <3>2. n + 1 \in 0 .. n + 1
      BY <2>2
    <3> QED
      BY <2>1, <2>4, <2>5, <2>6, <3>1, <3>2
  <2>8. g[0] = base
    <3>1. 0 \in 0 .. n
      OBVIOUS
    <3> QED
      BY <2>1, <2>7, <3>1
  <2>9. ASSUME NEW m \in 1 .. n + 1
        PROVE  g[m] = step[<<g[m - 1], m>>]
    <3>1. CASE m = n + 1
      <4>1. m - 1 = n
        BY <2>2, <3>1
      <4>2. g[m - 1] = h[n]
        BY <2>2, <2>7, <4>1
      <4> QED
        BY <2>3, <2>7, <3>1, <4>2
    <3>2. CASE m # n + 1
      <4>1. m \in 1 .. n /\ m \in 0 .. n /\ m - 1 \in 0 .. n
        BY <2>2, <3>2
      <4> QED
        BY <2>1, <2>7, <4>1
    <3> QED
      BY <3>1, <3>2
  <2>10. n + 1 \in 0 .. N
    BY <2>2
  <2> QED
    BY <2>7, <2>8, <2>9, <2>10
<1>3. \A n \in 0 .. N : n \in T
  <2> HIDE DEF T
  <2> QED
    BY <1>1, <1>2, StepByStep
<1>4. Upto(N)
  <2>1. N \in 0 .. N
    OBVIOUS
  <2> QED
    BY <1>3, <2>1
<1> QED
  BY <1>4 DEF Follows

\* Sequences put behind each other.
LEMMA FlattenFacts ==
    ASSUME NEW A, NEW N \in Nat, NEW seqs \in [1 .. N -> Seq(A)]
    PROVE  FlattenSeq(seqs) \in Seq(A)
<1>1. Len(seqs) = N
  BY FunctionIsSeq
<1>2. CASE N = 0
  <2>1. FlattenSeq(seqs) = seqs
    BY <1>1, <1>2 DEF FlattenSeq
  <2>2. seqs \in [1 .. N -> A]
    BY <1>2
  <2> QED
    BY <2>1, <2>2, FunctionIsSeq
<1>3. CASE N # 0
  <2> DEFINE F(f) == [i \in 1 .. N |-> IF i = 1 THEN seqs[i] ELSE f[i - 1] \o seqs[i]]
             step == [x \in Seq(A) \X (1 .. N) |-> IF x[2] = 1 THEN seqs[1] ELSE x[1] \o seqs[x[2]]]
  <2>1. 1 \in 1 .. N /\ N \in 1 .. N
    BY <1>3
  <2>2. \A s, t \in Seq(A) : s \o t \in Seq(A)
    BY ConcatProperties
  <2>3. step \in [Seq(A) \X (1 .. N) -> Seq(A)]
    <3>1. \A x \in Seq(A) \X (1 .. N) : x[1] \in Seq(A) /\ seqs[x[2]] \in Seq(A)
      OBVIOUS
    <3> QED
      BY <2>1, <2>2, <3>1
  <2>4. PICK h \in [0 .. N -> Seq(A)] :
            h[0] = <<>> /\ \A n \in 1 .. N : h[n] = step[<<h[n - 1], n>>]
    <3> HIDE DEF step
    <3>1. PICK e \in Seq(A) : e = <<>>
      BY EmptySeq
    <3>2. \E h : Follows(h, N, Seq(A), e, step)
      BY <2>3, Recursion
    <3> QED
      BY <3>1, <3>2 DEF Follows
  <2>5. PICK g : g = [i \in 1 .. N |-> h[i]]
    OBVIOUS
  <2>6. ASSUME NEW i \in 1 .. N
        PROVE  g[i] = IF i = 1 THEN seqs[i] ELSE g[i - 1] \o seqs[i]
    <3>1. i - 1 \in 0 .. N
      OBVIOUS
    <3>2. <<h[i - 1], i>> \in Seq(A) \X (1 .. N)
      BY <2>4, <3>1
    <3>3. h[i] = IF i = 1 THEN seqs[1] ELSE h[i - 1] \o seqs[i]
      BY <2>4, <3>2
    <3>4. i # 1 => i - 1 \in 1 .. N
      OBVIOUS
    <3> QED
      BY <2>5, <3>3, <3>4
  <2>7. g = F(g)
    BY <2>5, <2>6
  <2>8. PICK f : f = (CHOOSE x : x = F(x))
    OBVIOUS
  <2>9. f = F(f)
    <3> HIDE DEF F
    <3> QED
      BY <2>7, <2>8
  <2>10. \A i \in 1 .. N : f[i] = IF i = 1 THEN seqs[i] ELSE f[i - 1] \o seqs[i]
    BY <2>9
  <2>11. FlattenSeq(seqs) = f[N]
    BY <1>1, <1>3, <2>8 DEF FlattenSeq
  <2> DEFINE U == {i \in 0 .. N : i = 0 \/ f[i] \in Seq(A)}
  <2>12. 0 \in U
    OBVIOUS
  <2>13. ASSUME NEW i \in 0 .. N - 1, i \in U
         PROVE  i + 1 \in U
    <3>1. i + 1 \in 1 .. N /\ (i + 1) - 1 = i /\ i + 1 \in 0 .. N
      OBVIOUS
    <3>2. f[i + 1] = IF i = 0 THEN seqs[i + 1] ELSE f[i] \o seqs[i + 1]
      <4>1. i + 1 = 1 <=> i = 0
        OBVIOUS
      <4>2. f[i + 1] = IF i + 1 = 1 THEN seqs[i + 1] ELSE f[(i + 1) - 1] \o seqs[i + 1]
        BY <2>10, <3>1
      <4> QED
        BY <3>1, <4>1, <4>2
    <3>3. seqs[i + 1] \in Seq(A)
      BY <3>1
    <3>4. f[i + 1] \in Seq(A)
      BY <2>2, <2>13, <3>2, <3>3
    <3> QED
      BY <3>1, <3>4
  <2>14. \A i \in 0 .. N : i \in U
    <3> HIDE DEF U
    <3> QED
      BY <2>12, <2>13, StepByStep
  <2>15. N \in 0 .. N
    OBVIOUS
  <2> QED
    BY <1>3, <2>11, <2>14, <2>15
<1> QED
  BY <1>2, <1>3

LEMMA Image ==
    ASSUME NEW S, IsFiniteSet(S), NEW f, NEW T, T = {f[x] : x \in S}
    PROVE  IsFiniteSet(T) /\ Cardinality(T) \in Nat /\ Cardinality(T) <= Cardinality(S)
<1>1. PICK g : g = [x \in S |-> f[x]]
  OBVIOUS
<1>2. g \in Surjection(S, T)
  BY <1>1 DEF Surjection
<1> QED
  BY <1>2, FS_Surjection, FS_CardinalityType

LEMMA LessOf ==
    ASSUME NEW a \in Int, NEW b \in Int
    PROVE  /\ Min({a, b}) \in {a, b}
           /\ Min({a, b}) <= a /\ Min({a, b}) <= b
<1>1. \E x \in {a, b} : \A y \in {a, b} : x <= y
  <2>1. a <= b \/ b <= a
    OBVIOUS
  <2>2. a <= a /\ b <= b
    OBVIOUS
  <2> QED
    BY <2>1, <2>2
<1>2. /\ Min({a, b}) \in {a, b}
      /\ \A y \in {a, b} : Min({a, b}) <= y
  BY <1>1 DEF Min
<1> QED
  BY <1>2

\* Round robin: same[i] are the places of i's group, and a turn goes to the
\* groups in the order of their first places.
TurnsOf(same, group, depth, N) ==
    /\ same \in [1 .. N -> SUBSET (1 .. N)]
    /\ group \in [1 .. N -> 1 .. N] /\ depth \in [1 .. N -> Nat]
    /\ \A i \in 1 .. N : i \in same[i] /\ group[i] \in same[i]
    /\ \A i, j \in 1 .. N : j \in same[i] => same[j] = same[i]
    /\ \A i \in 1 .. N : depth[i] = Cardinality({j \in same[i] : j < i})

TurnBefore(group, depth, P) ==
    {p \in P \X P : \/ depth[p[1]] < depth[p[2]]
                    \/ depth[p[1]] = depth[p[2]] /\ group[p[1]] < group[p[2]]}

LEMMA RoundRobin ==
    ASSUME NEW N \in Nat, NEW same, NEW group, NEW depth, TurnsOf(same, group, depth, N),
           NEW P \in SUBSET (1 .. N)
    PROVE  StrictOrder(TurnBefore(group, depth, P), P)
<1>8. PICK R : R = TurnBefore(group, depth, P)
  OBVIOUS
<1>1. \A i \in P : i \in 1 .. N /\ group[i] \in Nat /\ depth[i] \in Nat
  BY DEF TurnsOf
<1>2. \A i, j \in P : <<i, j>> \in R <=> (depth[i] < depth[j] \/ (depth[i] = depth[j] /\ group[i] < group[j]))
  BY <1>8 DEF TurnBefore
<1>3. ASSUME NEW i \in P, NEW j \in P, depth[i] = depth[j], group[i] = group[j], i < j
      PROVE  FALSE
  <2>1. same[i] = same[j]
    BY <1>1, <1>3 DEF TurnsOf
  <2> DEFINE A == {k \in same[i] : k < i}
             B == {k \in same[i] : k < j}
  <2>2. A \in SUBSET B /\ i \in B /\ i \notin A
    <3>1. same[i] \in SUBSET (1 .. N) /\ i \in same[i] /\ i \in Nat /\ j \in Nat
      BY <1>1 DEF TurnsOf
    <3> QED
      BY <1>3, <3>1
  <2>3. B \in SUBSET (1 .. N)
    BY <1>1 DEF TurnsOf
  <2>4. Cardinality(A) = Cardinality(B)
    BY <1>1, <1>3, <2>1 DEF TurnsOf
  <2> HIDE DEF A, B
  <2>5. IsFiniteSet(B)
    BY <2>3, PlacesFinite
  <2>6. B = A
    BY <2>2, <2>4, <2>5, FS_Subset
  <2> QED
    BY <2>2, <2>6
<1>4. \A i, j \in P : depth[i] = depth[j] /\ group[i] = group[j] => i = j
  <2>1. \A i, j \in P : i \in Nat /\ j \in Nat /\ (i = j \/ i < j \/ j < i)
    BY <1>1
  <2> QED
    BY <1>3, <2>1
<1>5. \A i \in P : <<i, i>> \notin R
  BY <1>1, <1>2
<1>6. \A i, j, k \in P : <<i, j>> \in R /\ <<j, k>> \in R => <<i, k>> \in R
  BY <1>1, <1>2
<1>7. \A i, j \in P : i # j => <<i, j>> \in R \/ <<j, i>> \in R
  BY <1>1, <1>2, <1>4
<1> QED
  BY <1>5, <1>6, <1>7, <1>8 DEF StrictOrder

-----------------------------------------------------------------------------
(* Queries.  A request's signals are finitely many and each has a weight.      *)

Weighed(signals) ==
    IsFiniteSet(signals) /\ \A s \in signals : s.weight \in Nat /\ s.confidence \in Nat /\ s.age \in Nat

LEMMA TieFacts ==
    ASSUME NEW S, IsFiniteSet(S)
    PROVE  /\ Tie(S) \in [S -> 1 .. Cardinality(S)]
           /\ \A s, t \in S : Tie(S)[s] = Tie(S)[t] => s = t
<1>1. Cardinality(S) \in Nat
  BY FS_CardinalityType
<1>2. IsFiniteSet(1 .. Cardinality(S)) /\ Cardinality(1 .. Cardinality(S)) = Cardinality(S)
  <2>1. /\ IsFiniteSet(1 .. Cardinality(S))
        /\ Cardinality(1 .. Cardinality(S)) = IF 1 > Cardinality(S) THEN 0 ELSE Cardinality(S) - 1 + 1
    BY <1>1, FS_Interval
  <2> QED
    BY <1>1, <2>1
<1>3. PICK T : T = 1 .. Cardinality(S)
  OBVIOUS
<1>4. ExistsBijection(S, T)
  BY <1>2, <1>3, FS_SameCardinalityBij
<1>5. \E f \in [S -> T] : \A s, t \in S : f[s] = f[t] => s = t
  BY <1>4 DEF ExistsBijection, Bijection, Injection, IsInjective
<1>6. Tie(S) = CHOOSE f \in [S -> T] : \A s, t \in S : f[s] = f[t] => s = t
  BY <1>3 DEF Tie
<1> QED
  BY <1>3, <1>5, <1>6

LEMMA ByWeightFacts ==
    ASSUME NEW S, Weighed(S)
    PROVE  ByWeight(S) \in Seq(S)
<1> DEFINE Heavier(s, t) ==
        \/ s.weight > t.weight
        \/ s.weight = t.weight /\ s.confidence > t.confidence
        \/ s.weight = t.weight /\ s.confidence = t.confidence /\ s.age < t.age
        \/ s.weight = t.weight /\ s.confidence = t.confidence /\ s.age = t.age /\ Tie(S)[s] < Tie(S)[t]
<1>1. IsFiniteSet(S) /\ \A s \in S : s.weight \in Nat /\ s.confidence \in Nat /\ s.age \in Nat
  BY DEF Weighed
<1>2. \A s \in S : Tie(S)[s] \in Nat
  <2>1. Cardinality(S) \in Nat
    BY <1>1, FS_CardinalityType
  <2> QED
    BY <1>1, <2>1, TieFacts
<1>3. \A s, t \in S : Tie(S)[s] = Tie(S)[t] => s = t
  BY <1>1, TieFacts
<1>4. PICK R : R = {p \in S \X S : Heavier(p[1], p[2])}
  OBVIOUS
<1>5. \A s, t \in S : <<s, t>> \in R <=> Heavier(s, t)
  BY <1>4
<1>6. StrictOrder(R, S)
  <2>1. \A s \in S : ~Heavier(s, s)
    BY <1>1, <1>2
  <2>2. \A s, t, u \in S : Heavier(s, t) /\ Heavier(t, u) => Heavier(s, u)
    BY <1>1, <1>2
  <2>3. \A s, t \in S : s # t => Heavier(s, t) \/ Heavier(t, s)
    BY <1>1, <1>2, <1>3
  <2> HIDE DEF Heavier
  <2> QED
    BY <1>5, <2>1, <2>2, <2>3 DEF StrictOrder
<1>7. PICK q : q = ByWeight(S)
  OBVIOUS
<1>8. PutInOrder(q, R, S)
  <2> DEFINE F(n) == CHOOSE x \in S : Cardinality({y \in S : Heavier(y, x)}) = n - 1
  <2>1. q = [n \in 1 .. Cardinality(S) |-> F(n)]
    BY <1>7 DEF ByWeight, Ordered
  <2> HIDE DEF Heavier
  <2>2. ASSUME NEW n \in 1 .. Cardinality(S), NEW x \in S, PlaceOf(R, S, x) = n - 1
        PROVE  q[n] \in S /\ PlaceOf(R, S, q[n]) = n - 1
    <3>1. ASSUME NEW z \in S PROVE {y \in S : Heavier(y, z)} = BeforeIn(R, S, z)
      BY <1>5 DEF BeforeIn
    <3>2. Cardinality({y \in S : Heavier(y, x)}) = n - 1
      BY <2>2, <3>1 DEF PlaceOf
    <3>3. F(n) \in S /\ Cardinality({y \in S : Heavier(y, F(n))}) = n - 1
      BY <3>2
    <3> HIDE DEF F
    <3>4. q[n] = F(n)
      BY <2>1
    <3> QED
      BY <3>1, <3>3, <3>4 DEF PlaceOf
  <2> HIDE DEF F
  <2>3. q = [n \in 1 .. Cardinality(S) |-> q[n]]
    BY <2>1
  <2> QED
    BY <2>2, <2>3 DEF PutInOrder
<1> QED
  BY <1>1, <1>6, <1>7, <1>8, OrderedFacts

LEMMA FirstPlace ==
    ASSUME NEW N \in Nat, NEW P \in SUBSET (1 .. N), P # {}
    PROVE  \E i \in P : \A j \in P : i <= j
<1>1. P \in SUBSET Nat
  OBVIOUS
<1> QED
  BY <1>1, LeastNumber

LEMMA SpreadFacts ==
    ASSUME NEW A, NEW seq \in Seq(A)
    PROVE  Spread(seq) \in Seq(A)
<1> DEFINE I == 1 .. Len(seq)
           Same(i) == IF seq[i].category = None THEN {i}
                      ELSE {j \in I : seq[j].category = seq[i].category}
           group == [i \in I |-> CHOOSE j \in Same(i) : \A k \in Same(i) : j <= k]
           depth == [i \in I |-> Cardinality({j \in Same(i) : j < i})]
           Sooner(i, j) == depth[i] < depth[j] \/ (depth[i] = depth[j] /\ group[i] < group[j])
           turns == Ordered(I, Sooner)
<1>1. Spread(seq) = [n \in I |-> seq[turns[n]]]
  BY DEF Spread
<1>2. Len(seq) \in Nat /\ \A i \in I : seq[i] \in A
  BY LenProperties, ElementOfSeq
<1>3. PICK N : N = Len(seq)
  OBVIOUS
<1>4. N \in Nat /\ I = 1 .. N
  BY <1>2, <1>3
<1>5. PICK same : same = [i \in I |-> Same(i)]
  OBVIOUS
<1>6. /\ \A i \in I : Same(i) \in SUBSET I /\ i \in Same(i)
      /\ \A i, j \in I : j \in Same(i) => Same(j) = Same(i)
  OBVIOUS
<1> HIDE DEF Same, I
<1>7. ASSUME NEW i \in I
      PROVE  group[i] \in Same(i) /\ depth[i] \in Nat
  <2>1. Same(i) \in SUBSET (1 .. N) /\ Same(i) # {}
    BY <1>4, <1>6
  <2>2. \E j \in Same(i) : \A k \in Same(i) : j <= k
    BY <1>4, <2>1, FirstPlace
  <2>3. {j \in Same(i) : j < i} \in SUBSET (1 .. N)
    BY <2>1
  <2>4. Cardinality({j \in Same(i) : j < i}) \in Nat
    BY <1>4, <2>3, PlacesFinite
  <2> QED
    BY <2>2, <2>4
<1>8. TurnsOf(same, group, depth, N)
  <2>1. group \in [I -> I]
    BY <1>6, <1>7
  <2>2. depth \in [I -> Nat]
    BY <1>7
  <2>3. same \in [I -> SUBSET I] /\ \A i \in I : same[i] = Same(i)
    BY <1>5, <1>6
  <2>4. \A i \in I : depth[i] = Cardinality({j \in same[i] : j < i})
    BY <2>3
  <2> HIDE DEF group, depth
  <2>5. \A i \in I : i \in same[i] /\ group[i] \in same[i]
    BY <1>6, <1>7, <2>3
  <2>6. \A i, j \in I : j \in same[i] => same[j] = same[i]
    BY <1>6, <2>3
  <2> QED
    BY <1>4, <2>1, <2>2, <2>3, <2>4, <2>5, <2>6 DEF TurnsOf
<1>9. PICK R : R = TurnBefore(group, depth, I)
  OBVIOUS
<1>10. StrictOrder(R, I)
  <2>1. I \in SUBSET (1 .. N)
    BY <1>4
  <2> QED
    BY <1>4, <1>8, <1>9, <2>1, RoundRobin
<1>11. IsFiniteSet(I)
  BY <1>4, PlacesFinite
<1>12. turns \in [I -> I]
  <2> HIDE DEF group, depth
  <2>1. \A i, j \in I : <<i, j>> \in R <=> Sooner(i, j)
    BY <1>9 DEF TurnBefore
  <2> DEFINE F(n) == CHOOSE x \in I : Cardinality({y \in I : Sooner(y, x)}) = n - 1
  <2>2. turns = [n \in 1 .. Cardinality(I) |-> F(n)]
    BY DEF Ordered
  <2> HIDE DEF turns, Sooner
  <2>3. PutInOrder(turns, R, I)
    <3>1. ASSUME NEW n \in 1 .. Cardinality(I), NEW x \in I, PlaceOf(R, I, x) = n - 1
          PROVE  turns[n] \in I /\ PlaceOf(R, I, turns[n]) = n - 1
      <4>1. ASSUME NEW z \in I PROVE {y \in I : Sooner(y, z)} = BeforeIn(R, I, z)
        BY <2>1 DEF BeforeIn
      <4>2. Cardinality({y \in I : Sooner(y, x)}) = n - 1
        BY <3>1, <4>1 DEF PlaceOf
      <4>3. F(n) \in I /\ Cardinality({y \in I : Sooner(y, F(n))}) = n - 1
        BY <4>2
      <4> HIDE DEF F
      <4>4. turns[n] = F(n)
        BY <2>2
      <4> QED
        BY <4>1, <4>3, <4>4 DEF PlaceOf
    <3> HIDE DEF F
    <3>2. turns = [n \in 1 .. Cardinality(I) |-> turns[n]]
      BY <2>2
    <3> QED
      BY <3>1, <3>2 DEF PutInOrder
  <2>4. \E M \in Nat : M = Cardinality(I) /\ turns \in [1 .. M -> I]
    BY <1>10, <1>11, <2>3, OrderedFacts
  <2>5. Cardinality(I) = N
    <3>1. Cardinality(1 .. N) = IF 1 > N THEN 0 ELSE N - 1 + 1
      BY <1>4, FS_Interval
    <3> QED
      BY <1>4, <3>1
  <2> QED
    BY <1>4, <2>4, <2>5
<1>13. Spread(seq) \in [1 .. N -> A]
  <2> HIDE DEF turns
  <2> QED
    BY <1>1, <1>2, <1>4, <1>12
<1> QED
  BY <1>4, <1>13, FunctionIsSeq

\* A list of queries with signals of S, told apart by their kinds and numbers.
Queried(Q, S, kinds) ==
    /\ \E A : Q \in Seq(A)
    /\ \A i \in 1 .. Len(Q) : Q[i].kind \in kinds /\ Q[i].n \in Nat /\ Q[i].signal \in S
    /\ \A i, j \in 1 .. Len(Q) : Q[i].kind = Q[j].kind /\ Q[i].n = Q[j].n => i = j

LEMMA ListQueried ==
    ASSUME NEW N \in Nat, NEW Q, Q = [i \in 1 .. N |-> Q[i]], NEW S, NEW kind,
           \A i \in 1 .. N : Q[i].kind = kind /\ Q[i].n = i /\ Q[i].signal \in S
    PROVE  Queried(Q, S, {kind})
<1>1. PICK A : A = {Q[i] : i \in 1 .. N}
  OBVIOUS
<1>2. Q \in [1 .. N -> A]
  BY <1>1
<1>3. Q \in Seq(A) /\ Len(Q) = N
  BY <1>2, FunctionIsSeq
<1> QED
  BY <1>3 DEF Queried

LEMMA ConcatQueried ==
    ASSUME NEW P, NEW Q, NEW S, NEW ps, NEW qs, Queried(P, S, ps), Queried(Q, S, qs), ps \cap qs = {}
    PROVE  Queried(P \o Q, S, ps \cup qs)
<1>1. PICK A, B : P \in Seq(A) /\ Q \in Seq(B)
  BY DEF Queried
<1>2. PICK C : C = A \cup B
  OBVIOUS
<1>3. P \in Seq(C) /\ Q \in Seq(C)
  BY <1>1, <1>2, SeqMonotonic
<1>4. /\ P \o Q \in Seq(C)
      /\ Len(P) \in Nat /\ Len(Q) \in Nat /\ Len(P \o Q) = Len(P) + Len(Q)
      /\ \A i \in 1 .. Len(P) + Len(Q) : (P \o Q)[i] = IF i <= Len(P) THEN P[i] ELSE Q[i - Len(P)]
  BY <1>3, ConcatProperties, LenProperties
<1>5. PICK R, p, N : R = P \o Q /\ p = Len(P) /\ N = Len(P) + Len(Q)
  OBVIOUS
<1>6. ASSUME NEW i \in 1 .. N
      PROVE  \/ i \in 1 .. p /\ R[i] = P[i] /\ R[i].kind \in ps
             \/ i - p \in 1 .. Len(Q) /\ ~(i <= p) /\ R[i] = Q[i - p] /\ R[i].kind \in qs
  <2>1. CASE i <= p
    <3>1. i \in 1 .. p /\ R[i] = P[i]
      BY <1>4, <1>5, <2>1
    <3> QED
      BY <1>5, <3>1 DEF Queried
  <2>2. CASE ~(i <= p)
    <3>1. i - p \in 1 .. Len(Q) /\ R[i] = Q[i - p]
      BY <1>4, <1>5, <2>2
    <3> QED
      BY <2>2, <3>1 DEF Queried
  <2> QED
    BY <2>1, <2>2
<1>7. \A i \in 1 .. N : R[i].kind \in ps \cup qs /\ R[i].n \in Nat /\ R[i].signal \in S
  BY <1>5, <1>6 DEF Queried
<1>8. ASSUME NEW i \in 1 .. N, NEW j \in 1 .. N, R[i].kind = R[j].kind, R[i].n = R[j].n
      PROVE  i = j
  <2>1. CASE i \in 1 .. p /\ R[i] = P[i] /\ R[i].kind \in ps
    <3>1. j \in 1 .. p /\ R[j] = P[j]
      BY <1>6, <1>8, <2>1
    <3> QED
      BY <1>5, <1>8, <2>1, <3>1 DEF Queried
  <2>2. CASE i - p \in 1 .. Len(Q) /\ R[i] = Q[i - p] /\ R[i].kind \in qs
    <3>1. j - p \in 1 .. Len(Q) /\ R[j] = Q[j - p]
      BY <1>6, <1>8, <2>2
    <3>2. i - p = j - p
      BY <1>8, <2>2, <3>1 DEF Queried
    <3> QED
      BY <1>4, <1>5, <3>2
  <2> QED
    BY <1>6, <2>1, <2>2
<1> QED
  BY <1>4, <1>5, <1>7, <1>8 DEF Queried

LEMMA AtQueried ==
    ASSUME NEW Q, NEW S, NEW kinds, Queried(Q, S, kinds), NEW P \in SUBSET (DOMAIN Q)
    PROVE  Queried(At(Q, P), S, kinds)
<1>1. PICK A : Q \in Seq(A)
  BY DEF Queried
<1>2. DOMAIN Q = 1 .. Len(Q)
  BY <1>1, LenProperties
<1>3. PICK t : t = At(Q, P)
  OBVIOUS
<1>4. P \in SUBSET (1 .. Len(Q))
  BY <1>2
<1>5. t \in Seq(A) /\ \E N, at : StandsAt(t, Q, P, at, N)
  BY <1>1, <1>3, <1>4, AtFacts
<1>9. PICK N, at : StandsAt(t, Q, P, at, N)
  BY <1>5
<1>6. \A n \in 1 .. N : at[n] \in 1 .. Len(Q) /\ t[n] = Q[at[n]]
  BY <1>4, <1>9 DEF StandsAt
<1>7. ASSUME NEW n \in 1 .. N
      PROVE  t[n].kind \in kinds /\ t[n].n \in Nat /\ t[n].signal \in S
  <2>1. PICK m \in 1 .. Len(Q) : t[n] = Q[m]
    BY <1>6
  <2>2. Q[m].kind \in kinds /\ Q[m].n \in Nat /\ Q[m].signal \in S
    BY DEF Queried
  <2> QED
    BY <2>1, <2>2
<1>8. ASSUME NEW m \in 1 .. N, NEW n \in 1 .. N, t[m].kind = t[n].kind, t[m].n = t[n].n
      PROVE  m = n
  <2>2. PICK i \in 1 .. Len(Q), j \in 1 .. Len(Q) : at[m] = i /\ at[n] = j /\ t[m] = Q[i] /\ t[n] = Q[j]
    BY <1>6
  <2>3. i = j
    BY <1>8, <2>2 DEF Queried
  <2>1. at[m] = at[n]
    BY <2>2, <2>3
  <2> QED
    BY <1>9, <2>1 DEF StandsAt
<1>10. Len(t) = N
  BY <1>9 DEF StandsAt
<1> QED
  BY <1>3, <1>5, <1>7, <1>8, <1>10 DEF Queried

LEMMA WeighedSome ==
    ASSUME NEW S, Weighed(S), NEW T \in SUBSET S
    PROVE  Weighed(T) /\ ByWeight(T) \in Seq(S)
<1>1. Weighed(T)
  BY FS_Subset DEF Weighed
<1>2. ByWeight(T) \in Seq(T)
  BY <1>1, ByWeightFacts
<1> QED
  BY <1>1, <1>2, SeqMonotonic

LEMMA AtSeq ==
    ASSUME NEW A, NEW seq \in Seq(A), NEW P \in SUBSET (DOMAIN seq)
    PROVE  At(seq, P) \in Seq(A)
<1>1. P \in SUBSET (1 .. Len(seq))
  BY LenProperties
<1> QED
  BY <1>1, AtFacts

LEMMA InterestsFacts ==
    ASSUME NEW S, Weighed(S)
    PROVE  Interests(S) \in Seq(S)
<1> DEFINE eligible == ByWeight({s \in S : s.field \in DOMAIN FieldRules})
           strong == At(eligible, {i \in DOMAIN eligible : eligible[i].weight >= MIN_PRIMARY_WEIGHT})
           some == IF Len(strong) < MIN_PRIMARY_QUERIES THEN Take(eligible, MIN_PRIMARY_QUERIES) ELSE strong
<1>1. eligible \in Seq(S)
  BY WeighedSome
<1> HIDE DEF eligible
<1>2. strong \in Seq(S)
  BY <1>1, AtSeq
<1> HIDE DEF strong
<1>3. some \in Seq(S)
  BY <1>1, <1>2, TakeFacts, QueryConstants
<1> HIDE DEF some
<1>4. Take(Spread(some), MAX_QUERIES) \in Seq(S)
  BY <1>3, SpreadFacts, TakeFacts, QueryConstants
<1> QED
  BY <1>4 DEF some, strong, eligible, Interests

LEMMA TastesFacts ==
    ASSUME NEW S, Weighed(S), NEW aspect
    PROVE  Tastes(S, aspect) \in Seq(S)
<1>1. ByWeight({s \in S : s.field = "preferences" /\ s.aspect = aspect}) \in Seq(S)
  BY WeighedSome
<1> QED
  BY <1>1, SpreadFacts DEF Tastes

LEMMA InterestQueriesFacts ==
    ASSUME NEW S, NEW interests \in Seq(S), NEW known
    PROVE  Queried(InterestQueries(interests, known), S, {"q"})
<1>1. Len(interests) \in Nat /\ \A i \in 1 .. Len(interests) : interests[i] \in S
  BY LenProperties, ElementOfSeq
<1>2. PICK Q : Q = InterestQueries(interests, known)
  OBVIOUS
<1>3. Q = [i \in 1 .. Len(interests) |-> Q[i]]
  BY <1>2 DEF InterestQueries
<1>4. \A i \in 1 .. Len(interests) : Q[i].kind = "q" /\ Q[i].n = i /\ Q[i].signal \in S
  BY <1>1, <1>2 DEF InterestQueries, Query
<1>5. PICK N \in Nat : N = Len(interests)
  BY <1>1
<1>6. Q = [i \in 1 .. N |-> Q[i]]
  BY <1>3, <1>5
<1>7. \A i \in 1 .. N : Q[i].kind = "q" /\ Q[i].n = i /\ Q[i].signal \in S
  BY <1>4, <1>5
<1>8. Queried(Q, S, {"q"})
  BY <1>6, <1>7, ListQueried
<1> QED
  BY <1>2, <1>8

LEMMA GiftQueriesFacts ==
    ASSUME NEW S, NEW interests \in Seq(S), NEW known
    PROVE  Queried(GiftQueries(interests, known), S, {"g"})
<1>1. PICK given : given = At(interests, {i \in DOMAIN interests : interests[i].field \in GiftQueryFields})
  OBVIOUS
<1>2. given \in Seq(S)
  BY <1>1, AtSeq
<1>3. Len(given) \in Nat /\ \A i \in 1 .. Len(given) : given[i] \in S
  BY <1>2, LenProperties, ElementOfSeq
<1>4. PICK Q : Q = GiftQueries(interests, known)
  OBVIOUS
<1>5. Q = [i \in 1 .. Len(given) |->
              Query("g", i, given[i], {"gift"}, "gift", QueryText(given[i], "gift", known), None)]
  BY <1>1, <1>4 DEF GiftQueries
<1>6. Q = [i \in 1 .. Len(given) |-> Q[i]]
  BY <1>5
<1>7. \A i \in 1 .. Len(given) : Q[i].kind = "g" /\ Q[i].n = i /\ Q[i].signal \in S
  BY <1>3, <1>5 DEF Query
<1>8. PICK N \in Nat : N = Len(given)
  BY <1>3
<1>9. Q = [i \in 1 .. N |-> Q[i]]
  BY <1>6, <1>8
<1>10. \A i \in 1 .. N : Q[i].kind = "g" /\ Q[i].n = i /\ Q[i].signal \in S
  BY <1>7, <1>8
<1>11. Queried(Q, S, {"g"})
  BY <1>9, <1>10, ListQueried
<1> QED
  BY <1>4, <1>11

LEMMA TasteQueriesFacts ==
    ASSUME NEW S, Weighed(S), NEW anchors \in Seq(S)
    PROVE  Queried(TasteQueries(S, anchors), S, {"t"})
<1> DEFINE Combined(s) ==
              IF s.target # None
              THEN <<[signal |-> s, text |-> Text(<<"related">>, WithTarget(s)), anchor |-> None]>>
              ELSE [i \in 1 .. Len(anchors) |->
                      [ signal |-> s, anchor |-> anchors[i],
                        text |-> Text(<<"related", "among">>, <<anchors[i].value, s.value>>) ]]
           tastes == Tastes(S, "content")
           seqs == [i \in 1 .. Len(tastes) |-> Combined(tastes[i])]
           all == Take(FlattenSeq(seqs), MAX_TASTE_QUERIES)
           Q == [i \in 1 .. Len(all) |->
                    Query("t", i, all[i].signal, Modes, "content", all[i].text, all[i].anchor)]
<1>1. TasteQueries(S, anchors) = Q
  BY DEF TasteQueries
<1>2. tastes \in Seq(S)
  BY TastesFacts
<1>3. Len(tastes) \in Nat /\ \A i \in 1 .. Len(tastes) : tastes[i] \in S
  <2> HIDE DEF tastes
  <2> QED
    BY <1>2, LenProperties, ElementOfSeq
<1>4. Len(anchors) \in Nat /\ \A i \in 1 .. Len(anchors) : anchors[i] \in S
  BY LenProperties, ElementOfSeq
<1> DEFINE alone(s) == Text(<<"related">>, WithTarget(s))
           joined(a, s) == Text(<<"related", "among">>, <<a.value, s.value>>)
           texts == {alone(s) : s \in S} \cup {joined(p[1], p[2]) : p \in S \X S}
<1>5. /\ \A s \in S : alone(s) \in texts
      /\ \A a, s \in S : joined(a, s) \in texts
  <2> HIDE DEF alone, joined
  <2>1. ASSUME NEW a \in S, NEW s \in S PROVE joined(a, s) \in texts
    <3>1. PICK p : p = <<a, s>>
      OBVIOUS
    <3>2. p \in S \X S /\ p[1] = a /\ p[2] = s
      BY <3>1
    <3> QED
      BY <3>2
  <2> QED
    BY <2>1
<1> HIDE DEF texts
<1>6. PICK A : A = [signal : S, text : texts, anchor : S \cup {None}]
  OBVIOUS
<1>7. ASSUME NEW s \in S
      PROVE  Combined(s) \in Seq(A)
  <2>1. CASE s.target # None
    <3>1. PICK r : r = [signal |-> s, text |-> Text(<<"related">>, WithTarget(s)), anchor |-> None]
      OBVIOUS
    <3>2. r \in A
      BY <1>5, <1>6, <3>1
    <3>3. Combined(s) = <<r>>
      BY <2>1, <3>1
    <3> HIDE DEF Combined
    <3> QED
      BY <3>2, <3>3
  <2>2. CASE ~(s.target # None)
    <3>1. PICK c : c = [i \in 1 .. Len(anchors) |->
                      [ signal |-> s, anchor |-> anchors[i],
                        text |-> Text(<<"related", "among">>, <<anchors[i].value, s.value>>) ]]
      OBVIOUS
    <3>2. ASSUME NEW i \in 1 .. Len(anchors)
          PROVE  c[i] \in A
      <4>1. anchors[i] \in S
        BY <1>4
      <4>2. Text(<<"related", "among">>, <<anchors[i].value, s.value>>) \in texts
        BY <1>5, <4>1
      <4> QED
        BY <1>6, <3>1, <4>1, <4>2
    <3>3. c \in [1 .. Len(anchors) -> A]
      BY <3>1, <3>2
    <3>4. c \in Seq(A)
      BY <1>4, <3>3, FunctionIsSeq
    <3> QED
      BY <2>2, <3>1, <3>4
  <2> QED
    BY <2>1, <2>2
<1> HIDE DEF Combined, tastes
<1>8. seqs \in [1 .. Len(tastes) -> Seq(A)]
  BY <1>3, <1>7
<1> HIDE DEF seqs
<1>9. all \in Seq(A)
  BY <1>3, <1>8, FlattenFacts, TakeFacts, QueryConstants
<1> HIDE DEF all
<1>10. Len(all) \in Nat /\ \A i \in 1 .. Len(all) : all[i] \in A
  BY <1>9, LenProperties, ElementOfSeq
<1>11. \A i \in 1 .. Len(all) : Q[i].kind = "t" /\ Q[i].n = i /\ Q[i].signal \in S
  BY <1>6, <1>10 DEF Query
<1>12. Q = [i \in 1 .. Len(all) |-> Q[i]]
  OBVIOUS
<1> HIDE DEF Q
<1>13. PICK N \in Nat : N = Len(all)
  BY <1>10
<1>14. Q = [i \in 1 .. N |-> Q[i]]
  BY <1>12, <1>13
<1>15. \A i \in 1 .. N : Q[i].kind = "t" /\ Q[i].n = i /\ Q[i].signal \in S
  BY <1>11, <1>13
<1>16. Queried(Q, S, {"t"})
  BY <1>14, <1>15, ListQueried
<1> QED
  BY <1>1, <1>16

LEMMA SituationQueriesFacts ==
    ASSUME NEW S, Weighed(S), NEW anchors
    PROVE  Queried(SituationQueries(S, anchors), S, {"s"})
<1>1. PICK situations : situations = Take(Tastes(S, "situation"), MAX_SITUATION_QUERIES)
  OBVIOUS
<1>2. situations \in Seq(S)
  BY <1>1, TastesFacts, TakeFacts, QueryConstants
<1>3. Len(situations) \in Nat /\ \A i \in 1 .. Len(situations) : situations[i] \in S
  BY <1>2, LenProperties, ElementOfSeq
<1>4. PICK Q : Q = SituationQueries(S, anchors)
  OBVIOUS
<1>5. Q = [i \in 1 .. Len(situations) |-> Q[i]]
  BY <1>1, <1>4 DEF SituationQueries
<1>6. \A i \in 1 .. Len(situations) : Q[i].kind = "s" /\ Q[i].n = i /\ Q[i].signal \in S
  BY <1>1, <1>3, <1>4 DEF SituationQueries, Query
<1>7. PICK N \in Nat : N = Len(situations)
  BY <1>3
<1>8. Q = [i \in 1 .. N |-> Q[i]]
  BY <1>5, <1>7
<1>9. \A i \in 1 .. N : Q[i].kind = "s" /\ Q[i].n = i /\ Q[i].signal \in S
  BY <1>6, <1>7
<1>10. Queried(Q, S, {"s"})
  BY <1>8, <1>9, ListQueried
<1> QED
  BY <1>4, <1>10

\* The queries of a request are about its signals.
SearchKinds == {"q", "g", "t", "s"}

LEMMA SearchQueriesFacts ==
    ASSUME NEW S, Weighed(S), NEW known
    PROVE  Queried(BuildSearchQueries(S, known), S, SearchKinds)
<1> DEFINE interests == Interests(S)
           shared == {i \in DOMAIN interests : interests[i].field \in {"interests", "hobbies"}}
           anchors == Take(At(interests, shared), MAX_CROSS_INTERESTS)
           a == InterestQueries(interests, known)
           b == GiftQueries(interests, known)
           c == TasteQueries(S, anchors)
           d == SituationQueries(S, anchors)
           Q == a \o b \o c \o d
           Same(i, j) == Q[i].space = Q[j].space /\ Q[i].text = Q[j].text
           P == {i \in DOMAIN Q : \A j \in 1 .. i - 1 : ~Same(i, j)}
<1>1. interests \in Seq(S)
  BY InterestsFacts
<1>2. anchors \in Seq(S)
  <2> HIDE DEF interests
  <2> QED
    BY <1>1, AtSeq, TakeFacts, QueryConstants
<1>3. BuildSearchQueries(S, known) = At(Q, P)
  BY DEF BuildSearchQueries, UniqueTexts
<1> HIDE DEF interests, anchors
<1>4. Queried(a, S, {"q"}) /\ Queried(b, S, {"g"}) /\ Queried(c, S, {"t"}) /\ Queried(d, S, {"s"})
  BY <1>1, <1>2, InterestQueriesFacts, GiftQueriesFacts, TasteQueriesFacts, SituationQueriesFacts
<1> HIDE DEF a, b, c, d
<1>5. Queried(a \o b, S, {"q"} \cup {"g"})
  <2>1. {"q"} \cap {"g"} = {}
    OBVIOUS
  <2> QED
    BY <1>4, <2>1, ConcatQueried
<1>6. Queried((a \o b) \o c, S, ({"q"} \cup {"g"}) \cup {"t"})
  <2>1. ({"q"} \cup {"g"}) \cap {"t"} = {}
    OBVIOUS
  <2> QED
    BY <1>4, <1>5, <2>1, ConcatQueried
<1>7. Queried(Q, S, (({"q"} \cup {"g"}) \cup {"t"}) \cup {"s"})
  <2>1. (({"q"} \cup {"g"}) \cup {"t"}) \cap {"s"} = {}
    OBVIOUS
  <2> QED
    BY <1>4, <1>6, <2>1, ConcatQueried
<1>8. (({"q"} \cup {"g"}) \cup {"t"}) \cup {"s"} = SearchKinds
  BY DEF SearchKinds
<1>9. P \in SUBSET (DOMAIN Q)
  OBVIOUS
<1> HIDE DEF Q, P
<1> QED
  BY <1>3, <1>7, <1>8, <1>9, AtQueried

LEMMA ExploreQueriesFacts ==
    ASSUME NEW Q, NEW S, NEW kinds, Queried(Q, S, kinds), NEW known
    PROVE  Queried(BuildExploreQueries(Q, known), S, {"e"})
<1> DEFINE judged == {i \in DOMAIN Q : IsCoverage(Q[i]) /\ Key(Q[i].signal) \in known}
           Same(i, j) == Key(Q[i].signal) = Key(Q[j].signal)
           P == {i \in judged : \A j \in judged : j < i => ~Same(i, j)}
           first == At(Q, P)
           E == [i \in 1 .. Len(first) |->
                    Query("e", i, first[i].signal, Modes, "content",
                          Text(<<"explore">>, Key(first[i].signal)), None)]
<1>1. BuildExploreQueries(Q, known) = E
  BY DEF BuildExploreQueries
<1>2. P \in SUBSET (DOMAIN Q)
  OBVIOUS
<1> HIDE DEF P
<1>3. Queried(first, S, kinds)
  BY <1>2, AtQueried
<1> HIDE DEF first
<1>4. Len(first) \in Nat /\ \A i \in 1 .. Len(first) : first[i].signal \in S
  <2>1. PICK A : first \in Seq(A)
    BY <1>3 DEF Queried
  <2>2. Len(first) \in Nat
    BY <2>1, LenProperties
  <2> QED
    BY <1>3, <2>2 DEF Queried
<1>5. E = [i \in 1 .. Len(first) |-> E[i]]
  OBVIOUS
<1>6. \A i \in 1 .. Len(first) : E[i].kind = "e" /\ E[i].n = i /\ E[i].signal \in S
  BY <1>4 DEF Query
<1> HIDE DEF E
<1>7. PICK N \in Nat : N = Len(first)
  BY <1>4
<1>8. E = [i \in 1 .. N |-> E[i]]
  BY <1>5, <1>7
<1>9. \A i \in 1 .. N : E[i].kind = "e" /\ E[i].n = i /\ E[i].signal \in S
  BY <1>6, <1>7
<1>10. Queried(E, S, {"e"})
  BY <1>8, <1>9, ListQueried
<1> QED
  BY <1>1, <1>10

-----------------------------------------------------------------------------
(* Ranking, of any finitely many candidates, one for each product.            *)

Kinds == DOMAIN KindOrder

Rankable(C, MS) ==
    /\ IsFiniteSet(C) /\ C \subseteq [product : Products, score : Int, matches : Seq(MS)]
    /\ \A i, j \in C : i.product = j.product => i = j
    /\ \A m \in MS : m.query.kind \in Kinds /\ m.query.n \in Nat

LEMMA SomeRankable ==
    ASSUME NEW C, NEW MS, Rankable(C, MS), NEW D \in SUBSET C
    PROVE  Rankable(D, MS)
BY FS_Subset DEF Rankable

\* q lists the candidates by score, and those of a score by product.
InOrder(q, C, N) ==
    /\ N \in Nat /\ N = Cardinality(C) /\ q \in [1 .. N -> C] /\ q \in Seq(C) /\ Len(q) = N
    /\ \A m, n \in 1 .. N : m < n => Ahead(q[m], q[n])
    /\ \A m, n \in 1 .. N : q[m] = q[n] => m = n
    /\ \A x \in C : \E n \in 1 .. N : q[n] = x

LEMMA ByScoreFacts ==
    ASSUME NEW C, NEW MS, Rankable(C, MS)
    PROVE  \E N : InOrder(ByScore(C), C, N)
<1>1. IsFiniteSet(C) /\ \A i \in C : i.score \in Int /\ i.product \in Int
  BY DEF Rankable, Products
<1>2. \A i, j \in C : i.product = j.product => i = j
  BY DEF Rankable
<1>3. PICK R : R = {p \in C \X C : Ahead(p[1], p[2])}
  OBVIOUS
<1>4. \A i, j \in C : <<i, j>> \in R <=> Ahead(i, j)
  BY <1>3
<1>5. StrictOrder(R, C)
  <2>1. \A i \in C : ~Ahead(i, i)
    BY <1>1 DEF Ahead
  <2>2. \A i, j, k \in C : Ahead(i, j) /\ Ahead(j, k) => Ahead(i, k)
    BY <1>1 DEF Ahead
  <2>3. \A i, j \in C : i # j => Ahead(i, j) \/ Ahead(j, i)
    BY <1>1, <1>2 DEF Ahead
  <2> QED
    BY <1>4, <2>1, <2>2, <2>3 DEF StrictOrder
<1>6. PICK q : q = ByScore(C)
  OBVIOUS
<1>7. PutInOrder(q, R, C)
  <2> DEFINE F(n) == CHOOSE x \in C : Cardinality({y \in C : Ahead(y, x)}) = n - 1
  <2>1. q = [n \in 1 .. Cardinality(C) |-> F(n)]
    BY <1>6 DEF ByScore, Ordered
  <2>2. ASSUME NEW n \in 1 .. Cardinality(C), NEW x \in C, PlaceOf(R, C, x) = n - 1
        PROVE  q[n] \in C /\ PlaceOf(R, C, q[n]) = n - 1
    <3>1. ASSUME NEW z \in C PROVE {y \in C : Ahead(y, z)} = BeforeIn(R, C, z)
      BY <1>4 DEF BeforeIn
    <3>2. Cardinality({y \in C : Ahead(y, x)}) = n - 1
      BY <2>2, <3>1 DEF PlaceOf
    <3>3. F(n) \in C /\ Cardinality({y \in C : Ahead(y, F(n))}) = n - 1
      BY <3>2
    <3> HIDE DEF F
    <3>4. q[n] = F(n)
      BY <2>1
    <3> QED
      BY <3>1, <3>3, <3>4 DEF PlaceOf
  <2> HIDE DEF F
  <2>3. q = [n \in 1 .. Cardinality(C) |-> q[n]]
    BY <2>1
  <2> QED
    BY <2>2, <2>3 DEF PutInOrder
<1>8. \E N \in Nat :
          /\ N = Cardinality(C) /\ q \in [1 .. N -> C] /\ q \in Seq(C) /\ Len(q) = N
          /\ \A m, n \in 1 .. N : m < n => <<q[m], q[n]>> \in R
          /\ \A m, n \in 1 .. N : q[m] = q[n] => m = n
          /\ \A x \in C : \E n \in 1 .. N : q[n] = x
  BY <1>1, <1>5, <1>7, OrderedFacts
<1>9. PICK N \in Nat :
          /\ N = Cardinality(C) /\ q \in [1 .. N -> C] /\ q \in Seq(C) /\ Len(q) = N
          /\ \A m, n \in 1 .. N : m < n => <<q[m], q[n]>> \in R
          /\ \A m, n \in 1 .. N : q[m] = q[n] => m = n
          /\ \A x \in C : \E n \in 1 .. N : q[n] = x
  BY <1>8
<1>10. ASSUME NEW m \in 1 .. N, NEW n \in 1 .. N, m < n
       PROVE  Ahead(q[m], q[n])
  <2>1. q[m] \in C /\ q[n] \in C /\ <<q[m], q[n]>> \in R
    BY <1>9, <1>10
  <2> QED
    BY <1>4, <2>1
<1>11. InOrder(q, C, N)
  BY <1>9, <1>10 DEF InOrder
<1> QED
  BY <1>6, <1>11

LEMMA BestFacts ==
    ASSUME NEW C, NEW MS, Rankable(C, MS), C # {}
    PROVE  Best(C) \in C /\ \A j \in C : ~Ahead(j, Best(C))
<1>1. PICK q, N : InOrder(q, C, N)
  BY ByScoreFacts
<1>2. \A i \in C : i.score \in Int /\ i.product \in Int
  BY DEF Rankable, Products
<1>3. 1 \in 1 .. N
  <2>1. PICK x \in C : TRUE
    OBVIOUS
  <2>2. PICK n \in 1 .. N : q[n] = x
    BY <1>1, <2>1 DEF InOrder
  <2>3. N \in Nat
    BY <1>1 DEF InOrder
  <2> QED
    BY <2>2, <2>3
<1>4. ASSUME NEW j \in C
      PROVE  ~Ahead(j, q[1])
  <2>1. PICK n \in 1 .. N : q[n] = j
    BY <1>1 DEF InOrder
  <2>2. n = 1 \/ 1 < n
    BY <2>1
  <2>3. q[1] \in C /\ (n = 1 \/ Ahead(q[1], j))
    BY <1>1, <1>3, <2>1, <2>2 DEF InOrder
  <2> QED
    BY <1>2, <2>1, <2>3 DEF Ahead
<1>5. q[1] \in C
  BY <1>1, <1>3 DEF InOrder
<1> QED
  BY <1>4, <1>5 DEF Best

\* The new products of a list are some of the new ones there are, and not more
\* than asked for.
AtMost(X, C, limit) ==
    X \in SUBSET C /\ IsFiniteSet(X) /\ Cardinality(X) \in Nat /\ Cardinality(X) <= limit

LEMMA PickExploreFacts ==
    ASSUME NEW C, NEW MS, Rankable(C, MS), NEW total \in Nat, NEW per_signal
    PROVE  AtMost(PickExplore(C, total, per_signal), C, total)
<1> DEFINE ranked == ByScore(C)
           I == DOMAIN ranked
           Same(i) == {j \in I : ranked[j].matches[1].query = ranked[i].matches[1].query}
           group == [i \in I |-> Min(Same(i))]
           depth == [i \in I |-> Cardinality({j \in Same(i) : j < i})]
           P == {i \in I : depth[i] < per_signal}
           Sooner(i, j) == depth[i] < depth[j] \/ (depth[i] = depth[j] /\ group[i] < group[j])
           turns == Ordered(P, Sooner)
           served == {m \in DOMAIN turns : m <= total}
<1>1. PickExplore(C, total, per_signal) = {ranked[turns[n]] : n \in served}
  BY DEF PickExplore
<1>2. PICK N : InOrder(ranked, C, N)
  BY ByScoreFacts
<1> HIDE DEF ranked
<1>3. N \in Nat /\ I = 1 .. N /\ \A i \in I : ranked[i] \in C
  BY <1>2 DEF InOrder
<1>4. PICK same : same = [i \in I |-> Same(i)]
  OBVIOUS
<1>5. /\ \A i \in I : Same(i) \in SUBSET I /\ i \in Same(i)
      /\ \A i, j \in I : j \in Same(i) => Same(j) = Same(i)
  OBVIOUS
<1> HIDE DEF Same, I
<1>6. ASSUME NEW i \in I
      PROVE  group[i] \in Same(i) /\ depth[i] \in Nat
  <2>1. Same(i) \in SUBSET (1 .. N) /\ Same(i) # {}
    BY <1>3, <1>5
  <2>2. \E j \in Same(i) : \A k \in Same(i) : j <= k
    BY <1>3, <2>1, FirstPlace
  <2>3. {j \in Same(i) : j < i} \in SUBSET (1 .. N)
    BY <2>1
  <2>4. Cardinality({j \in Same(i) : j < i}) \in Nat
    BY <1>3, <2>3, PlacesFinite
  <2> QED
    BY <2>2, <2>4 DEF Min
<1>7. TurnsOf(same, group, depth, N)
  <2>1. group \in [I -> I]
    BY <1>5, <1>6
  <2>2. depth \in [I -> Nat]
    BY <1>6
  <2>3. same \in [I -> SUBSET I] /\ \A i \in I : same[i] = Same(i)
    BY <1>4, <1>5
  <2>4. \A i \in I : depth[i] = Cardinality({j \in same[i] : j < i})
    BY <2>3
  <2> HIDE DEF group, depth
  <2>5. \A i \in I : i \in same[i] /\ group[i] \in same[i]
    BY <1>5, <1>6, <2>3
  <2>6. \A i, j \in I : j \in same[i] => same[j] = same[i]
    BY <1>5, <2>3
  <2> QED
    BY <1>3, <2>1, <2>2, <2>3, <2>4, <2>5, <2>6 DEF TurnsOf
<1>8. P \in SUBSET (1 .. N) /\ P \in SUBSET I
  BY <1>3
<1> HIDE DEF group, depth, P
<1>9. PICK R : R = TurnBefore(group, depth, P)
  OBVIOUS
<1>10. StrictOrder(R, P)
  BY <1>3, <1>7, <1>8, <1>9, RoundRobin
<1>11. IsFiniteSet(P)
  BY <1>3, <1>8, PlacesFinite
<1>12. \E M \in Nat : M = Cardinality(P) /\ turns \in [1 .. M -> P]
  <2>1. \A i, j \in P : <<i, j>> \in R <=> Sooner(i, j)
    BY <1>9 DEF TurnBefore
  <2> DEFINE F(n) == CHOOSE x \in P : Cardinality({y \in P : Sooner(y, x)}) = n - 1
  <2>2. turns = [n \in 1 .. Cardinality(P) |-> F(n)]
    BY DEF Ordered
  <2> HIDE DEF turns, Sooner
  <2>3. PutInOrder(turns, R, P)
    <3>1. ASSUME NEW n \in 1 .. Cardinality(P), NEW x \in P, PlaceOf(R, P, x) = n - 1
          PROVE  turns[n] \in P /\ PlaceOf(R, P, turns[n]) = n - 1
      <4>1. ASSUME NEW z \in P PROVE {y \in P : Sooner(y, z)} = BeforeIn(R, P, z)
        BY <2>1 DEF BeforeIn
      <4>2. Cardinality({y \in P : Sooner(y, x)}) = n - 1
        BY <3>1, <4>1 DEF PlaceOf
      <4>3. F(n) \in P /\ Cardinality({y \in P : Sooner(y, F(n))}) = n - 1
        BY <4>2
      <4> HIDE DEF F
      <4>4. turns[n] = F(n)
        BY <2>2
      <4> QED
        BY <4>1, <4>3, <4>4 DEF PlaceOf
    <3> HIDE DEF F
    <3>2. turns = [n \in 1 .. Cardinality(P) |-> turns[n]]
      BY <2>2
    <3> QED
      BY <3>1, <3>2 DEF PutInOrder
  <2> QED
    BY <1>10, <1>11, <2>3, OrderedFacts
<1>13. PICK M \in Nat : turns \in [1 .. M -> P]
  BY <1>12
<1> HIDE DEF turns, Sooner
<1>14. served \in SUBSET (1 .. total) /\ \A n \in served : ranked[turns[n]] \in C
  <2>1. ASSUME NEW n \in served
        PROVE  n \in 1 .. total /\ ranked[turns[n]] \in C
    <3>1. n \in 1 .. M /\ n <= total
      BY <1>13
    <3>2. turns[n] \in I
      BY <1>8, <1>13, <3>1
    <3> QED
      BY <1>3, <3>1, <3>2
  <2> QED
    BY <2>1
<1> HIDE DEF served
<1>15. IsFiniteSet(served) /\ Cardinality(served) \in Nat /\ Cardinality(served) <= total
  BY <1>14, PlacesFinite
<1>16. PICK f : f = [n \in served |-> ranked[turns[n]]]
  OBVIOUS
<1>17. PickExplore(C, total, per_signal) = {f[n] : n \in served}
  BY <1>1, <1>16
<1>18. /\ IsFiniteSet(PickExplore(C, total, per_signal))
       /\ Cardinality(PickExplore(C, total, per_signal)) \in Nat
       /\ Cardinality(PickExplore(C, total, per_signal)) <= Cardinality(served)
  BY <1>15, <1>17, Image
<1>19. PickExplore(C, total, per_signal) \in SUBSET C
  BY <1>1, <1>14
<1>20. Cardinality(PickExplore(C, total, per_signal)) <= total
  BY <1>15, <1>18
<1> QED
  BY <1>18, <1>19, <1>20 DEF AtMost

Ids == [kind : Kinds, n : Nat]

LEMMA KindFacts ==
    /\ Kinds = {"g", "q", "s", "t", "e"}
    /\ \A k \in Kinds : KindOrder[k] \in Nat
    /\ \A k, l \in Kinds : KindOrder[k] = KindOrder[l] => k = l
<1>1. Kinds = {"g", "q", "s", "t", "e"}
  BY DEF Kinds, KindOrder
<1>2. /\ KindOrder["g"] = 2 /\ KindOrder["q"] = 3 /\ KindOrder["s"] = 4
      /\ KindOrder["t"] = 5 /\ KindOrder["e"] = 1
  BY DEF KindOrder
<1> QED
  BY <1>1, <1>2

LEMMA QueriesOfFacts ==
    ASSUME NEW C, NEW MS, Rankable(C, MS)
    PROVE  /\ \A i \in C : IsFiniteSet(QueriesOf(i)) /\ QueriesOf(i) \in SUBSET Ids
           /\ IsFiniteSet(UNION {QueriesOf(i) : i \in C})
           /\ UNION {QueriesOf(i) : i \in C} \in SUBSET Ids
<1>1. ASSUME NEW i \in C
      PROVE  IsFiniteSet(QueriesOf(i)) /\ QueriesOf(i) \in SUBSET Ids
  <2>1. i.matches \in Seq(MS)
    BY DEF Rankable
  <2>2. PICK I : I = DOMAIN i.matches
    OBVIOUS
  <2>3. Len(i.matches) \in Nat /\ I = 1 .. Len(i.matches) /\ \A j \in I : i.matches[j] \in MS
    BY <2>1, <2>2, LenProperties, ElementOfSeq
  <2>4. IsFiniteSet(I)
    BY <2>3, PlacesFinite
  <2>5. PICK f : f = [j \in I |-> [kind |-> i.matches[j].query.kind, n |-> i.matches[j].query.n]]
    OBVIOUS
  <2>6. QueriesOf(i) = {f[j] : j \in I}
    BY <2>2, <2>5 DEF QueriesOf
  <2>7. \A j \in I : f[j] \in Ids
    BY <2>3, <2>5 DEF Rankable, Ids
  <2> QED
    BY <2>4, <2>6, <2>7, Image
<1>2. PICK F : F = [i \in C |-> QueriesOf(i)]
  OBVIOUS
<1>3. PICK T : T = {F[i] : i \in C}
  OBVIOUS
<1>4. IsFiniteSet(T)
  BY <1>3, Image DEF Rankable
<1>5. T = {QueriesOf(i) : i \in C}
  BY <1>2, <1>3
<1>6. IsFiniteSet(UNION T)
  BY <1>1, <1>4, <1>5, FS_UNION
<1> QED
  BY <1>1, <1>5, <1>6

IdList(U) == Ordered(U, IdBefore)

Lists(ids, U) ==
    /\ Cardinality(U) \in Nat /\ Len(ids) = Cardinality(U)
    /\ ids \in [1 .. Cardinality(U) -> U]
    /\ \A x \in U : \E n \in 1 .. Cardinality(U) : ids[n] = x

LEMMA IdsInOrder ==
    ASSUME NEW U, U \in SUBSET Ids, IsFiniteSet(U)
    PROVE  Lists(IdList(U), U)
<1>13. PICK ids : ids = IdList(U)
  OBVIOUS
<1>1. \A a \in U : a.kind \in Kinds /\ KindOrder[a.kind] \in Nat /\ a.n \in Nat
  BY KindFacts DEF Ids
<1>2. \A a, b \in U : KindOrder[a.kind] = KindOrder[b.kind] /\ a.n = b.n => a = b
  <2>1. \A a, b \in U : a.kind = b.kind /\ a.n = b.n => a = b
    BY DEF Ids
  <2> QED
    BY <1>1, <2>1, KindFacts
<1>3. \A a, b \in U : a.kind = b.kind <=> KindOrder[a.kind] = KindOrder[b.kind]
  BY <1>1, KindFacts
<1>4. PICK R : R = {p \in U \X U : IdBefore(p[1], p[2])}
  OBVIOUS
<1>5. \A a, b \in U : <<a, b>> \in R <=> IdBefore(a, b)
  BY <1>4
<1>8. PICK f : f = [a \in U |-> KindOrder[a.kind]]
  OBVIOUS
<1>9. PICK g : g = [a \in U |-> a.n]
  OBVIOUS
<1>10. \A a \in U : f[a] \in Nat /\ g[a] \in Nat
  BY <1>1, <1>8, <1>9
<1>11. \A a, b \in U : f[a] = f[b] /\ g[a] = g[b] => a = b
  BY <1>2, <1>8, <1>9
<1>12. \A a, b \in U : <<a, b>> \in R <=> (f[a] < f[b] \/ (f[a] = f[b] /\ g[a] < g[b]))
  <2> SUFFICES ASSUME NEW a \in U, NEW b \in U
               PROVE  IdBefore(a, b) <=> (f[a] < f[b] \/ (f[a] = f[b] /\ g[a] < g[b]))
    BY <1>5
  <2>1. f[a] = KindOrder[a.kind] /\ f[b] = KindOrder[b.kind] /\ g[a] = a.n /\ g[b] = b.n
    BY <1>8, <1>9
  <2>2. a.kind = b.kind <=> f[a] = f[b]
    BY <1>3, <2>1
  <2> QED
    BY <2>1, <2>2 DEF IdBefore
<1>6. StrictOrder(R, U)
  <2>1. \A a \in U : <<a, a>> \notin R
    BY <1>10, <1>12
  <2>2. \A a, b, c \in U : <<a, b>> \in R /\ <<b, c>> \in R => <<a, c>> \in R
    BY <1>10, <1>12
  <2>3. \A a, b \in U : a # b => <<a, b>> \in R \/ <<b, a>> \in R
    BY <1>10, <1>11, <1>12
  <2> QED
    BY <2>1, <2>2, <2>3 DEF StrictOrder
<1>7. PutInOrder(ids, R, U)
  <2> DEFINE F(n) == CHOOSE x \in U : Cardinality({y \in U : IdBefore(y, x)}) = n - 1
  <2>1. ids = [n \in 1 .. Cardinality(U) |-> F(n)]
    BY <1>13 DEF IdList, Ordered
  <2>2. ASSUME NEW n \in 1 .. Cardinality(U), NEW x \in U, PlaceOf(R, U, x) = n - 1
        PROVE  ids[n] \in U /\ PlaceOf(R, U, ids[n]) = n - 1
    <3>1. ASSUME NEW z \in U PROVE {y \in U : IdBefore(y, z)} = BeforeIn(R, U, z)
      BY <1>5 DEF BeforeIn
    <3>2. Cardinality({y \in U : IdBefore(y, x)}) = n - 1
      BY <2>2, <3>1 DEF PlaceOf
    <3>3. F(n) \in U /\ Cardinality({y \in U : IdBefore(y, F(n))}) = n - 1
      BY <3>2
    <3> HIDE DEF F
    <3>4. ids[n] = F(n)
      BY <2>1
    <3> QED
      BY <3>1, <3>3, <3>4 DEF PlaceOf
  <2> HIDE DEF F
  <2>3. ids = [n \in 1 .. Cardinality(U) |-> ids[n]]
    BY <2>1
  <2> QED
    BY <2>2, <2>3 DEF PutInOrder
<1>14. /\ Cardinality(U) \in Nat /\ Len(ids) = Cardinality(U)
       /\ ids \in [1 .. Cardinality(U) -> U]
       /\ \A x \in U : \E n \in 1 .. Cardinality(U) : ids[n] = x
  BY <1>6, <1>7, OrderedFacts
<1> QED
  BY <1>13, <1>14 DEF Lists

\* One step of the rounds: what is kept stays, and there is room for what is taken.
After(kept, limit, choice) ==
    IF choice = {} \/ Cardinality(kept) = limit THEN kept ELSE kept \cup {Best(choice)}

LEMMA AfterFacts ==
    ASSUME NEW C, NEW MS, Rankable(C, MS), NEW limit \in Nat, NEW kept \in SUBSET C,
           Cardinality(kept) <= limit, NEW choice \in SUBSET (C \ kept), NEW next,
           next = After(kept, limit, choice)
    PROVE  /\ kept \in SUBSET next /\ next \in SUBSET C
           /\ Cardinality(next) <= limit /\ Cardinality(next) <= Cardinality(kept) + 1
           /\ choice # {} /\ Cardinality(kept) < limit => next \cap choice # {}
<1>1. IsFiniteSet(kept) /\ Cardinality(kept) \in Nat
  BY FS_Subset, FS_CardinalityType DEF Rankable
<1>2. CASE choice = {} \/ Cardinality(kept) = limit
  <2>1. next = kept
    BY <1>2 DEF After
  <2> QED
    BY <1>1, <1>2, <2>1
<1>3. CASE ~(choice = {} \/ Cardinality(kept) = limit)
  <2>1. next = kept \cup {Best(choice)}
    BY <1>3 DEF After
  <2>2. choice \in SUBSET C /\ choice # {}
    BY <1>3
  <2>3. Best(choice) \in choice
    BY <2>2, SomeRankable, BestFacts
  <2>4. Cardinality(next) = Cardinality(kept) + 1
    BY <1>1, <2>1, <2>3, FS_AddElement
  <2>5. Cardinality(kept) + 1 <= limit
    BY <1>1, <1>3
  <2> QED
    BY <1>1, <2>1, <2>2, <2>3, <2>4, <2>5
<1> QED
  BY <1>2, <1>3

LEMMA AfterIn ==
    ASSUME NEW C, NEW MS, Rankable(C, MS), NEW limit, NEW kept \in SUBSET C, NEW choice \in SUBSET C
    PROVE  After(kept, limit, choice) \in SUBSET C
<1>1. choice # {} => Best(choice) \in choice
  BY SomeRankable, BestFacts
<1> QED
  BY <1>1 DEF After

AllIds(C) == UNION {QueriesOf(i) : i \in C}

\* Each query of the candidates has a product in X, if there is room for one of each.
Serves(X, C, limit) ==
    Cardinality(AllIds(C)) <= limit => \A id \in AllIds(C) : \E i \in X : id \in QueriesOf(i)

LEMMA SelectDiverseFacts ==
    ASSUME NEW C, NEW MS, Rankable(C, MS), NEW limit \in Nat, NEW mode \in Modes
    PROVE  /\ AtMost(SelectDiverse(C, limit, mode), C, limit)
           /\ Serves(SelectDiverse(C, limit, mode), C, limit)
<1>28. PICK X, U : X = SelectDiverse(C, limit, mode) /\ U = AllIds(C)
  OBVIOUS
<1> DEFINE ids == IdList(U)
           K == Len(ids)
           rounds == K * (1 + Cardinality(C))
           steps == rounds + Cardinality(C)
           floor == IF C = {} THEN 0 ELSE Best(C).score - RoundRobinGap[mode]
           May(n, i) == \/ n > rounds
                        \/ /\ ids[((n - 1) % K) + 1] \in QueriesOf(i)
                           /\ n <= K \/ i.score >= floor
           choice(k, n) == {i \in C \ k : May(n, i)}
           F(f) == [n \in 0 .. steps |-> IF n = 0 THEN {} ELSE After(f[n - 1], limit, choice(f[n - 1], n))]
           G(f) == [n \in 0 .. steps |->
                      IF n = 0 THEN {} ELSE TakeBest(f[n - 1], C, limit, LAMBDA i : May(n, i))]
           step == [x \in (SUBSET C) \X (1 .. steps) |->
                      After(x[1], limit, choice(x[1], x[2]))]
<1>1. X = (CHOOSE f : f = G(f))[steps]
  BY <1>28 DEF SelectDiverse, IdList, AllIds
<1>11. \A f : G(f) = F(f)
  BY DEF TakeBest, After
<1> HIDE DEF G
<1>2. U \in SUBSET Ids /\ IsFiniteSet(U)
  BY <1>28, QueriesOfFacts DEF AllIds
<1>3. /\ K \in Nat /\ K = Cardinality(U) /\ ids \in [1 .. K -> U]
      /\ \A x \in U : \E n \in 1 .. K : ids[n] = x
  <2>1. Lists(ids, U)
    BY <1>2, IdsInOrder
  <2> QED
    BY <2>1 DEF Lists
<1> HIDE DEF ids, K
<1>4. Cardinality(C) \in Nat
  BY FS_CardinalityType DEF Rankable
<1>5. rounds \in Nat /\ steps \in Nat /\ K <= rounds /\ K <= steps
  <2>1. PICK c \in Nat : c = Cardinality(C)
    BY <1>4
  <2>2. PICK k \in Nat : k = K
    BY <1>3
  <2>3. k * c \in Nat /\ k * (1 + c) = k + k * c
    OBVIOUS
  <2> QED
    BY <2>1, <2>2, <2>3
<1> HIDE DEF rounds, steps, floor
<1>6. \A n \in 1 .. K : ((n - 1) % K) + 1 = n
  BY <1>3
<1>7. \A n \in 1 .. K, i \in C : ids[n] \in QueriesOf(i) => May(n, i)
  BY <1>6
<1>23. \A k, n, j : n \in 1 .. K /\ j \in choice(k, n) => ids[n] \in QueriesOf(j)
  BY <1>3, <1>5, <1>6
<1> HIDE DEF May
<1>8. \A k, n : choice(k, n) \in SUBSET (C \ k)
  OBVIOUS
<1>9. \A k, n, i : n \in 1 .. K /\ i \in C \ k /\ ids[n] \in QueriesOf(i) => i \in choice(k, n)
  BY <1>7
<1>10. \A n \in 1 .. K : ids[n] \in U
  BY <1>3
<1> HIDE DEF choice
<1>12. ASSUME NEW k \in SUBSET C, NEW n, Cardinality(k) <= limit, NEW next, next = After(k, limit, choice(k, n))
       PROVE  /\ k \in SUBSET next /\ next \in SUBSET C
              /\ Cardinality(next) <= limit /\ Cardinality(next) <= Cardinality(k) + 1
              /\ choice(k, n) # {} /\ Cardinality(k) < limit => next \cap choice(k, n) # {}
  BY <1>8, <1>12, AfterFacts
<1>13. step \in [(SUBSET C) \X (1 .. steps) -> SUBSET C]
  <2>1. ASSUME NEW x \in (SUBSET C) \X (1 .. steps)
        PROVE  After(x[1], limit, choice(x[1], x[2])) \in SUBSET C
    <3>1. x[1] \in SUBSET C /\ choice(x[1], x[2]) \in SUBSET C
      BY <1>8
    <3> QED
      BY <3>1, AfterIn
  <2> QED
    BY <2>1
<1> HIDE DEF step
<1>14. PICK h : Follows(h, steps, SUBSET C, {}, step)
  <2>1. {} \in SUBSET C
    OBVIOUS
  <2> QED
    BY <1>5, <1>13, <2>1, Recursion
<1>15. /\ h \in [0 .. steps -> SUBSET C] /\ h[0] = {}
       /\ \A n \in 1 .. steps : h[n] = step[<<h[n - 1], n>>]
  BY <1>14 DEF Follows
<1>16. h = F(h)
  <2>1. ASSUME NEW n \in 1 .. steps
        PROVE  h[n] = After(h[n - 1], limit, choice(h[n - 1], n))
    <3>1. n - 1 \in 0 .. steps
      BY <1>5
    <3>2. h[n - 1] \in SUBSET C
      BY <1>15, <3>1
    <3>3. PICK x : x = <<h[n - 1], n>>
      OBVIOUS
    <3>4. x \in (SUBSET C) \X (1 .. steps) /\ x[1] = h[n - 1] /\ x[2] = n
      BY <3>2, <3>3
    <3>5. h[n] = step[x]
      BY <1>15, <3>3
    <3> QED
      BY <3>4, <3>5 DEF step
  <2>2. \A n \in 0 .. steps : n = 0 \/ n \in 1 .. steps
    BY <1>5
  <2>3. \A n \in 0 .. steps : h[n] = IF n = 0 THEN {} ELSE After(h[n - 1], limit, choice(h[n - 1], n))
    BY <1>15, <2>1, <2>2
  <2> QED
    BY <1>15, <2>3
<1>17. PICK f : f = (CHOOSE x : x = G(x))
  OBVIOUS
<1>18. f = F(f)
  <2> HIDE DEF F
  <2> QED
    BY <1>11, <1>16, <1>17
<1>19. X = f[steps] /\ f[0] = {}
  <2>1. X = f[steps]
    BY <1>1, <1>17
  <2>2. 0 \in 0 .. steps
    BY <1>5
  <2>3. f[0] = {}
    BY <1>18, <2>2
  <2> QED
    BY <2>1, <2>3
<1>20. \A n \in 1 .. steps : f[n] = After(f[n - 1], limit, choice(f[n - 1], n))
  <2>1. \A n \in 1 .. steps : n \in 0 .. steps /\ n # 0
    BY <1>5
  <2> QED
    BY <1>18, <2>1
<1> HIDE DEF F
<1> DEFINE Served(n) == \A m \in 1 .. K : m <= n => \E i \in f[n] : ids[m] \in QueriesOf(i)
           T == {n \in 0 .. steps : /\ f[n] \in SUBSET C
                                    /\ Cardinality(f[n]) <= limit /\ Cardinality(f[n]) <= n
                                    /\ K <= limit => Served(n)}
<1>21. 0 \in T
  <2>1. Cardinality(f[0]) = 0 /\ 0 \in 0 .. steps
    BY <1>5, <1>19, FS_EmptySet
  <2>2. \A m \in 1 .. K : ~(m <= 0)
    BY <1>3
  <2> QED
    BY <1>19, <2>1, <2>2
<1>22. ASSUME NEW n \in 0 .. steps - 1, n \in T
       PROVE  n + 1 \in T
  <2>1. n + 1 \in 1 .. steps /\ n + 1 \in 0 .. steps /\ (n + 1) - 1 = n /\ n \in Nat
    BY <1>5
  <2>2. PICK k, next : k = f[n] /\ next = f[n + 1]
    OBVIOUS
  <2>3. next = After(k, limit, choice(k, n + 1))
    BY <1>20, <2>1, <2>2
  <2>4. k \in SUBSET C /\ Cardinality(k) <= limit /\ Cardinality(k) <= n
    BY <1>22, <2>2
  <2>5. /\ k \in SUBSET next /\ next \in SUBSET C
        /\ Cardinality(next) <= limit /\ Cardinality(next) <= Cardinality(k) + 1
        /\ choice(k, n + 1) # {} /\ Cardinality(k) < limit => next \cap choice(k, n + 1) # {}
    BY <1>12, <2>3, <2>4
  <2>6. Cardinality(k) \in Nat /\ Cardinality(next) \in Nat
    BY <2>4, <2>5, FS_Subset, FS_CardinalityType DEF Rankable
  <2>7. Cardinality(next) <= n + 1
    BY <2>1, <2>4, <2>5, <2>6
  <2>8. ASSUME K <= limit, NEW m \in 1 .. K, m <= n + 1
        PROVE  \E i \in next : ids[m] \in QueriesOf(i)
    <3>1. CASE m <= n
      <4>1. \E i \in k : ids[m] \in QueriesOf(i)
        BY <1>22, <2>2, <2>8, <3>1
      <4> QED
        BY <2>5, <4>1
    <3>2. CASE ~(m <= n)
      <4>1. m = n + 1 /\ n < limit
        BY <1>3, <2>1, <2>8, <3>2
      <4>2. PICK i \in C : ids[m] \in QueriesOf(i)
        BY <1>10, <1>28 DEF AllIds
      <4>3. CASE i \in k
        BY <2>5, <4>2, <4>3
      <4>4. CASE i \notin k
        <5>1. i \in choice(k, n + 1)
          BY <1>9, <4>1, <4>2, <4>4
        <5>2. Cardinality(k) < limit
          BY <2>1, <2>4, <2>6, <4>1
        <5>3. PICK j : j \in next /\ j \in choice(k, n + 1)
          BY <2>5, <5>1, <5>2
        <5>4. ids[n + 1] \in QueriesOf(j)
          BY <1>23, <4>1, <5>3
        <5> QED
          BY <4>1, <5>3, <5>4
      <4> QED
        BY <4>3, <4>4
    <3> QED
      BY <3>1, <3>2
  <2> QED
    BY <2>1, <2>2, <2>5, <2>7, <2>8
<1>24. steps \in T
  <2> HIDE DEF T
  <2>1. \A n \in 0 .. steps : n \in T
    BY <1>5, <1>21, <1>22, StepByStep
  <2>2. steps \in 0 .. steps
    BY <1>5
  <2> QED
    BY <2>1, <2>2
<1>25. X \in SUBSET C /\ Cardinality(X) <= limit
  BY <1>19, <1>24
<1>26. IsFiniteSet(X) /\ Cardinality(X) \in Nat
  BY <1>25, FS_Subset, FS_CardinalityType DEF Rankable
<1>27. ASSUME Cardinality(U) <= limit, NEW id \in U
       PROVE  \E i \in X : id \in QueriesOf(i)
  <2>1. PICK m \in 1 .. K : ids[m] = id
    BY <1>3
  <2>2. K <= limit /\ m <= steps
    BY <1>3, <1>5, <1>27
  <2>3. Served(steps)
    BY <1>24, <2>2
  <2> QED
    BY <1>19, <2>1, <2>2, <2>3
<1> QED
  BY <1>25, <1>26, <1>27, <1>28 DEF AtMost, Serves

\* Two kinds of products in one list: S by score, then E by score, no score
\* rising and no product twice.
TwoParts(L, S, E, s, e) ==
    /\ s \in Nat /\ s = Cardinality(S) /\ e \in Nat /\ e = Cardinality(E)
    /\ Len(L) = s + e /\ DOMAIN L = 1 .. s + e
    /\ \A n \in 1 .. s : L[n] \in S
    /\ \A x \in S : \E n \in 1 .. s : L[n] = x
    /\ \A n \in s + 1 .. s + e : \E x \in E : L[n].product = x.product /\ L[n].matches = x.matches
    /\ \A n \in 1 .. s + e : L[n].score \in Int
    /\ \A m, n \in 1 .. s + e : m < n => L[m].score >= L[n].score
    /\ \A m, n \in 1 .. s + e : L[m].product = L[n].product => m = n

\* The new products of a list as they stand in it: their scores are lowered to
\* those of the others.
Lowered(t, q, p, e, s) ==
    /\ \A n \in 1 .. e : /\ t[n].product = q[n].product /\ t[n].matches = q[n].matches
                         /\ t[n].score \in Int
                         /\ \A m \in 1 .. s : p[m].score >= t[n].score
    /\ \A m, n \in 1 .. e : m < n => t[m].score >= t[n].score

JoinsLowered(p, q, e, s) ==
    \E t, A : Joined(p, q) = p \o t /\ t \in [1 .. e -> A] /\ Lowered(t, q, p, e, s)

LEMMA LoweredFacts ==
    ASSUME NEW C, NEW MS, Rankable(C, MS), NEW S \in SUBSET C, NEW E \in SUBSET C,
           NEW p, NEW s, InOrder(p, S, s), NEW q, NEW e, InOrder(q, E, e)
    PROVE  JoinsLowered(p, q, e, s)
<1>1. \A i \in C : i \in [product : Products, score : Int, matches : Seq(MS)]
  BY DEF Rankable
<1>2. /\ s \in Nat /\ p \in Seq(S) /\ Len(p) = s /\ \A n \in 1 .. s : p[n] \in S
      /\ \A m, n \in 1 .. s : m < n => Ahead(p[m], p[n])
  BY DEF InOrder
<1>3. /\ e \in Nat /\ q \in Seq(E) /\ q \in [1 .. e -> E] /\ \A n \in 1 .. e : q[n] \in E
      /\ \A m, n \in 1 .. e : m < n => Ahead(q[m], q[n])
  BY DEF InOrder
<1>4. \A n \in 1 .. s : p[n].score \in Int
  BY <1>1, <1>2
<1>5. \A n \in 1 .. e : q[n].score \in Int /\ q[n] \in [product : Products, score : Int, matches : Seq(MS)]
  BY <1>1, <1>3
<1>6. ASSUME NEW m \in 1 .. e, NEW n \in 1 .. e, m < n
      PROVE  q[m].score >= q[n].score
  <2>1. Ahead(q[m], q[n])
    BY <1>3, <1>6
  <2>2. q[m].score \in Int /\ q[n].score \in Int
    BY <1>5
  <2> QED
    BY <2>1, <2>2 DEF Ahead
<1>7. CASE s = 0
  <2>1. p = <<>>
    <3>1. Len(p) \notin Nat \ {0}
      BY <1>2, <1>7
    <3> QED
      BY <1>2, <3>1, EmptySeq
  <2>2. Joined(p, q) = q
    BY <2>1 DEF Joined
  <2>3. p \o q = q
    BY <1>3, <2>1, ConcatEmptySeq
  <2>4. Lowered(q, q, p, e, s)
    BY <1>5, <1>6, <1>7 DEF Lowered
  <2> QED
    BY <1>3, <2>2, <2>3, <2>4 DEF JoinsLowered
<1>8. CASE s # 0
  <2>1. p # <<>>
    BY <1>2, <1>8
  <2>2. PICK c : c = p[s].score
    OBVIOUS
  <2>3. s \in 1 .. s
    BY <1>2, <1>8
  <2>4. c \in Int
    BY <1>4, <2>2, <2>3
  <2>5. ASSUME NEW m \in 1 .. s
        PROVE  p[m].score >= c
    <3>1. m = s \/ m < s
      BY <1>2
    <3>2. m = s \/ Ahead(p[m], p[s])
      BY <1>2, <2>3, <3>1
    <3> QED
      BY <1>4, <2>2, <2>3, <3>2 DEF Ahead
  <2>6. PICK t : t = [n \in 1 .. e |-> [q[n] EXCEPT !.score = Min({q[n].score, c})]]
    OBVIOUS
  <2>7. Joined(p, q) = p \o t
    <3>1. DOMAIN q = 1 .. e
      BY <1>3
    <3> QED
      BY <1>2, <2>1, <2>2, <2>6, <3>1 DEF Joined
  <2>8. ASSUME NEW n \in 1 .. e
        PROVE  /\ t[n].product = q[n].product /\ t[n].matches = q[n].matches
               /\ t[n].score = Min({q[n].score, c})
    <3>1. t[n] = [q[n] EXCEPT !.score = Min({q[n].score, c})]
      BY <2>6
    <3> QED
      BY <1>5, <3>1
  <2>9. ASSUME NEW n \in 1 .. e
        PROVE  /\ t[n].score \in Int /\ t[n].score <= c /\ t[n].score <= q[n].score
               /\ t[n].score = c \/ t[n].score = q[n].score
    <3>1. PICK x, y : x = q[n].score /\ y = Min({q[n].score, c})
      OBVIOUS
    <3>2. x \in Int
      BY <1>5, <3>1
    <3>3. y \in {x, c} /\ y <= x /\ y <= c
      BY <2>4, <3>1, <3>2, LessOf
    <3>4. t[n].score = y
      BY <2>8, <3>1
    <3> QED
      BY <2>4, <3>1, <3>2, <3>3, <3>4
  <2>10. ASSUME NEW m \in 1 .. e, NEW n \in 1 .. e, m < n
         PROVE  t[m].score >= t[n].score
    <3>1. q[m].score >= q[n].score /\ q[m].score \in Int /\ q[n].score \in Int
      BY <1>5, <1>6, <2>10
    <3> QED
      BY <2>4, <2>9, <3>1
  <2>11. ASSUME NEW n \in 1 .. e, NEW m \in 1 .. s
         PROVE  p[m].score >= t[n].score
    BY <1>4, <2>4, <2>5, <2>9
  <2>12. Lowered(t, q, p, e, s)
    BY <2>8, <2>9, <2>10, <2>11 DEF Lowered
  <2>13. PICK A : A = {t[n] : n \in 1 .. e}
    OBVIOUS
  <2>14. t \in [1 .. e -> A]
    BY <2>6, <2>13
  <2> QED
    BY <2>7, <2>12, <2>14 DEF JoinsLowered
<1> QED
  BY <1>7, <1>8

LEMMA JoinedFacts ==
    ASSUME NEW C, NEW MS, Rankable(C, MS), NEW S \in SUBSET C, NEW E \in SUBSET C, S \cap E = {},
           NEW L, L = Joined(ByScore(S), ByScore(E))
    PROVE  \E s, e : TwoParts(L, S, E, s, e)
<1>1. PICK p, q : p = ByScore(S) /\ q = ByScore(E)
  OBVIOUS
<1>2. Rankable(S, MS) /\ Rankable(E, MS)
  BY SomeRankable
<1>3. PICK s : InOrder(p, S, s)
  BY <1>1, <1>2, ByScoreFacts
<1>4. PICK e : InOrder(q, E, e)
  BY <1>1, <1>2, ByScoreFacts
<1>5. PICK t, A : Joined(p, q) = p \o t /\ t \in [1 .. e -> A] /\ Lowered(t, q, p, e, s)
  <2>1. JoinsLowered(p, q, e, s)
    BY <1>3, <1>4, LoweredFacts
  <2> QED
    BY <2>1 DEF JoinsLowered
<1>6. /\ s \in Nat /\ s = Cardinality(S) /\ p \in Seq(S) /\ Len(p) = s
      /\ \A n \in 1 .. s : p[n] \in S
      /\ \A m, n \in 1 .. s : m < n => Ahead(p[m], p[n])
      /\ \A m, n \in 1 .. s : p[m] = p[n] => m = n
      /\ \A x \in S : \E n \in 1 .. s : p[n] = x
  BY <1>3 DEF InOrder
<1>7. /\ e \in Nat /\ e = Cardinality(E)
      /\ \A n \in 1 .. e : q[n] \in E
      /\ \A m, n \in 1 .. e : q[m] = q[n] => m = n
  BY <1>4 DEF InOrder
<1>8. PICK B : B = S \cup A
  OBVIOUS
<1>9. p \in Seq(B) /\ t \in Seq(B) /\ Len(t) = e
  <2>1. t \in Seq(A) /\ Len(t) = e
    BY <1>5, <1>7, FunctionIsSeq
  <2> QED
    BY <1>6, <1>8, <2>1, SeqMonotonic
<1>10. /\ L \in Seq(B) /\ Len(L) = s + e
       /\ \A i \in 1 .. s + e : L[i] = IF i <= s THEN p[i] ELSE t[i - s]
  <2>1. L = p \o t
    BY <1>1, <1>5
  <2>2. /\ p \o t \in Seq(B) /\ Len(p \o t) = Len(p) + Len(t)
        /\ \A i \in 1 .. Len(p) + Len(t) : (p \o t)[i] = IF i <= Len(p) THEN p[i] ELSE t[i - Len(p)]
    BY <1>9, ConcatProperties
  <2> QED
    BY <1>6, <1>9, <2>1, <2>2
<1>11. DOMAIN L = 1 .. s + e
  BY <1>10, LenProperties
<1>12. ASSUME NEW n \in 1 .. s
       PROVE  L[n] = p[n] /\ L[n] \in S /\ L[n].score \in Int
  <2>1. n \in 1 .. s + e /\ n <= s
    BY <1>6, <1>7
  <2>2. L[n] = p[n] /\ p[n] \in S
    BY <1>6, <1>10, <2>1
  <2> QED
    BY <2>2 DEF Rankable
<1>13. ASSUME NEW n \in s + 1 .. s + e
       PROVE  \E k \in 1 .. e : k = n - s /\ L[n] = t[k]
  <2>1. n \in 1 .. s + e /\ ~(n <= s) /\ n - s \in 1 .. e
    BY <1>6, <1>7
  <2> QED
    BY <1>10, <2>1
<1>14. \A n \in 1 .. s + e : n \in 1 .. s \/ n \in s + 1 .. s + e
  BY <1>6, <1>7
<1>15. ASSUME NEW n \in s + 1 .. s + e
       PROVE  /\ L[n].score \in Int
              /\ \E x \in E : L[n].product = x.product /\ L[n].matches = x.matches
  <2>1. PICK k \in 1 .. e : L[n] = t[k]
    BY <1>13
  <2>2. t[k].score \in Int /\ t[k].product = q[k].product /\ t[k].matches = q[k].matches
    BY <1>5 DEF Lowered
  <2> QED
    BY <1>7, <2>1, <2>2
<1>16. ASSUME NEW m \in 1 .. s + e, NEW n \in 1 .. s + e, m < n
       PROVE  L[m].score >= L[n].score
  <2>1. CASE m \in 1 .. s /\ n \in 1 .. s
    <3>1. Ahead(L[m], L[n]) /\ L[m].score \in Int /\ L[n].score \in Int
      BY <1>6, <1>12, <1>16, <2>1
    <3> QED
      BY <3>1 DEF Ahead
  <2>2. CASE m \in 1 .. s /\ n \in s + 1 .. s + e
    <3>1. PICK k \in 1 .. e : L[n] = t[k]
      BY <1>13, <2>2
    <3>2. p[m].score >= t[k].score
      BY <1>5, <2>2 DEF Lowered
    <3> QED
      BY <1>12, <2>2, <3>1, <3>2
  <2>3. CASE m \in s + 1 .. s + e /\ n \in s + 1 .. s + e
    <3>1. PICK j \in 1 .. e : j = m - s /\ L[m] = t[j]
      BY <1>13, <2>3
    <3>2. PICK k \in 1 .. e : k = n - s /\ L[n] = t[k]
      BY <1>13, <2>3
    <3>3. j < k
      BY <1>6, <1>16, <3>1, <3>2
    <3>4. t[j].score >= t[k].score
      BY <1>5, <3>3 DEF Lowered
    <3> QED
      BY <3>1, <3>2, <3>4
  <2>4. ~(m \in s + 1 .. s + e /\ n \in 1 .. s)
    BY <1>6, <1>7, <1>16
  <2> QED
    BY <1>14, <2>1, <2>2, <2>3, <2>4
<1>17. ASSUME NEW m \in 1 .. s + e, NEW n \in 1 .. s + e, L[m].product = L[n].product
       PROVE  m = n
  <2>1. \A x, y \in C : x.product = y.product => x = y
    BY DEF Rankable
  <2>2. CASE m \in 1 .. s /\ n \in 1 .. s
    <3>1. L[m] = p[m] /\ L[n] = p[n] /\ L[m] \in C /\ L[n] \in C
      BY <1>12, <2>2
    <3>2. p[m] = p[n]
      BY <1>17, <2>1, <3>1
    <3> QED
      BY <1>6, <2>2, <3>2
  <2>3. ASSUME NEW i \in 1 .. s, NEW j \in s + 1 .. s + e, L[i].product = L[j].product
        PROVE  FALSE
    <3>1. L[i] \in S
      BY <1>12
    <3>2. PICK x \in E : L[j].product = x.product
      BY <1>15
    <3> QED
      BY <2>1, <2>3, <3>1, <3>2
  <2>4. CASE m \in s + 1 .. s + e /\ n \in s + 1 .. s + e
    <3>1. PICK j \in 1 .. e : j = m - s /\ L[m] = t[j]
      BY <1>13, <2>4
    <3>2. PICK k \in 1 .. e : k = n - s /\ L[n] = t[k]
      BY <1>13, <2>4
    <3>3. L[m].product = q[j].product /\ L[n].product = q[k].product
      BY <1>5, <3>1, <3>2 DEF Lowered
    <3>4. q[j] \in C /\ q[k] \in C
      BY <1>7
    <3>5. q[j] = q[k]
      BY <1>17, <2>1, <3>3, <3>4
    <3>6. j = k
      BY <1>7, <3>5
    <3> QED
      BY <1>6, <3>1, <3>2, <3>6
  <2> QED
    BY <1>14, <1>17, <2>2, <2>3, <2>4
<1>18. \A x \in S : \E n \in 1 .. s : L[n] = x
  BY <1>6, <1>12
<1>19. \A n \in 1 .. s + e : L[n].score \in Int
  BY <1>12, <1>14, <1>15
<1>20. \A n \in 1 .. s : L[n] \in S
  BY <1>12
<1>21. \A n \in s + 1 .. s + e : \E x \in E : L[n].product = x.product /\ L[n].matches = x.matches
  BY <1>15
<1>22. \A m, n \in 1 .. s + e : m < n => L[m].score >= L[n].score
  BY <1>16
<1>23. \A m, n \in 1 .. s + e : L[m].product = L[n].product => m = n
  BY <1>17
<1>24. s \in Nat /\ s = Cardinality(S) /\ e \in Nat /\ e = Cardinality(E)
  BY <1>6, <1>7
<1>25. Len(L) = s + e
  BY <1>10
<1>26. TwoParts(L, S, E, s, e)
  BY <1>11, <1>18, <1>19, <1>20, <1>21, <1>22, <1>23, <1>24, <1>25 DEF TwoParts
<1> QED
  BY <1>26

\* A list of at most so many products, the new ones of which come last and are
\* few unless it would be too short, and in which every query has a product if
\* there is room for one of each.
ListOf(L, C, S, E, s, e) ==
    /\ TwoParts(L, S, E, s, e)
    /\ S \in SUBSET {i \in C : ~IsNew(i)} /\ E \in SUBSET {i \in C : IsNew(i)}
    /\ s + e <= DEFAULT_LIMIT
    /\ e <= MAX_EXPLORE \/ s + e <= MIN_LIST_SIZE
    /\ Serves(S, {i \in C : ~IsNew(i)}, DEFAULT_LIMIT - e)

LEMMA RankFacts ==
    ASSUME NEW C, NEW MS, Rankable(C, MS), NEW mode \in Modes
    PROVE  \E S, E, s, e : ListOf(Rank(C, mode), C, S, E, s, e)
<1> DEFINE new == {i \in C : IsNew(i)}
           old == {i \in C : ~IsNew(i)}
           total == Min({MAX_EXPLORE, DEFAULT_LIMIT})
           reserved == PickExplore(new, total, EXPLORE_PER_SIGNAL)
           room == DEFAULT_LIMIT - Cardinality(reserved)
           S == SelectDiverse(old, room, mode)
           selected == ByScore(S)
           least == Min({MIN_LIST_SIZE, DEFAULT_LIMIT})
           missing == least - Len(selected) - Cardinality(reserved)
           more == PickExplore(new \ reserved, missing, NProducts)
           E == reserved \cup (IF missing > 0 THEN more ELSE {})
<1>1. C \ new = old
  OBVIOUS
<1>2. Rank(C, mode) = Joined(ByScore(S), ByScore(E))
  BY <1>1 DEF Rank
<1>3. /\ DEFAULT_LIMIT \in Nat /\ MAX_EXPLORE \in Nat /\ MIN_LIST_SIZE \in Nat
      /\ total \in Nat /\ total <= MAX_EXPLORE /\ total <= DEFAULT_LIMIT
      /\ least \in Nat /\ least <= MIN_LIST_SIZE /\ least <= DEFAULT_LIMIT
  <2>1. /\ DEFAULT_LIMIT \in Nat /\ MAX_EXPLORE \in Nat /\ MIN_LIST_SIZE \in Nat
        /\ DEFAULT_LIMIT \in Int /\ MAX_EXPLORE \in Int /\ MIN_LIST_SIZE \in Int
    BY RankingConstants
  <2>2. total \in {MAX_EXPLORE, DEFAULT_LIMIT} /\ total <= MAX_EXPLORE /\ total <= DEFAULT_LIMIT
    BY <2>1, LessOf
  <2>3. least \in {MIN_LIST_SIZE, DEFAULT_LIMIT} /\ least <= MIN_LIST_SIZE /\ least <= DEFAULT_LIMIT
    BY <2>1, LessOf
  <2> HIDE DEF total, least
  <2> QED
    BY <2>1, <2>2, <2>3
<1>4. Rankable(new, MS) /\ Rankable(old, MS) /\ Rankable(new \ reserved, MS)
  <2>1. new \in SUBSET C /\ old \in SUBSET C /\ new \ reserved \in SUBSET C
    OBVIOUS
  <2> HIDE DEF new, old, reserved
  <2> QED
    BY <2>1, SomeRankable
<1> HIDE DEF total, least
<1>5. AtMost(reserved, new, total)
  BY <1>3, <1>4, PickExploreFacts
<1> HIDE DEF reserved
<1>6. room \in Nat
  BY <1>3, <1>5 DEF AtMost
<1>7. AtMost(S, old, room) /\ Serves(S, old, room)
  BY <1>4, <1>6, SelectDiverseFacts
<1>8. PICK s : s = Cardinality(S)
  OBVIOUS
<1>9. Len(selected) = s /\ s \in Nat
  <2>1. Rankable(S, MS)
    BY <1>4, <1>7, SomeRankable DEF AtMost
  <2>2. PICK N : InOrder(ByScore(S), S, N)
    BY <2>1, ByScoreFacts
  <2> QED
    BY <1>7, <1>8, <2>2 DEF InOrder, AtMost
<1> HIDE DEF S, selected
<1>10. missing = least - s - Cardinality(reserved)
  BY <1>9
<1>11. /\ E \in SUBSET new /\ IsFiniteSet(E) /\ Cardinality(E) \in Nat
       /\ Cardinality(reserved) <= Cardinality(E)
       /\ Cardinality(E) = Cardinality(reserved) \/ Cardinality(E) <= Cardinality(reserved) + missing
  <2>1. CASE missing > 0
    <3>1. missing \in Nat
      BY <1>3, <1>5, <1>9, <1>10, <2>1 DEF AtMost
    <3>2. AtMost(more, new \ reserved, missing)
      <4> HIDE DEF missing
      <4> QED
        BY <1>4, <3>1, PickExploreFacts
    <3>3. E = reserved \cup more
      BY <2>1
    <3> HIDE DEF missing, more
    <3>4. reserved \cap more = {}
      BY <3>2 DEF AtMost
    <3>5. /\ IsFiniteSet(reserved \cup more)
          /\ Cardinality(reserved \cup more)
                = Cardinality(reserved) + Cardinality(more) - Cardinality(reserved \cap more)
      BY <1>5, <3>2, FS_Union DEF AtMost
    <3>6. Cardinality(E) = Cardinality(reserved) + Cardinality(more)
      <4> HIDE DEF E
      <4>1. Cardinality(reserved \cap more) = 0
        BY <3>4, FS_EmptySet
      <4>2. Cardinality(reserved) \in Nat /\ Cardinality(more) \in Nat
        BY <1>5, <3>2 DEF AtMost
      <4> QED
        BY <3>3, <3>5, <4>1, <4>2
    <3> HIDE DEF E
    <3> QED
      BY <1>5, <3>1, <3>2, <3>3, <3>5, <3>6 DEF AtMost
  <2>2. CASE ~(missing > 0)
    <3>1. E = reserved
      BY <2>2
    <3> HIDE DEF missing, E
    <3> QED
      BY <1>5, <3>1 DEF AtMost
  <2> QED
    BY <2>1, <2>2
<1> HIDE DEF missing, E
<1>12. S \in SUBSET C /\ E \in SUBSET C /\ S \cap E = {}
  BY <1>7, <1>11 DEF AtMost
<1>13. PICK t, e : TwoParts(Rank(C, mode), S, E, t, e)
  <2>1. PICK L : L = Rank(C, mode)
    OBVIOUS
  <2>2. L = Joined(ByScore(S), ByScore(E))
    BY <1>2, <2>1
  <2>3. \E t, e : TwoParts(L, S, E, t, e)
    BY <1>12, <2>2, JoinedFacts
  <2> QED
    BY <2>1, <2>3
<1>14. t = s /\ e = Cardinality(E)
  BY <1>8, <1>13 DEF TwoParts
<1>15. PICK r \in Nat : r = Cardinality(reserved)
  BY <1>5 DEF AtMost
<1>16. /\ r <= total /\ s <= DEFAULT_LIMIT - r /\ e \in Nat /\ r <= e
       /\ e = r \/ e <= r + (least - s - r)
  BY <1>5, <1>7, <1>8, <1>10, <1>11, <1>14, <1>15 DEF AtMost
<1>17. /\ s + e <= DEFAULT_LIMIT
       /\ e <= MAX_EXPLORE \/ s + e <= MIN_LIST_SIZE
  BY <1>3, <1>9, <1>15, <1>16
<1>18. Serves(S, old, DEFAULT_LIMIT - e)
  <2>1. PICK c : c = Cardinality(AllIds(old))
    OBVIOUS
  <2>2. c \in Nat
    <3>1. IsFiniteSet(AllIds(old))
      <4> HIDE DEF old
      <4> QED
        BY <1>4, QueriesOfFacts DEF AllIds
    <3> QED
      BY <2>1, <3>1, FS_CardinalityType
  <2>3. c <= DEFAULT_LIMIT - e => c <= room
    BY <1>3, <1>15, <1>16, <2>2
  <2> QED
    BY <1>7, <2>1, <2>3 DEF Serves
<1> QED
  BY <1>7, <1>11, <1>13, <1>14, <1>17, <1>18 DEF ListOf, AtMost

-----------------------------------------------------------------------------
(* What a mode may list, of matches a query and a product tell apart.         *)

LEMMA DecayedFacts ==
    ASSUME NEW s, s.weight \in Nat, s.age \in Nat, NEW mode \in Modes
    PROVE  Decayed(s, mode) \in Nat
<1>1. PICK N : N = s.age \div HalfLives[mode]
  OBVIOUS
<1>2. N \in Nat
  BY <1>1 DEF HalfLives, Modes
<1> DEFINE F(f) == [n \in 0 .. N |-> IF n = 0 THEN s.weight ELSE f[n - 1] \div 2]
           step == [x \in Nat \X (1 .. N) |-> x[1] \div 2]
<1>3. Decayed(s, mode) = (CHOOSE f : f = F(f))[N]
  BY <1>1 DEF Decayed
<1>4. step \in [Nat \X (1 .. N) -> Nat]
  OBVIOUS
<1> HIDE DEF step
<1>5. PICK h : Follows(h, N, Nat, s.weight, step)
  BY <1>2, <1>4, Recursion
<1>6. ASSUME NEW n \in 1 .. N
      PROVE  n - 1 \in 0 .. N /\ h[n - 1] \in Nat /\ h[n] = h[n - 1] \div 2
  <2>1. n - 1 \in 0 .. N /\ h[n - 1] \in Nat /\ h[n] = step[<<h[n - 1], n>>]
    BY <1>2, <1>5 DEF Follows
  <2> QED
    BY <2>1 DEF step
<1>7. h = F(h)
  <2>1. \A n \in 0 .. N : n = 0 \/ n \in 1 .. N
    BY <1>2
  <2>2. \A n \in 0 .. N : h[n] = IF n = 0 THEN s.weight ELSE h[n - 1] \div 2
    BY <1>5, <1>6, <2>1 DEF Follows
  <2>3. h = [n \in 0 .. N |-> h[n]]
    BY <1>5 DEF Follows
  <2> QED
    BY <2>2, <2>3
<1>8. PICK f : f = (CHOOSE g : g = F(g))
  OBVIOUS
<1>9. f = F(f)
  <2> HIDE DEF F
  <2> QED
    BY <1>7, <1>8
<1> DEFINE T == {n \in 0 .. N : f[n] \in Nat}
<1>10. 0 \in T
  <2>1. 0 \in 0 .. N /\ f[0] = s.weight
    BY <1>2, <1>9
  <2> QED
    BY <2>1
<1>11. ASSUME NEW n \in 0 .. N - 1, n \in T
       PROVE  n + 1 \in T
  <2>1. n + 1 \in 0 .. N /\ n + 1 # 0 /\ (n + 1) - 1 = n
    BY <1>2
  <2>2. f[n + 1] = f[n] \div 2
    BY <1>9, <2>1
  <2> QED
    BY <1>11, <2>1, <2>2
<1>12. N \in T
  <2> HIDE DEF T
  <2>1. \A n \in 0 .. N : n \in T
    BY <1>2, <1>10, <1>11, StepByStep
  <2>2. N \in 0 .. N
    BY <1>2
  <2> QED
    BY <2>1, <2>2
<1> QED
  BY <1>3, <1>8, <1>12

\* Finitely many matches, no two of a product with the same query.
Told(M) ==
    /\ IsFiniteSet(M)
    /\ \A m \in M : /\ m.query.kind \in Kinds /\ m.query.n \in Nat
                    /\ m.query.signal.weight \in Nat /\ m.query.signal.age \in Nat
                    /\ m.product \in Products /\ m.similarity \in Int
    /\ \A a, b \in M :
          a.product = b.product /\ a.query.kind = b.query.kind /\ a.query.n = b.query.n => a = b

LEMMA ContributionFacts ==
    ASSUME NEW M, Told(M), NEW m \in M, NEW mode \in Modes
    PROVE  Contribution(m, mode) \in Int
<1>1. m.similarity \in Int /\ Decayed(m.query.signal, mode) \in Nat
  BY DecayedFacts DEF Told
<1>2. DeferralWeight(m.query.signal.deferral) \in Nat
  BY DEF DeferralWeight
<1>3. PICK a \in Int, b \in Int, c \in Int :
          /\ a = m.similarity + 100 /\ b = Decayed(m.query.signal, mode)
          /\ c = IF mode = "gift" THEN DeferralWeight(m.query.signal.deferral) ELSE 100
  BY <1>1, <1>2
<1>4. Contribution(m, mode) = a * b * c
  BY <1>3 DEF Contribution
<1>5. a * b \in Int
  OBVIOUS
<1> QED
  BY <1>4, <1>5

\* q lists the matches of a product, each of them once.
Shows(q, ms, N) ==
    /\ N \in Nat /\ N = Cardinality(ms) /\ q \in Seq(ms) /\ Len(q) = N
    /\ \A x \in ms : \E n \in 1 .. N : q[n] = x

LEMMA ScoredFacts ==
    ASSUME NEW M, Told(M), NEW ms \in SUBSET M, \A a, b \in ms : a.product = b.product,
           NEW mode \in Modes
    PROVE  \E N : Shows(ScoredMatches(ms, mode), ms, N)
<1> DEFINE First(a, b) ==
        LET x == Contribution(a, mode)  y == Contribution(b, mode)
        IN  \/ x > y
            \/ x = y /\ (\/ Position[a.query.kind] < Position[b.query.kind]
                         \/ a.query.kind = b.query.kind /\ a.query.n < b.query.n)
<1>1. IsFiniteSet(ms)
  BY FS_Subset DEF Told
<1>2. \A m \in ms : /\ Contribution(m, mode) \in Int /\ m.query.n \in Nat
                    /\ m.query.kind \in {"q", "g", "t", "s", "e"}
  BY ContributionFacts DEF Told, Kinds, KindOrder
<1>3. \A k \in {"q", "g", "t", "s", "e"} : Position[k] \in Nat
  BY DEF Position
<1>4. \A k, l \in {"q", "g", "t", "s", "e"} : Position[k] = Position[l] => k = l
  BY DEF Position
<1>5. \A a, b \in ms : a.query.kind = b.query.kind /\ a.query.n = b.query.n => a = b
  BY DEF Told
<1>6. PICK R : R = {p \in ms \X ms : First(p[1], p[2])}
  OBVIOUS
<1>7. \A a, b \in ms : <<a, b>> \in R <=> First(a, b)
  BY <1>6
<1>8. StrictOrder(R, ms)
  <2>1. \A a \in ms : ~First(a, a)
    BY <1>2, <1>3
  <2>2. \A a, b, c \in ms : First(a, b) /\ First(b, c) => First(a, c)
    BY <1>2, <1>3
  <2>3. \A a, b \in ms : a # b => First(a, b) \/ First(b, a)
    BY <1>2, <1>3, <1>4, <1>5
  <2> HIDE DEF First
  <2> QED
    BY <1>7, <2>1, <2>2, <2>3 DEF StrictOrder
<1>9. PICK q : q = ScoredMatches(ms, mode)
  OBVIOUS
<1>10. PutInOrder(q, R, ms)
  <2> DEFINE F(n) == CHOOSE x \in ms : Cardinality({y \in ms : First(y, x)}) = n - 1
  <2>1. q = [n \in 1 .. Cardinality(ms) |-> F(n)]
    BY <1>9 DEF ScoredMatches, Ordered
  <2> HIDE DEF First
  <2>2. ASSUME NEW n \in 1 .. Cardinality(ms), NEW x \in ms, PlaceOf(R, ms, x) = n - 1
        PROVE  q[n] \in ms /\ PlaceOf(R, ms, q[n]) = n - 1
    <3>1. ASSUME NEW z \in ms PROVE {y \in ms : First(y, z)} = BeforeIn(R, ms, z)
      BY <1>7 DEF BeforeIn
    <3>2. Cardinality({y \in ms : First(y, x)}) = n - 1
      BY <2>2, <3>1 DEF PlaceOf
    <3>3. F(n) \in ms /\ Cardinality({y \in ms : First(y, F(n))}) = n - 1
      BY <3>2
    <3> HIDE DEF F
    <3>4. q[n] = F(n)
      BY <2>1
    <3> QED
      BY <3>1, <3>3, <3>4 DEF PlaceOf
  <2> HIDE DEF F
  <2>3. q = [n \in 1 .. Cardinality(ms) |-> q[n]]
    BY <2>1
  <2> QED
    BY <2>2, <2>3 DEF PutInOrder
<1>11. \E N \in Nat :
          /\ N = Cardinality(ms) /\ q \in [1 .. N -> ms] /\ q \in Seq(ms) /\ Len(q) = N
          /\ \A m, n \in 1 .. N : m < n => <<q[m], q[n]>> \in R
          /\ \A m, n \in 1 .. N : q[m] = q[n] => m = n
          /\ \A x \in ms : \E n \in 1 .. N : q[n] = x
  BY <1>1, <1>8, <1>10, OrderedFacts
<1> QED
  BY <1>9, <1>11 DEF Shows

\* What a mode may list of a product, found by at least one of the matches.
Listable(c, M, mode, excluded) ==
    /\ c.product \in Products \ excluded
    /\ mode = "gift" => Catalog[c.product].gift_available
    /\ c.matches \in Seq(M) /\ 1 \in DOMAIN c.matches
    /\ \E m \in M : m.product = c.product

LEMMA CandidatesFacts ==
    ASSUME NEW M, Told(M), NEW mode \in Modes, NEW excluded,
           NEW preferred_, IsFiniteSet(DOMAIN preferred_)
    PROVE  /\ Rankable(Candidates(M, mode, excluded, preferred_), M)
           /\ \A c \in Candidates(M, mode, excluded, preferred_) : Listable(c, M, mode, excluded)
<1> DEFINE Eligible(m) == /\ mode \in m.query.modes /\ m.product \notin excluded
                          /\ mode = "gift" => Catalog[m.product].gift_available
           usable == {m \in M : Eligible(m)}
           Of(p) == {m \in usable : m.product = p}
           Item(p) == LET scored == ScoredMatches(Of(p), mode)
                      IN  [ product |-> p, score |-> Score(scored, Boost(preferred_, p), mode),
                            matches |-> scored ]
           P == {m.product : m \in usable}
           C == {i \in {Item(p) : p \in P} : i.score >= MinScore[mode]}
<1>1. Candidates(M, mode, excluded, preferred_) = C
  BY DEF Candidates
<1>2. \A p \in P : \E m \in M : m.product = p
  OBVIOUS
<1>3. \A p \in P : p \notin excluded /\ (mode = "gift" => Catalog[p].gift_available) /\ Of(p) # {}
  OBVIOUS
<1>4. \A p \in P : p \in Products
  BY <1>2 DEF Told
<1>5. IsFiniteSet(P)
  <2>1. IsFiniteSet(usable)
    BY FS_Subset DEF Told
  <2>2. PICK f : f = [m \in usable |-> m.product]
    OBVIOUS
  <2>3. P = {f[m] : m \in usable}
    BY <2>2
  <2> HIDE DEF P, usable
  <2> QED
    BY <2>1, <2>3, Image
<1> HIDE DEF P
<1>6. \A p : Of(p) \in SUBSET M /\ \A a, b \in Of(p) : a.product = b.product
  OBVIOUS
<1> HIDE DEF Of
<1>7. ASSUME NEW p \in P
      PROVE  /\ Item(p).product = p /\ Item(p).score \in Int
             /\ Item(p).matches \in Seq(M) /\ 1 \in DOMAIN Item(p).matches
             /\ Item(p) = [product |-> Item(p).product, score |-> Item(p).score,
                           matches |-> Item(p).matches]
  <2>1. PICK ms, q : ms = Of(p) /\ q = ScoredMatches(ms, mode)
    OBVIOUS
  <2>2. ms \in SUBSET M /\ ms # {} /\ \A a, b \in ms : a.product = b.product
    BY <1>3, <1>6, <2>1
  <2>3. PICK N : Shows(q, ms, N)
    BY <2>1, <2>2, ScoredFacts
  <2>4. q \in Seq(M) /\ Len(q) = N /\ N \in Nat
    BY <2>2, <2>3, SeqMonotonic DEF Shows
  <2>5. 1 \in 1 .. N
    <3>1. PICK x \in ms : TRUE
      BY <2>2
    <3>2. \E n \in 1 .. N : q[n] = x
      BY <2>3, <3>1 DEF Shows
    <3> QED
      BY <2>4, <3>2
  <2>6. 1 \in DOMAIN q
    BY <2>4, <2>5, LenProperties
  <2>7. Boost(preferred_, p) \in Int
    <3>1. PICK k : k = Cardinality(Liked(preferred_, p))
      OBVIOUS
    <3>2. k \in Nat
      BY <3>1, FS_Subset, FS_CardinalityType DEF Liked
    <3>3. Min({k, 2}) \in Int
      <4>1. k \in Int /\ 2 \in Int
        BY <3>2
      <4>2. Min({k, 2}) \in {k, 2}
        BY <4>1, LessOf
      <4> QED
        BY <4>1, <4>2
    <3>4. PICK l \in Int : l = Min({k, 2})
      BY <3>3
    <3>5. Boost(preferred_, p) = 100000 * l
      BY <3>1, <3>4 DEF Boost
    <3> QED
      BY <3>5
  <2>8. Score(q, Boost(preferred_, p), mode) \in Int
    <3>1. q[1] \in M
      BY <2>4, <2>5, ElementOfSeq
    <3>2. Contribution(q[1], mode) \in Int
      BY <3>1, ContributionFacts
    <3>3. Min({N - 1, 2}) \in Int
      <4>1. N - 1 \in Int /\ 2 \in Int
        BY <2>4
      <4>2. Min({N - 1, 2}) \in {N - 1, 2}
        BY <4>1, LessOf
      <4> QED
        BY <4>1, <4>2
    <3>4. PICK a \in Int, b \in Int, c \in Int :
              a = Contribution(q[1], mode) /\ b = Min({N - 1, 2}) /\ c = Boost(preferred_, p)
      BY <2>7, <3>2, <3>3
    <3>5. Score(q, c, mode) = Min({a + (50000 * 2 * b) + c, MaxRawScore[mode]})
      BY <2>4, <3>4 DEF Score
    <3>6. PICK x \in Int, y \in Int : x = a + (50000 * 2 * b) + c /\ y = MaxRawScore[mode]
      <4>1. a + (50000 * 2 * b) + c \in Int
        OBVIOUS
      <4>2. MaxRawScore[mode] \in Int
        BY DEF MaxRawScore, Modes
      <4> QED
        BY <4>1, <4>2
    <3>7. Min({x, y}) \in {x, y}
      BY LessOf
    <3> QED
      BY <3>4, <3>5, <3>6, <3>7
  <2>9. Item(p) = [product |-> p, score |-> Score(q, Boost(preferred_, p), mode), matches |-> q]
    BY <2>1
  <2> HIDE DEF Item
  <2> QED
    BY <2>4, <2>6, <2>8, <2>9
<1> HIDE DEF Item
<1>8. ASSUME NEW c \in C
      PROVE  \E p \in P : c = Item(p)
  OBVIOUS
<1>9. IsFiniteSet(C)
  <2>1. PICK f : f = [p \in P |-> Item(p)]
    OBVIOUS
  <2>2. PICK T : T = {Item(p) : p \in P}
    OBVIOUS
  <2>3. T = {f[p] : p \in P}
    BY <2>1, <2>2
  <2>4. IsFiniteSet(T)
    BY <1>5, <2>3, Image
  <2> QED
    BY <2>2, <2>4, FS_Subset
<1> HIDE DEF C
<1>10. ASSUME NEW c \in C
       PROVE  c \in [product : Products, score : Int, matches : Seq(M)]
  <2>1. PICK p \in P : c = Item(p)
    BY <1>8
  <2> QED
    BY <1>4, <1>7, <2>1
<1>11. \A i, j \in C : i.product = j.product => i = j
  BY <1>7, <1>8
<1>12. Rankable(C, M)
  BY <1>9, <1>10, <1>11 DEF Rankable, Told
<1>13. ASSUME NEW c \in C
       PROVE  Listable(c, M, mode, excluded)
  <2>1. PICK p \in P : c = Item(p)
    BY <1>8
  <2>2. c.product = p /\ c.matches \in Seq(M) /\ 1 \in DOMAIN c.matches
    BY <1>7, <2>1
  <2> QED
    BY <1>2, <1>3, <1>4, <2>2 DEF Listable
<1> QED
  BY <1>1, <1>12, <1>13

\* Answers to the first of the queries, each of them some products and how near they are.
FoundFor(fs, Q) ==
    /\ \E A : fs \in Seq(A)
    /\ Len(fs) <= Len(Q)
    /\ \A i \in 1 .. Len(fs) : \E T \in SUBSET Products : fs[i] \in [T -> Int]

LEMMA MatchesFacts ==
    ASSUME NEW Q, NEW S, NEW kinds \in SUBSET Kinds, Queried(Q, S, kinds), Weighed(S),
           NEW fs, FoundFor(fs, Q), NEW bare
    PROVE  /\ Told(Matches(Q, fs, bare))
           /\ \A m \in Matches(Q, fs, bare) : m.query.kind \in kinds /\ m.query.signal \in S
<1>1. PICK M : M = Matches(Q, fs, bare)
  OBVIOUS
<1>2. PICK N : N = Len(fs)
  OBVIOUS
<1>3. N \in Nat /\ DOMAIN fs = 1 .. N /\ \A i \in 1 .. N : i \in 1 .. Len(Q)
  <2>1. PICK A, B : fs \in Seq(A) /\ Q \in Seq(B)
    BY DEF FoundFor, Queried
  <2>2. Len(fs) \in Nat /\ Len(Q) \in Nat /\ DOMAIN fs = 1 .. Len(fs)
    BY <2>1, LenProperties
  <2> QED
    BY <1>2, <2>2 DEF FoundFor
<1>4. ASSUME NEW m \in M
      PROVE  \E i \in 1 .. N : \E p \in DOMAIN fs[i] :
                m = [query |-> Q[i], product |-> p, similarity |-> fs[i][p]]
  BY <1>1, <1>3 DEF Matches
<1>5. ASSUME NEW i \in 1 .. N, NEW p \in DOMAIN fs[i]
      PROVE  p \in Products /\ fs[i][p] \in Int
  <2>1. PICK T \in SUBSET Products : fs[i] \in [T -> Int]
    BY <1>2 DEF FoundFor
  <2> QED
    BY <2>1
<1>6. ASSUME NEW i \in 1 .. N
      PROVE  /\ Q[i].kind \in kinds /\ Q[i].n \in Nat /\ Q[i].signal \in S
             /\ Q[i].signal.weight \in Nat /\ Q[i].signal.age \in Nat
  <2>1. Q[i].kind \in kinds /\ Q[i].n \in Nat /\ Q[i].signal \in S
    BY <1>3 DEF Queried
  <2> QED
    BY <2>1 DEF Weighed
<1>7. ASSUME NEW m \in M
      PROVE  /\ m.query.kind \in kinds /\ m.query.n \in Nat /\ m.query.signal \in S
             /\ m.query.signal.weight \in Nat /\ m.query.signal.age \in Nat
             /\ m.product \in Products /\ m.similarity \in Int
  <2>1. PICK i, p :
            i \in 1 .. N /\ p \in DOMAIN fs[i] /\ m = [query |-> Q[i], product |-> p, similarity |-> fs[i][p]]
    BY <1>4
  <2>2. m.query = Q[i] /\ m.product = p /\ m.similarity = fs[i][p]
    BY <2>1
  <2> QED
    BY <1>5, <1>6, <2>1, <2>2
<1>8. ASSUME NEW a \in M, NEW b \in M,
             a.product = b.product, a.query.kind = b.query.kind, a.query.n = b.query.n
      PROVE  a = b
  <2>1. PICK i, p :
            i \in 1 .. N /\ p \in DOMAIN fs[i] /\ a = [query |-> Q[i], product |-> p, similarity |-> fs[i][p]]
    BY <1>4
  <2>2. PICK j, q :
            j \in 1 .. N /\ q \in DOMAIN fs[j] /\ b = [query |-> Q[j], product |-> q, similarity |-> fs[j][q]]
    BY <1>4
  <2>3. p = q /\ Q[i].kind = Q[j].kind /\ Q[i].n = Q[j].n
    BY <1>8, <2>1, <2>2
  <2>4. \A x, y \in 1 .. Len(Q) : Q[x].kind = Q[y].kind /\ Q[x].n = Q[y].n => x = y
    BY <1>3 DEF Queried
  <2>5. i \in 1 .. Len(Q) /\ j \in 1 .. Len(Q)
    BY <1>3, <2>1, <2>2
  <2>6. i = j
    BY <2>3, <2>4, <2>5
  <2> QED
    BY <2>1, <2>2, <2>3, <2>6
<1>9. IsFiniteSet(M)
  <2>1. PICK X : X = (1 .. N) \X Products
    OBVIOUS
  <2>2. IsFiniteSet(X)
    <3>1. IsFiniteSet(1 .. N)
      BY <1>3, FS_Interval
    <3>2. NProducts \in Int /\ 1 \in Int
      BY RankingConstants
    <3>3. IsFiniteSet(Products)
      BY <3>2, FS_Interval DEF Products
    <3> QED
      BY <2>1, <3>1, <3>3, FS_Product
  <2>3. PICK f : f = [x \in X |-> [query |-> Q[x[1]], product |-> x[2], similarity |-> fs[x[1]][x[2]]]]
    OBVIOUS
  <2>4. PICK T : T = {f[x] : x \in X}
    OBVIOUS
  <2>5. ASSUME NEW m \in M
        PROVE  m \in T
    <3>1. PICK i, p :
              i \in 1 .. N /\ p \in DOMAIN fs[i] /\ m = [query |-> Q[i], product |-> p, similarity |-> fs[i][p]]
      BY <1>4
    <3>2. PICK x : x = <<i, p>>
      OBVIOUS
    <3>3. x \in X /\ x[1] = i /\ x[2] = p
      BY <1>5, <2>1, <3>1, <3>2
    <3>4. f[x] = m
      BY <2>3, <3>1, <3>3
    <3> QED
      BY <2>4, <3>3, <3>4
  <2>6. IsFiniteSet(T)
    BY <2>2, <2>4, Image
  <2> QED
    BY <2>5, <2>6, FS_Subset
<1>10. Told(M)
  BY <1>7, <1>8, <1>9 DEF Told
<1> QED
  BY <1>1, <1>7, <1>10

LEMMA ToldBoth ==
    ASSUME NEW M, NEW N, Told(M), Told(N), NEW ms, NEW ns, ms \cap ns = {},
           \A m \in M : m.query.kind \in ms, \A n \in N : n.query.kind \in ns
    PROVE  Told(M \cup N)
<1>1. IsFiniteSet(M \cup N)
  BY FS_Union DEF Told
<1> QED
  BY <1>1 DEF Told

-----------------------------------------------------------------------------
(* What a list is, for a request whose matches are told apart.                *)

LEMMA ListFacts ==
    ASSUME NEW C, NEW MS, Rankable(C, MS), NEW L, NEW S, NEW E, NEW s, NEW e,
           ListOf(L, C, S, E, s, e)
    PROVE  /\ Len(L) = s + e /\ DOMAIN L = 1 .. s + e /\ s \in Nat /\ e \in Nat
           /\ \A n \in 1 .. s + e : \E x \in C : L[n].product = x.product /\ L[n].matches = x.matches
           /\ \A n \in 1 .. s + e : IsNew(L[n]) <=> n \in s + 1 .. s + e
           /\ {n \in DOMAIN L : IsNew(L[n])} = s + 1 .. s + e
           /\ IsFiniteSet(s + 1 .. s + e) /\ Cardinality(s + 1 .. s + e) = e
<1>1. TwoParts(L, S, E, s, e)
  BY DEF ListOf
<1>2. Len(L) = s + e /\ s \in Nat /\ e \in Nat
  BY <1>1 DEF TwoParts
<1>3. DOMAIN L = 1 .. s + e
  BY <1>1, <1>2, LenProperties DEF TwoParts
<1>4. \A n \in 1 .. s + e : (n \in 1 .. s \/ n \in s + 1 .. s + e) /\ ~(n \in 1 .. s /\ n \in s + 1 .. s + e)
  BY <1>2
<1>5. ASSUME NEW n \in 1 .. s
      PROVE  ~IsNew(L[n]) /\ L[n] \in C
  BY <1>1 DEF TwoParts, ListOf
<1>6. ASSUME NEW n \in s + 1 .. s + e
      PROVE  IsNew(L[n]) /\ \E x \in C : L[n].product = x.product /\ L[n].matches = x.matches
  <2>1. PICK x \in E : L[n].product = x.product /\ L[n].matches = x.matches
    BY <1>1 DEF TwoParts
  <2>2. x \in C /\ IsNew(x)
    BY DEF ListOf
  <2>3. QueriesOf(L[n]) = QueriesOf(x)
    BY <2>1 DEF QueriesOf
  <2> QED
    BY <2>1, <2>2, <2>3 DEF IsNew
<1>7. \A n \in 1 .. s + e : IsNew(L[n]) <=> n \in s + 1 .. s + e
  BY <1>4, <1>5, <1>6
<1>8. \A n \in s + 1 .. s + e : n \in 1 .. s + e
  BY <1>2
<1>9. {n \in DOMAIN L : IsNew(L[n])} = s + 1 .. s + e
  BY <1>3, <1>7, <1>8
<1>10. IsFiniteSet(s + 1 .. s + e) /\ Cardinality(s + 1 .. s + e) = e
  <2>1. PICK a \in Int, b \in Int : a = s + 1 /\ b = s + e
    BY <1>2
  <2>2. IsFiniteSet(a .. b) /\ Cardinality(a .. b) = IF a > b THEN 0 ELSE b - a + 1
    BY FS_Interval
  <2>3. (IF a > b THEN 0 ELSE b - a + 1) = e
    BY <1>2, <2>1
  <2> QED
    BY <2>1, <2>2, <2>3
<1>11. \A n \in 1 .. s + e : \E x \in C : L[n].product = x.product /\ L[n].matches = x.matches
  BY <1>4, <1>5, <1>6
<1> QED
  BY <1>2, <1>3, <1>7, <1>9, <1>10, <1>11

\* The parts of ListsInOrder that a list has.
OrderedList(list) ==
    /\ Len(list) <= DEFAULT_LIMIT
    /\ Cardinality({list[n].product : n \in DOMAIN list}) = Len(list)
    /\ \A n, m \in DOMAIN list :
            n < m => /\ list[n].score >= list[m].score
                     /\ IsNew(list[n]) => IsNew(list[m])
    /\ \/ Cardinality({n \in DOMAIN list : IsNew(list[n])}) <= MAX_EXPLORE
       \/ Len(list) <= MIN_LIST_SIZE

LEMMA OrderedListFacts ==
    ASSUME NEW C, NEW MS, Rankable(C, MS), NEW L, NEW S, NEW E, NEW s, NEW e,
           ListOf(L, C, S, E, s, e)
    PROVE  OrderedList(L)
<1>1. /\ Len(L) = s + e /\ DOMAIN L = 1 .. s + e /\ s \in Nat /\ e \in Nat
      /\ \A n \in 1 .. s + e : IsNew(L[n]) <=> n \in s + 1 .. s + e
      /\ {n \in DOMAIN L : IsNew(L[n])} = s + 1 .. s + e
      /\ Cardinality(s + 1 .. s + e) = e
  BY ListFacts
<1>2. Cardinality({L[n].product : n \in DOMAIN L}) = s + e
  <2>1. PICK N, T : N = s + e /\ T = {L[n].product : n \in 1 .. N}
    OBVIOUS
  <2>2. IsFiniteSet(1 .. N) /\ Cardinality(1 .. N) = N
    <3>1. N \in Nat /\ N \in Int
      BY <1>1, <2>1
    <3>2. IsFiniteSet(1 .. N) /\ Cardinality(1 .. N) = IF 1 > N THEN 0 ELSE N - 1 + 1
      BY <3>1, FS_Interval
    <3> QED
      BY <3>1, <3>2
  <2>3. PICK f : f = [n \in 1 .. N |-> L[n].product]
    OBVIOUS
  <2>4. f \in Surjection(1 .. N, T)
    BY <2>1, <2>3 DEF Surjection
  <2>5. \A m, n \in 1 .. N : f[m] = f[n] => m = n
    BY <2>1, <2>3 DEF ListOf, TwoParts
  <2>6. f \in Injection(1 .. N, T)
    BY <2>4, <2>5 DEF Surjection, Injection, IsInjective
  <2>7. Cardinality(T) = Cardinality(1 .. N)
    BY <2>2, <2>4, <2>6, FS_Surjection
  <2> QED
    BY <1>1, <2>1, <2>2, <2>7
<1>3. ASSUME NEW n \in DOMAIN L, NEW m \in DOMAIN L, n < m
      PROVE  L[n].score >= L[m].score /\ (IsNew(L[n]) => IsNew(L[m]))
  <2>1. n \in 1 .. s + e /\ m \in 1 .. s + e
    BY <1>1
  <2>2. L[n].score >= L[m].score
    BY <1>3, <2>1 DEF ListOf, TwoParts
  <2>3. n \in s + 1 .. s + e => m \in s + 1 .. s + e
    BY <1>1, <1>3, <2>1
  <2> QED
    BY <1>1, <2>1, <2>2, <2>3
<1> QED
  BY <1>1, <1>2, <1>3 DEF OrderedList, ListOf

\* What QueriesServed says of a list and the candidates it is made of.
ServedIn(list, C) ==
    LET ids  == AllIds({i \in C : ~IsNew(i)})
        new  == {n \in DOMAIN list : IsNew(list[n])}
    IN  Cardinality(ids) <= DEFAULT_LIMIT - Cardinality(new)
            => \A id \in ids : \E n \in DOMAIN list : id \in QueriesOf(list[n])

LEMMA ServedFacts ==
    ASSUME NEW C, NEW MS, Rankable(C, MS), NEW L, NEW S, NEW E, NEW s, NEW e,
           ListOf(L, C, S, E, s, e)
    PROVE  ServedIn(L, C)
<1>1. /\ DOMAIN L = 1 .. s + e /\ s \in Nat /\ e \in Nat
      /\ {n \in DOMAIN L : IsNew(L[n])} = s + 1 .. s + e
      /\ Cardinality(s + 1 .. s + e) = e
  BY ListFacts
<1>2. PICK U : U = AllIds({i \in C : ~IsNew(i)})
  OBVIOUS
<1>3. ASSUME Cardinality(U) <= DEFAULT_LIMIT - e, NEW id \in U
      PROVE  \E n \in DOMAIN L : id \in QueriesOf(L[n])
  <2>1. PICK i \in S : id \in QueriesOf(i)
    BY <1>2, <1>3 DEF ListOf, Serves
  <2>2. PICK n \in 1 .. s : L[n] = i
    BY <2>1 DEF ListOf, TwoParts
  <2>3. n \in DOMAIN L
    BY <1>1, <2>2
  <2> QED
    BY <2>1, <2>2, <2>3
<1> QED
  BY <1>1, <1>2, <1>3 DEF ServedIn

-----------------------------------------------------------------------------
(* The searches.                                                              *)

LEMMA SignalsWeighed ==
    ASSUME NEW r \in Requests
    PROVE  Weighed(Signals(r.profile, r.interests))
<1>1. /\ IsFiniteSet(r.profile) /\ IsFiniteSet(r.interests)
      /\ \A s \in r.profile : s.weight \in Nat /\ s.confidence \in Nat /\ s.age \in Nat
  BY RequestConstants
<1>2. PICK f : f = [i \in r.interests |->
                        Signal("interests", i.value, i.category, ONBOARDING_INTEREST_WEIGHT)]
  OBVIOUS
<1>3. PICK O : O = OnboardingSignals(r.interests)
  OBVIOUS
<1>4. O = {f[i] : i \in r.interests}
  BY <1>2, <1>3 DEF OnboardingSignals
<1>5. IsFiniteSet(O)
  BY <1>1, <1>4, Image
<1>6. ASSUME NEW s \in O
      PROVE  s.weight \in Nat /\ s.confidence \in Nat /\ s.age \in Nat
  <2>1. PICK i \in r.interests : s = Signal("interests", i.value, i.category, ONBOARDING_INTEREST_WEIGHT)
    BY <1>3 DEF OnboardingSignals
  <2>2. s.weight = ONBOARDING_INTEREST_WEIGHT /\ s.confidence = ONBOARDING_INTEREST_WEIGHT /\ s.age = 0
    BY <2>1 DEF Signal
  <2> QED
    BY <2>2, QueryConstants
<1>7. PICK P : P = {s \in r.profile : s.field \notin {"dislikes", "constraints"}}
  OBVIOUS
<1>8. IsFiniteSet(P)
  BY <1>1, <1>7, FS_Subset
<1>9. IsFiniteSet(P \cup O)
  BY <1>5, <1>8, FS_Union
<1>10. Signals(r.profile, r.interests) = P \cup O
  BY <1>3, <1>7 DEF Signals
<1>11. ASSUME NEW s \in P \cup O
       PROVE  s.weight \in Nat /\ s.confidence \in Nat /\ s.age \in Nat
  BY <1>1, <1>6, <1>7
<1> QED
  BY <1>9, <1>10, <1>11 DEF Weighed

\* A search finds some of the products, each as near as it is.
LEMMA ResultsFacts ==
    ASSUME NEW near \in Nearness, NEW limit, NEW gift_only, NEW e,
           NEW r \in SearchResults(near, limit, gift_only, e)
    PROVE  \E T \in SUBSET Products : r = [p \in T |-> near[p]] /\ r \in [T -> -100 .. 100] /\ r \in [T -> Int]
<1>1. near \in [Products -> -100 .. 100]
  BY RequestConstants
<1>2. PICK T \in SUBSET Products : r = [p \in T |-> near[p]]
  BY DEF SearchResults
<1>3. \A p \in T : near[p] \in -100 .. 100 /\ near[p] \in Int
  BY <1>1
<1> QED
  BY <1>2, <1>3

\* A search for a dislike leaves a product out only for as many that are as near.
LEMMA NearestFound ==
    ASSUME NEW near \in Nearness, NEW r \in SearchResults(near, EXCLUSION_TOP_K, FALSE, NoExclusion),
           NEW p \in Products
    PROVE  \/ p \in DOMAIN r /\ r[p] = near[p]
           \/ Cardinality({q \in Products \ {p} : near[q] >= near[p]}) >= EXCLUSION_TOP_K
<1>1. PICK rows : rows = {q \in Products : ~InCategories(NoExclusion, q)
                                            /\ (FALSE => Catalog[q].gift_available)}
  OBVIOUS
<1>2. rows = Products
  <2>1. NoExclusion.categories = {} /\ NoExclusion.subcategories = {}
    BY DEF NoExclusion, BuildCatalogExclusion
  <2> QED
    BY <1>1, <2>1 DEF InCategories
<1>3. PICK n : n = IF EXCLUSION_TOP_K < Cardinality(rows) THEN EXCLUSION_TOP_K ELSE Cardinality(rows)
  OBVIOUS
<1>4. PICK T \in SUBSET rows : /\ r = [q \in T |-> near[q]] /\ Cardinality(T) = n
                               /\ \A x \in T, y \in rows \ T : near[x] >= near[y]
  BY <1>1, <1>3 DEF SearchResults
<1>5. IsFiniteSet(Products) /\ EXCLUSION_TOP_K \in Nat
  <2>1. NProducts \in Int /\ 1 \in Int /\ EXCLUSION_TOP_K \in Nat
    BY RankingConstants
  <2> QED
    BY <2>1, FS_Interval DEF Products
<1>6. CASE p \in T
  BY <1>4, <1>6
<1>7. CASE p \notin T
  <2>1. n = EXCLUSION_TOP_K
    <3>1. T # Products
      BY <1>7
    <3>2. Cardinality(T) # Cardinality(rows)
      BY <1>2, <1>4, <1>5, <3>1, FS_Subset
    <3> QED
      BY <1>3, <1>4, <3>2
  <2>2. PICK U : U = {q \in Products \ {p} : near[q] >= near[p]}
    OBVIOUS
  <2>3. T \in SUBSET U
    BY <1>2, <1>4, <1>7, <2>2
  <2>4. IsFiniteSet(U)
    BY <1>5, <2>2, FS_Subset
  <2>5. Cardinality(T) <= Cardinality(U)
    BY <2>3, <2>4, FS_Subset
  <2>6. Cardinality(U) \in Nat
    BY <2>4, FS_CardinalityType
  <2> QED
    BY <1>4, <1>5, <2>1, <2>2, <2>5, <2>6
<1> QED
  BY <1>6, <1>7

\* g has y at x and is f elsewhere.
Extended(g, f, x, y) ==
    DOMAIN g = DOMAIN f \cup {x} /\ g[x] = y /\ \A z \in DOMAIN f : z # x => g[z] = f[z]

LEMMA WithFacts ==
    ASSUME NEW f, NEW x, NEW y
    PROVE  Extended(With(f, x, y), f, x, y)
BY DEF With, Extended

LEMMA AppendFound ==
    ASSUME NEW Q, NEW S, NEW kinds, Queried(Q, S, kinds), NEW fs, FoundFor(fs, Q),
           Len(fs) < Len(Q), NEW T \in SUBSET Products, NEW r \in [T -> Int]
    PROVE  FoundFor(Append(fs, r), Q)
<1>1. PICK A, B : fs \in Seq(A) /\ Q \in Seq(B)
  BY DEF FoundFor, Queried
<1>2. PICK D : D = A \cup {r}
  OBVIOUS
<1>3. fs \in Seq(D) /\ r \in D
  BY <1>1, <1>2, SeqMonotonic
<1>4. /\ Append(fs, r) \in Seq(D) /\ Len(Append(fs, r)) = Len(fs) + 1
      /\ \A i \in 1 .. Len(fs) + 1 : Append(fs, r)[i] = IF i <= Len(fs) THEN fs[i] ELSE r
  BY <1>3, AppendProperties
<1>5. Len(fs) \in Nat /\ Len(Q) \in Nat
  BY <1>1, LenProperties
<1>6. ASSUME NEW i \in 1 .. Len(fs) + 1
      PROVE  \E U \in SUBSET Products : Append(fs, r)[i] \in [U -> Int]
  <2>1. CASE i <= Len(fs)
    <3>1. i \in 1 .. Len(fs) /\ Append(fs, r)[i] = fs[i]
      BY <1>4, <2>1
    <3> QED
      BY <3>1 DEF FoundFor
  <2>2. CASE ~(i <= Len(fs))
    BY <1>4, <2>2
  <2> QED
    BY <2>1, <2>2
<1>7. \A i \in 1 .. Len(Append(fs, r)) : \E U \in SUBSET Products : Append(fs, r)[i] \in [U -> Int]
  BY <1>4, <1>6
<1>8. Len(Append(fs, r)) <= Len(Q)
  BY <1>4, <1>5
<1>9. \E X : Append(fs, r) \in Seq(X)
  BY <1>4
<1> HIDE DEF FoundFor
<1> QED
  BY <1>7, <1>8, <1>9 DEF FoundFor

\* The preference an excuse is made of is one of those searched, if there is any.
LEMMA LabelFacts ==
    ASSUME NEW liked, \A d \in DOMAIN liked : \E T \in SUBSET Products : liked[d] \in [T -> -100 .. 100],
           NEW p
    PROVE  BoostLabel(liked, p) \in DOMAIN liked \cup {None}
<1>1. PICK L : L = Liked(liked, p)
  OBVIOUS
<1>2. \A d \in L : d \in DOMAIN liked /\ p \in DOMAIN liked[d]
  BY <1>1 DEF Liked
<1>3. \A d \in L : liked[d][p] \in -100 .. 100
  BY <1>2
<1>4. CASE L # {}
  <2>1. PICK far : far = {100 - liked[d][p] : d \in L}
    OBVIOUS
  <2>2. \A n \in far : n \in Nat
    BY <1>3, <2>1
  <2>3. far \in SUBSET Nat /\ far # {}
    BY <1>4, <2>1, <2>2
  <2>4. PICK n \in far : \A m \in far : n <= m
    BY <2>3, LeastNumber
  <2>5. PICK d \in L : n = 100 - liked[d][p]
    BY <2>1
  <2>6. ASSUME NEW o \in L
        PROVE  liked[o][p] <= liked[d][p]
    <3>1. 100 - liked[d][p] <= 100 - liked[o][p]
      BY <2>1, <2>4, <2>5
    <3>2. PICK a \in -100 .. 100, b \in -100 .. 100 : a = liked[d][p] /\ b = liked[o][p]
      BY <1>3
    <3>3. 100 - a <= 100 - b
      BY <3>1, <3>2
    <3>4. b <= a
      BY <3>3
    <3> QED
      BY <3>2, <3>4
  <2>7. PICK x : x = CHOOSE y \in L : \A o \in L : liked[o][p] <= liked[y][p]
    OBVIOUS
  <2>8. x \in L
    BY <2>6, <2>7
  <2>9. BoostLabel(liked, p) = x
    BY <1>1, <1>4, <2>7 DEF BoostLabel
  <2> QED
    BY <1>2, <2>8, <2>9
<1>5. CASE L = {}
  BY <1>1, <1>5 DEF BoostLabel
<1> QED
  BY <1>4, <1>5

-----------------------------------------------------------------------------
(* The request.  Whatever a list is made of is there before it is: the queries *)
(* and their answers, the dislikes' and the preferences' searches; and the     *)
(* reasons the model rewrites are of that list.                              *)

SignalsOf(r) == Signals(r.profile, r.interests)

\* Nothing is searched before the queries are known, nothing listed or
\* rewritten before all is searched.
StageInv ==
    /\ stage = "waiting" => found = Empty /\ disliked = Empty /\ preferred = Empty
    /\ stage \in {"waiting", "searching"} => explore = Empty /\ explored = Empty
    /\ stage # "answering" => lists = NoLists /\ rewritten = Empty

QueriesInv ==
    stage # "waiting" =>
        /\ request \in Requests
        /\ Queried(queries, SignalsOf(request), SearchKinds) /\ Queried(explore, SignalsOf(request), {"e"})
        /\ FoundFor(found, queries) /\ FoundFor(explored, explore)

DislikesInv ==
    /\ \A d \in DOMAIN disliked :
            /\ d \in DOMAIN dislike_near /\ dislike_near[d] \in Nearness
            /\ disliked[d] \in SearchResults(dislike_near[d], EXCLUSION_TOP_K, FALSE, NoExclusion)
    /\ stage = "exploring" => Dislikes \subseteq DOMAIN disliked

PreferencesInv ==
    /\ \A d \in DOMAIN preferred : \E T \in SUBSET Products : preferred[d] \in [T -> -100 .. 100]
    /\ stage # "waiting" => DOMAIN preferred \subseteq Preferred

SearchInv == StageInv /\ QueriesInv /\ DislikesInv /\ PreferencesInv

LEMMA EmptyFound ==
    ASSUME NEW Q, NEW S, NEW kinds, Queried(Q, S, kinds)
    PROVE  FoundFor(Empty, Q)
<1>1. Empty \in Seq({}) /\ Len(Empty) = 0
  BY DEF Empty
<1>2. Len(Q) \in Nat
  BY LenProperties DEF Queried
<1> QED
  BY <1>1, <1>2 DEF FoundFor

LEMMA EmptyQueried ==
    ASSUME NEW S, NEW kinds
    PROVE  Queried(Empty, S, kinds)
<1>1. Empty \in Seq({}) /\ Len(Empty) = 0
  BY DEF Empty
<1> QED
  BY <1>1 DEF Queried

LEMMA SearchInvNext ==
    ASSUME SearchInv, [Next]_vars
    PROVE  SearchInv'
<1> USE DEF SearchInv
<1>1. ASSUME NEW r \in Requests, NEW known \in SUBSET IntentTargets(Signals(r.profile, r.interests)),
             Receive(r, known)
      PROVE  SearchInv'
  <2>1. /\ stage = "waiting" /\ stage' \in {"answering", "searching"}
        /\ request' = r /\ queries' = BuildSearchQueries(SignalsOf(r), known)
        /\ UNCHANGED <<searches, secondary, lists, rewrites>>
    BY <1>1 DEF Receive, SignalsOf
  <2>2. /\ found' = Empty /\ disliked' = Empty /\ preferred' = Empty
        /\ explore' = Empty /\ explored' = Empty /\ lists' = NoLists /\ rewritten' = Empty
    BY <2>1 DEF StageInv, searches, secondary, rewrites
  <2>3. Queried(queries', SignalsOf(r), SearchKinds)
    BY <2>1, SignalsWeighed, SearchQueriesFacts DEF SignalsOf
  <2>4. Queried(explore', SignalsOf(r), {"e"})
    BY <2>2, EmptyQueried
  <2>5. FoundFor(found', queries') /\ FoundFor(explored', explore')
    BY <2>2, <2>3, <2>4, EmptyFound
  <2>6. DOMAIN disliked' = {} /\ DOMAIN preferred' = {}
    BY <2>2 DEF Empty
  <2>7. StageInv'
    BY <2>1, <2>2 DEF StageInv
  <2>8. QueriesInv'
    BY <2>1, <2>3, <2>4, <2>5 DEF QueriesInv
  <2>9. DislikesInv'
    BY <2>1, <2>6 DEF DislikesInv
  <2>10. PreferencesInv'
    BY <2>6 DEF PreferencesInv
  <2> QED
    BY <2>7, <2>8, <2>9, <2>10
<1>2. ASSUME NEW near \in Nearness, Search(near)
      PROVE  SearchInv'
  <2>1. /\ stage = "searching" /\ Len(found) < Len(queries)
        /\ UNCHANGED <<stage, request, queries, dislike_near, disliked, preferred, explore, explored,
                       lists, rewritten>>
    BY <1>2 DEF Search, inputs, secondary, rewrites
  <2>2. PICK limit, gift_only, e, results :
            results \in SearchResults(near, limit, gift_only, e) /\ found' = Append(found, results)
    BY <1>2 DEF Search
  <2>3. PICK T \in SUBSET Products : results \in [T -> Int]
    BY <2>2, ResultsFacts
  <2>4. FoundFor(found', queries)
    BY <2>1, <2>2, <2>3, AppendFound DEF QueriesInv
  <2>5. StageInv'
    BY <2>1 DEF StageInv
  <2>6. QueriesInv'
    BY <2>1, <2>4 DEF QueriesInv
  <2>7. DislikesInv'
    BY <2>1 DEF DislikesInv
  <2>8. PreferencesInv'
    BY <2>1 DEF PreferencesInv, Preferred
  <2> QED
    BY <2>5, <2>6, <2>7, <2>8
<1>3. ASSUME NEW near \in Nearness, SearchDislike(near)
      PROVE  SearchInv'
  <2>1. /\ stage = "searching"
        /\ UNCHANGED <<stage, request, queries, found, preferred, explore, explored, lists, rewritten>>
    BY <1>3 DEF SearchDislike, inputs, secondary, rewrites
  <2>2. PICK d, results :
            /\ results \in SearchResults(near, EXCLUSION_TOP_K, FALSE, NoExclusion)
            /\ disliked' = With(disliked, d, results) /\ dislike_near' = With(dislike_near, d, near)
    BY <1>3 DEF SearchDislike
  <2>3. /\ DOMAIN disliked' = DOMAIN disliked \cup {d} /\ disliked'[d] = results
        /\ \A x \in DOMAIN disliked : x # d => disliked'[x] = disliked[x]
    <3>1. Extended(disliked', disliked, d, results)
      BY <2>2, WithFacts
    <3> QED
      BY <3>1 DEF Extended
  <2>4. /\ DOMAIN dislike_near' = DOMAIN dislike_near \cup {d} /\ dislike_near'[d] = near
        /\ \A x \in DOMAIN dislike_near : x # d => dislike_near'[x] = dislike_near[x]
    <3>1. Extended(dislike_near', dislike_near, d, near)
      BY <2>2, WithFacts
    <3> QED
      BY <3>1 DEF Extended
  <2>5. StageInv'
    BY <2>1 DEF StageInv
  <2>6. QueriesInv'
    BY <2>1 DEF QueriesInv
  <2>7. DislikesInv'
    <3>1. ASSUME NEW x \in DOMAIN disliked'
          PROVE  /\ x \in DOMAIN dislike_near' /\ dislike_near'[x] \in Nearness
                 /\ disliked'[x] \in SearchResults(dislike_near'[x], EXCLUSION_TOP_K, FALSE, NoExclusion)
      <4>1. CASE x = d
        BY <2>2, <2>3, <2>4, <4>1
      <4>2. CASE x # d
        <5>1. x \in DOMAIN disliked /\ x \in DOMAIN dislike_near
          BY <2>3, <4>2 DEF DislikesInv
        <5>2. disliked'[x] = disliked[x] /\ dislike_near'[x] = dislike_near[x]
          BY <2>3, <2>4, <4>2, <5>1
        <5> QED
          BY <2>4, <5>1, <5>2 DEF DislikesInv
      <4> QED
        BY <4>1, <4>2
    <3> QED
      BY <2>1, <3>1 DEF DislikesInv
  <2>8. PreferencesInv'
    BY <2>1 DEF PreferencesInv, Preferred
  <2> QED
    BY <2>5, <2>6, <2>7, <2>8
<1>4. ASSUME NEW near \in Nearness, SearchPreference(near)
      PROVE  SearchInv'
  <2>1. /\ stage = "searching" /\ Preferred \ DOMAIN preferred # {}
        /\ UNCHANGED <<stage, request, queries, found, dislike_near, disliked, explore, explored,
                       lists, rewritten>>
    BY <1>4 DEF SearchPreference, inputs, secondary, rewrites
  <2>2. PICK d, results :
            /\ results \in SearchResults(near, TOP_K, FALSE, NoExclusion)
            /\ d = (CHOOSE v \in Preferred \ DOMAIN preferred : TRUE) /\ preferred' = With(preferred, d, results)
    BY <1>4 DEF SearchPreference
  <2>3. d \in Preferred
    BY <2>1, <2>2
  <2>4. /\ DOMAIN preferred' = DOMAIN preferred \cup {d} /\ preferred'[d] = results
        /\ \A x \in DOMAIN preferred : x # d => preferred'[x] = preferred[x]
    <3>1. Extended(preferred', preferred, d, results)
      BY <2>2, WithFacts
    <3> QED
      BY <3>1 DEF Extended
  <2>5. PICK T \in SUBSET Products : results \in [T -> -100 .. 100]
    <3>1. results \in SearchResults(near, TOP_K, FALSE, NoExclusion)
      BY <2>2
    <3>2. \E U \in SUBSET Products :
              results = [p \in U |-> near[p]] /\ results \in [U -> -100 .. 100] /\ results \in [U -> Int]
      BY <3>1, ResultsFacts
    <3> QED
      BY <3>2
  <2>6. StageInv'
    BY <2>1 DEF StageInv
  <2>7. QueriesInv'
    BY <2>1 DEF QueriesInv
  <2>8. DislikesInv'
    BY <2>1 DEF DislikesInv
  <2>9. PreferencesInv'
    <3>1. ASSUME NEW x \in DOMAIN preferred'
          PROVE  \E U \in SUBSET Products : preferred'[x] \in [U -> -100 .. 100]
      <4>1. CASE x = d
        BY <2>4, <2>5, <4>1
      <4>2. CASE x # d
        BY <2>4, <4>2 DEF PreferencesInv
      <4> QED
        BY <4>1, <4>2
    <3>2. Preferred' = Preferred
      BY <2>1 DEF Preferred
    <3>3. DOMAIN preferred' \subseteq Preferred'
      BY <2>1, <2>3, <2>4, <3>2 DEF PreferencesInv
    <3> QED
      BY <3>1, <3>3 DEF PreferencesInv
  <2> QED
    BY <2>6, <2>7, <2>8, <2>9
<1>5. ASSUME NEW near \in Nearness, SearchExplore(near)
      PROVE  SearchInv'
  <2>1. /\ stage = "exploring" /\ Len(explored) < Len(explore)
        /\ UNCHANGED <<stage, request, queries, found, dislike_near, disliked, preferred, explore,
                       lists, rewritten>>
    BY <1>5 DEF SearchExplore, inputs, searches, rewrites
  <2> DEFINE Answers == SearchResults(near, EXPLORE_TOP_K, FALSE, Exclusion)
  <2>2. PICK results \in Answers : explored' = Append(explored, results)
    BY <1>5 DEF SearchExplore
  <2>3. PICK T \in SUBSET Products : results \in [T -> Int]
    <3>1. \E T \in SUBSET Products :
              results = [p \in T |-> near[p]] /\ results \in [T -> -100 .. 100] /\ results \in [T -> Int]
      BY <1>5, <2>2, ResultsFacts
    <3> QED
      BY <3>1
  <2>4. FoundFor(explored', explore)
    BY <2>1, <2>2, <2>3, AppendFound DEF QueriesInv
  <2>5. StageInv'
    BY <2>1 DEF StageInv
  <2>6. QueriesInv'
    BY <2>1, <2>4 DEF QueriesInv
  <2>7. DislikesInv'
    BY <2>1 DEF DislikesInv, Dislikes
  <2>8. PreferencesInv'
    BY <2>1 DEF PreferencesInv, Preferred
  <2> QED
    BY <2>5, <2>6, <2>7, <2>8
<1>6. ASSUME Judge
      PROVE  SearchInv'
  <2>1. /\ stage = "searching" /\ stage' = "exploring" /\ Dislikes \subseteq DOMAIN disliked
        /\ UNCHANGED <<request, queries, found, dislike_near, disliked, preferred, explored, lists,
                       rewritten>>
    BY <1>6 DEF Judge, inputs, searches, rewrites
  <2>2. PICK asked, P : /\ asked = BuildExploreQueries(queries, intents)
                        /\ P = {i \in DOMAIN asked : Key(asked[i].signal) \in uncovered'}
                        /\ explore' = At(asked, P)
    BY <1>6 DEF Judge
  <2>3. Queried(asked, SignalsOf(request), {"e"})
    BY <2>1, <2>2, ExploreQueriesFacts DEF QueriesInv
  <2>4. P \in SUBSET (DOMAIN asked)
    BY <2>2
  <2>5. Queried(explore', SignalsOf(request), {"e"})
    BY <2>2, <2>3, <2>4, AtQueried
  <2>6. FoundFor(explored', explore')
    BY <2>1, <2>5, EmptyFound DEF StageInv
  <2>7. StageInv'
    BY <2>1 DEF StageInv
  <2>8. QueriesInv'
    BY <2>1, <2>5, <2>6 DEF QueriesInv
  <2>9. DislikesInv'
    BY <2>1 DEF DislikesInv, Dislikes
  <2>10. PreferencesInv'
    BY <2>1 DEF PreferencesInv, Preferred
  <2> QED
    BY <2>7, <2>8, <2>9, <2>10
<1>7. ASSUME RankLists
      PROVE  SearchInv'
  <2>1. /\ stage = "exploring" /\ stage' = "answering"
        /\ UNCHANGED <<request, queries, found, dislike_near, disliked, preferred, explore, explored>>
    BY <1>7 DEF RankLists, inputs, searches, secondary
  <2>2. StageInv'
    BY <2>1 DEF StageInv
  <2>3. QueriesInv'
    BY <2>1 DEF QueriesInv
  <2>4. DislikesInv'
    BY <2>1 DEF DislikesInv
  <2>5. PreferencesInv'
    BY <2>1 DEF PreferencesInv, Preferred
  <2> QED
    BY <2>2, <2>3, <2>4, <2>5
<1>8. ASSUME NEW i, NEW says, Answer(i, says)
      PROVE  SearchInv'
  <2>1. /\ stage = "answering"
        /\ UNCHANGED <<stage, request, queries, found, dislike_near, disliked, preferred, explore,
                       explored, lists>>
    BY <1>8 DEF Answer, inputs, searches, secondary
  <2>2. StageInv'
    BY <2>1 DEF StageInv
  <2>3. QueriesInv'
    BY <2>1 DEF QueriesInv
  <2>4. DislikesInv'
    BY <2>1 DEF DislikesInv
  <2>5. PreferencesInv'
    BY <2>1 DEF PreferencesInv, Preferred
  <2> QED
    BY <2>2, <2>3, <2>4, <2>5
<1>9. CASE UNCHANGED vars
  BY <1>9 DEF vars, inputs, StageInv, QueriesInv, DislikesInv, Dislikes, PreferencesInv, Preferred
<1> QED
  BY <1>1, <1>2, <1>3, <1>4, <1>5, <1>6, <1>7, <1>8, <1>9 DEF Next

LEMMA SearchInvariant == Spec => []SearchInv
<1>1. Init => SearchInv
  BY DEF Init, Empty, SearchInv, StageInv, QueriesInv, DislikesInv, PreferencesInv
<1>2. SearchInv /\ [Next]_vars => SearchInv'
  BY SearchInvNext
<1> QED
  BY <1>1, <1>2, PTL DEF Spec

-----------------------------------------------------------------------------
(* The lists.                                                                 *)

\* A list made of candidates, and these of matches.
Made(list, C, M, mode, excluded) ==
    /\ Rankable(C, M)
    /\ \E S, E, s, e : ListOf(list, C, S, E, s, e)
    /\ \A c \in C : Listable(c, M, mode, excluded)

LEMMA PreferredFinite ==
    ASSUME NEW r \in Requests
    PROVE  IsFiniteSet(Preferences(r.profile))
<1>1. PICK P : P = {s \in r.profile : s.field = "preferences" /\ s.aspect = "content"}
  OBVIOUS
<1>2. IsFiniteSet(P)
  BY <1>1, RequestConstants, FS_Subset
<1>3. PICK f : f = [s \in P |-> s.value]
  OBVIOUS
<1>4. PICK V : V = {f[s] : s \in P}
  OBVIOUS
<1>5. V = Preferences(r.profile)
  BY <1>1, <1>3, <1>4 DEF Preferences
<1> QED
  BY <1>2, <1>4, <1>5, Image

LEMMA RankedList ==
    ASSUME SearchInv, RankLists, NEW mode \in Modes
    PROVE  /\ Made(lists'[mode], Candidates(AllMatches, mode, Excluded, preferred), AllMatches, mode,
                   Excluded)
           /\ \A m \in AllMatches : m.query.signal \in SignalsOf(request)
<1>1. PICK M, C : M = AllMatches /\ C = Candidates(M, mode, Excluded, preferred)
  OBVIOUS
<1>2. stage = "exploring" /\ lists'[mode] = Rank(C, mode)
  BY <1>1 DEF RankLists
<1>3. /\ request \in Requests
      /\ Queried(queries, SignalsOf(request), SearchKinds) /\ Queried(explore, SignalsOf(request), {"e"})
      /\ FoundFor(found, queries) /\ FoundFor(explored, explore)
  BY <1>2 DEF SearchInv, QueriesInv
<1>4. Weighed(SignalsOf(request))
  BY <1>3, SignalsWeighed DEF SignalsOf
<1>5. SearchKinds \in SUBSET Kinds /\ {"e"} \in SUBSET Kinds /\ SearchKinds \cap {"e"} = {}
  BY DEF SearchKinds, Kinds, KindOrder
<1>6. PICK A, B : A = Matches(queries, found, uncovered) /\ B = Matches(explore, explored, uncovered)
  OBVIOUS
<1>7. Told(A) /\ \A m \in A : m.query.kind \in SearchKinds /\ m.query.signal \in SignalsOf(request)
  BY <1>3, <1>4, <1>5, <1>6, MatchesFacts
<1>8. Told(B) /\ \A m \in B : m.query.kind \in {"e"} /\ m.query.signal \in SignalsOf(request)
  BY <1>3, <1>4, <1>5, <1>6, MatchesFacts
<1>9. M = A \cup B
  BY <1>1, <1>6 DEF AllMatches
<1>10. Told(M)
  BY <1>5, <1>7, <1>8, <1>9, ToldBoth
<1>11. IsFiniteSet(DOMAIN preferred)
  <2>1. IsFiniteSet(Preferred)
    BY <1>3, PreferredFinite DEF Preferred
  <2>2. DOMAIN preferred \in SUBSET Preferred
    BY <1>2 DEF SearchInv, PreferencesInv
  <2> QED
    BY <2>1, <2>2, FS_Subset
<1>12. Rankable(C, M) /\ \A c \in C : Listable(c, M, mode, Excluded)
  BY <1>1, <1>10, <1>11, CandidatesFacts
<1>13. \E S, E, s, e : ListOf(lists'[mode], C, S, E, s, e)
  BY <1>2, <1>12, RankFacts
<1>14. Made(lists'[mode], C, M, mode, Excluded)
  BY <1>12, <1>13 DEF Made
<1> QED
  BY <1>1, <1>7, <1>8, <1>9, <1>14

\* What Next does to the lists: they change when they are ranked, and nothing
\* else happens then; before there are none; afterwards only reasons change.
LEMMA ListsChange ==
    ASSUME SearchInv, [Next]_vars
    PROVE  \/ RankLists
           \/ lists' = NoLists /\ rewritten' = Empty
           \/ /\ stage = "answering"
              /\ \E i \in DOMAIN lists["gift"] : \E says : Answer(i, says)
           \/ UNCHANGED vars
<1>1. ASSUME NEW r, NEW known, Receive(r, known)
      PROVE  lists' = NoLists /\ rewritten' = Empty
  BY <1>1 DEF Receive, rewrites, SearchInv, StageInv
<1>2. ASSUME NEW near, Search(near) \/ SearchDislike(near) \/ SearchPreference(near) \/ SearchExplore(near)
      PROVE  lists' = NoLists /\ rewritten' = Empty
  BY <1>2 DEF Search, SearchDislike, SearchPreference, SearchExplore, rewrites, SearchInv, StageInv
<1>3. ASSUME Judge
      PROVE  lists' = NoLists /\ rewritten' = Empty
  BY <1>3 DEF Judge, rewrites, SearchInv, StageInv
<1>4. ASSUME NEW i \in DOMAIN lists["gift"], NEW says, Answer(i, says)
      PROVE  stage = "answering"
  BY <1>4 DEF Answer
<1> QED
  BY <1>1, <1>2, <1>3, <1>4 DEF Next

LEMMA NoListsEmpty ==
    ASSUME NEW mode \in Modes
    PROVE  NoLists[mode] = Empty /\ DOMAIN NoLists[mode] = {} /\ Len(NoLists[mode]) = 0
BY DEF NoLists, Empty

LEMMA EmptyOrdered ==
    ASSUME NEW mode \in Modes
    PROVE  OrderedList(NoLists[mode])
<1>1. PICK L : L = NoLists[mode]
  OBVIOUS
<1>2. DOMAIN L = {} /\ Len(L) = 0
  BY <1>1, NoListsEmpty
<1>3. PICK P, Q : P = {L[n].product : n \in DOMAIN L} /\ Q = {n \in DOMAIN L : IsNew(L[n])}
  OBVIOUS
<1>4. P = {} /\ Q = {}
  BY <1>2, <1>3
<1>5. Cardinality(P) = 0 /\ Cardinality(Q) = 0 /\ DEFAULT_LIMIT \in Nat /\ MAX_EXPLORE \in Nat
  BY <1>4, FS_EmptySet, RankingConstants
<1>6. Len(L) <= DEFAULT_LIMIT /\ Cardinality(P) = Len(L) /\ Cardinality(Q) <= MAX_EXPLORE
  BY <1>2, <1>5
<1> QED
  BY <1>1, <1>2, <1>3, <1>6 DEF OrderedList

LEMMA OrderedLists ==
    ListsInOrder <=> \A mode \in Modes : OrderedList(lists[mode])
BY DEF ListsInOrder, OrderedList, Listed

LEMMA ListsInOrderNext ==
    ASSUME SearchInv, ListsInOrder, [Next]_vars
    PROVE  ListsInOrder'
<1>1. CASE RankLists
  <2>1. ASSUME NEW mode \in Modes
        PROVE  OrderedList(lists'[mode])
    <3>1. PICK C, M : Made(lists'[mode], C, M, mode, Excluded)
      BY <1>1, RankedList
    <3>2. PICK S, E, s, e : Rankable(C, M) /\ ListOf(lists'[mode], C, S, E, s, e)
      BY <3>1 DEF Made
    <3> QED
      BY <3>2, OrderedListFacts
  <2> QED
    BY <2>1 DEF ListsInOrder, OrderedList, Listed
<1>2. CASE lists' = NoLists
  <2>1. \A mode \in Modes : OrderedList(lists'[mode])
    BY <1>2, EmptyOrdered
  <2> QED
    BY <2>1 DEF ListsInOrder, OrderedList, Listed
<1>3. CASE UNCHANGED lists
  BY <1>3 DEF ListsInOrder, Listed
<1>4. RankLists \/ lists' = NoLists \/ UNCHANGED lists
  BY ListsChange DEF Answer, vars
<1> QED
  BY <1>1, <1>2, <1>3, <1>4

\* The lists of a request are in order for any request and any answers of the
\* searches: the engine joins, in rank_recommendations, two rankings made apart,
\* and neither the rounds of the diverse selection nor the explore picks let a
\* list grow, repeat a product or rank a new one above one of the interests.
THEOREM ListsInOrderHolds == Spec => []ListsInOrder
<1>1. Init => ListsInOrder
  <2> SUFFICES ASSUME Init PROVE ListsInOrder
    OBVIOUS
  <2>1. \A mode \in Modes : OrderedList(lists[mode])
    BY EmptyOrdered DEF Init
  <2> QED
    BY <2>1, OrderedLists
<1>2. SearchInv /\ ListsInOrder /\ [Next]_vars => ListsInOrder'
  BY ListsInOrderNext
<1> QED
  BY <1>1, <1>2, SearchInvariant, PTL DEF Spec

-----------------------------------------------------------------------------

\* What NothingExcluded says of a listed product.
Allowed(p, e, dislikes, near) ==
    /\ ~Blocks(e, p)
    /\ Catalog[p].name \cap dislikes = {}
    /\ \A d \in dislikes :
            \/ near[d][p] < EXCLUSION_SIMILARITY
            \/ Cardinality({q \in Products \ {p} : near[d][q] >= near[d][p]}) >= EXCLUSION_TOP_K

LEMMA NothingExcludedNext ==
    ASSUME SearchInv, NothingExcluded, [Next]_vars
    PROVE  NothingExcluded'
<1>1. CASE RankLists
  <2>1. stage = "exploring" /\ UNCHANGED <<request, dislike_near>>
    BY <1>1 DEF RankLists, inputs, searches
  <2>2. Exclusion' = Exclusion /\ Dislikes' = Dislikes
    BY <2>1 DEF Exclusion, Dislikes
  <2>3. ASSUME NEW mode \in Modes, NEW n \in DOMAIN lists'[mode], NEW p, p = lists'[mode][n].product
        PROVE  /\ Allowed(p, Exclusion, Dislikes, dislike_near)
               /\ mode = "gift" => Catalog[p].gift_available
    <3>1. PICK M, C : M = AllMatches /\ Made(lists'[mode], C, M, mode, Excluded)
      BY <1>1, RankedList
    <3>2. PICK S, E, s, e : Rankable(C, M) /\ ListOf(lists'[mode], C, S, E, s, e)
      BY <3>1 DEF Made
    <3>3. PICK c \in C : p = c.product
      <4>1. PICK L : L = lists'[mode]
        OBVIOUS
      <4>2. ListOf(L, C, S, E, s, e)
        BY <3>2, <4>1
      <4>3. /\ DOMAIN L = 1 .. s + e
            /\ \A k \in 1 .. s + e : \E x \in C : L[k].product = x.product /\ L[k].matches = x.matches
        BY <3>2, <4>2, ListFacts
      <4> QED
        BY <2>3, <4>1, <4>3
    <3>4. Listable(c, M, mode, Excluded)
      BY <3>1 DEF Made
    <3>5. p \in Products /\ p \notin Excluded /\ (mode = "gift" => Catalog[p].gift_available)
      BY <3>3, <3>4 DEF Listable
    <3>6. PICK m \in M : m.product = p
      BY <3>3, <3>4 DEF Listable
    <3>7. ~Blocks(Exclusion, p) /\ Catalog[p].name \cap Dislikes = {}
      BY <3>1, <3>5, <3>6 DEF Excluded, ExcludedKeys
    <3>8. ASSUME NEW d \in Dislikes
          PROVE  \/ dislike_near[d][p] < EXCLUSION_SIMILARITY
                 \/ Cardinality({q \in Products \ {p} : dislike_near[d][q] >= dislike_near[d][p]})
                        >= EXCLUSION_TOP_K
      <4>1. PICK near, r : near = dislike_near[d] /\ r = disliked[d]
        OBVIOUS
      <4>2. d \in DOMAIN disliked
        BY <2>1 DEF SearchInv, DislikesInv
      <4>3. near \in Nearness /\ r \in SearchResults(near, EXCLUSION_TOP_K, FALSE, NoExclusion)
        BY <4>1, <4>2 DEF SearchInv, DislikesInv
      <4>4. CASE p \in DOMAIN r /\ r[p] = near[p]
        <5>1. ~(r[p] >= EXCLUSION_SIMILARITY)
          BY <3>5, <4>1, <4>2, <4>4 DEF Excluded, ExcludedKeys
        <5>2. near[p] \in Int /\ EXCLUSION_SIMILARITY \in Int
          BY <3>5, <4>3, RankingConstants, RequestConstants
        <5> QED
          BY <4>1, <4>4, <5>1, <5>2
      <4>5. CASE Cardinality({q \in Products \ {p} : near[q] >= near[p]}) >= EXCLUSION_TOP_K
        BY <4>1, <4>5
      <4> QED
        BY <3>5, <4>3, <4>4, <4>5, NearestFound
    <3> QED
      BY <3>5, <3>7, <3>8 DEF Allowed
  <2>4. "gift" \in Modes
    BY DEF Modes
  <2> QED
    BY <2>1, <2>2, <2>3, <2>4 DEF NothingExcluded, Listed, Allowed
<1>2. CASE lists' = NoLists
  <2>1. "gift" \in Modes /\ \A mode \in Modes : DOMAIN lists'[mode] = {}
    BY <1>2, NoListsEmpty DEF Modes
  <2> QED
    BY <2>1 DEF NothingExcluded, Listed
<1>3. CASE UNCHANGED <<lists, request, dislike_near>>
  BY <1>3 DEF NothingExcluded, Listed, Exclusion, Dislikes
<1>4. RankLists \/ lists' = NoLists \/ UNCHANGED <<lists, request, dislike_near>>
  BY ListsChange DEF Answer, vars, inputs, searches
<1> QED
  BY <1>1, <1>2, <1>3, <1>4

\* Whatever the catalog, the conditions and how near anything is: no list names
\* a product that the conditions forbid or that is named after a dislike, and one
\* near a dislike only if as many others as the search for it returns were as
\* near; _excluded_keys sees every product that a list is made of.
THEOREM NothingExcludedHolds == Spec => []NothingExcluded
<1>1. Init => NothingExcluded
  <2> SUFFICES ASSUME Init PROVE NothingExcluded
    OBVIOUS
  <2>1. "gift" \in Modes /\ \A mode \in Modes : DOMAIN lists[mode] = {}
    BY NoListsEmpty DEF Init, Modes
  <2> QED
    BY <2>1 DEF NothingExcluded, Listed
<1>2. SearchInv /\ NothingExcluded /\ [Next]_vars => NothingExcluded'
  BY NothingExcludedNext
<1> QED
  BY <1>1, <1>2, SearchInvariant, PTL DEF Spec

-----------------------------------------------------------------------------

LEMMA NothingFound ==
    ASSUME NEW list, NEW mode, NEW excluded, NEW liked
    PROVE  ServedIn(list, Candidates({}, mode, excluded, liked))
<1>1. PICK C : C = Candidates({}, mode, excluded, liked)
  OBVIOUS
<1>2. C = {}
  BY <1>1 DEF Candidates
<1>3. AllIds({i \in C : ~IsNew(i)}) = {}
  BY <1>2 DEF AllIds
<1> QED
  BY <1>1, <1>3 DEF ServedIn

LEMMA QueriesServedNext ==
    ASSUME SearchInv, QueriesServed, [Next]_vars
    PROVE  QueriesServed'
<1>1. CASE RankLists
  <2>1. UNCHANGED <<request, queries, found, disliked, preferred, uncovered, explore, explored>>
    BY <1>1 DEF RankLists, inputs, searches, secondary
  <2>2. AllMatches' = AllMatches
    BY <2>1 DEF AllMatches
  <2>3. Excluded' = Excluded
    BY <2>1, <2>2 DEF Excluded, Dislikes, Exclusion
  <2>4. ASSUME NEW mode \in Modes
        PROVE  ServedIn(lists'[mode], Candidates(AllMatches', mode, Excluded', preferred'))
    <3>1. PICK L, M, C : /\ L = lists'[mode] /\ M = AllMatches
                         /\ C = Candidates(AllMatches, mode, Excluded, preferred)
                         /\ Made(L, C, M, mode, Excluded)
      BY <1>1, RankedList
    <3>2. PICK S, E, s, e : Rankable(C, M) /\ ListOf(L, C, S, E, s, e)
      BY <3>1 DEF Made
    <3>3. ServedIn(L, C)
      BY <3>2, ServedFacts
    <3> QED
      BY <2>1, <2>2, <2>3, <3>1, <3>3
  <2> QED
    BY <2>4 DEF QueriesServed, Ranked, ServedIn, AllIds
<1>2. CASE stage # "answering" /\ ~RankLists
  <2>1. ASSUME NEW r, NEW known, Receive(r, known)
        PROVE  found' = Empty /\ explored' = Empty
    BY <2>1 DEF Receive, searches, secondary, SearchInv, StageInv
  <2>2. ASSUME NEW near, Search(near) \/ SearchDislike(near) \/ SearchPreference(near) \/ SearchExplore(near)
        PROVE  stage' # "answering"
    BY <2>2 DEF Search, SearchDislike, SearchPreference, SearchExplore
  <2>3. ASSUME Judge
        PROVE  stage' # "answering"
    BY <2>3 DEF Judge
  <2>4. ASSUME NEW i, NEW says, Answer(i, says)
        PROVE  FALSE
    BY <1>2, <2>4 DEF Answer
  <2>5. ASSUME UNCHANGED vars
        PROVE  stage' # "answering"
    BY <1>2, <2>5 DEF vars
  <2>6. stage' # "answering" \/ (found' = Empty /\ explored' = Empty)
    BY <1>2, <2>1, <2>2, <2>3, <2>4, <2>5 DEF Next
  <2>7. CASE stage' # "answering"
    BY <2>7 DEF QueriesServed, Ranked
  <2>8. CASE found' = Empty /\ explored' = Empty
    <3>1. AllMatches' = {}
      BY <2>8 DEF AllMatches, Matches, Empty
    <3>2. ASSUME NEW mode \in Modes
          PROVE  ServedIn(lists'[mode], Candidates(AllMatches', mode, Excluded', preferred'))
      BY <3>1, NothingFound
    <3> QED
      BY <3>2 DEF QueriesServed, Ranked, ServedIn, AllIds
  <2> QED
    BY <2>6, <2>7, <2>8
<1>3. CASE stage = "answering"
  <2>1. UNCHANGED <<stage, request, queries, found, disliked, preferred, uncovered, explore, explored,
                    lists>>
    <3>1. ASSUME NEW r, NEW known
          PROVE  ~Receive(r, known)
      BY <1>3 DEF Receive
    <3>2. ASSUME NEW near
          PROVE  ~(Search(near) \/ SearchDislike(near) \/ SearchPreference(near) \/ SearchExplore(near))
      BY <1>3 DEF Search, SearchDislike, SearchPreference, SearchExplore
    <3>3. ~Judge /\ ~RankLists
      BY <1>3 DEF Judge, RankLists
    <3>4. UNCHANGED vars \/ \E i, says : Answer(i, says)
      BY <3>1, <3>2, <3>3 DEF Next
    <3> QED
      BY <3>4 DEF vars, Answer, inputs, searches, secondary
  <2>2. QueriesServed' = QueriesServed
    BY <2>1 DEF QueriesServed, Ranked, AllMatches, Excluded, Exclusion, Dislikes
  <2> QED
    BY <2>2
<1> QED
  BY <1>1, <1>2, <1>3

\* Whatever the scores, the gap a round may skip and the products chosen before,
\* _select_with_query_diversity leaves no query out that has a candidate, if the
\* list has room for one product of each.
THEOREM QueriesServedHolds == Spec => []QueriesServed
<1>1. Init => QueriesServed
  BY DEF Init, QueriesServed, Ranked
<1>2. SearchInv /\ QueriesServed /\ [Next]_vars => QueriesServed'
  BY QueriesServedNext
<1> QED
  BY <1>1, <1>2, SearchInvariant, PTL DEF Spec

-----------------------------------------------------------------------------
(* The reasons of the gift list.                                              *)

LEMMA AtSome ==
    ASSUME NEW A, NEW seq \in Seq(A), NEW P \in SUBSET (DOMAIN seq), NEW B, \A i \in P : seq[i] \in B
    PROVE  At(seq, P) \in Seq(B)
<1>1. PICK t : t = At(seq, P)
  OBVIOUS
<1>2. P \in SUBSET (1 .. Len(seq))
  BY LenProperties
<1>3. PICK N, at : StandsAt(t, seq, P, at, N)
  BY <1>1, <1>2, AtFacts
<1>4. N \in Nat /\ t = [n \in 1 .. N |-> seq[at[n]]] /\ \A n \in 1 .. N : at[n] \in P
  BY <1>3 DEF StandsAt
<1>5. t \in [1 .. N -> B]
  BY <1>4
<1> QED
  BY <1>1, <1>4, <1>5, FunctionIsSeq

\* The values that anyone may know of some signals.
PublicValues(S) == {s.value : s \in {t \in S : Shown(t, "gift")}}

\* Found with something, and by signals of S.
ShownBy(matches, MS, S) ==
    matches \in Seq(MS) /\ 1 \in DOMAIN matches /\ \A m \in MS : SignalOf(m) \in S

\* The matches a reason is made of.
ReasonMatches(item) == IF IsNew(item) THEN item.matches ELSE Found(item)

\* A listed product was found with something, by signals of S.
ExplainedItem(item, S) ==
    /\ \E A : item.matches \in Seq(A)
    /\ 1 \in DOMAIN item.matches
    /\ \A k \in DOMAIN item.matches : item.matches[k].query.signal \in S

LEMMA ReasonMatchesFacts ==
    ASSUME NEW S, NEW item, ExplainedItem(item, S)
    PROVE  \E MS : Found(item) \in Seq(MS) /\ ShownBy(ReasonMatches(item), MS, S)
<1>1. PICK A, q : q = item.matches /\ q \in Seq(A)
  BY DEF ExplainedItem
<1>2. PICK MS : MS = {q[k] : k \in DOMAIN q}
  OBVIOUS
<1>3. q \in Seq(MS)
  <2>1. PICK N \in Nat : DOMAIN q = 1 .. N
    BY <1>1, LenProperties
  <2>2. q = [k \in 1 .. N |-> q[k]]
    BY <1>1, <2>1
  <2>3. q \in [1 .. N -> MS]
    BY <1>2, <2>1, <2>2
  <2> QED
    BY <2>3, FunctionIsSeq
<1>4. \A m \in MS : SignalOf(m) \in S
  BY <1>1, <1>2 DEF ExplainedItem, SignalOf
<1>5. PICK P : P = {i \in DOMAIN q : ~IsExplore(q[i].query)}
  OBVIOUS
<1>6. P \in SUBSET (1 .. Len(q)) /\ DOMAIN q = 1 .. Len(q)
  BY <1>3, <1>5, LenProperties
<1>7. Found(item) = At(q, P)
  BY <1>1, <1>5 DEF Found
<1>8. Found(item) \in Seq(MS)
  BY <1>3, <1>6, <1>7, AtFacts
<1>9. CASE IsNew(item)
  BY <1>1, <1>3, <1>4, <1>8, <1>9 DEF ShownBy, ReasonMatches, ExplainedItem
<1>10. CASE ~IsNew(item)
  <2>1. PICK i \in DOMAIN q : q[i].query.kind # "e"
    BY <1>1, <1>10 DEF IsNew, QueriesOf
  <2>2. i \in P
    BY <1>5, <2>1 DEF IsExplore
  <2>3. PICK t : t = At(q, P)
    OBVIOUS
  <2>4. PICK N, at : StandsAt(t, q, P, at, N)
    BY <1>3, <1>6, <2>3, AtFacts
  <2>5. PICK n \in 1 .. N : at[n] = i
    BY <2>2, <2>4 DEF StandsAt
  <2>6. 1 \in DOMAIN t
    BY <2>4, <2>5 DEF StandsAt
  <2> QED
    BY <1>4, <1>7, <1>8, <1>10, <2>3, <2>6 DEF ShownBy, ReasonMatches
<1> QED
  BY <1>9, <1>10

LEMMA UniquesSeq ==
    ASSUME NEW V, NEW values \in Seq(V)
    PROVE  Uniques(values) \in Seq(V)
BY AtSeq DEF Uniques

LEMMA SharedFacts ==
    ASSUME NEW S, NEW item, ExplainedItem(item, S)
    PROVE  SharedInterests(item, "gift") \in Seq(PublicValues(S))
<1>1. PICK q : q = Found(item)
  OBVIOUS
<1>2. PICK MS : q \in Seq(MS) /\ \A m \in MS : SignalOf(m) \in S
  BY <1>1, ReasonMatchesFacts DEF ShownBy
<1>3. PICK near : near = {i \in DOMAIN q :
                            /\ SignalOf(q[i]).field \in {"interests", "hobbies"}
                            /\ q[i].similarity >= SHARED_REASON_MIN_SIMILARITY
                            /\ Shown(SignalOf(q[i]), "gift")}
  OBVIOUS
<1>4. PICK B : B = {m \in MS : Shown(SignalOf(m), "gift")}
  OBVIOUS
<1>5. ASSUME NEW i \in near
      PROVE  q[i] \in B
  <2>1. i \in DOMAIN q /\ Shown(SignalOf(q[i]), "gift")
    BY <1>3
  <2>2. q[i] \in MS
    BY <1>2, <2>1, ElementOfSeq, LenProperties
  <2> QED
    BY <1>4, <2>1, <2>2
<1>6. PICK shared : shared = At(q, near)
  OBVIOUS
<1>7. shared \in Seq(B)
  <2>1. near \in SUBSET (DOMAIN q)
    BY <1>3
  <2> QED
    BY <1>2, <1>5, <1>6, <2>1, AtSome
<1>8. PICK values : values = [i \in DOMAIN shared |-> SignalOf(shared[i]).value]
  OBVIOUS
<1>9. values \in Seq(PublicValues(S))
  <2>1. PICK N \in Nat : DOMAIN shared = 1 .. N /\ \A i \in 1 .. N : shared[i] \in B
    BY <1>7, LenProperties, ElementOfSeq
  <2>2. \A i \in 1 .. N : SignalOf(shared[i]).value \in PublicValues(S)
    BY <1>2, <1>4, <2>1 DEF PublicValues
  <2>3. values \in [1 .. N -> PublicValues(S)]
    BY <1>8, <2>1, <2>2
  <2> QED
    BY <2>3, FunctionIsSeq
<1>10. SharedInterests(item, "gift") = Uniques(values)
  BY <1>1, <1>3, <1>6, <1>8 DEF SharedInterests
<1> QED
  BY <1>9, <1>10, UniquesSeq

\* A reason of the templates names what anyone may know, and the label.
LEMMA ReasonFacts ==
    ASSUME NEW S, NEW item, ExplainedItem(item, S), NEW label
    PROVE  Reason(item, "gift", label) \subseteq PublicValues(S) \cup ({label} \ {None})
<1>1. PICK MS : ShownBy(ReasonMatches(item), MS, S)
  BY ReasonMatchesFacts
<1>2. PICK s : s = SignalOf(ReasonMatches(item)[1])
  OBVIOUS
<1>3. s \in S
  <2>1. PICK q : q = ReasonMatches(item)
    OBVIOUS
  <2>2. q \in Seq(MS) /\ 1 \in DOMAIN q
    BY <1>1, <2>1 DEF ShownBy
  <2>3. q[1] \in MS
    BY <2>2, ElementOfSeq, LenProperties
  <2> QED
    BY <1>1, <1>2, <2>1, <2>3 DEF ShownBy
<1>4. PICK own : own = IF Shown(s, "gift") THEN {s.value} ELSE {}
  OBVIOUS
<1>5. own \subseteq PublicValues(S)
  BY <1>3, <1>4 DEF PublicValues
<1>6. PICK shared : shared = SharedInterests(item, "gift")
  OBVIOUS
<1>7. Len(shared) >= 2 => {shared[1], shared[2]} \subseteq PublicValues(S)
  <2>1. shared \in Seq(PublicValues(S))
    BY <1>6, SharedFacts
  <2>2. Len(shared) \in Nat /\ \A i \in 1 .. Len(shared) : shared[i] \in PublicValues(S)
    BY <2>1, LenProperties, ElementOfSeq
  <2>3. ASSUME Len(shared) >= 2
        PROVE  shared[1] \in PublicValues(S) /\ shared[2] \in PublicValues(S)
    BY <2>2, <2>3
  <2> QED
    BY <2>3
<1>8. Reason(item, "gift", label)
        = IF IsNew(item) THEN own
          ELSE IF Len(shared) >= 2 THEN {shared[1], shared[2]} \cup ({label} \ {None})
          ELSE IF s.field = "preferences" THEN own
          ELSE own \cup ({label} \ {None})
  BY <1>2, <1>4, <1>6 DEF Reason, ReasonMatches
<1> QED
  BY <1>5, <1>7, <1>8

\* A reason that is valid for its clues names of the hidden values only those
\* that anyone may know, the label, or those too short to be looked for.
LEMMA CluesFacts ==
    ASSUME NEW S, NEW item, ExplainedItem(item, S), NEW label, NEW says,
           ValidReason(says, Clues(item, "gift", label))
    PROVE  \A m \in ToSet(ReasonMatches(item)) :
              ~Shown(SignalOf(m), "gift") /\ SignalOf(m).value \in says
                  => SignalOf(m).value \in PublicValues(S) \cup ({label} \ {None}) \cup ShortValues
<1>1. PICK q : q = ReasonMatches(item)
  OBVIOUS
<1>2. PICK MS : q \in Seq(MS) /\ \A m \in MS : SignalOf(m) \in S
  BY <1>1, ReasonMatchesFacts DEF ShownBy
<1>3. PICK P : P = {i \in DOMAIN q : Shown(SignalOf(q[i]), "gift")}
  OBVIOUS
<1>4. PICK B : B = {m \in MS : Shown(SignalOf(m), "gift")}
  OBVIOUS
<1>5. ASSUME NEW i \in P
      PROVE  q[i] \in B
  <2>1. i \in DOMAIN q /\ Shown(SignalOf(q[i]), "gift")
    BY <1>3
  <2>2. q[i] \in MS
    BY <1>2, <2>1, ElementOfSeq, LenProperties
  <2> QED
    BY <1>4, <2>1, <2>2
<1>6. PICK shown : shown = At(q, P)
  OBVIOUS
<1>7. shown \in Seq(B)
  <2>1. P \in SUBSET (DOMAIN q)
    BY <1>3
  <2> QED
    BY <1>2, <1>5, <1>6, <2>1, AtSome
<1>8. PICK values : values = [i \in DOMAIN shown |->
                                IF i = 1 \/ shown[i].similarity >= SHARED_REASON_MIN_SIMILARITY
                                THEN SignalOf(shown[i]).value ELSE SignalOf(shown[1]).value]
  OBVIOUS
<1>9. values \in Seq(PublicValues(S))
  <2>1. PICK N \in Nat : DOMAIN shown = 1 .. N /\ \A i \in 1 .. N : shown[i] \in B
    BY <1>7, LenProperties, ElementOfSeq
  <2>2. \A i \in 1 .. N : SignalOf(shown[i]).value \in PublicValues(S) /\ 1 \in 1 .. N
    BY <1>2, <1>4, <2>1 DEF PublicValues
  <2>3. \A i \in 1 .. N : SignalOf(shown[1]).value \in PublicValues(S)
    BY <2>2
  <2>4. values \in [1 .. N -> PublicValues(S)]
    BY <1>8, <2>1, <2>2, <2>3
  <2> QED
    BY <2>4, FunctionIsSeq
<1>10. PICK named : named = Take(Uniques(values), CLUE_LIMIT)
  OBVIOUS
<1>11. named \in Seq(PublicValues(S))
  <2>1. Uniques(values) \in Seq(PublicValues(S)) /\ CLUE_LIMIT \in Nat
    BY <1>9, UniquesSeq, RequestConstants
  <2> QED
    BY <1>10, <2>1, TakeFacts
<1>12. ToSet(named) \subseteq PublicValues(S)
  BY <1>11, LenProperties, ElementOfSeq DEF ToSet
<1>13. PICK likes : likes = ToSet(named) \cup ({label} \ {None})
  OBVIOUS
<1>14. Clues(item, "gift", label)
         = [ likes |-> likes,
             hidden |-> {SignalOf(m).value : m \in {x \in ToSet(q) : ~Shown(SignalOf(x), "gift")}}
                           \ likes ]
  BY <1>1, <1>3, <1>6, <1>8, <1>10, <1>13 DEF Clues, ReasonMatches
<1>15. ASSUME NEW m \in ToSet(q), ~Shown(SignalOf(m), "gift"), SignalOf(m).value \in says
       PROVE  SignalOf(m).value \in likes \cup ShortValues
  <2>1. \/ SignalOf(m).value \notin Clues(item, "gift", label).hidden
        \/ SignalOf(m).value \in ShortValues
    BY <1>15 DEF ValidReason
  <2> QED
    BY <1>14, <1>15, <2>1
<1> QED
  BY <1>1, <1>12, <1>13, <1>15

\* The list shows what its products were found with; the reasons the model
\* rewrote keep what they may not say.
Explained(list, S) == \A n \in DOMAIN list : ExplainedItem(list[n], S)

Kept(reasons, list, liked) ==
    \A i \in DOMAIN reasons :
        ValidReason(reasons[i], Clues(list[i], "gift", BoostLabel(liked, list[i].product)))

ReasonsInv == Explained(lists["gift"], SignalsOf(request)) /\ Kept(rewritten, lists["gift"], preferred)

LEMMA ExplainedList ==
    ASSUME NEW C, NEW M, NEW excluded, NEW L, Made(L, C, M, "gift", excluded),
           NEW signals, \A m \in M : m.query.signal \in signals
    PROVE  Explained(L, signals)
<1>1. PICK S, E, s, e : Rankable(C, M) /\ ListOf(L, C, S, E, s, e)
  BY DEF Made
<1>2. /\ DOMAIN L = 1 .. s + e
      /\ \A n \in 1 .. s + e : \E x \in C : L[n].product = x.product /\ L[n].matches = x.matches
  BY <1>1, ListFacts
<1>3. ASSUME NEW n \in DOMAIN L
      PROVE  ExplainedItem(L[n], signals)
  <2>1. PICK c \in C : L[n].matches = c.matches
    BY <1>2
  <2>2. Listable(c, M, "gift", excluded)
    BY <2>1 DEF Made
  <2>q. PICK q : q = c.matches
    OBVIOUS
  <2>3. q \in Seq(M) /\ 1 \in DOMAIN q
    BY <2>2, <2>q DEF Listable
  <2>4. \A k \in DOMAIN q : q[k] \in M
    BY <2>3, LenProperties, ElementOfSeq
  <2>5. \A k \in DOMAIN q : q[k].query.signal \in signals
    BY <2>4
  <2>6. L[n].matches = q
    BY <2>1, <2>q
  <2> QED
    BY <2>3, <2>5, <2>6 DEF ExplainedItem
<1> QED
  BY <1>3 DEF Explained

LEMMA ReasonsInvNext ==
    ASSUME SearchInv, ReasonsInv, [Next]_vars
    PROVE  ReasonsInv'
<1>1. "gift" \in Modes
  BY DEF Modes
<1>2. CASE RankLists
  <2>1. stage = "exploring" /\ UNCHANGED <<request, rewritten>>
    BY <1>2 DEF RankLists, inputs, rewrites
  <2>2. DOMAIN rewritten' = {}
    BY <2>1 DEF SearchInv, StageInv, Empty
  <2>3. PICK C, M : /\ Made(lists'["gift"], C, M, "gift", Excluded)
                    /\ \A m \in M : m.query.signal \in SignalsOf(request)
    BY <1>1, <1>2, RankedList
  <2>4. Explained(lists'["gift"], SignalsOf(request))
    BY <2>3, ExplainedList
  <2> QED
    BY <2>1, <2>2, <2>4 DEF ReasonsInv, Kept
<1>3. CASE lists' = NoLists /\ rewritten' = Empty
  <2>1. DOMAIN lists'["gift"] = {} /\ DOMAIN rewritten' = {}
    BY <1>1, <1>3, NoListsEmpty DEF Empty
  <2> QED
    BY <2>1 DEF ReasonsInv, Explained, Kept
<1>4. ASSUME NEW i \in DOMAIN lists["gift"], NEW says, Answer(i, says)
      PROVE  ReasonsInv'
  <2>1. UNCHANGED <<request, lists, preferred>>
    BY <1>4 DEF Answer, inputs, searches
  <2>2. PICK clues : clues = Clues(lists["gift"][i], "gift", BoostLabel(preferred, lists["gift"][i].product))
    OBVIOUS
  <2>3. rewritten' = IF i \in DOMAIN rewritten \/ ~ValidReason(says, clues) THEN rewritten
                     ELSE With(rewritten, i, says)
    BY <1>4, <2>2 DEF Answer
  <2>4. Kept(rewritten', lists["gift"], preferred)
    <3>1. CASE rewritten' = rewritten
      BY <3>1 DEF ReasonsInv
    <3>2. CASE rewritten' = With(rewritten, i, says) /\ ValidReason(says, clues)
      <4>1. Extended(rewritten', rewritten, i, says)
        BY <3>2, WithFacts
      <4>2. ASSUME NEW j \in DOMAIN rewritten'
            PROVE  ValidReason(rewritten'[j],
                       Clues(lists["gift"][j], "gift", BoostLabel(preferred, lists["gift"][j].product)))
        <5>1. CASE j = i
          BY <2>2, <3>2, <4>1, <5>1 DEF Extended
        <5>2. CASE j # i
          BY <4>1, <5>2 DEF Extended, ReasonsInv, Kept
        <5> QED
          BY <5>1, <5>2
      <4> QED
        BY <4>2 DEF Kept
    <3> QED
      BY <2>3, <3>1, <3>2
  <2> QED
    BY <2>1, <2>4 DEF ReasonsInv
<1>5. CASE UNCHANGED vars
  BY <1>5 DEF vars, inputs, searches, rewrites, ReasonsInv
<1> QED
  BY <1>2, <1>3, <1>4, <1>5, ListsChange

LEMMA SecretsKept ==
    ASSUME SearchInv, ReasonsInv
    PROVE  GiftKeepsSecrets
<1>1. SUFFICES ASSUME NEW n \in DOMAIN lists["gift"]
               PROVE  LET item    == lists["gift"][n]
                          matches == ReasonMatches(item)
                          private == {m \in ToSet(matches) : ~Shown(SignalOf(m), "gift")}
                          leaked  == (GiftReason(n) \cap {SignalOf(m).value : m \in private})
                                         \ PublicValues(SignalsOf(request))
                      IN  leaked \subseteq IF n \in DOMAIN rewritten THEN ShortValues ELSE {}
  BY DEF GiftKeepsSecrets, ReasonMatches, PublicValues, SignalsOf
<1>2. PICK item, S : item = lists["gift"][n] /\ S = SignalsOf(request)
  OBVIOUS
<1>3. PICK label : label = BoostLabel(preferred, item.product)
  OBVIOUS
<1>4. stage = "answering"
  BY <1>1, NoListsEmpty DEF SearchInv, StageInv, Modes
<1>5. ExplainedItem(item, S)
  BY <1>1, <1>2 DEF ReasonsInv, Explained
<1>6. {label} \ {None} \subseteq PublicValues(S)
  <2>1. label \in DOMAIN preferred \cup {None}
    BY <1>3, LabelFacts DEF SearchInv, PreferencesInv
  <2>2. DOMAIN preferred \subseteq Preferred
    BY <1>4 DEF SearchInv, PreferencesInv
  <2>3. ASSUME NEW v \in Preferred
        PROVE  v \in PublicValues(S)
    <3>1. PICK s \in request.profile : s.field = "preferences" /\ v = s.value
      BY <2>3 DEF Preferred, Preferences
    <3>2. s \in S
      BY <1>2, <3>1 DEF SignalsOf, Signals
    <3>3. Shown(s, "gift")
      BY <3>1 DEF Shown
    <3> QED
      BY <3>1, <3>2, <3>3 DEF PublicValues
  <2> QED
    BY <2>1, <2>2, <2>3
<1>7. ASSUME NEW m \in ToSet(ReasonMatches(item)), ~Shown(SignalOf(m), "gift"),
             SignalOf(m).value \in GiftReason(n), SignalOf(m).value \notin PublicValues(S)
      PROVE  n \in DOMAIN rewritten /\ SignalOf(m).value \in ShortValues
  <2>1. CASE n \in DOMAIN rewritten
    <3>1. ValidReason(rewritten[n], Clues(item, "gift", label))
      BY <1>2, <1>3, <2>1 DEF ReasonsInv, Kept
    <3>2. GiftReason(n) = rewritten[n]
      BY <2>1 DEF GiftReason
    <3>3. SignalOf(m).value \in PublicValues(S) \cup ({label} \ {None}) \cup ShortValues
      BY <1>5, <1>7, <3>1, <3>2, CluesFacts
    <3> QED
      BY <1>6, <1>7, <2>1, <3>3
  <2>2. CASE n \notin DOMAIN rewritten
    <3>1. GiftReason(n) = Reason(item, "gift", label)
      BY <1>2, <1>3, <2>2 DEF GiftReason
    <3>2. GiftReason(n) \subseteq PublicValues(S) \cup ({label} \ {None})
      BY <1>5, <3>1, ReasonFacts
    <3> QED
      BY <1>6, <1>7, <3>2
  <2> QED
    BY <2>1, <2>2
<1> QED
  BY <1>2, <1>7

\* The reason of a gift gives away no wish, deferred wish or consumable that led
\* to the product: recommendation_reason names what _shown lets through and a
\* preference, and a reason of the model is checked against the clues of the
\* product it is for, except for values of a single character.
THEOREM GiftKeepsSecretsHolds == Spec => []GiftKeepsSecrets
<1>1. Init => ReasonsInv
  <2> SUFFICES ASSUME Init PROVE ReasonsInv
    OBVIOUS
  <2>1. "gift" \in Modes
    BY DEF Modes
  <2>2. DOMAIN lists["gift"] = {} /\ DOMAIN rewritten = {}
    BY <2>1, NoListsEmpty DEF Init, Empty
  <2> QED
    BY <2>2 DEF ReasonsInv, Explained, Kept
<1>2. SearchInv /\ ReasonsInv /\ [Next]_vars => ReasonsInv'
  BY ReasonsInvNext
<1>3. SearchInv /\ ReasonsInv => GiftKeepsSecrets
  BY SecretsKept
<1> QED
  BY <1>1, <1>2, <1>3, SearchInvariant, PTL DEF Spec

===============================================================================
