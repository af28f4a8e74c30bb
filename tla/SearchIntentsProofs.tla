---------------------------- MODULE SearchIntentsProofs ----------------------------
(***************************************************************************)
(* The safety of the search intents, for any set of keys, any number of jobs *)
(* and any number of slots.  A job holds keys that no other job holds, so    *)
(* that nobody can store the key of a generation under way but the job that   *)
(* makes it; and each slot that is out belongs to one call of the model.      *)
(***************************************************************************)
EXTENDS SearchIntents, FiniteSetTheorems, TLAPS

\* Generations exist only inside the gather of their job.
Resting == \A j \in Jobs : pc[j] # "generating" => gen[j] = Idle

\* OneMaker without the count of the slots.
KeysHeld ==
    /\ \A j, o \in Jobs : j # o => pending[j] \intersect pending[o] = {}
    /\ in_flight = UNION {pending[j] : j \in Jobs}
    /\ \A j \in Jobs : ~Alive(j) => pending[j] = {}
    /\ \A j \in Jobs, k \in Keys : Making(j, k) => k \in pending[j]

SlotsOut == IsFiniteSet(Calling) /\ slots + Cardinality(Calling) = Concurrency

\* The inductive invariant.
IInv == TypeOK /\ KeysHeld /\ SlotsOut /\ Resting /\ NotMadeAgain

-----------------------------------------------------------------------------
(* Lemmas about the parts of the state.                                       *)

LEMMA IdleType == Idle \in [Keys -> Stages] /\ \A k \in Keys : Idle[k] = "none"
BY DEF Idle, Stages

\* A step that leaves the generations of every job but one alone, and those of
\* that one idle or waiting, takes and returns no slot.
LEMMA SameSlots ==
    ASSUME SlotsOut, UNCHANGED slots,
           \A j \in Jobs, k \in Keys : gen'[j][k] = "calling" <=> gen[j][k] = "calling"
    PROVE  SlotsOut'
<1>1. Calling' = Calling
  BY DEF Calling
<1> QED
  BY <1>1 DEF SlotsOut

\* A generation passes to its next stage: how this changes the calls under way.
LEMMA MovesGen ==
    ASSUME TypeOK, NEW j \in Jobs, NEW k \in Keys, NEW from \in Stages, NEW to \in Stages,
           Moves(j, k, from, to)
    PROVE  /\ gen' \in [Jobs -> [Keys -> Stages]]
           /\ \A o \in Jobs, q \in Keys :
                  gen'[o][q] = IF o = j /\ q = k THEN to ELSE gen[o][q]
           /\ to = "calling" => Calling' = Calling \cup {<<j, k>>}
           /\ from = "calling" /\ to # "calling" => Calling' = Calling \ {<<j, k>>}
<1>1. gen' \in [Jobs -> [Keys -> Stages]]
  BY DEF Moves, TypeOK
<1>2. \A o \in Jobs, q \in Keys : gen'[o][q] = IF o = j /\ q = k THEN to ELSE gen[o][q]
  BY DEF Moves, TypeOK
<1>3. ASSUME NEW p \in Jobs \X Keys
      PROVE  gen'[p[1]][p[2]] = IF p = <<j, k>> THEN to ELSE gen[p[1]][p[2]]
  BY <1>2
<1>4. to = "calling" => Calling' = Calling \cup {<<j, k>>}
  BY <1>3 DEF Calling
<1>5. from = "calling" /\ to # "calling" => Calling' = Calling \ {<<j, k>>}
  BY <1>3 DEF Calling
<1> QED
  BY <1>1, <1>2, <1>4, <1>5

\* A slot is taken by a call that starts.
LEMMA SlotTaken ==
    ASSUME TypeOK, SlotsOut, NEW j \in Jobs, NEW k \in Keys,
           gen[j][k] # "calling", slots > 0, slots' = slots - 1,
           Calling' = Calling \cup {<<j, k>>}
    PROVE  SlotsOut' /\ slots' \in 0 .. Concurrency
<1>1. <<j, k>> \notin Calling
  BY DEF Calling
<1>2. IsFiniteSet(Calling') /\ Cardinality(Calling') = Cardinality(Calling) + 1
  BY <1>1, FS_AddElement DEF SlotsOut
<1>3. Cardinality(Calling) \in Nat
  BY FS_CardinalityType DEF SlotsOut
<1> QED
  BY <1>2, <1>3, IntentAssumption DEF SlotsOut, TypeOK

\* A slot comes back from a call that ends.
LEMMA SlotReturned ==
    ASSUME TypeOK, SlotsOut, NEW j \in Jobs, NEW k \in Keys,
           gen[j][k] = "calling", slots' = slots + 1, Calling' = Calling \ {<<j, k>>}
    PROVE  SlotsOut' /\ slots' \in 0 .. Concurrency
<1>1. <<j, k>> \in Calling
  BY DEF Calling
<1>2. IsFiniteSet(Calling') /\ Cardinality(Calling') = Cardinality(Calling) - 1
  BY <1>1, FS_RemoveElement DEF SlotsOut
<1>3. Cardinality(Calling) \in Nat /\ Cardinality(Calling') \in Nat
  BY <1>2, FS_CardinalityType DEF SlotsOut
<1> QED
  BY <1>2, <1>3, IntentAssumption DEF SlotsOut, TypeOK

-----------------------------------------------------------------------------
(* The invariant.                                                             *)

LEMMA InitIInv == Init => IInv
<1> SUFFICES ASSUME Init PROVE IInv
  OBVIOUS
<1>1. TypeOK
  <2>1. Concurrency \in 0 .. Concurrency /\ 0 \in 0 .. MaxExpiries
    BY IntentAssumption
  <2>2. gen \in [Jobs -> [Keys -> Stages]] /\ pc \in [Jobs -> Places]
    BY IdleType DEF Init, Places
  <2> QED
    BY <2>1, <2>2 DEF Init, TypeOK
<1>2. Calling = {}
  BY IdleType DEF Init, Calling
<1>3. SlotsOut
  BY <1>2, FS_EmptySet, IntentAssumption DEF Init, SlotsOut
<1>4. KeysHeld
  BY IdleType DEF Init, KeysHeld, Alive, Making
<1>5. Resting /\ NotMadeAgain
  BY IdleType DEF Init, Resting, NotMadeAgain, Making
<1> QED
  BY <1>1, <1>3, <1>4, <1>5 DEF IInv

\* A call of schedule() that arrives, or a recommendation that plans.
LEMMA ArriveInv ==
    ASSUME IInv, NEW j \in Jobs, Arrive(j) \/ Planned(j)
    PROVE  IInv'
<1> DEFINE others == <<stored, in_flight, slots, pending, gen, blind, cancelled, closed, expiries>>
<1>0. PICK place \in {"asking", "scheduled", "done"}, ks \in SUBSET Keys :
        /\ pc[j] \in {"idle", "asking"} /\ UNCHANGED others
        /\ pc' = [pc EXCEPT ![j] = place] /\ targets' = [targets EXCEPT ![j] = ks]
  <2>1. CASE Arrive(j)
    BY <2>1 DEF Arrive, Schedule, Ask
  <2>2. CASE Planned(j)
    <3>1. PICK found \in {stored, {}} : Plan(j, found)
      BY <2>2 DEF Planned
    <3>2. targets[j] \ found \in SUBSET Keys
      BY DEF IInv, TypeOK
    <3> QED
      BY <3>1, <3>2 DEF Plan
  <2> QED
    BY <2>1, <2>2
<1>1. /\ UNCHANGED others
      /\ pc' \in [Jobs -> Places] /\ targets' \in [Jobs -> SUBSET Keys]
      /\ pc[j] \in {"idle", "asking"} /\ pc'[j] \in {"asking", "scheduled", "done"}
      /\ \A o \in Jobs \ {j} : pc'[o] = pc[o]
  BY <1>0 DEF IInv, TypeOK, Places
<1>2. TypeOK'
  BY <1>1 DEF IInv, TypeOK
<1>3. KeysHeld'
  BY <1>1 DEF IInv, KeysHeld, Alive, Making
<1>4. SlotsOut'
  BY <1>1 DEF IInv, SlotsOut, Calling
<1>5. Resting'
  BY <1>1 DEF IInv, Resting
<1>6. NotMadeAgain'
  BY <1>1 DEF IInv, NotMadeAgain, Making
<1> QED
  BY <1>2, <1>3, <1>4, <1>5, <1>6 DEF IInv

\* prepare() takes keys that nobody holds.
LEMMA BeginInv ==
    ASSUME IInv, NEW j \in Jobs, Begin(j)
    PROVE  IInv'
<1> DEFINE taken == targets[j] \ in_flight
<1>1. /\ UNCHANGED <<stored, slots, gen, blind, cancelled, closed, expiries>>
      /\ pc[j] = "scheduled" /\ taken \subseteq Keys
      /\ pending' = [pending EXCEPT ![j] = taken]
      /\ in_flight' = in_flight \cup taken
      /\ pc' = [pc EXCEPT ![j] = IF taken = {} THEN "done" ELSE "lookup"]
      /\ targets' = [targets EXCEPT ![j] = {}]
  BY DEF Begin, IInv, TypeOK
<1> HIDE DEF taken
<1>2. TypeOK'
  BY <1>1 DEF IInv, TypeOK, Places
<1>3. /\ pending[j] = {}
      /\ \A o \in Jobs : pending'[o] = IF o = j THEN taken ELSE pending[o]
  BY <1>1 DEF IInv, TypeOK, KeysHeld, Alive
<1>4. KeysHeld'
  <2>1. \A o \in Jobs : pending[o] \intersect taken = {}
    BY DEF IInv, KeysHeld, taken
  <2>2. \A i, o \in Jobs : i # o => pending'[i] \intersect pending'[o] = {}
    BY <1>3, <2>1 DEF IInv, KeysHeld
  <2>3. in_flight' = UNION {pending'[o] : o \in Jobs}
    BY <1>1, <1>3 DEF IInv, KeysHeld
  <2>4. \A o \in Jobs : ~Alive(o)' => pending'[o] = {}
    BY <1>1, <1>3 DEF IInv, TypeOK, KeysHeld, Alive
  <2>5. \A o \in Jobs, k \in Keys : Making(o, k)' => k \in pending'[o]
    BY <1>1, <1>3 DEF IInv, KeysHeld, Making
  <2> QED
    BY <2>2, <2>3, <2>4, <2>5 DEF KeysHeld
<1>5. SlotsOut'
  BY <1>1 DEF IInv, SlotsOut, Calling
<1>6. Resting'
  BY <1>1 DEF IInv, TypeOK, Resting
<1>7. NotMadeAgain'
  BY <1>1 DEF IInv, NotMadeAgain, Making
<1> QED
  BY <1>2, <1>4, <1>5, <1>6, <1>7 DEF IInv

\* The lookup has answered, or failed: what it found is not made.
LEMMA LookupInv ==
    ASSUME IInv, NEW j \in Jobs, Lookup(j) \/ LookupFails(j)
    PROVE  IInv'
<1>1. PICK found \in {stored, {}} :
        /\ gen' = [gen EXCEPT ![j] = [k \in Keys |->
                       IF k \in pending[j] \ found THEN "waiting" ELSE "none"]]
        /\ pc' = [pc EXCEPT ![j] = "generating"]
        /\ found = stored \/ j \in blind'
        /\ blind \subseteq blind' /\ blind' \in SUBSET Jobs
  BY DEF Lookup, LookupFails, Start, IInv, TypeOK
<1>2. /\ pc[j] = "lookup"
      /\ UNCHANGED <<stored, in_flight, slots, targets, pending, cancelled, closed, expiries>>
  BY DEF Lookup, LookupFails, Start
<1>3. \A o \in Jobs, k \in Keys :
        gen'[o][k] = IF o # j THEN gen[o][k]
                     ELSE IF k \in pending[j] \ found THEN "waiting" ELSE "none"
  BY <1>1 DEF IInv, TypeOK
<1>4. TypeOK'
  <2>1. [k \in Keys |-> IF k \in pending[j] \ found THEN "waiting" ELSE "none"] \in [Keys -> Stages]
    BY DEF Stages
  <2> QED
    BY <1>1, <1>2, <2>1 DEF IInv, TypeOK, Places
<1>5. KeysHeld'
  <2>1. \A o \in Jobs : Alive(o)' <=> Alive(o)
    BY <1>1, <1>2 DEF IInv, TypeOK, Alive
  <2>2. \A o \in Jobs, k \in Keys : Making(o, k)' => k \in pending'[o]
    BY <1>2, <1>3 DEF IInv, KeysHeld, Making
  <2> QED
    BY <1>2, <2>1, <2>2 DEF IInv, KeysHeld
<1>6. SlotsOut'
  <2>1. \A o \in Jobs, k \in Keys : gen'[o][k] = "calling" <=> gen[o][k] = "calling"
    <3>1. \A k \in Keys : gen[j][k] = "none"
      BY <1>2, IdleType DEF IInv, Resting
    <3> QED
      BY <1>3, <3>1
  <2> QED
    BY <1>2, <2>1, SameSlots DEF IInv
<1>7. Resting'
  BY <1>1 DEF IInv, TypeOK, Resting
<1>8. NotMadeAgain'
  BY <1>1, <1>2, <1>3 DEF IInv, NotMadeAgain, Making
<1> QED
  BY <1>4, <1>5, <1>6, <1>7, <1>8 DEF IInv

\* A generation goes on: its key is its job's alone, and its slot is its own.
LEMMA CallStepInv ==
    ASSUME IInv, NEW j \in Jobs, NEW k \in Keys, CallStep(j, k)
    PROVE  IInv'
<1>1. PICK from \in {"waiting", "calling", "saving"}, to \in {"calling", "saving", "ended"} :
        /\ Moves(j, k, from, to)
        /\ stored' = stored \/ (from = "saving" /\ to = "ended" /\ stored' = stored \cup {k})
        /\ \/ from = "waiting" /\ to = "calling" /\ slots > 0 /\ slots' = slots - 1
           \/ from = "calling" /\ to # "calling" /\ slots' = slots + 1
           \/ from # "calling" /\ to # "calling" /\ slots' = slots
  BY DEF CallStep, Acquire, Answered, Fails, Save, SaveFails, GiveUp
<1>2. /\ gen[j][k] = from
      /\ UNCHANGED <<in_flight, pc, targets, pending, blind, cancelled, closed, expiries>>
  BY <1>1 DEF Moves
<1>3. /\ gen' \in [Jobs -> [Keys -> Stages]]
      /\ \A o \in Jobs, q \in Keys : gen'[o][q] = IF o = j /\ q = k THEN to ELSE gen[o][q]
      /\ to = "calling" => Calling' = Calling \cup {<<j, k>>}
      /\ from = "calling" /\ to # "calling" => Calling' = Calling \ {<<j, k>>}
  BY <1>1, MovesGen DEF IInv, Stages
<1>4. SlotsOut' /\ slots' \in 0 .. Concurrency
  <2>1. CASE from = "waiting" /\ to = "calling"
    BY <1>1, <1>2, <1>3, <2>1, SlotTaken DEF IInv
  <2>2. CASE from = "calling" /\ to # "calling"
    BY <1>1, <1>2, <1>3, <2>2, SlotReturned DEF IInv
  <2>3. CASE from # "calling" /\ to # "calling"
    <3>1. \A o \in Jobs, q \in Keys : gen'[o][q] = "calling" <=> gen[o][q] = "calling"
      BY <1>2, <1>3, <2>3
    <3> QED
      BY <1>1, <2>3, <3>1, SameSlots DEF IInv, TypeOK
  <2> QED
    BY <1>1, <2>1, <2>2, <2>3
<1>5. TypeOK'
  BY <1>1, <1>2, <1>3, <1>4 DEF IInv, TypeOK
<1>6. Making(j, k)
  BY <1>2 DEF Making
<1>7. KeysHeld'
  <2>1. \A o \in Jobs, q \in Keys : Making(o, q)' => Making(o, q)
    BY <1>3, <1>6 DEF Making
  <2> QED
    BY <1>2, <2>1 DEF IInv, KeysHeld, Alive
<1>8. Resting'
  <2>1. pc[j] = "generating"
    BY <1>6, IdleType DEF IInv, Resting, Making
  <2>2. \A o \in Jobs \ {j} : gen'[o] = gen[o]
    BY <1>1 DEF Moves, IInv, TypeOK
  <2> QED
    BY <1>2, <2>1, <2>2 DEF IInv, Resting
<1>9. NotMadeAgain'
  <2> SUFFICES ASSUME NEW o \in Jobs, NEW q \in Keys, Making(o, q)', o \notin blind'
               PROVE  q \notin stored'
    BY DEF NotMadeAgain
  <2>1. Making(o, q) /\ o \notin blind
    BY <1>2, <1>3, <1>6 DEF Making
  <2>2. q \notin stored
    BY <2>1 DEF IInv, NotMadeAgain
  <2>3. CASE stored' = stored
    BY <2>2, <2>3
  <2>4. CASE to = "ended" /\ stored' = stored \cup {k}
    <3>1. ~(o = j /\ q = k)
      BY <1>3, <2>4 DEF Making
    <3>2. q # k
      BY <1>6, <2>1, <3>1 DEF IInv, KeysHeld
    <3> QED
      BY <2>2, <2>4, <3>2
  <2> QED
    BY <1>1, <2>3, <2>4
<1> QED
  BY <1>4, <1>5, <1>7, <1>8, <1>9 DEF IInv

\* A job ends, and gives back its keys and no other.
LEMMA ReleaseInv ==
    ASSUME IInv, NEW j \in Jobs, Finish(j) \/ Drop(j)
    PROVE  IInv'
<1>1. /\ in_flight' = in_flight \ pending[j]
      /\ pending' = [pending EXCEPT ![j] = {}]
      /\ pc' = [pc EXCEPT ![j] = "done"]
      /\ targets' = [targets EXCEPT ![j] = {}]
      /\ gen' = [gen EXCEPT ![j] = Idle]
      /\ blind' = blind \ {j}
      /\ UNCHANGED <<stored, slots, cancelled, closed, expiries>>
  BY DEF Finish, Drop, Release
<1>2. \A k \in Keys : gen[j][k] # "calling"
  BY IdleType DEF Finish, Drop, IInv, Resting
<1>3. /\ \A o \in Jobs : pending'[o] = IF o = j THEN {} ELSE pending[o]
      /\ \A o \in Jobs, k \in Keys : gen'[o][k] = IF o = j THEN "none" ELSE gen[o][k]
  BY <1>1, IdleType DEF IInv, TypeOK
<1>4. TypeOK'
  BY <1>1, IdleType DEF IInv, TypeOK, Places
<1>5. KeysHeld'
  <2>1. \A i, o \in Jobs : i # o => pending'[i] \intersect pending'[o] = {}
    BY <1>3 DEF IInv, KeysHeld
  <2>2. in_flight' = UNION {pending'[o] : o \in Jobs}
    BY <1>1, <1>3 DEF IInv, KeysHeld
  <2>3. \A o \in Jobs : ~Alive(o)' => pending'[o] = {}
    BY <1>1, <1>3 DEF IInv, TypeOK, KeysHeld, Alive
  <2>4. \A o \in Jobs, k \in Keys : Making(o, k)' => k \in pending'[o]
    BY <1>3 DEF IInv, KeysHeld, Making
  <2> QED
    BY <2>1, <2>2, <2>3, <2>4 DEF KeysHeld
<1>6. SlotsOut'
  BY <1>1, <1>2, <1>3, SameSlots DEF IInv
<1>7. Resting'
  BY <1>1 DEF IInv, TypeOK, Resting
<1>8. NotMadeAgain'
  BY <1>1, <1>3 DEF IInv, NotMadeAgain, Making
<1> QED
  BY <1>4, <1>5, <1>6, <1>7, <1>8 DEF IInv

\* The server stops, an intent is forgotten, or nothing happens.
LEMMA OutsideInv ==
    ASSUME IInv, Close \/ (\E k \in Keys : Expire(k)) \/ UNCHANGED vars
    PROVE  IInv'
<1>1. /\ UNCHANGED <<in_flight, slots, pc, targets, pending, gen, blind>>
      /\ stored' \subseteq stored
  BY DEF Close, Expire, vars
<1>2. TypeOK'
  <2>1. cancelled' \in SUBSET Jobs /\ closed' \in BOOLEAN
    BY DEF Close, Expire, vars, IInv, TypeOK
  <2>2. expiries' \in 0 .. MaxExpiries
    BY IntentAssumption DEF Close, Expire, vars, IInv, TypeOK
  <2> QED
    BY <1>1, <2>1, <2>2 DEF IInv, TypeOK
<1>3. KeysHeld'
  BY <1>1 DEF IInv, KeysHeld, Alive, Making
<1>4. SlotsOut'
  BY <1>1 DEF IInv, SlotsOut, Calling
<1>5. Resting' /\ NotMadeAgain'
  BY <1>1 DEF IInv, Resting, NotMadeAgain, Making
<1> QED
  BY <1>2, <1>3, <1>4, <1>5 DEF IInv

\* Every step keeps the invariant.
LEMMA NextIInv == IInv /\ [Next]_vars => IInv'
<1> SUFFICES ASSUME IInv, [Next]_vars PROVE IInv'
  OBVIOUS
<1>1. CASE \E j \in Jobs : Arrive(j) \/ Planned(j)
  BY <1>1, ArriveInv
<1>2. CASE \E j \in Jobs : JobStep(j)
  BY <1>2, BeginInv, LookupInv, ReleaseInv DEF JobStep
<1>3. CASE \E j \in Jobs, k \in Keys : CallStep(j, k)
  BY <1>3, CallStepInv
<1>4. CASE Close \/ (\E k \in Keys : Expire(k)) \/ UNCHANGED vars
  BY <1>4, OutsideInv
<1> QED
  BY <1>1, <1>2, <1>3, <1>4 DEF Next

-----------------------------------------------------------------------------
(* Theorems.                                                                  *)

\* The invariant holds in every state of the search intents.
THEOREM Invariance == Spec => []IInv
BY InitIInv, NextIInv, PTL DEF Spec

\* Every variable keeps its type; the free slots never exceed the semaphore's.
THEOREM TypeCorrect == Spec => []TypeOK
<1>1. IInv => TypeOK
  BY DEF IInv
<1> QED
  BY <1>1, Invariance, PTL

\* One maker for each key, and as many slots out as calls under way, for any
\* number of jobs, keys and slots: _in_flight and the semaphore of the service.
THEOREM KeysAndSlots == Spec => []OneMaker
<1>1. IInv => OneMaker
  BY DEF IInv, KeysHeld, SlotsOut, OneMaker
<1> QED
  BY <1>1, Invariance, PTL

\* No call of the model is paid for an intent that is stored, unless the store
\* failed when the job asked: prepare() and _generate() of the service.
THEOREM PaidOnce == Spec => []NotMadeAgain
<1>1. IInv => NotMadeAgain
  BY DEF IInv
<1> QED
  BY <1>1, Invariance, PTL

===============================================================================
