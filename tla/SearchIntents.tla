---- MODULE SearchIntents ----
(* The search intents of app/application/search_intent_service.py: what a      *)
(* language model says an interest looks like among the products, made in the  *)
(* background and shared by all users.  A job is one call that schedules       *)
(* intents: the end of a turn or the creation of a session (Schedule), or a    *)
(* recommendation that first looks its intents up and schedules the missing    *)
(* ones (Ask, Plan).  _in_flight holds the keys being made, the semaphore the  *)
(* calls of the model, and the store is Redis, which may fail or forget.       *)
EXTENDS Naturals, FiniteSets

CONSTANTS Keys,         \* intent keys: a value and its category
          Jobs,         \* calls of schedule() in the life of the process
          Concurrency,  \* calls of the model at a time
          MaxExpiries   \* bound: keys whose TTL ends

ASSUME IntentAssumption == Concurrency \in Nat /\ Concurrency > 0 /\ MaxExpiries \in Nat

VARIABLES stored,       \* the keys with an intent in the store
          in_flight,    \* _in_flight
          slots,        \* the free slots of _semaphore
          pc, targets,  \* where each job is, and the keys it was given
          pending,      \* the keys prepare() took
          gen,          \* _generate(), by job and key
          blind,        \* the jobs whose lookup in prepare() failed
          cancelled,    \* the jobs that aclose() cancelled
          closed, expiries

vars == <<stored, in_flight, slots, pc, targets, pending, gen, blind, cancelled,
          closed, expiries>>

Places == {"idle", "asking", "scheduled", "lookup", "generating", "done"}
Stages == {"none", "waiting", "calling", "saving", "ended"}

TypeOK ==
    /\ stored \in SUBSET Keys /\ in_flight \in SUBSET Keys
    /\ slots \in 0..Concurrency
    /\ pc \in [Jobs -> Places]
    /\ targets \in [Jobs -> SUBSET Keys] /\ pending \in [Jobs -> SUBSET Keys]
    /\ gen \in [Jobs -> [Keys -> Stages]]
    /\ blind \in SUBSET Jobs /\ cancelled \in SUBSET Jobs
    /\ closed \in BOOLEAN /\ expiries \in 0..MaxExpiries

Idle == [k \in Keys |-> "none"]

Init ==
    /\ stored = {} /\ in_flight = {} /\ slots = Concurrency
    /\ pc = [j \in Jobs |-> "idle"]
    /\ targets = [j \in Jobs |-> {}] /\ pending = [j \in Jobs |-> {}]
    /\ gen = [j \in Jobs |-> Idle]
    /\ blind = {} /\ cancelled = {} /\ closed = FALSE /\ expiries = 0

\* schedule() of a saved turn or of a new session: no task without targets
Schedule(j, ks) ==
    /\ pc[j] = "idle" /\ ~closed /\ ks # {}
    /\ pc' = [pc EXCEPT ![j] = "scheduled"]
    /\ targets' = [targets EXCEPT ![j] = ks]
    /\ UNCHANGED <<stored, in_flight, slots, pending, gen, blind, cancelled, closed, expiries>>

\* A recommendation asks the store for the intents of its signals...
Ask(j, ks) ==
    /\ pc[j] = "idle" /\ ~closed
    /\ pc' = [pc EXCEPT ![j] = "asking"]
    /\ targets' = [targets EXCEPT ![j] = ks]
    /\ UNCHANGED <<stored, in_flight, slots, pending, gen, blind, cancelled, closed, expiries>>

\* ...and schedules the ones it did not get, a failed lookup being an empty one
Plan(j, found) ==
    /\ pc[j] = "asking"
    /\ LET missing == targets[j] \ found IN
       /\ targets' = [targets EXCEPT ![j] = missing]
       /\ pc' = [pc EXCEPT ![j] = IF missing = {} THEN "done" ELSE "scheduled"]
    /\ UNCHANGED <<stored, in_flight, slots, pending, gen, blind, cancelled, closed, expiries>>

\* Mutant of Begin
Begin_TakesAll(j) ==
    /\ pc[j] = "scheduled" /\ j \notin cancelled
    /\ pending' = [pending EXCEPT ![j] = targets[j]]
    /\ in_flight' = in_flight \union targets[j]
    /\ pc' = [pc EXCEPT ![j] = "lookup"]
    /\ targets' = [targets EXCEPT ![j] = {}]
    /\ UNCHANGED <<stored, slots, gen, blind, cancelled, closed, expiries>>

\* The task of prepare() takes the keys nobody is making, up to its first await
Begin(j) ==
    /\ pc[j] = "scheduled" /\ j \notin cancelled
    /\ LET taken == targets[j] \ in_flight IN
       /\ pending' = [pending EXCEPT ![j] = taken]
       /\ in_flight' = in_flight \union taken
       /\ pc' = [pc EXCEPT ![j] = IF taken = {} THEN "done" ELSE "lookup"]
    /\ targets' = [targets EXCEPT ![j] = {}]
    /\ UNCHANGED <<stored, slots, gen, blind, cancelled, closed, expiries>>

\* prepare() has the answer of its lookup and starts the missing ones
Start(j, found) ==
    /\ gen' = [gen EXCEPT ![j] = [k \in Keys |->
                   IF k \in pending[j] \ found THEN "waiting" ELSE "none"]]
    /\ pc' = [pc EXCEPT ![j] = "generating"]
    /\ UNCHANGED <<stored, in_flight, slots, targets, pending, cancelled, closed, expiries>>

\* Mutant of Lookup
Lookup_Skipped(j) ==
    /\ pc[j] = "lookup" /\ j \notin cancelled
    /\ Start(j, {})
    /\ UNCHANGED blind

Lookup(j) ==
    /\ pc[j] = "lookup" /\ j \notin cancelled
    /\ Start(j, stored)
    /\ UNCHANGED blind

LookupFails(j) ==
    /\ pc[j] = "lookup" /\ j \notin cancelled
    /\ Start(j, {})
    /\ blind' = blind \union {j}

\* One generation passes to its next stage
Moves(j, k, from, to) ==
    /\ gen[j][k] = from
    /\ gen' = [gen EXCEPT ![j][k] = to]
    /\ UNCHANGED <<in_flight, pc, targets, pending, blind, cancelled, closed, expiries>>

Acquire(j, k) ==
    /\ Moves(j, k, "waiting", "calling") /\ j \notin cancelled
    /\ slots > 0
    /\ slots' = slots - 1
    /\ UNCHANGED stored

\* The model answered with a valid intent: the slot is free before the save
Answered(j, k) ==
    /\ Moves(j, k, "calling", "saving") /\ j \notin cancelled
    /\ slots' = slots + 1
    /\ UNCHANGED stored

\* Mutant of Fails
Fails_KeepsSlot(j, k) ==
    /\ Moves(j, k, "calling", "ended")
    /\ UNCHANGED <<stored, slots>>

\* The call failed or timed out, its answer was no intent, or it was cancelled
Fails(j, k) ==
    /\ Moves(j, k, "calling", "ended")
    /\ slots' = slots + 1
    /\ UNCHANGED stored

Save(j, k) ==
    /\ Moves(j, k, "saving", "ended")
    /\ stored' = stored \union {k}
    /\ UNCHANGED slots

\* The store failed, or the task was cancelled before the store had the intent
SaveFails(j, k) ==
    /\ Moves(j, k, "saving", "ended")
    /\ UNCHANGED <<stored, slots>>

\* gather() passes a cancellation on to the generations that wait for a slot
GiveUp(j, k) ==
    /\ Moves(j, k, "waiting", "ended") /\ j \in cancelled
    /\ UNCHANGED <<stored, slots>>

\* prepare() ends, in any way it may: the finally gives all its keys back
Release(j) ==
    /\ in_flight' = in_flight \ pending[j]
    /\ pending' = [pending EXCEPT ![j] = {}]
    /\ pc' = [pc EXCEPT ![j] = "done"]
    /\ targets' = [targets EXCEPT ![j] = {}]
    /\ gen' = [gen EXCEPT ![j] = Idle]
    /\ blind' = blind \ {j}
    /\ UNCHANGED <<stored, slots, cancelled, closed, expiries>>

Finish(j) ==
    /\ pc[j] = "generating"
    /\ \A k \in Keys : gen[j][k] \in {"none", "ended"}
    /\ Release(j)

\* A task cancelled before it ran, or while it waited for the store
Drop(j) ==
    /\ j \in cancelled /\ pc[j] \in {"scheduled", "lookup"}
    /\ Release(j)

\* aclose(): when the server stops, after the last request
Close ==
    /\ ~closed /\ \A j \in Jobs : pc[j] # "asking"
    /\ closed' = TRUE
    /\ cancelled' = {j \in Jobs : pc[j] \in {"scheduled", "lookup", "generating"}}
    /\ UNCHANGED <<stored, in_flight, slots, pc, targets, pending, gen, blind, expiries>>

\* The TTL of an intent ends, or what is stored is no intent any more
Expire(k) ==
    /\ k \in stored /\ expiries < MaxExpiries
    /\ stored' = stored \ {k}
    /\ expiries' = expiries + 1
    /\ UNCHANGED <<in_flight, slots, pc, targets, pending, gen, blind, cancelled, closed>>

JobStep(j) == Begin(j) \/ Lookup(j) \/ LookupFails(j) \/ Finish(j) \/ Drop(j)
CallStep(j, k) ==
    Acquire(j, k) \/ Answered(j, k) \/ Fails(j, k) \/ Save(j, k) \/ SaveFails(j, k) \/ GiveUp(j, k)
Arrive(j) == \E ks \in SUBSET Keys : Schedule(j, ks) \/ Ask(j, ks)
Planned(j) == Plan(j, stored) \/ Plan(j, {})

Next ==
    \/ \E j \in Jobs : Arrive(j) \/ Planned(j) \/ JobStep(j)
    \/ \E j \in Jobs, k \in Keys : CallStep(j, k)
    \/ Close
    \/ \E k \in Keys : Expire(k)

Spec == Init /\ [][Next]_vars

\* The event loop runs what is ready, the store answers or fails, the timeout
\* bounds a call of the model, and the semaphore serves its waiters in order.
FairSpec ==
    /\ Spec
    /\ \A j \in Jobs : WF_vars(Planned(j)) /\ WF_vars(JobStep(j))
    /\ \A j \in Jobs, k \in Keys : SF_vars(CallStep(j, k))

Alive(j) == pc[j] \in {"lookup", "generating"}
Making(j, k) == gen[j][k] \in {"waiting", "calling", "saving"}
Calling == {p \in Jobs \X Keys : gen[p[1]][p[2]] = "calling"}

(* A key is made by one job at a time, only the jobs that run hold keys, every *)
(* key they hold and no other is in flight, and the slots out of the semaphore *)
(* are the calls under way: what the comment above _in_flight is about.        *)
OneMaker ==
    /\ \A j, o \in Jobs : j # o => pending[j] \intersect pending[o] = {}
    /\ in_flight = UNION {pending[j] : j \in Jobs}
    /\ \A j \in Jobs : ~Alive(j) => pending[j] = {}
    /\ \A j \in Jobs, k \in Keys : Making(j, k) => k \in pending[j]
    /\ slots + Cardinality(Calling) = Concurrency

(* No call of the model is made for an intent the store has, unless the store  *)
(* failed when the job asked it: neither a job that was scheduled before       *)
(* another one ended, nor a recommendation whose lookup is old, pays again.    *)
NotMadeAgain ==
    \A j \in Jobs, k \in Keys : Making(j, k) /\ j \notin blind => k \notin stored

(* Every scheduled job ends, whether its calls answer, fail or are cancelled,  *)
(* and no key stays in flight after that: an interest can be tried again.      *)
JobsEnd == \A j \in Jobs : pc[j] = "scheduled" ~> (pc[j] = "done" /\ pending[j] = {})

====
