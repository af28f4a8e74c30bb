------------------------------ MODULE LabRunsProofs ------------------------------
(***************************************************************************)
(* The runs of the AI Lab, for any number of runs, worker processes, requests *)
(* and consumers.  The lock leaves one worker at work, and a run that it has   *)
(* is "running" in the table, where neither a deletion nor a cancellation      *)
(* touches its status; what the worker has not sent is still in its queue, and *)
(* what it has sent is under way, raised or recorded.                         *)
(***************************************************************************)
EXTENDS LabRuns, FiniteSetTheorems, TLAPS

Ordinals(r) == {s.ordinal : s \in samples[r]}
Last == Cardinality(Requests)

\* The lock is held by the one process that is alive.
OneWorker == \A w \in Workers : pc[w] # "off" <=> lock = w

\* Nothing was sent for a run that no worker has begun.
Unsent ==
    \A r \in Runs :
        /\ created[r] = 0 => status[r] = "none"
        /\ created[r] = 0 \/ status[r] = "queued" => \A o \in Requests : sent[r][o] = 0

\* What is complete when a run has completed.
Complete(r) == IF mode[r] = "load" THEN Ordinals(r) = Requests ELSE Last \in Ordinals(r)

\* The worker's run in the table.
Held(w) ==
    /\ pc[w] \in {"claimed", "running", "ending"} => run[w] \in Runs /\ status[run[w]] = "running"
    /\ pc[w] = "finish" => /\ run[w] \in Runs /\ verdict[w] = "failed" /\ created[run[w]] # 0
                           /\ status[run[w]] \in {"running", "failed", "none"}
    /\ pc[w] = "ending" => verdict[w] \in Finished

\* Where the requests of the worker's run are.
Tracked(w) ==
    /\ pc[w] = "claimed" => \A o \in Requests : sent[run[w]][o] = 0
    /\ pc[w] = "running" =>
          /\ \A o \in queue[w] : sent[run[w]][o] = 0
          /\ LET taken == queue[w] \cup active[w] \cup raised[w] \cup Ordinals(run[w])
             IN  IF mode[run[w]] = "load" THEN Requests \subseteq taken ELSE Last \in taken
    /\ pc[w] \in {"running", "ending"} =>
          \A o \in Requests : sent[run[w]][o] > 0 => o \in active[w] \cup raised[w] \cup Ordinals(run[w])
    /\ pc[w] = "ending" /\ verdict[w] = "completed" => Complete(run[w])

\* The inductive invariant.
IInv ==
    /\ TypeOK /\ OneWorker /\ Unsent /\ SentOnce /\ Accounted
    /\ \A w \in Workers : Held(w) /\ Tracked(w)

-----------------------------------------------------------------------------

LEMMA Constants ==
    /\ None \notin Runs /\ None \notin Workers /\ IsFiniteSet(Runs) /\ Last \in Nat \ {0}
    /\ Requests = 1 .. Last /\ Last \in Requests /\ Requests \subseteq Nat /\ Concurrency \in Nat \ {0}
BY LabAssumption DEF Last

LEMMA Completeness ==
    ASSUME IInv, NEW r \in Runs
    PROVE  /\ status[r] = "completed" => Complete(r)
           /\ status[r] \in {"cancelled", "timed_out"} =>
                 \A o \in Requests : sent[r][o] > 0 => o \in Ordinals(r)
           /\ Ordinals(r) \subseteq Requests
<1>1. samples[r] \in SUBSET [ordinal : Requests, ok : BOOLEAN]
  BY DEF IInv, TypeOK
<1>2. Ordinals(r) \subseteq Requests
  BY <1>1 DEF Ordinals
<1> QED
  BY <1>2 DEF IInv, Accounted, Complete, Ordinals, Last

LEMMA InitIInv ==
    Init => IInv
<1> SUFFICES ASSUME Init PROVE IInv
  OBVIOUS
<1>1. TypeOK
  BY DEF Init, TypeOK, Statuses
<1>2. OneWorker
  BY Constants DEF Init, OneWorker
<1>3. Unsent /\ SentOnce
  BY DEF Init, Unsent, SentOnce
<1>4. Accounted
  BY DEF Init, Accounted
<1>5. \A w \in Workers : Held(w) /\ Tracked(w)
  BY DEF Init, Held, Tracked
<1> QED
  BY <1>1, <1>2, <1>3, <1>4, <1>5 DEF IInv

-----------------------------------------------------------------------------
(* The management API.                                                        *)

LEMMA CreateRunIInv ==
    ASSUME IInv, NEW r \in Runs, NEW m \in {"load", "needu"}, CreateRun(r, m)
    PROVE  IInv'
<1>1. /\ status[r] = "none" /\ created[r] = 0
      /\ status' = [status EXCEPT ![r] = "queued"] /\ mode' = [mode EXCEPT ![r] = m]
      /\ created' = [created EXCEPT ![r] = 1 + Cardinality({q \in Runs : created[q] > 0})]
      /\ UNCHANGED <<cancel_requested, samples, process, history>>
  BY DEF CreateRun
<1>2. Cardinality({q \in Runs : created[q] > 0}) \in Nat
  BY Constants, FS_Subset, FS_CardinalityType
<1> DEFINE n == 1 + Cardinality({q \in Runs : created[q] > 0})
<1>3. n \in Nat \ {0} /\ created' = [created EXCEPT ![r] = n]
  BY <1>1, <1>2
<1> HIDE DEF n
<1>4. TypeOK'
  BY <1>1, <1>3 DEF IInv, TypeOK, Statuses, process, history
<1>5. OneWorker'
  BY <1>1 DEF IInv, OneWorker, process
<1>6. Unsent' /\ SentOnce'
  <2>1. sent' = sent /\ \A q \in Runs \ {r} : created'[q] = created[q] /\ status'[q] = status[q]
    BY <1>1, <1>3 DEF IInv, TypeOK, history
  <2>2. created'[r] # 0 /\ \A o \in Requests : sent[r][o] = 0
    BY <1>1, <1>3 DEF IInv, TypeOK, Unsent
  <2>3. Unsent'
    BY <2>1, <2>2 DEF IInv, Unsent
  <2> QED
    BY <2>1, <2>3 DEF IInv, SentOnce
<1>7. Accounted'
  BY <1>1 DEF IInv, TypeOK, Accounted, history
<1>8. ASSUME NEW w \in Workers PROVE Held(w)' /\ Tracked(w)'
  <2>1. Held(w) /\ Tracked(w)
    BY DEF IInv
  <2>2. pc[w] \in {"claimed", "running", "ending", "finish"} => run[w] \in Runs /\ run[w] # r
    BY <1>1, <2>1 DEF Held
  <2>3. Held(w)'
    BY <1>1, <2>1, <2>2 DEF Held, IInv, TypeOK, process
  <2>4. Tracked(w)'
    BY <1>1, <2>1, <2>2 DEF Tracked, Complete, Ordinals, IInv, TypeOK, process, history
  <2> QED
    BY <2>3, <2>4
<1> QED
  BY <1>4, <1>5, <1>6, <1>7, <1>8 DEF IInv


LEMMA CancelIInv ==
    ASSUME IInv, NEW r \in Runs, Cancel(r)
    PROVE  IInv'
<1>1. /\ status[r] \in {"queued", "running"}
      /\ cancel_requested' = [cancel_requested EXCEPT ![r] = TRUE]
      /\ status' = [status EXCEPT ![r] = IF @ = "queued" THEN "cancelled" ELSE @]
      /\ UNCHANGED <<row, samples, process, history>>
  BY DEF Cancel
<1>2. /\ \A q \in Runs : status'[q] = IF q = r /\ status[q] = "queued" THEN "cancelled" ELSE status[q]
      /\ status[r] = "queued" => \A o \in Requests : sent[r][o] = 0
  BY <1>1 DEF IInv, TypeOK, Unsent
<1>3. TypeOK'
  BY <1>1 DEF IInv, TypeOK, Statuses, Finished, row, process, history
<1>4. OneWorker'
  BY <1>1 DEF IInv, OneWorker, process
<1>5. Unsent' /\ SentOnce'
  BY <1>1, <1>2 DEF IInv, Unsent, SentOnce, row, history
<1>6. Accounted'
  BY <1>1, <1>2 DEF IInv, TypeOK, Accounted, row, history
<1>7. ASSUME NEW w \in Workers PROVE Held(w)' /\ Tracked(w)'
  <2>1. Held(w) /\ Tracked(w)
    BY DEF IInv
  <2>2. Held(w)'
    BY <1>1, <1>2, <2>1 DEF Held, row, process
  <2>3. Tracked(w)'
    BY <1>1, <2>1 DEF Tracked, Complete, Ordinals, row, process, history
  <2> QED
    BY <2>2, <2>3
<1> QED
  BY <1>3, <1>4, <1>5, <1>6, <1>7 DEF IInv

LEMMA DeleteIInv ==
    ASSUME IInv, NEW r \in Runs, Delete(r)
    PROVE  IInv'
<1>1. /\ status[r] \notin {"none", "running"}
      /\ status' = [status EXCEPT ![r] = "none"] /\ samples' = [samples EXCEPT ![r] = {}]
      /\ UNCHANGED <<row, cancel_requested, process, history>>
  BY DEF Delete
<1>2. /\ status'[r] = "none"
      /\ \A q \in Runs \ {r} : status'[q] = status[q] /\ samples'[q] = samples[q]
  BY <1>1 DEF IInv, TypeOK
<1>3. TypeOK'
  BY <1>1 DEF IInv, TypeOK, Statuses, row, process, history
<1>4. OneWorker'
  BY <1>1 DEF IInv, OneWorker, process
<1>5. Unsent' /\ SentOnce'
  BY <1>1, <1>2 DEF IInv, Unsent, SentOnce, row, history
<1>6. Accounted'
  BY <1>1, <1>2 DEF IInv, Accounted, row, history
<1>7. ASSUME NEW w \in Workers PROVE Held(w)' /\ Tracked(w)'
  <2>1. Held(w) /\ Tracked(w)
    BY DEF IInv
  <2>2. pc[w] \in {"claimed", "running", "ending"} => run[w] \in Runs \ {r}
    BY <1>1, <2>1 DEF Held
  <2>3. Held(w)'
    BY <1>1, <1>2, <2>1, <2>2 DEF Held, row, process
  <2>4. Tracked(w)'
    BY <1>1, <1>2, <2>1, <2>2 DEF Tracked, Complete, Ordinals, row, process, history
  <2> QED
    BY <2>3, <2>4
<1> QED
  BY <1>3, <1>4, <1>5, <1>6, <1>7 DEF IInv

-----------------------------------------------------------------------------
(* The worker process.                                                        *)

LEMMA StartIInv ==
    ASSUME IInv, NEW w \in Workers, Start(w)
    PROVE  IInv'
<1>1. /\ pc[w] = "off" /\ lock = None /\ lock' = w
      /\ status' = [r \in Runs |-> IF status[r] = "running" THEN "interrupted" ELSE status[r]]
      /\ pc' = [pc EXCEPT ![w] = "idle"] /\ starts' = starts + 1
      /\ UNCHANGED <<row, cancel_requested, samples, stop, run, queue, active, raised, verdict, sent>>
  BY DEF Start, Recovered
<1>2. \A v \in Workers : pc[v] = "off"
  BY <1>1, Constants DEF IInv, OneWorker
<1>3. \A v \in Workers : pc'[v] = IF v = w THEN "idle" ELSE "off"
  BY <1>1, <1>2 DEF IInv, TypeOK
<1>4. TypeOK'
  BY <1>1 DEF IInv, TypeOK, Statuses, Finished, row
<1>5. OneWorker'
  BY <1>1, <1>3 DEF OneWorker
<1>6. Unsent' /\ SentOnce'
  BY <1>1 DEF IInv, Unsent, SentOnce, row
<1>7. Accounted'
  BY <1>1 DEF IInv, Accounted, row
<1>8. \A v \in Workers : Held(v)' /\ Tracked(v)'
  BY <1>3 DEF Held, Tracked
<1> QED
  BY <1>4, <1>5, <1>6, <1>7, <1>8 DEF IInv

LEMMA EndIInv ==
    ASSUME IInv, NEW w \in Workers, pc[w] # "off", End(w)
    PROVE  IInv'
<1>1. /\ pc' = [pc EXCEPT ![w] = "off"] /\ stop' = [stop EXCEPT ![w] = FALSE]
      /\ run' = [run EXCEPT ![w] = None] /\ queue' = [queue EXCEPT ![w] = {}]
      /\ active' = [active EXCEPT ![w] = {}] /\ raised' = [raised EXCEPT ![w] = {}]
      /\ verdict' = [verdict EXCEPT ![w] = None]
      /\ lock' = IF lock = w THEN None ELSE lock
      /\ UNCHANGED <<status, row, cancel_requested, samples, history>>
  BY DEF End
<1>2. lock = w /\ \A v \in Workers : v # w => pc[v] = "off"
  BY DEF IInv, OneWorker
<1>3. \A v \in Workers : pc'[v] = "off"
  BY <1>1, <1>2 DEF IInv, TypeOK
<1>4. TypeOK'
  BY <1>1, <1>2 DEF IInv, TypeOK, row, history
<1>5. OneWorker'
  BY <1>1, <1>2, <1>3, Constants DEF OneWorker
<1>6. Unsent' /\ SentOnce' /\ Accounted'
  BY <1>1 DEF IInv, Unsent, SentOnce, Accounted, row, history
<1>7. \A v \in Workers : Held(v)' /\ Tracked(v)'
  BY <1>3 DEF Held, Tracked
<1> QED
  BY <1>4, <1>5, <1>6, <1>7 DEF IInv

LEMMA StopIInv ==
    ASSUME IInv, NEW w \in Workers, Stop(w)
    PROVE  IInv'
<1>1. /\ stop' = [stop EXCEPT ![w] = TRUE]
      /\ UNCHANGED <<status, row, cancel_requested, samples, lock, pc, run, queue, active, raised,
                     verdict, history>>
  BY DEF Stop
<1>2. TypeOK'
  BY <1>1 DEF IInv, TypeOK, row, history
<1>3. OneWorker' /\ Unsent' /\ SentOnce' /\ Accounted'
  BY <1>1 DEF IInv, OneWorker, Unsent, SentOnce, Accounted, row, history
<1>4. \A v \in Workers : Held(v)' /\ Tracked(v)'
  BY <1>1 DEF IInv, Held, Tracked, Complete, Ordinals, row, history
<1> QED
  BY <1>2, <1>3, <1>4 DEF IInv

\* A step of the worker that is at work leaves the others off.
LEMMA OthersOff ==
    ASSUME IInv, NEW w \in Workers, pc[w] # "off", lock' = lock, pc'[w] # "off",
           \A v \in Workers : v # w => pc'[v] = pc[v]
    PROVE  /\ OneWorker'
           /\ \A v \in Workers : v # w => Held(v)' /\ Tracked(v)'
<1>1. \A v \in Workers : v # w => pc[v] = "off" /\ pc'[v] = "off"
  BY DEF IInv, OneWorker
<1>2. OneWorker'
  BY <1>1 DEF IInv, OneWorker
<1>3. \A v \in Workers : v # w => Held(v)' /\ Tracked(v)'
  BY <1>1 DEF Held, Tracked
<1> QED
  BY <1>2, <1>3

LEMMA ClaimIInv ==
    ASSUME IInv, NEW w \in Workers, NEW r \in Runs, Claim(w, r)
    PROVE  IInv'
<1>1. /\ pc[w] = "idle" /\ status[r] = "queued"
      /\ status' = [status EXCEPT ![r] = "running"] /\ run' = [run EXCEPT ![w] = r]
      /\ pc' = [pc EXCEPT ![w] = "claimed"]
      /\ UNCHANGED <<row, cancel_requested, samples, lock, stop, queue, active, raised, verdict, history>>
  BY DEF Claim
<1>2. pc'[w] = "claimed" /\ \A v \in Workers : v # w => pc'[v] = pc[v]
  BY <1>1 DEF IInv, TypeOK
<1>3. /\ run'[w] = r /\ status'[r] = "running" /\ \A o \in Requests : sent[r][o] = 0
      /\ created[r] # 0 /\ \A q \in Runs \ {r} : status'[q] = status[q]
  BY <1>1 DEF IInv, TypeOK, Unsent
<1>4. TypeOK'
  BY <1>1 DEF IInv, TypeOK, Statuses, row, history
<1>5. Unsent' /\ SentOnce' /\ Accounted'
  BY <1>1, <1>3 DEF IInv, Unsent, SentOnce, Accounted, row, history
<1>6. OneWorker' /\ \A v \in Workers : v # w => Held(v)' /\ Tracked(v)'
  BY <1>1, <1>2, OthersOff
<1>7. Held(w)' /\ Tracked(w)'
  BY <1>1, <1>2, <1>3 DEF Held, Tracked, history
<1> QED
  BY <1>4, <1>5, <1>6, <1>7 DEF IInv


LEMMA RefuseIInv ==
    ASSUME IInv, NEW w \in Workers, Refuse(w)
    PROVE  IInv'
<1>1. /\ pc[w] = "claimed"
      /\ verdict' = [verdict EXCEPT ![w] = "failed"] /\ pc' = [pc EXCEPT ![w] = "finish"]
      /\ UNCHANGED <<status, row, cancel_requested, samples, lock, stop, run, queue, active, raised,
                     history>>
  BY DEF Refuse
<1>2. /\ pc'[w] = "finish" /\ verdict'[w] = "failed" /\ \A v \in Workers : v # w => pc'[v] = pc[v]
  BY <1>1 DEF IInv, TypeOK
<1>3. TypeOK'
  BY <1>1 DEF IInv, TypeOK, Finished, row, history
<1>4. Unsent' /\ SentOnce' /\ Accounted'
  BY <1>1 DEF IInv, Unsent, SentOnce, Accounted, row, history
<1>5. OneWorker' /\ \A v \in Workers : v # w => Held(v)' /\ Tracked(v)'
  BY <1>1, <1>2, OthersOff
<1>6. run[w] \in Runs /\ status[run[w]] = "running" /\ created[run[w]] # 0
  BY <1>1 DEF IInv, Held, Unsent
<1>7. Held(w)' /\ Tracked(w)'
  BY <1>1, <1>2, <1>6 DEF Held, Tracked, row
<1> QED
  BY <1>3, <1>4, <1>5, <1>7 DEF IInv

LEMMA ExecuteIInv ==
    ASSUME IInv, NEW w \in Workers, Execute(w)
    PROVE  IInv'
<1>1. /\ pc[w] = "claimed"
      /\ queue' = [queue EXCEPT ![w] = Requests] /\ pc' = [pc EXCEPT ![w] = "running"]
      /\ UNCHANGED <<status, row, cancel_requested, samples, lock, stop, run, active, raised, verdict,
                     history>>
  BY DEF Execute
<1>2. /\ pc'[w] = "running" /\ queue'[w] = Requests /\ \A v \in Workers : v # w => pc'[v] = pc[v]
  BY <1>1 DEF IInv, TypeOK
<1>3. TypeOK'
  BY <1>1 DEF IInv, TypeOK, row, history
<1>4. Unsent' /\ SentOnce' /\ Accounted'
  BY <1>1 DEF IInv, Unsent, SentOnce, Accounted, row, history
<1>5. OneWorker' /\ \A v \in Workers : v # w => Held(v)' /\ Tracked(v)'
  BY <1>1, <1>2, OthersOff
<1>6. Held(w)'
  BY <1>1, <1>2 DEF IInv, Held
<1>7. Tracked(w)'
  <2>1. \A o \in Requests : sent[run[w]][o] = 0
    BY <1>1 DEF IInv, Tracked
  <2> QED
    BY <1>1, <1>2, <2>1, Constants DEF Tracked, Last, row, history
<1> QED
  BY <1>3, <1>4, <1>5, <1>6, <1>7 DEF IInv

-----------------------------------------------------------------------------
(* The execution of a run.                                                    *)

\* Only what is under way changes: the run and its verdict stay.
LEMMA Underway ==
    ASSUME IInv, NEW w \in Workers, pc[w] = "running",
           UNCHANGED <<status, lock, pc, run, verdict>>
    PROVE  /\ run[w] \in Runs /\ status[run[w]] = "running"
           /\ OneWorker' /\ Held(w)'
           /\ \A v \in Workers : v # w => Held(v)' /\ Tracked(v)'
<1>1. run[w] \in Runs /\ status[run[w]] = "running"
  BY DEF IInv, Held
<1>2. Held(w)'
  BY <1>1 DEF Held
<1>3. OneWorker' /\ \A v \in Workers : v # w => Held(v)' /\ Tracked(v)'
  BY OthersOff
<1> QED
  BY <1>1, <1>2, <1>3

LEMMA TakeIInv ==
    ASSUME IInv, NEW w \in Workers, NEW o \in Requests, Take(w, o)
    PROVE  IInv'
<1>0. PICK r : r = run[w]
  OBVIOUS
<1>1. /\ pc[w] = "running" /\ o \in queue[w]
      /\ IF mode[r] = "load" THEN NextRequest(w, o) ELSE NextStep(w, o)
      /\ queue' = [queue EXCEPT ![w] = {p \in @ : p > o}]
      /\ active' = [active EXCEPT ![w] = @ \cup {o}]
      /\ sent' = [sent EXCEPT ![r][o] = @ + 1]
      /\ UNCHANGED <<status, row, cancel_requested, samples, lock, pc, stop, run, raised, verdict, starts>>
  BY <1>0 DEF Take, IsLoad
<1>2. /\ r \in Runs /\ status[r] = "running" /\ OneWorker' /\ Held(w)'
      /\ \A v \in Workers : v # w => Held(v)' /\ Tracked(v)'
  BY <1>0, <1>1, Underway
<1>3. TypeOK'
  BY <1>1, <1>2 DEF IInv, TypeOK, row
<1>4. /\ queue'[w] = {p \in queue[w] : p > o} /\ active'[w] = active[w] \cup {o}
      /\ sent[r][o] = 0 /\ sent'[r][o] = 1
      /\ \A p \in Requests \ {o} : sent'[r][p] = sent[r][p]
      /\ \A q \in Runs \ {r} : sent'[q] = sent[q]
  BY <1>0, <1>1, <1>2 DEF IInv, TypeOK, Tracked
<1>5. Unsent'
  BY <1>1, <1>2, <1>4 DEF IInv, Unsent, row
<1>6. SentOnce'
  <2> SUFFICES ASSUME NEW q \in Runs, NEW p \in Requests PROVE sent'[q][p] <= 1
    BY DEF SentOnce
  <2>1. sent[q][p] <= 1
    BY DEF IInv, SentOnce
  <2> QED
    BY <1>4, <2>1
<1>7. Accounted'
  BY <1>1, <1>2, <1>4 DEF IInv, Accounted, row
<1>8. Tracked(w)'
  <2>1. /\ \A p \in queue[w] : sent[r][p] = 0
        /\ \A p \in Requests : sent[r][p] > 0 => p \in active[w] \cup raised[w] \cup Ordinals(r)
        /\ IF mode[r] = "load" THEN Requests \subseteq queue[w] \cup active[w] \cup raised[w] \cup Ordinals(r)
           ELSE Last \in queue[w] \cup active[w] \cup raised[w] \cup Ordinals(r)
    BY <1>0, <1>1 DEF IInv, Tracked
  <2>2. queue[w] \subseteq Requests
    BY DEF IInv, TypeOK
  <2>3. \A p \in queue'[w] : sent'[r][p] = 0
    BY <1>4, <2>1, <2>2, Constants
  <2>4. \A p \in Requests : sent'[r][p] > 0 => p \in active'[w] \cup raised[w] \cup Ordinals(r)
    BY <1>4, <2>1
  <2>5. mode[r] = "load" => queue[w] \subseteq queue'[w] \cup {o}
    <3> SUFFICES ASSUME mode[r] = "load", NEW p \in queue[w] PROVE p \in queue'[w] \cup {o}
      OBVIOUS
    <3>1. o <= p
      BY <1>0, <1>1 DEF NextRequest
    <3>2. p \in Nat /\ o \in Nat
      BY <2>2, Constants
    <3> QED
      BY <1>4, <3>1, <3>2
  <2>6. Last \in queue[w] => Last \in queue'[w] \cup {o}
    BY <1>4, Constants
  <2>7. IF mode[r] = "load" THEN Requests \subseteq queue'[w] \cup active'[w] \cup raised[w] \cup Ordinals(r)
        ELSE Last \in queue'[w] \cup active'[w] \cup raised[w] \cup Ordinals(r)
    BY <1>4, <2>1, <2>5, <2>6
  <2>8. Ordinals(r)' = Ordinals(r) /\ run'[w] = r /\ mode' = mode /\ raised' = raised /\ pc'[w] = "running"
    BY <1>0, <1>1 DEF Ordinals, row
  <2>9. Ordinals(run[w])' = Ordinals(r)
    BY <2>8 DEF Ordinals
  <2> QED
    BY <2>3, <2>4, <2>7, <2>8, <2>9 DEF Tracked, Last
<1> QED
  BY <1>2, <1>3, <1>5, <1>6, <1>7, <1>8 DEF IInv


\* One more sample of a run that is neither completed, cancelled nor out of time.
LEMMA RecordedFacts ==
    ASSUME IInv, NEW r \in Runs, NEW o \in Requests, NEW ok \in BOOLEAN, status[r] = "running",
           samples' = [samples EXCEPT ![r] = @ \cup {[ordinal |-> o, ok |-> ok]}],
           UNCHANGED <<status, mode, sent>>
    PROVE  /\ samples' \in [Runs -> SUBSET [ordinal : Requests, ok : BOOLEAN]]
           /\ Ordinals(r)' = Ordinals(r) \cup {o}
           /\ \A q \in Runs \ {r} : samples'[q] = samples[q]
           /\ Accounted'
<1>1. samples \in [Runs -> SUBSET [ordinal : Requests, ok : BOOLEAN]]
  BY DEF IInv, TypeOK
<1>2. [ordinal |-> o, ok |-> ok] \in [ordinal : Requests, ok : BOOLEAN]
  OBVIOUS
<1>3. samples' \in [Runs -> SUBSET [ordinal : Requests, ok : BOOLEAN]]
  BY <1>1, <1>2
<1>4. samples'[r] = samples[r] \cup {[ordinal |-> o, ok |-> ok]}
  BY <1>1
<1>5. \A q \in Runs \ {r} : samples'[q] = samples[q]
  BY <1>1
<1>6. Ordinals(r)' = Ordinals(r) \cup {o}
  <2>1. PICK t : t = [ordinal |-> o, ok |-> ok]
    OBVIOUS
  <2>2. samples'[r] = samples[r] \cup {t} /\ t.ordinal = o
    BY <1>4, <2>1
  <2>3. {s.ordinal : s \in samples'[r]} = {s.ordinal : s \in samples[r]} \cup {o}
    BY <2>2, Zenon
  <2> QED
    BY <2>3 DEF Ordinals
<1>7. Accounted'
  BY <1>5 DEF IInv, Accounted
<1> QED
  BY <1>3, <1>5, <1>6, <1>7

LEMMA AnswerIInv ==
    ASSUME IInv, NEW w \in Workers, NEW o \in Requests, NEW ok \in BOOLEAN, Answer(w, o, ok)
    PROVE  IInv'
<1>0. PICK r : r = run[w]
  OBVIOUS
<1>1. /\ pc[w] = "running" /\ o \in active[w]
      /\ samples' = [samples EXCEPT ![r] = @ \cup {[ordinal |-> o, ok |-> ok]}]
      /\ active' = [active EXCEPT ![w] = @ \ {o}]
      /\ UNCHANGED <<status, row, cancel_requested, lock, pc, stop, run, queue, verdict, history>>
  BY <1>0 DEF Answer, Recorded
<1>2. PICK more \in SUBSET {o} : raised' = [raised EXCEPT ![w] = @ \cup more]
  <2>1. CASE ok \/ IsLoad(w) \/ o # Cardinality(Requests)
    <3>1. raised' = [raised EXCEPT ![w] = @]
      BY <2>1 DEF Answer
    <3>2. raised' = [raised EXCEPT ![w] = @ \cup {}]
      BY <3>1
    <3> QED
      BY <3>2
  <2>2. CASE ~(ok \/ IsLoad(w) \/ o # Cardinality(Requests))
    BY <2>2 DEF Answer
  <2> QED
    BY <2>1, <2>2
<1>3. /\ r \in Runs /\ status[r] = "running" /\ OneWorker' /\ Held(w)'
      /\ \A v \in Workers : v # w => Held(v)' /\ Tracked(v)'
  BY <1>0, <1>1, Underway
<1>4. /\ samples' \in [Runs -> SUBSET [ordinal : Requests, ok : BOOLEAN]]
      /\ Ordinals(r)' = Ordinals(r) \cup {o} /\ Accounted'
  BY <1>1, <1>3, RecordedFacts DEF row, history
<1>5. active'[w] = active[w] \ {o} /\ raised'[w] = raised[w] \cup more
  BY <1>1, <1>2 DEF IInv, TypeOK
<1>6. TypeOK'
  BY <1>1, <1>2, <1>4 DEF IInv, TypeOK, row, history
<1>7. Unsent' /\ SentOnce'
  BY <1>1 DEF IInv, Unsent, SentOnce, row, history
<1>8. Tracked(w)'
  <2>1. /\ \A p \in queue[w] : sent[r][p] = 0
        /\ \A p \in Requests : sent[r][p] > 0 => p \in active[w] \cup raised[w] \cup Ordinals(r)
        /\ IF mode[r] = "load" THEN Requests \subseteq queue[w] \cup active[w] \cup raised[w] \cup Ordinals(r)
           ELSE Last \in queue[w] \cup active[w] \cup raised[w] \cup Ordinals(r)
    BY <1>0, <1>1 DEF IInv, Tracked
  <2>2. active[w] \cup raised[w] \cup Ordinals(r) \subseteq active'[w] \cup raised'[w] \cup Ordinals(r)'
    BY <1>4, <1>5
  <2>3. Ordinals(run[w])' = Ordinals(r)'
    BY <1>0, <1>1 DEF Ordinals
  <2>4. run'[w] = r /\ mode' = mode /\ sent' = sent /\ queue' = queue /\ pc'[w] = "running"
    BY <1>0, <1>1 DEF row, history
  <2> QED
    BY <2>1, <2>2, <2>3, <2>4 DEF Tracked, Last
<1> QED
  BY <1>3, <1>4, <1>6, <1>7, <1>8 DEF IInv

LEMMA RaiseIInv ==
    ASSUME IInv, NEW w \in Workers, NEW o \in Requests, Raise(w, o)
    PROVE  IInv'
<1>0. PICK r : r = run[w]
  OBVIOUS
<1>1. /\ pc[w] = "running" /\ o \in active[w]
      /\ active' = [active EXCEPT ![w] = @ \ {o}] /\ raised' = [raised EXCEPT ![w] = @ \cup {o}]
      /\ UNCHANGED <<status, row, cancel_requested, samples, lock, pc, stop, run, queue, verdict, history>>
  BY DEF Raise
<1>2. /\ r \in Runs /\ status[r] = "running" /\ OneWorker' /\ Held(w)'
      /\ \A v \in Workers : v # w => Held(v)' /\ Tracked(v)'
  BY <1>0, <1>1, Underway
<1>3. active'[w] = active[w] \ {o} /\ raised'[w] = raised[w] \cup {o}
  BY <1>1 DEF IInv, TypeOK
<1>4. TypeOK'
  BY <1>1 DEF IInv, TypeOK, row, history
<1>5. Unsent' /\ SentOnce' /\ Accounted'
  BY <1>1 DEF IInv, Unsent, SentOnce, Accounted, row, history
<1>6. Tracked(w)'
  <2>1. active[w] \cup raised[w] \subseteq active'[w] \cup raised'[w]
    BY <1>3
  <2>2. Ordinals(run[w])' = Ordinals(run[w])
    BY <1>1 DEF Ordinals
  <2> QED
    BY <1>1, <2>1, <2>2 DEF IInv, Tracked, Last, row, history
<1> QED
  BY <1>2, <1>4, <1>5, <1>6 DEF IInv

\* A run ends as its verdict says; as completed only when it is complete.
LEMMA EndsAsIInv ==
    ASSUME IInv, NEW w \in Workers, pc[w] = "running", NEW v \in Finished, EndsAs(w, v),
           v = "completed" => Complete(run[w])
    PROVE  IInv'
<1>1. /\ verdict' = [verdict EXCEPT ![w] = v] /\ pc' = [pc EXCEPT ![w] = "ending"]
      /\ UNCHANGED <<status, row, cancel_requested, samples, lock, stop, run, queue, active, raised,
                     history>>
  BY DEF EndsAs
<1>2. pc'[w] = "ending" /\ verdict'[w] = v /\ \A u \in Workers : u # w => pc'[u] = pc[u]
  BY <1>1 DEF IInv, TypeOK
<1>3. OneWorker' /\ \A u \in Workers : u # w => Held(u)' /\ Tracked(u)'
  BY <1>1, <1>2, OthersOff
<1>4. TypeOK'
  BY <1>1 DEF IInv, TypeOK, row, history
<1>5. Unsent' /\ SentOnce' /\ Accounted'
  BY <1>1 DEF IInv, Unsent, SentOnce, Accounted, row, history
<1>6. Held(w)'
  BY <1>1, <1>2 DEF IInv, Held
<1>7. Tracked(w)'
  <2>1. \A o \in Requests : sent[run[w]][o] > 0 => o \in active[w] \cup raised[w] \cup Ordinals(run[w])
    BY DEF IInv, Tracked
  <2>2. Ordinals(run[w])' = Ordinals(run[w]) /\ (Complete(run[w])' <=> Complete(run[w]))
    BY <1>1 DEF Ordinals, Complete, row
  <2> QED
    BY <1>1, <1>2, <2>1, <2>2 DEF Tracked, history
<1> QED
  BY <1>3, <1>4, <1>5, <1>6, <1>7 DEF IInv

LEMMA WatchIInv ==
    ASSUME IInv, NEW w \in Workers, Watch(w)
    PROVE  IInv'
BY EndsAsIInv DEF Watch, Finished

\* A run that is judged complete has sent everything, and everything is recorded.
LEMMA JudgedComplete ==
    ASSUME IInv, NEW w \in Workers, Judge(w), Judgment(w) = "completed"
    PROVE  Complete(run[w])
<1>1. pc[w] = "running" /\ raised[w] = {} /\ active[w] = {} /\ run[w] \in Runs
  BY DEF Judge, AllDone, Judgment, IInv, Held
<1>2. queue[w] = {}
  <2>1. Free(w) \in Nat \ {0}
    <3>1. Cardinality(raised[w]) = 0
      BY <1>1, FS_EmptySet
    <3> QED
      BY <3>1, Constants DEF Free
  <2>2. ~(IsLoad(w) /\ Halted(w))
    BY <1>1 DEF Judgment
  <2> QED
    BY <2>1, <2>2 DEF Judge, AllDone
<1>3. IF mode[run[w]] = "load" THEN Requests \subseteq Ordinals(run[w]) ELSE Last \in Ordinals(run[w])
  BY <1>1, <1>2 DEF IInv, Tracked
<1> QED
  BY <1>1, <1>3, Completeness DEF Complete

LEMMA JudgeIInv ==
    ASSUME IInv, NEW w \in Workers, Judge(w)
    PROVE  IInv'
<1>1. PICK v : v = Judgment(w)
  OBVIOUS
<1>2. v \in Finished /\ pc[w] = "running" /\ EndsAs(w, v)
  BY <1>1 DEF Judgment, Finished, Judge
<1>3. v = "completed" => Complete(run[w])
  BY <1>1, JudgedComplete
<1> QED
  BY <1>2, <1>3, EndsAsIInv


LEMMA WrapUpIInv ==
    ASSUME IInv, NEW w \in Workers, NEW o \in Requests, WrapUp(w, o)
    PROVE  IInv'
<1>0. PICK r : r = run[w]
  OBVIOUS
<1>1. /\ pc[w] = "ending"
      /\ samples' = [samples EXCEPT ![r] = @ \cup {[ordinal |-> o, ok |-> FALSE]}]
      /\ UNCHANGED <<status, row, cancel_requested, process, history>>
  BY <1>0 DEF WrapUp, Recorded
<1>2. r \in Runs /\ status[r] = "running"
  BY <1>0, <1>1 DEF IInv, Held
<1>3. /\ samples' \in [Runs -> SUBSET [ordinal : Requests, ok : BOOLEAN]]
      /\ Ordinals(r)' = Ordinals(r) \cup {o} /\ Accounted'
  BY <1>1, <1>2, RecordedFacts DEF row, history
<1>4. TypeOK'
  BY <1>1, <1>3 DEF IInv, TypeOK, row, process, history
<1>5. Unsent' /\ SentOnce'
  BY <1>1 DEF IInv, Unsent, SentOnce, row, history
<1>6. OneWorker' /\ \A v \in Workers : v # w => Held(v)' /\ Tracked(v)'
  BY <1>1, OthersOff DEF process
<1>7. Held(w)'
  BY <1>1 DEF IInv, Held, row, process
<1>8. Tracked(w)'
  <2>1. /\ \A p \in Requests : sent[r][p] > 0 => p \in active[w] \cup raised[w] \cup Ordinals(r)
        /\ verdict[w] = "completed" => Complete(r)
    BY <1>0, <1>1 DEF IInv, Tracked
  <2>2. Ordinals(r)' \subseteq Requests
    BY <1>2, <1>3, Completeness
  <2>3. Complete(r) => Complete(r)'
    BY <1>1, <1>3, <2>2 DEF Complete, row
  <2>4. Ordinals(run[w])' = Ordinals(r)' /\ (Complete(run[w])' <=> Complete(r)')
    BY <1>0, <1>1 DEF Ordinals, Complete, process
  <2> QED
    BY <1>0, <1>1, <1>3, <2>1, <2>3, <2>4 DEF Tracked, process, history
<1> QED
  BY <1>3, <1>4, <1>5, <1>6, <1>7, <1>8 DEF IInv

LEMMA FinishIInv ==
    ASSUME IInv, NEW w \in Workers, Finish(w)
    PROVE  IInv'
<1>0. PICK r, v, again :
        /\ r = run[w] /\ v = verdict[w]
        /\ again = (pc[w] = "ending" /\ IsLoad(w) /\ raised[w] # {} /\ verdict[w] = "failed")
  OBVIOUS
<1>1. /\ \/ pc[w] = "finish"
         \/ pc[w] = "ending" /\ active[w] \cup raised[w] \subseteq Ordinals(r)
      /\ status' = [status EXCEPT ![r] = IF @ = "none" THEN @ ELSE v]
      /\ pc' = [pc EXCEPT ![w] = IF again THEN "finish" ELSE "idle"]
      /\ run' = [run EXCEPT ![w] = IF again THEN @ ELSE None]
      /\ queue' = [queue EXCEPT ![w] = {}] /\ active' = [active EXCEPT ![w] = {}]
      /\ raised' = [raised EXCEPT ![w] = {}]
      /\ verdict' = [verdict EXCEPT ![w] = IF pc'[w] = "finish" THEN @ ELSE None]
      /\ UNCHANGED <<row, cancel_requested, samples, lock, stop, history>>
  BY <1>0 DEF Finish, Ordinals
<1>2. /\ r \in Runs /\ created[r] # 0 /\ v \in Finished
      /\ pc[w] = "ending" => status[r] = "running"
      /\ pc[w] = "finish" => v = "failed" /\ status[r] \in {"running", "failed", "none"}
  BY <1>0, <1>1 DEF IInv, Held, Unsent, Finished
<1>3. again => pc[w] = "ending" /\ v = "failed"
  BY <1>0
<1>4. /\ status'[r] = (IF status[r] = "none" THEN "none" ELSE v)
      /\ \A q \in Runs \ {r} : status'[q] = status[q]
      /\ pc'[w] = (IF again THEN "finish" ELSE "idle") /\ run'[w] = (IF again THEN r ELSE None)
      /\ verdict'[w] = (IF again THEN v ELSE None)
      /\ \A u \in Workers : u # w => pc'[u] = pc[u]
  BY <1>0, <1>1, <1>2 DEF IInv, TypeOK
<1>5. TypeOK'
  <2>1. verdict' \in [Workers -> Finished \cup {None}]
    BY <1>1 DEF IInv, TypeOK
  <2>2. run' \in [Workers -> Runs \cup {None}]
    BY <1>1 DEF IInv, TypeOK
  <2>3. status' \in [Runs -> Statuses]
    BY <1>1, <1>2 DEF IInv, TypeOK, Statuses
  <2>4. pc' \in [Workers -> {"off", "idle", "claimed", "running", "ending", "finish"}]
    BY <1>1 DEF IInv, TypeOK
  <2> QED
    BY <1>1, <2>1, <2>2, <2>3, <2>4 DEF IInv, TypeOK, row, history
<1>6. Unsent' /\ SentOnce'
  BY <1>1, <1>2, <1>4 DEF IInv, Unsent, SentOnce, Finished, row, history
<1>7. OneWorker' /\ \A u \in Workers : u # w => Held(u)' /\ Tracked(u)'
  BY <1>1, <1>4, OthersOff
<1>8. Held(w)' /\ Tracked(w)'
  <2>1. CASE again
    BY <1>1, <1>2, <1>3, <1>4, <2>1 DEF Held, Tracked, row
  <2>2. CASE ~again
    BY <1>4, <2>2 DEF Held, Tracked
  <2> QED
    BY <2>1, <2>2
<1>9. Accounted'
  <2>1. /\ pc[w] = "ending" /\ v = "completed" => Complete(r)
        /\ pc[w] = "ending" => \A o \in Requests : sent[r][o] > 0 => o \in Ordinals(r)
    BY <1>0, <1>1 DEF IInv, Tracked
  <2>2. /\ status'[r] = "completed" => Complete(r)
        /\ status'[r] \in {"cancelled", "timed_out"} => \A o \in Requests : sent[r][o] > 0 => o \in Ordinals(r)
    BY <1>1, <1>2, <1>4, <2>1
  <2> QED
    BY <1>1, <1>4, <2>2 DEF IInv, Accounted, Complete, Ordinals, Last, row, history
<1> QED
  BY <1>5, <1>6, <1>7, <1>8, <1>9 DEF IInv

-----------------------------------------------------------------------------

LEMMA NextIInv ==
    IInv /\ [Next]_vars => IInv'
<1> SUFFICES ASSUME IInv, [Next]_vars PROVE IInv'
  OBVIOUS
<1>1. ASSUME NEW r \in Runs,
             (\E m \in {"load", "needu"} : CreateRun(r, m)) \/ Cancel(r) \/ Delete(r)
      PROVE  IInv'
  BY <1>1, CreateRunIInv, CancelIInv, DeleteIInv
<1>2. ASSUME NEW w \in Workers, Start(w) \/ Stop(w) \/ (\E r \in Runs : Claim(w, r))
      PROVE  IInv'
  BY <1>2, StartIInv, StopIInv, ClaimIInv
<1>3. ASSUME NEW w \in Workers, Exit(w) \/ Crash(w) PROVE IInv'
  BY <1>3, EndIInv DEF Exit, Crash
<1>4. ASSUME NEW w \in Workers, Refuse(w) \/ Execute(w) \/ Watch(w) \/ Judge(w) \/ Finish(w)
      PROVE  IInv'
  BY <1>4, RefuseIInv, ExecuteIInv, WatchIInv, JudgeIInv, FinishIInv
<1>5. ASSUME NEW w \in Workers, NEW o \in Requests,
             Take(w, o) \/ Raise(w, o) \/ WrapUp(w, o) \/ (\E ok \in BOOLEAN : Answer(w, o, ok))
      PROVE  IInv'
  BY <1>5, TakeIInv, RaiseIInv, WrapUpIInv, AnswerIInv
<1>6. CASE UNCHANGED vars
  <2>1. TypeOK' /\ OneWorker' /\ Unsent' /\ SentOnce' /\ Accounted'
    BY <1>6 DEF vars, IInv, TypeOK, OneWorker, Unsent, SentOnce, Accounted
  <2>2. \A w \in Workers : Held(w)' /\ Tracked(w)'
    BY <1>6 DEF vars, IInv, Held, Tracked, Complete, Ordinals
  <2> QED
    BY <2>1, <2>2 DEF IInv
<1> QED
  BY <1>1, <1>2, <1>3, <1>4, <1>5, <1>6 DEF Next

\* The inductive invariant, for any number of runs, workers and requests.
THEOREM Invariance == Spec => []IInv
<1>1. Init => IInv
  BY InitIInv
<1>2. IInv /\ [Next]_vars => IInv'
  BY NextIInv
<1> QED
  BY <1>1, <1>2, PTL DEF Spec

\* The rows, the samples and the workers' state are well formed.
THEOREM TypeCorrect == Spec => []TypeOK
<1>1. IInv => TypeOK
  BY DEF IInv
<1> QED
  BY <1>1, Invariance, PTL

\* No request of a run is sent twice, whatever workers crash or are started.
THEOREM SentOnceHolds == Spec => []SentOnce
<1>1. IInv => SentOnce
  BY DEF IInv
<1> QED
  BY <1>1, Invariance, PTL

\* The samples of a run that has ended account for what was sent.
THEOREM AccountedHolds == Spec => []Accounted
<1>1. IInv => Accounted
  BY DEF IInv
<1> QED
  BY <1>1, Invariance, PTL

\* A run that has ended stays as it ended, until it is deleted.
THEOREM FinishedStaysAlways == Spec => FinishedStays
<1> DEFINE Kept(r) == status[r] \in Finished => \/ status'[r] = status[r] /\ samples'[r] = samples[r]
                                                \/ status'[r] = "none"
           A == \A r \in Runs : Kept(r)
<1>1. IInv /\ Next => A
  <2> SUFFICES ASSUME IInv, Next, NEW r \in Runs, status[r] \in Finished
               PROVE  \/ status'[r] = status[r] /\ samples'[r] = samples[r]
                      \/ status'[r] = "none"
    OBVIOUS
  <2>1. status[r] \notin {"none", "queued", "running"}
    BY DEF Finished
  <2>2. ASSUME NEW q \in Runs,
               (\E m \in {"load", "needu"} : CreateRun(q, m)) \/ Cancel(q) \/ Delete(q)
        PROVE  Kept(r)
    BY <2>1, <2>2 DEF CreateRun, Cancel, Delete, IInv, TypeOK
  <2>3. ASSUME NEW w \in Workers,
               Start(w) \/ Stop(w) \/ Exit(w) \/ Crash(w) \/ (\E q \in Runs : Claim(w, q))
        PROVE  Kept(r)
    BY <2>1, <2>3 DEF Start, Recovered, Stop, Exit, Crash, End, Claim, IInv, TypeOK
  <2>4. ASSUME NEW w \in Workers, Refuse(w) \/ Execute(w) \/ Watch(w) \/ Judge(w)
        PROVE  Kept(r)
    BY <2>4 DEF Refuse, Execute, Watch, Judge, EndsAs
  <2>5. ASSUME NEW w \in Workers, NEW o \in Requests,
               Take(w, o) \/ Raise(w, o) \/ WrapUp(w, o) \/ (\E ok \in BOOLEAN : Answer(w, o, ok))
        PROVE  Kept(r)
    <3>1. CASE Take(w, o) \/ Raise(w, o)
      BY <3>1 DEF Take, Raise
    <3>2. CASE WrapUp(w, o) \/ \E ok \in BOOLEAN : Answer(w, o, ok)
      <4>1. status' = status /\ run[w] # r
        BY <2>1, <3>2 DEF WrapUp, Answer, IInv, Held
      <4>2. \E t : samples' = [samples EXCEPT ![run[w]] = t]
        BY <3>2 DEF WrapUp, Answer, Recorded
      <4> QED
        BY <4>1, <4>2 DEF IInv, TypeOK
    <3> QED
      BY <2>5, <3>1, <3>2
  <2>6. ASSUME NEW w \in Workers, Finish(w) PROVE Kept(r)
    <3>1. samples' = samples /\ status' = [status EXCEPT ![run[w]] = IF @ = "none" THEN @ ELSE verdict[w]]
      BY <2>6 DEF Finish
    <3>2. CASE pc[w] = "ending"
      <4>1. run[w] # r
        BY <2>1, <3>2 DEF IInv, Held
      <4> QED
        BY <3>1, <4>1 DEF IInv, TypeOK
    <3>3. CASE pc[w] = "finish"
      <4>1. verdict[w] = "failed" /\ status[run[w]] \in {"running", "failed", "none"}
        BY <3>3 DEF IInv, Held
      <4> QED
        BY <2>1, <3>1, <4>1 DEF IInv, TypeOK
    <3> QED
      BY <2>6, <3>2, <3>3 DEF Finish
  <2> QED
    BY <2>2, <2>3, <2>4, <2>5, <2>6 DEF Next
<1>2. IInv /\ [Next]_vars => [A]_vars
  BY <1>1
<1> QED
  BY <1>2, Invariance, PTL DEF Spec, FinishedStays

===============================================================================
