--------------------------------- MODULE LabRuns ---------------------------------
(***************************************************************************)
(* The experiments of the AI Lab: the table of runs that the management API   *)
(* and the worker share (admin_api/store.py, admin_api/main.py), the worker    *)
(* process (benchmarks/worker.py), and how it executes a run                 *)
(* (benchmarks/runner.py, benchmarks/needu.py).                              *)
(*                                                                         *)
(* Each method of Store is one transaction.  A "load" run (the quality mode   *)
(* is one) sends its requests from several consumers; a "needu" run is one     *)
(* conversation, step after step, ended by an analysis.                      *)
(***************************************************************************)
EXTENDS Naturals, FiniteSets

CONSTANTS
    Runs, Workers,      \* ids of runs, worker processes that may be started
    None,
    Requests,           \* ordinals of the requests of a run, or steps of a conversation
    Concurrency,        \* consumers of a load run
    MAX_WAITING, LATEST,\* at most so many waiting runs, counted over so many latest ones
    MaxStarts           \* bound: starts of worker processes

ASSUME LabAssumption ==
    /\ None \notin Runs \cup Workers \cup Requests
    /\ IsFiniteSet(Runs)
    /\ Requests = 1 .. Cardinality(Requests) /\ Cardinality(Requests) \in Nat \ {0}
    /\ Concurrency \in Nat \ {0}
    /\ {MAX_WAITING, LATEST, MaxStarts} \subseteq Nat

VARIABLES
    status, mode,       \* the row of each run; "none": there is no row
    cancel_requested,
    created,            \* the runs created so far, each before the later ones: [Runs -> Nat]
    samples,            \* samples[r]: the ordinals recorded for r, with how they ended
    lock,               \* the process that holds the worker lock
    pc, stop, run,      \* per process: where it is, whether it was told to stop, its run
    queue, active,      \* its run's requests not yet taken, and those under way (pending)
    raised, verdict,    \* requests whose consumer raised, and the status the run ends with
    sent, starts        \* requests sent for each run, and starts so far (history)

vars == <<status, mode, cancel_requested, created, samples, lock, pc, stop, run, queue, active,
          raised, verdict, sent, starts>>

row == <<mode, created>>
process == <<lock, pc, stop, run, queue, active, raised, verdict>>
history == <<sent, starts>>

Finished == {"completed", "failed", "cancelled", "timed_out", "interrupted"}
Statuses == {"none", "queued", "running"} \cup Finished

Init ==
    /\ status = [r \in Runs |-> "none"] /\ mode = [r \in Runs |-> "load"]
    /\ cancel_requested = [r \in Runs |-> FALSE] /\ created = [r \in Runs |-> 0]
    /\ samples = [r \in Runs |-> {}]
    /\ lock = None
    /\ pc = [w \in Workers |-> "off"] /\ stop = [w \in Workers |-> FALSE]
    /\ run = [w \in Workers |-> None] /\ queue = [w \in Workers |-> {}]
    /\ active = [w \in Workers |-> {}] /\ raised = [w \in Workers |-> {}]
    /\ verdict = [w \in Workers |-> None]
    /\ sent = [r \in Runs |-> [o \in Requests |-> 0]] /\ starts = 0

-----------------------------------------------------------------------------
(* The management API.  The heartbeat it asks for lasts eight seconds, so that *)
(* a run may be queued when no worker is left.                               *)

Later(r) == {q \in Runs : status[q] # "none" /\ created[q] > created[r]}
Latest == {r \in Runs : status[r] # "none" /\ Cardinality(Later(r)) < LATEST}

CreateRun(r, m) ==
    /\ status[r] = "none" /\ created[r] = 0
    /\ Cardinality({q \in Latest : status[q] \in {"queued", "running"}}) < MAX_WAITING
    /\ status' = [status EXCEPT ![r] = "queued"]
    /\ mode' = [mode EXCEPT ![r] = m]
    /\ created' = [created EXCEPT ![r] = 1 + Cardinality({q \in Runs : created[q] > 0})]
    /\ UNCHANGED <<cancel_requested, samples, process, history>>

Cancel(r) ==
    /\ status[r] \in {"queued", "running"} /\ ~cancel_requested[r]
    /\ cancel_requested' = [cancel_requested EXCEPT ![r] = TRUE]
    /\ status' = [status EXCEPT ![r] = IF @ = "queued" THEN "cancelled" ELSE @]
    /\ UNCHANGED <<row, samples, process, history>>

Delete(r) ==
    /\ status[r] \notin {"none", "running"}
    /\ status' = [status EXCEPT ![r] = "none"]
    /\ samples' = [samples EXCEPT ![r] = {}]
    /\ UNCHANGED <<row, cancel_requested, process, history>>

-----------------------------------------------------------------------------
(* The worker process.                                                        *)

Cancelled(r) == status[r] = "none" \/ cancel_requested[r]

Recovered_Requeued ==
    [r \in Runs |-> IF status[r] = "running" THEN "queued" ELSE status[r]]

\* recover: a run left running is not run again, its requests were paid for
Recovered ==
    [r \in Runs |-> IF status[r] = "running" THEN "interrupted" ELSE status[r]]

Start_NoLock(w) ==
    /\ pc[w] = "off" /\ starts < MaxStarts
    /\ lock' = w
    /\ status' = Recovered
    /\ pc' = [pc EXCEPT ![w] = "idle"]
    /\ starts' = starts + 1
    /\ UNCHANGED <<row, cancel_requested, samples, stop, run, queue, active, raised, verdict, sent>>

\* A process that does not get the lock ends at once
Start(w) ==
    /\ pc[w] = "off" /\ starts < MaxStarts
    /\ lock = None
    /\ lock' = w
    /\ status' = Recovered
    /\ pc' = [pc EXCEPT ![w] = "idle"]
    /\ starts' = starts + 1
    /\ UNCHANGED <<row, cancel_requested, samples, stop, run, queue, active, raised, verdict, sent>>

\* SIGINT or SIGTERM
Stop(w) ==
    /\ pc[w] # "off" /\ ~stop[w]
    /\ stop' = [stop EXCEPT ![w] = TRUE]
    /\ UNCHANGED <<status, row, cancel_requested, samples, lock, pc, run, queue, active, raised,
                   verdict, history>>

\* The process ends, told to or not, and the lock with it
End(w) ==
    /\ pc' = [pc EXCEPT ![w] = "off"]
    /\ stop' = [stop EXCEPT ![w] = FALSE]
    /\ run' = [run EXCEPT ![w] = None]
    /\ queue' = [queue EXCEPT ![w] = {}]
    /\ active' = [active EXCEPT ![w] = {}]
    /\ raised' = [raised EXCEPT ![w] = {}]
    /\ verdict' = [verdict EXCEPT ![w] = None]
    /\ lock' = IF lock = w THEN None ELSE lock
    /\ UNCHANGED <<status, row, cancel_requested, samples, history>>

Exit(w) == pc[w] = "idle" /\ stop[w] /\ End(w)
Crash(w) == pc[w] # "off" /\ starts < MaxStarts /\ End(w)

Claim(w, r) ==
    /\ pc[w] = "idle" /\ ~stop[w]
    /\ status[r] = "queued"
    /\ \A q \in Runs : status[q] = "queued" => created[r] <= created[q]
    /\ status' = [status EXCEPT ![r] = "running"]
    /\ run' = [run EXCEPT ![w] = r]
    /\ pc' = [pc EXCEPT ![w] = "claimed"]
    /\ UNCHANGED <<row, cancel_requested, samples, lock, stop, queue, active, raised, verdict, history>>

\* Another version of the code queued it, or its set-up fails
Refuse(w) ==
    /\ pc[w] = "claimed"
    /\ verdict' = [verdict EXCEPT ![w] = "failed"]
    /\ pc' = [pc EXCEPT ![w] = "finish"]
    /\ UNCHANGED <<status, row, cancel_requested, samples, lock, stop, run, queue, active, raised,
                   history>>

Execute(w) ==
    /\ pc[w] = "claimed"
    /\ queue' = [queue EXCEPT ![w] = Requests]
    /\ pc' = [pc EXCEPT ![w] = "running"]
    /\ UNCHANGED <<status, row, cancel_requested, samples, lock, stop, run, active, raised, verdict,
                   history>>

-----------------------------------------------------------------------------
(* The execution of a run.                                                    *)

IsLoad(w) == mode[run[w]] = "load"
Halted(w) == Cancelled(run[w]) \/ stop[w]

\* Consumers still at work or free to take a request
Free(w) == (IF IsLoad(w) THEN Concurrency ELSE 1) - Cardinality(raised[w])

\* A consumer asks before every request whether the run is to halt; the requests
\* are sent in order.
NextRequest(w, o) == ~Halted(w) /\ \A p \in queue[w] : o <= p

\* A conversation does not ask, and goes on to its analysis when the session ends.
NextStep(w, o) == o = Cardinality(Requests) \/ \A p \in queue[w] : o <= p

Take(w, o) ==
    /\ pc[w] = "running"
    /\ o \in queue[w] /\ Cardinality(active[w]) < Free(w)
    /\ IF IsLoad(w) THEN NextRequest(w, o) ELSE NextStep(w, o)
    /\ queue' = [queue EXCEPT ![w] = {p \in @ : p > o}]
    /\ active' = [active EXCEPT ![w] = @ \cup {o}]
    /\ sent' = [sent EXCEPT ![run[w]][o] = @ + 1]
    /\ UNCHANGED <<status, row, cancel_requested, samples, lock, pc, stop, run, raised, verdict, starts>>

Recorded(w, o, ok) == [samples EXCEPT ![run[w]] = @ \cup {[ordinal |-> o, ok |-> ok]}]

\* An answer, a refusal or a timeout is a sample; an analysis without its
\* recommendations is one too, and then an error of the conversation
Answer(w, o, ok) ==
    /\ pc[w] = "running" /\ o \in active[w]
    /\ samples' = Recorded(w, o, ok)
    /\ active' = [active EXCEPT ![w] = @ \ {o}]
    /\ raised' = [raised EXCEPT ![w] =
                    IF ok \/ IsLoad(w) \/ o # Cardinality(Requests) THEN @ ELSE @ \cup {o}]
    /\ UNCHANGED <<status, row, cancel_requested, lock, pc, stop, run, queue, verdict, history>>

\* An error nothing expects ends the consumer, or the conversation; the request
\* stays pending
Raise(w, o) ==
    /\ pc[w] = "running" /\ o \in active[w]
    /\ active' = [active EXCEPT ![w] = @ \ {o}]
    /\ raised' = [raised EXCEPT ![w] = @ \cup {o}]
    /\ UNCHANGED <<status, row, cancel_requested, samples, lock, pc, stop, run, queue, verdict, history>>

AllDone(w) ==
    /\ active[w] = {}
    /\ queue[w] = {} \/ Free(w) = 0 \/ (IsLoad(w) /\ Halted(w))

EndsAs(w, s) ==
    /\ verdict' = [verdict EXCEPT ![w] = s]
    /\ pc' = [pc EXCEPT ![w] = "ending"]
    /\ UNCHANGED <<status, row, cancel_requested, samples, lock, stop, run, queue, active, raised,
                   history>>

\* The loop that looks every 0.15 seconds
Watch(w) ==
    /\ pc[w] = "running" /\ ~AllDone(w)
    /\ \/ Halted(w) /\ EndsAs(w, "cancelled")
       \/ ~Halted(w) /\ EndsAs(w, "timed_out")

Succeeded(w) == \E s \in samples[run[w]] : s.ok

Judgment_AtOnce(w) == IF raised[w] # {} \/ ~Succeeded(w) THEN "failed" ELSE "completed"

\* The consumers are done: having sent everything, or because the run was to halt
Judgment(w) ==
    IF raised[w] # {} THEN "failed"
    ELSE IF ~IsLoad(w) THEN "completed"
    ELSE IF Halted(w) THEN "cancelled"
    ELSE IF Succeeded(w) THEN "completed" ELSE "failed"

Judge(w) ==
    /\ pc[w] = "running" /\ AllDone(w)
    /\ EndsAs(w, Judgment(w))

\* What was under way when the run ended is recorded as not answered
WrapUp(w, o) ==
    /\ pc[w] = "ending" /\ o \in active[w] \cup raised[w]
    /\ \A s \in samples[run[w]] : s.ordinal # o
    /\ samples' = Recorded(w, o, FALSE)
    /\ UNCHANGED <<status, row, cancel_requested, process, history>>

\* An error of a load run is raised again, and the worker finishes the run too
Finish(w) ==
    /\ \/ pc[w] = "finish"
       \/ pc[w] = "ending" /\ active[w] \cup raised[w] \subseteq {s.ordinal : s \in samples[run[w]]}
    /\ status' = [status EXCEPT ![run[w]] = IF @ = "none" THEN @ ELSE verdict[w]]
    /\ LET again == pc[w] = "ending" /\ IsLoad(w) /\ raised[w] # {} /\ verdict[w] = "failed"
       IN  /\ pc' = [pc EXCEPT ![w] = IF again THEN "finish" ELSE "idle"]
           /\ run' = [run EXCEPT ![w] = IF again THEN @ ELSE None]
    /\ queue' = [queue EXCEPT ![w] = {}]
    /\ active' = [active EXCEPT ![w] = {}]
    /\ raised' = [raised EXCEPT ![w] = {}]
    /\ verdict' = [verdict EXCEPT ![w] = IF pc'[w] = "finish" THEN @ ELSE None]
    /\ UNCHANGED <<row, cancel_requested, samples, lock, stop, history>>

Next ==
    \/ \E r \in Runs : \/ \E m \in {"load", "needu"} : CreateRun(r, m)
                       \/ Cancel(r) \/ Delete(r)
    \/ \E w \in Workers :
        \/ Start(w) \/ Stop(w) \/ Exit(w) \/ Crash(w)
        \/ \E r \in Runs : Claim(w, r)
        \/ Refuse(w) \/ Execute(w) \/ Watch(w) \/ Judge(w) \/ Finish(w)
        \/ \E o \in Requests : \/ Take(w, o) \/ Raise(w, o) \/ WrapUp(w, o)
                               \/ \E ok \in BOOLEAN : Answer(w, o, ok)

Spec == Init /\ [][Next]_vars

-----------------------------------------------------------------------------
(* Properties.                                                                *)

TypeOK ==
    /\ status \in [Runs -> Statuses] /\ mode \in [Runs -> {"load", "needu"}]
    /\ cancel_requested \in [Runs -> BOOLEAN] /\ created \in [Runs -> Nat]
    /\ samples \in [Runs -> SUBSET [ordinal : Requests, ok : BOOLEAN]]
    /\ lock \in Workers \cup {None}
    /\ pc \in [Workers -> {"off", "idle", "claimed", "running", "ending", "finish"}]
    /\ stop \in [Workers -> BOOLEAN]
    /\ run \in [Workers -> Runs \cup {None}]
    /\ queue \in [Workers -> SUBSET Requests] /\ active \in [Workers -> SUBSET Requests]
    /\ raised \in [Workers -> SUBSET Requests]
    /\ verdict \in [Workers -> Finished \cup {None}]
    /\ sent \in [Runs -> [Requests -> Nat]] /\ starts \in Nat

\* Store.recover: "never retry a billed request".  No request of a run is sent
\* twice, whatever workers crash, are stopped or are started beside another.
SentOnce == \A r \in Runs : \A o \in Requests : sent[r][o] <= 1

\* A run's summary counts its samples: a completed run has one of every request
\* (of the analysis, when it is a conversation), and a run that was cancelled or
\* ran out of time has one of every request it sent, the interrupted ones too.
Accounted ==
    \A r \in Runs :
        LET ordinals == {s.ordinal : s \in samples[r]}
        IN  /\ status[r] = "completed" =>
                    IF mode[r] = "load" THEN ordinals = Requests ELSE Cardinality(Requests) \in ordinals
            /\ status[r] \in {"cancelled", "timed_out"} =>
                    \A o \in Requests : sent[r][o] > 0 => o \in ordinals

\* A run that has ended keeps how it ended and what was recorded: neither a late
\* answer, nor a worker started again, nor a cancellation changes it.
FinishedStays ==
    [][\A r \in Runs : status[r] \in Finished =>
            \/ status'[r] = status[r] /\ samples'[r] = samples[r]
            \/ status'[r] = "none"]_vars

===============================================================================
