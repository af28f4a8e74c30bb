------------------------------ MODULE ChatSession ------------------------------
(***************************************************************************)
(* One conversation room of the chat server: the session record kept under *)
(* the room's key, the asyncio lock of the room, and the HTTP handlers      *)
(* that run against both.  Rooms share no state, so one room is modelled.   *)
(*                                                                         *)
(* A handler is split where the code awaits: the room's lock, the store's   *)
(* GET, the model, the store's SET.  Between two awaits the event loop runs *)
(* nothing else, and that stretch is one action.                            *)
(*                                                                         *)
(* The clock is not a variable.  A session carries how long ago it was      *)
(* created (age) and last active (idle), and Tick makes every copy of it,   *)
(* stored or loaded, one unit older.  Both stop at the point from which the *)
(* session counts as expired.                                               *)
(***************************************************************************)
EXTENDS Integers, SequencesExt

CONSTANTS
    Requests,      \* handlers that may run at the same time
    Users,
    Messages,      \* the backend's ids of user messages (user_message_id)
    Keywords,      \* labels an analysis can hold
    Calls,         \* the calls the backend makes, a subset of AllCalls
    Outcomes,      \* what an extraction may leave of the profile, see Levels
    MaxTurns,      \* MAX_TURNS, 20 in the code
    IdleTtl,       \* idle_ttl_seconds, in clock units
    MaxLifetime,   \* max_lifetime_seconds, in clock units
    MaxSessions,   \* bound of the model: sessions opened in the room
    None           \* Python's None

AllCalls == {"create", "send", "stream", "analyze", "patch", "close"}

\* What the profile is good for: no active signal; signals, but none that an
\* analysis could show; some of what a recommendation needs; all of it.
Levels == {"empty", "thin", "some", "sufficient"}

Statuses == {"active", "input_locked", "review", "closed"}
Reasons  == {"max_cycles", "user_exit", "sufficient"}

\* A turn is remembered by the message it answers; the plain endpoint has no
\* message id, and its turns are None.
Session ==
    [ gen : Nat, user : Users, status : Statuses, turns : Seq(Messages \cup {None}),
      last_user_message_id : Messages \cup {None}, level : Levels, progress_floor : 0 .. 100,
      pending_wrap : Reasons \cup {None}, completion_reason : Reasons \cup {None},
      analysis_turn_count : Nat \cup {None}, keywords : SUBSET Keywords,
      patch_used : BOOLEAN, idle : 0 .. IdleTtl, age : 0 .. MaxLifetime ]

\* What a stream answers: the turn count, whose reply it carries, inputLocked.
Response == [turn : Nat, reply : Messages \cup {None}, input_locked : BOOLEAN]

\* A call: what, by whom, and with which message id.
Job == [call : AllCalls, user : Users, message : Messages \cup {None}]

\* What a close request takes to the recommendation service, and, for the
\* properties alone, whose it is and how old that session is by now.
Payload ==
    [ gen : Nat, turns : Nat, level : Levels, idle : 0 .. IdleTtl, age : 0 .. MaxLifetime ]

\* What the record shows of a session, see View.
SessionView ==
    [gen : Nat, status : Statuses, turns : Nat, keywords : SUBSET Keywords, patched : BOOLEAN]

ASSUME ChatConstants ==
    /\ Calls \subseteq AllCalls
    /\ Outcomes \subseteq Levels
    /\ MaxTurns \in Nat \ {0}
    /\ IdleTtl \in Nat \ {0}
    /\ MaxLifetime \in Nat \ {0}
    /\ MaxSessions \in Nat
    /\ None \notin Requests \cup Messages \cup Reasons \cup Nat
    /\ None \notin Session \cup Job \cup Payload \cup SessionView

VARIABLES
    store,     \* the room's key in the session store: a session or None
    opened,    \* sessions opened so far; a session's gen tells it from its successors
    holder,    \* the handler inside the room's lock, or None
    waiters,   \* handlers queued on the lock, first come first served
    pc,        \* where each handler is
    job,       \* the call it serves, or None
    copy,      \* the ConversationState it works on, or None
    shown,     \* what a close request had recommendations made from, or None
    answered   \* history: the responses given for each message of the open session

vars == <<store, opened, holder, waiters, pc, job, copy, shown, answered>>

lockVars == <<holder, waiters>>

Points == {"idle", "confirm", "open", "waiting", "load", "model", "delete", "save", "saved",
           "recommend"}

TypeOK ==
    /\ store \in Session \cup {None}
    /\ opened \in Nat
    /\ holder \in Requests \cup {None}
    /\ waiters \in Seq(Requests)
    /\ pc \in [Requests -> Points]
    /\ job \in [Requests -> Job \cup {None}]
    /\ copy \in [Requests -> Session \cup {None}]
    /\ shown \in [Requests -> Payload \cup {None}]
    /\ answered \in [Messages -> SUBSET Response]

-----------------------------------------------------------------------------
(* The session record and what the handlers do to it.                        *)
(*                                                                           *)
(* A definition named X_something, just above X, is X with a mistake in it:  *)
(* put in its place, it shows what a property catches.  Nothing uses it.     *)

Larger(a, b) == IF a >= b THEN a ELSE b
Smaller(a, b) == IF a <= b THEN a ELSE b

TurnCount(s) == Len(s.turns)

\* The percentage not scaled by the sum of the weights, 85.
Coverage_Unscaled(level) == IF level = "sufficient" THEN 118 ELSE 0

\* The weighted percentage of recommendation_readiness, by profile level.
Coverage(level) ==
    CASE level = "empty" -> 0
      [] level = "thin" -> 20
      [] level = "some" -> 60
      [] level = "sufficient" -> 100

Progress(s) ==
    IF s.status = "active" THEN Larger(Coverage(s.level), s.progress_floor) ELSE 100

Expired(s) == s.idle >= IdleTtl \/ s.age >= MaxLifetime

Older(s) ==
    IF s = None THEN None
    ELSE [s EXCEPT !.idle = Smaller(@ + 1, IdleTtl), !.age = Smaller(@ + 1, MaxLifetime)]

\* load: an expired record counts as absent.
Loaded == IF store = None THEN None ELSE IF Expired(store) THEN None ELSE store

Found(r) == Loaded # None /\ Loaded.user = job[r].user

Sendable_InReview(s) == s.status \in {"active", "review"}

Sendable(s) == s.status = "active"

Closable(s) ==
    /\ s.status # "closed"
    /\ s.analysis_turn_count # None
    /\ s.analysis_turn_count = TurnCount(s)

TooSparse(s) ==
    IF TurnCount(s) < MaxTurns THEN s.level = "empty" ELSE s.level \in {"empty", "thin"}

NewSession(u) ==
    [ gen |-> opened + 1, user |-> u, status |-> "active", turns |-> <<>>,
      last_user_message_id |-> None, level |-> "empty", progress_floor |-> 0,
      pending_wrap |-> None, completion_reason |-> None, analysis_turn_count |-> None,
      keywords |-> {}, patch_used |-> FALSE, idle |-> 0, age |-> 0 ]

WrapReason_LateLimit(s, tired) ==
    IF s.pending_wrap # None THEN s.pending_wrap
    ELSE IF TurnCount(s) >= MaxTurns THEN "max_cycles"
    ELSE IF tired THEN "user_exit"
    ELSE IF s.level = "sufficient" THEN "sufficient"
    ELSE None

\* decide_goal before the reply: the reason the coming turn must wrap up, or
\* None.  tired stands for what the utterance says: a wish to stop, or the
\* last of a run of listless answers.
WrapReason(s, tired) ==
    IF s.pending_wrap # None THEN s.pending_wrap
    ELSE IF TurnCount(s) + 1 >= MaxTurns THEN "max_cycles"
    ELSE IF tired THEN "user_exit"
    ELSE IF s.level = "sufficient" THEN "sufficient"
    ELSE None

NextWrap_IgnoresReadiness(s, tired) == IF tired THEN "user_exit" ELSE None

\* decide_goal after a turn that did not wrap: the reason to wrap the next one.
NextWrap(s, tired) ==
    IF TurnCount(s) >= MaxTurns THEN "max_cycles"
    ELSE IF tired THEN "user_exit"
    ELSE IF s.level = "sufficient" THEN "sufficient"
    ELSE None

\* complete_turn: the turn is recorded with the merged profile; a wrap-up turn
\* locks the input, another may book the wrap-up of the next.
TurnDone(s, m, wrap, level, tired) ==
    LET turn == [s EXCEPT !.turns = Append(@, m), !.idle = 0, !.level = level]
        done == IF wrap # None
                THEN [turn EXCEPT !.status = "input_locked", !.completion_reason = wrap,
                                  !.pending_wrap = None]
                ELSE [turn EXCEPT !.pending_wrap = NextWrap(turn, tired)]
    IN  [done EXCEPT !.progress_floor = Progress(done)]

Reviewed(s) == [s EXCEPT !.status = "review"]

Analyzed(s, keys) ==
    Reviewed([s EXCEPT !.analysis_turn_count = TurnCount(s), !.keywords = keys,
                       !.patch_used = FALSE])

Patched(s, keys) == Reviewed([s EXCEPT !.keywords = keys, !.patch_used = TRUE])

Closed(s) ==
    [s EXCEPT !.status = "closed",
              !.completion_reason =
                  IF @ # None THEN @
                  ELSE IF s.level = "sufficient" THEN "sufficient" ELSE "user_exit"]

\* The summary, which the payload carries too, changes with the analysis only.
PayloadOf(s) ==
    [gen |-> s.gen, turns |-> TurnCount(s), level |-> s.level, idle |-> s.idle, age |-> s.age]

\* The response to a stream whose turn is the last one of s.
ResponseOf(s) ==
    [ turn |-> TurnCount(s), reply |-> s.turns[TurnCount(s)],
      input_locked |-> s.status = "input_locked" ]

-----------------------------------------------------------------------------
(* The room's asyncio.Lock.  It may be free while the queued handler that was *)
(* woken has not run yet; a newcomer then queues behind it.                   *)

GoTo(r, point) == pc' = [pc EXCEPT ![r] = point]

Enter_Unlocked(r) == holder' = r /\ waiters' = waiters /\ GoTo(r, "load")

Enter(r) ==
    IF holder = None /\ waiters = <<>>
    THEN holder' = r /\ waiters' = waiters /\ GoTo(r, "load")
    ELSE holder' = holder /\ waiters' = Append(waiters, r) /\ GoTo(r, "waiting")

Leave_KeepsLock(r) ==
    /\ GoTo(r, "idle")
    /\ job' = [job EXCEPT ![r] = None]
    /\ copy' = [copy EXCEPT ![r] = None]
    /\ shown' = [shown EXCEPT ![r] = None]
    /\ UNCHANGED lockVars

\* The handler returns or raises, leaving "async with lock" if it is inside.
Leave(r) ==
    /\ GoTo(r, "idle")
    /\ holder' = IF holder = r THEN None ELSE holder
    /\ waiters' = IF \E i \in 1 .. Len(waiters) : waiters[i] = r
                  THEN RemoveAt(waiters, CHOOSE i \in 1 .. Len(waiters) : waiters[i] = r)
                  ELSE waiters
    /\ job' = [job EXCEPT ![r] = None]
    /\ copy' = [copy EXCEPT ![r] = None]
    /\ shown' = [shown EXCEPT ![r] = None]

Wake(r) ==
    /\ pc[r] = "waiting"
    /\ holder = None
    /\ waiters # <<>>
    /\ r = Head(waiters)
    /\ holder' = r
    /\ waiters' = Tail(waiters)
    /\ GoTo(r, "load")
    /\ UNCHANGED <<store, opened, job, copy, shown, answered>>

-----------------------------------------------------------------------------
(* Arrival of a call. *)

Arrive(r, c, u, m) ==
    /\ pc[r] = "idle"
    /\ c \in Calls
    /\ job' = [job EXCEPT ![r] = [call |-> c, user |-> u, message |-> m]]
    /\ UNCHANGED <<store, opened, copy, shown, answered>>

\* Calls that queue on the lock.
QueuedCall(r, c, u) ==
    /\ c \in {"create", "analyze", "patch", "close"}
    /\ c = "create" => opened < MaxSessions
    /\ Arrive(r, c, u, None)
    /\ Enter(r)

\* A message is refused with TURN_IN_PROGRESS while the lock is held, which
\* changes nothing.
SendCall(r, u) ==
    /\ holder = None
    /\ Arrive(r, "send", u, None)
    /\ Enter(r)

\* A stream first asks find_confirmed_turn, outside the lock.
StreamCall(r, u, m) ==
    /\ holder = None
    /\ Arrive(r, "stream", u, m)
    /\ GoTo(r, "confirm")
    /\ UNCHANGED lockVars

-----------------------------------------------------------------------------
(* Steps of the handlers. *)

Refuse(r) == Leave(r) /\ UNCHANGED answered

WorkOn(r, s, point) ==
    /\ copy' = [copy EXCEPT ![r] = s]
    /\ GoTo(r, point)
    /\ UNCHANGED <<lockVars, job, shown, answered>>

\* ConversationStateStore.save up to the SET: a session past its lifetime is refused.
StartSave(r, s) == IF Expired(s) THEN Refuse(r) ELSE WorkOn(r, s, "save")

Confirmed_AnyMessage(r) == Found(r) /\ Loaded.last_user_message_id # None

\* Is this message the one the last turn was confirmed for?
Confirmed(r) == Found(r) /\ Loaded.last_user_message_id = job[r].message

AnswerConfirmed(r) ==
    /\ answered' = [answered EXCEPT ![job[r].message] = @ \cup {ResponseOf(Loaded)}]
    /\ Leave(r)

\* find_confirmed_turn's GET returns.
ConfirmTurn(r) ==
    /\ pc[r] = "confirm"
    /\ IF Confirmed(r) THEN AnswerConfirmed(r)
       ELSE IF Found(r) /\ Sendable(Loaded)
       THEN GoTo(r, "open") /\ UNCHANGED <<lockVars, job, copy, shown, answered>>
       ELSE Refuse(r)
    /\ UNCHANGED <<store, opened>>

\* stream_message starts: refused if the lock is held by now.
OpenStream(r) ==
    /\ pc[r] = "open"
    /\ IF holder = None THEN Enter(r) /\ UNCHANGED <<job, copy, shown, answered>> ELSE Refuse(r)
    /\ UNCHANGED <<store, opened>>

\* Inside the lock the GET returns; the handler runs up to its next await.
Load(r, c) == pc[r] = "load" /\ job[r].call = c /\ UNCHANGED <<store, opened>>

LoadToCreate(r) ==
    /\ Load(r, "create")
    /\ IF Loaded # None THEN Refuse(r) ELSE WorkOn(r, NewSession(job[r].user), "model")

LoadToSend(r) ==
    /\ Load(r, "send")
    /\ IF Found(r) /\ Sendable(Loaded) THEN WorkOn(r, Loaded, "model") ELSE Refuse(r)

LoadToStream_NoRecheck(r) ==
    /\ Load(r, "stream")
    /\ IF Found(r) /\ Sendable(Loaded) THEN WorkOn(r, Loaded, "model") ELSE Refuse(r)

\* The same message may have been confirmed while this handler queued.
LoadToStream(r) ==
    /\ Load(r, "stream")
    /\ IF Confirmed(r) THEN AnswerConfirmed(r)
       ELSE IF Found(r) /\ Sendable(Loaded) THEN WorkOn(r, Loaded, "model")
       ELSE Refuse(r)

LoadToAnalyze_Afresh(r) ==
    /\ Load(r, "analyze")
    /\ IF Loaded = None THEN Refuse(r)
       ELSE IF Loaded.status = "closed" THEN Refuse(r)
       ELSE WorkOn(r, Loaded, IF TooSparse(Loaded) THEN "delete" ELSE "model")

LoadToAnalyze(r) ==
    /\ Load(r, "analyze")
    /\ IF Loaded = None THEN Refuse(r)
       ELSE IF Loaded.status = "closed" THEN Refuse(r)
       ELSE IF TooSparse(Loaded) THEN WorkOn(r, Loaded, "delete")
       ELSE IF Loaded.analysis_turn_count = TurnCount(Loaded) THEN StartSave(r, Reviewed(Loaded))
       ELSE WorkOn(r, Loaded, "model")

\* Keywords can only be deleted, and only once.
LoadToPatch(r) ==
    /\ Load(r, "patch")
    /\ IF Found(r) /\ Closable(Loaded) /\ ~Loaded.patch_used
       THEN \E keys \in SUBSET Loaded.keywords : StartSave(r, Patched(Loaded, keys))
       ELSE Refuse(r)

\* get_close_analysis: read, leave the lock, ask for recommendations.
LoadToRecommend(r) ==
    /\ Load(r, "close")
    /\ shown[r] = None
    /\ IF Found(r) /\ Closable(Loaded)
       THEN /\ shown' = [shown EXCEPT ![r] = PayloadOf(Loaded)]
            /\ holder' = None
            /\ GoTo(r, "recommend")
            /\ UNCHANGED <<waiters, job, copy, answered>>
       ELSE Refuse(r)

\* close_session, once the recommendations are in.
LoadToClose(r) ==
    /\ Load(r, "close")
    /\ shown[r] # None
    /\ IF Found(r) /\ Closable(Loaded) THEN StartSave(r, Closed(Loaded)) ELSE Refuse(r)

Recommended(r) ==
    /\ pc[r] = "recommend"
    /\ Enter(r)
    /\ UNCHANGED <<store, opened, job, copy, shown, answered>>

\* The reply or the recommendation failed or timed out: nothing is saved.  An
\* analysis does not fail, it falls back to stored values.
ModelFails(r) ==
    /\ \/ pc[r] = "recommend"
       \/ pc[r] = "model" /\ job[r].call \in {"create", "send", "stream"}
    /\ Refuse(r)
    /\ UNCHANGED <<store, opened>>

\* The session store raises: the handler fails with what has reached the store so far.
StoreFails(r) ==
    /\ pc[r] \in {"confirm", "load", "delete", "save", "saved"}
    /\ Refuse(r)
    /\ UNCHANGED <<store, opened>>

\* record_opening
Greet(r) ==
    /\ pc[r] = "model" /\ job[r].call = "create"
    /\ StartSave(r, [copy[r] EXCEPT !.idle = 0])
    /\ UNCHANGED <<store, opened>>

\* The reply and the extraction are in.  Only a stream leaves its message id.
CompleteTurn(r, tired, level, tired_after) ==
    /\ pc[r] = "model" /\ job[r].call \in {"send", "stream"}
    /\ LET wrap == WrapReason(copy[r], tired)
           done == TurnDone(copy[r], job[r].message, wrap, level, tired_after)
       IN  StartSave(r, IF job[r].call = "send" THEN done
                        ELSE [done EXCEPT !.last_user_message_id = job[r].message])
    /\ UNCHANGED <<store, opened>>

\* Summary and keywords are in.
FinishAnalysis(r, keys) ==
    /\ pc[r] = "model" /\ job[r].call = "analyze"
    /\ StartSave(r, Analyzed(copy[r], keys))
    /\ UNCHANGED <<store, opened>>

\* A profile too sparse to analyse: the session is deleted and the call fails.
DeleteSession(r) ==
    /\ pc[r] = "delete"
    /\ store' = None
    /\ Refuse(r)
    /\ UNCHANGED opened

\* The SET takes effect.
Save(r) ==
    /\ pc[r] = "save"
    /\ store' = copy[r]
    /\ opened' = copy[r].gen
    /\ answered' = IF job[r].call = "create" THEN [m \in Messages |-> {}] ELSE answered
    /\ GoTo(r, "saved")
    /\ UNCHANGED <<lockVars, job, copy, shown>>

\* The SET is acknowledged: the handler answers its client.
Answer(r) ==
    /\ pc[r] = "saved"
    /\ answered' = IF job[r].call = "stream"
                   THEN [answered EXCEPT ![job[r].message] = @ \cup {ResponseOf(copy[r])}]
                   ELSE answered
    /\ Leave(r)
    /\ UNCHANGED <<store, opened>>

-----------------------------------------------------------------------------
(* The environment. *)

\* The client of a stream goes away and its handler is cancelled at the await
\* where it stands; at "saved" that is the acknowledgement of the SET.
Disconnect(r) ==
    /\ pc[r] # "idle"
    /\ job[r].call = "stream"
    /\ Refuse(r)
    /\ UNCHANGED <<store, opened>>

\* The process stops and starts again: handlers and lock are gone, the store stays.
Crash ==
    /\ \E r \in Requests : pc[r] # "idle"
    /\ holder' = None /\ waiters' = <<>>
    /\ pc' = [r \in Requests |-> "idle"]
    /\ job' = [r \in Requests |-> None]
    /\ copy' = [r \in Requests |-> None]
    /\ shown' = [r \in Requests |-> None]
    /\ UNCHANGED <<store, opened, answered>>

Tick ==
    /\ store' = Older(store)
    /\ copy' = [r \in Requests |-> Older(copy[r])]
    /\ shown' = [r \in Requests |-> Older(shown[r])]
    /\ UNCHANGED <<opened, lockVars, pc, job, answered>>

-----------------------------------------------------------------------------

Init ==
    /\ store = None
    /\ opened = 0
    /\ holder = None
    /\ waiters = <<>>
    /\ pc = [r \in Requests |-> "idle"]
    /\ job = [r \in Requests |-> None]
    /\ copy = [r \in Requests |-> None]
    /\ shown = [r \in Requests |-> None]
    /\ answered = [m \in Messages |-> {}]

\* The steps a handler takes by itself.
Step(r) ==
    \/ Wake(r) \/ ConfirmTurn(r) \/ OpenStream(r)
    \/ LoadToCreate(r) \/ LoadToSend(r) \/ LoadToStream(r) \/ LoadToAnalyze(r)
    \/ LoadToPatch(r) \/ LoadToRecommend(r) \/ LoadToClose(r)
    \/ Recommended(r) \/ ModelFails(r) \/ StoreFails(r) \/ Greet(r)
    \/ \E tired, tired_after \in BOOLEAN, level \in Outcomes :
          CompleteTurn(r, tired, level, tired_after)
    \/ \E keys \in SUBSET Keywords : FinishAnalysis(r, keys)
    \/ DeleteSession(r) \/ Save(r) \/ Answer(r)

Client(r) ==
    \/ \E u \in Users : SendCall(r, u) \/ \E c \in Calls : QueuedCall(r, c, u)
    \/ \E u \in Users, m \in Messages : StreamCall(r, u, m)
    \/ Disconnect(r)

Next == (\E r \in Requests : Step(r) \/ Client(r)) \/ Crash \/ Tick

\* Every await a handler makes ends, by an answer or by a timeout, and the
\* event loop runs every handler that can run.  Clients owe nothing.
Fairness == \A r \in Requests : WF_vars(Step(r))

Spec == Init /\ [][Next]_vars
FairSpec == Spec /\ Fairness

-----------------------------------------------------------------------------
(* Properties. *)

\* MAX_TURNS is a limit, and the turn that reaches it locks the input: no
\* session is left open for a turn it may not take.
TurnsBounded ==
    store # None =>
        /\ TurnCount(store) <= MaxTurns
        /\ store.status = "active" => TurnCount(store) < MaxTurns

\* An analysis, once made, covers every turn of the session: no turn slips in
\* between the analysis and the close, so ANALYSIS_OUTDATED is never raised.
AnalysisFresh ==
    store # None =>
        IF store.status \in {"review", "closed"}
        THEN store.analysis_turn_count = TurnCount(store)
        ELSE store.analysis_turn_count = None

\* "When the progress reaches 100% the conversation ends": a session that shows
\* 100 and still takes input has its wrap-up booked, even if a later
\* correction took signals back.
FullProgressEnds ==
    (store # None /\ store.status = "active" /\ Progress(store) = 100)
        => store.pending_wrap # None

\* What a handler read before it awaited the model is still what the store
\* holds when the model answers: its save undoes nobody's work.
CopyIsCurrent ==
    \A r \in Requests : (pc[r] = "model" /\ job[r].call # "create") => copy[r] = store

\* A turn that was answered is in the record from then on, at its place,
\* through retries, disconnects, crashes and other calls.
AnswersKept ==
    store # None =>
        \A m \in Messages : \A a \in answered[m] :
            a.turn <= TurnCount(store) /\ store.turns[a.turn] = a.reply

\* The message of the last confirmed turn is never generated a second time,
\* however often and however concurrently it is sent.
NoRepeatedTurn ==
    store # None =>
        \A i \in 1 .. TurnCount(store) - 1 :
            store.turns[i] = store.turns[i + 1] => store.turns[i] = None

\* A stream is answered with the reply to its own message, also when the turn
\* was confirmed before and the answer is made from the record.
RetryGetsItsReply == \A m \in Messages : \A a \in answered[m] : a.reply = m

\* The recommendations a close returns were made from the session it closes, as
\* it still is, though the lock is free while they are made.  The one exception:
\* the session they were made from has expired since, and a newer one, opened
\* and analysed in the room meanwhile, is the one that is closed.
CloseMatchesRecommendation ==
    \A r \in Requests :
        (pc[r] \in {"save", "saved"} /\ job[r].call = "close") =>
            \/ shown[r] = PayloadOf(copy[r])
            \/ Expired(shown[r]) /\ shown[r].gen < copy[r].gen

\* Every call is answered: a handler that waits for the lock gets it, whatever
\* became of the handlers before it.
CallsEnd == \A r \in Requests : pc[r] # "idle" ~> pc[r] = "idle"

\* What the record shows of a session.
View(s) ==
    IF s = None THEN None
    ELSE [ gen |-> s.gen, status |-> s.status, turns |-> TurnCount(s),
           keywords |-> s.keywords, patched |-> s.patch_used ]

Lifecycle ==
    INSTANCE SessionLifecycle
        WITH session <- View(store), expired <- (store # None /\ Expired(store))

\* The record keeps the promise of SessionLifecycle.
KeepsLifecycle == Lifecycle!Spec

-----------------------------------------------------------------------------
(* The inductive invariant of ChatSessionProofs: what is true of every        *)
(* session, stored or being worked on, and of every handler.                  *)

SoundSession(s) ==
    /\ TurnCount(s) <= MaxTurns
    /\ s.status = "active" => TurnCount(s) < MaxTurns
    /\ IF s.status \in {"review", "closed"}
       THEN s.analysis_turn_count = TurnCount(s)
       ELSE s.analysis_turn_count = None
    /\ (s.status = "active" /\ Progress(s) = 100) => s.pending_wrap # None
    /\ s.last_user_message_id # None => TurnCount(s) > 0

Inside == {"load", "model", "delete", "save", "saved"}

SoundHandler(r) ==
    /\ pc[r] \in Inside => holder = r
    /\ pc[r] # "idle" => job[r] # None
    /\ pc[r] = "confirm" => job[r].call = "stream"
    /\ (job[r] # None /\ job[r].call = "stream") => job[r].message # None
    /\ pc[r] \in {"model", "save", "saved"} => copy[r] # None
    /\ (pc[r] = "model" /\ job[r].call \in {"send", "stream"}) => copy[r].status = "active"
    /\ (pc[r] \in {"save", "saved"} /\ job[r].call = "stream") => TurnCount(copy[r]) > 0

IInv ==
    /\ TypeOK
    /\ store # None => SoundSession(store)
    /\ \A r \in Requests : SoundHandler(r) /\ (copy[r] # None => SoundSession(copy[r]))
    /\ CopyIsCurrent

-----------------------------------------------------------------------------
(* The inductive invariant of ChatSessionProofs, which stands on IInv: what   *)
(* the turns and the status of a session say of its past, and what the        *)
(* session a handler has in hand is to the one in the store.                  *)

Collecting == {"active", "input_locked"}

\* Where only streams answer, the message id of the session is the last turn's.
OneAnswerPath == "send" \notin Calls

History(s) ==
    LET n == TurnCount(s)
    IN  /\ s.status \in Collecting => ~s.patch_used
        /\ s.status \notin Collecting => ~TooSparse(s)
        /\ n = 0 => s.level = "empty"
        /\ n > 0 /\ s.turns[n] # None => s.last_user_message_id = s.turns[n]
        /\ OneAnswerPath /\ s.last_user_message_id # None => s.turns[n] = s.last_user_message_id
        /\ \A i \in 1 .. n - 1 : s.turns[i] = s.turns[i + 1] => s.turns[i] = None

Fresh(s) ==
    s.gen = opened + 1 /\ s.status = "active" /\ s.turns = <<>> /\ s.keywords = {} /\ ~s.patch_used

\* t is s with one more turn, the answer to the message m.
TookTurn(s, t, m) ==
    /\ s.status = "active" /\ t.status \in Collecting
    /\ t.turns = Append(s.turns, m)
    /\ t.keywords = s.keywords /\ t.patch_used = s.patch_used
    /\ t.idle <= s.idle

\* t is s after an analysis, a correction of it, a close; or the same again.
SameTurns(s, t) == t.turns = s.turns /\ t.level = s.level /\ t.idle = s.idle

GotAnalysis(s, t) ==
    s.status \in Collecting /\ TurnCount(s) > 0 /\ t.status = "review" /\ ~t.patch_used

GotCorrection(s, t) ==
    /\ s.status = "review" /\ ~s.patch_used
    /\ t.status = "review" /\ t.patch_used /\ t.keywords \subseteq s.keywords

GotClosed(s, t) ==
    /\ s.status = "review" /\ t.status = "closed"
    /\ t.keywords = s.keywords /\ t.patch_used = s.patch_used

LooksTheSame(s, t) ==
    /\ s.status = "review" /\ t.status = s.status
    /\ t.keywords = s.keywords /\ t.patch_used = s.patch_used

\* What the call j makes of the stored session s is t.
Edited(j, s, t) ==
    /\ t.gen = s.gen /\ t.age = s.age
    /\ \/ j.call \in {"send", "stream"} /\ TookTurn(s, t, j.message)
       \/ /\ SameTurns(s, t)
          /\ \/ j.call = "analyze" /\ (GotAnalysis(s, t) \/ LooksTheSame(s, t))
             \/ j.call = "patch" /\ GotCorrection(s, t)
             \/ j.call = "close" /\ GotClosed(s, t)

\* What a close has shown is of an old session, or of the stored one as it still
\* is; and a session that was shown stays the stored one until it expires.
ShownStands(p) ==
    /\ p.gen <= opened
    /\ ~Expired(p) => store # None /\ store.gen = p.gen
    /\ (store # None /\ store.gen = p.gen) => store.status \notin Collecting /\ p = PayloadOf(store)

InHand(r) ==
    LET call == job[r].call
    IN  /\ job[r] # None => call \in Calls /\ (call # "stream" => job[r].message = None)
        /\ pc[r] \in {"delete", "saved"} => copy[r] = store
        /\ pc[r] = "delete" => store # None /\ store.status \in Collecting
        /\ pc[r] = "model" /\ call = "stream" => copy[r].last_user_message_id # job[r].message
        /\ pc[r] = "model" /\ call = "analyze" =>
              copy[r].status \in Collecting /\ ~TooSparse(copy[r])
        /\ pc[r] \in {"model", "save"} /\ call = "create" =>
              Fresh(copy[r]) /\ (store # None => Expired(store))
        /\ pc[r] = "save" /\ call # "create" => store # None /\ Edited(job[r], store, copy[r])
        /\ pc[r] \in {"save", "saved"} /\ call = "stream" =>
              copy[r].turns[TurnCount(copy[r])] = job[r].message
        /\ pc[r] \in {"save", "saved"} /\ call = "close" => shown[r] # None
        /\ shown[r] # None => ShownStands(shown[r])

AnswersStand ==
    /\ store # None =>
          \A m \in Messages : \A a \in answered[m] :
              a.turn \in 1 .. TurnCount(store) /\ store.turns[a.turn] = a.reply
    /\ OneAnswerPath => RetryGetsItsReply

HInv ==
    /\ IInv
    /\ store # None => store.gen = opened /\ History(store)
    /\ \A r \in Requests : InHand(r) /\ (copy[r] # None => History(copy[r]))
    /\ AnswersStand

===============================================================================
