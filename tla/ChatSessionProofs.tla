--------------------------- MODULE ChatSessionProofs ---------------------------
(***************************************************************************)
(* The safety of the room, for any number of handlers, users and messages,  *)
(* any turn limit and any lifetimes.  The invariant IInv of ChatSession is  *)
(* inductive: each action of a handler touches one handler and one copy of  *)
(* the session, and what the copy becomes is the subject of the lemmas on   *)
(* the session record.                                                      *)
(*                                                                         *)
(* The second part is what the room does with the past of a session: answers *)
(* stay, no turn is answered twice, a close shows the session it closes, and *)
(* the record keeps the promise of SessionLifecycle.  HInv says what a       *)
(* session remembers of its turns and how the copy a handler works on        *)
(* differs from the record; it is inductive given IInv.                      *)
(***************************************************************************)
EXTENDS ChatSession, SequenceTheorems, TLAPS

-----------------------------------------------------------------------------
(* The session record. *)

\* Readiness percentages are percentages, and only full readiness is 100.
LEMMA CoverageBounds ==
    ASSUME NEW level \in Levels
    PROVE  /\ Coverage(level) \in 0 .. 100
           /\ Coverage(level) = 100 <=> level = "sufficient"
BY DEF Coverage, Levels

\* The profile and the flow of a session do not change while it ages.
LEMMA OlderSession ==
    ASSUME NEW s \in Session
    PROVE  /\ Older(s) \in Session
           /\ Older(s) # None
           /\ Older(s).turns = s.turns /\ Older(s).status = s.status
           /\ SoundSession(s) => SoundSession(Older(s))
<1>1. s # None
  BY ChatConstants
<1>2. IdleTtl \in Nat /\ MaxLifetime \in Nat
  BY ChatConstants
<1>3. /\ Smaller(s.idle + 1, IdleTtl) \in 0 .. IdleTtl
      /\ Smaller(s.age + 1, MaxLifetime) \in 0 .. MaxLifetime
  BY <1>2 DEF Smaller, Session
<1>4. Older(s) = [s EXCEPT !.idle = Smaller(s.idle + 1, IdleTtl),
                           !.age = Smaller(s.age + 1, MaxLifetime)]
  BY <1>1 DEF Older, Session
<1>5. Older(s) \in Session
  BY <1>3, <1>4 DEF Session
<1>6. Older(s) # None
  BY <1>5, ChatConstants
<1>7. /\ Older(s).turns = s.turns /\ Older(s).status = s.status
      /\ Older(s).level = s.level /\ Older(s).progress_floor = s.progress_floor
      /\ Older(s).pending_wrap = s.pending_wrap
      /\ Older(s).analysis_turn_count = s.analysis_turn_count
      /\ Older(s).last_user_message_id = s.last_user_message_id
  BY <1>4 DEF Session
<1>8. SoundSession(s) => SoundSession(Older(s))
  BY <1>7 DEF SoundSession, TurnCount, Progress
<1> QED
  BY <1>5, <1>6, <1>7, <1>8

\* A session opens sound.
LEMMA NewSessionSound ==
    ASSUME NEW u \in Users, opened \in Nat
    PROVE  /\ NewSession(u) \in Session
           /\ NewSession(u) # None
           /\ SoundSession(NewSession(u))
<1>1. /\ MaxTurns \in Nat \ {0} /\ IdleTtl \in Nat /\ MaxLifetime \in Nat
  BY ChatConstants
<1>2. /\ "empty" \in Levels /\ Coverage("empty") \in 0 .. 100 /\ Coverage("empty") # 100
  BY CoverageBounds DEF Levels
<1>3. <<>> \in Seq(Messages \cup {None}) /\ Len(<<>>) = 0
  BY EmptySeq
<1>4. NewSession(u) \in Session
  BY <1>1, <1>2, <1>3 DEF NewSession, Session, Statuses
<1>5. NewSession(u) # None
  BY <1>4, ChatConstants
<1>6. SoundSession(NewSession(u))
  BY <1>1, <1>2, <1>3 DEF SoundSession, NewSession, TurnCount, Progress, Larger
<1> QED
  BY <1>4, <1>5, <1>6

\* The wrap-up decisions are reasons; the last turn and a ready profile wrap up.
LEMMA WrapReasonType ==
    ASSUME NEW s \in Session, NEW tired \in BOOLEAN
    PROVE  /\ WrapReason(s, tired) \in Reasons \cup {None}
           /\ NextWrap(s, tired) \in Reasons \cup {None}
           /\ WrapReason(s, tired) = None =>
                 s.pending_wrap = None /\ ~(TurnCount(s) + 1 >= MaxTurns)
           /\ s.level = "sufficient" => NextWrap(s, tired) # None
<1>1. s.pending_wrap \in Reasons \cup {None}
  BY DEF Session
<1>2. None \notin Reasons
  BY ChatConstants
<1> QED
  BY <1>1, <1>2 DEF WrapReason, NextWrap, Reasons

\* complete_turn keeps a session sound: it adds one turn, and leaves the input
\* open only when another turn may follow.
LEMMA TurnDoneSound ==
    ASSUME NEW s \in Session, SoundSession(s), s.status = "active",
           NEW m \in Messages \cup {None}, NEW tired \in BOOLEAN, NEW after \in BOOLEAN,
           NEW level \in Levels
    PROVE  LET t == TurnDone(s, m, WrapReason(s, tired), level, after)
           IN  /\ t \in Session
               /\ TurnCount(t) = TurnCount(s) + 1
               /\ SoundSession(t)
<1> DEFINE wrap == WrapReason(s, tired)
           turns == Append(s.turns, m)
           turn == [s EXCEPT !.turns = turns, !.idle = 0, !.level = level]
           done == IF wrap # None
                   THEN [turn EXCEPT !.status = "input_locked", !.completion_reason = wrap,
                                     !.pending_wrap = None]
                   ELSE [turn EXCEPT !.pending_wrap = NextWrap(turn, after)]
           t == [done EXCEPT !.progress_floor = Progress(done)]
<1>1. /\ MaxTurns \in Nat \ {0} /\ IdleTtl \in Nat
      /\ None \notin Reasons /\ None \notin Nat
  BY ChatConstants
<1>2. /\ turns \in Seq(Messages \cup {None}) /\ Len(turns) = Len(s.turns) + 1
      /\ Len(s.turns) \in Nat
  BY DEF Session
<1>3. /\ turn \in Session
      /\ turn.turns = turns /\ turn.level = level /\ turn.status = "active"
      /\ turn.progress_floor = s.progress_floor
      /\ turn.analysis_turn_count = s.analysis_turn_count
      /\ turn.last_user_message_id = s.last_user_message_id
  <2> DEFINE told == [s EXCEPT !.turns = turns]
             awake == [told EXCEPT !.idle = 0]
  <2>1. told \in Session /\ told.turns = turns
    <3> HIDE DEF turns
    <3> QED  BY <1>2 DEF Session
  <2>2. /\ told.status = s.status /\ told.progress_floor = s.progress_floor
        /\ told.analysis_turn_count = s.analysis_turn_count
        /\ told.last_user_message_id = s.last_user_message_id
    <3> HIDE DEF turns
    <3> QED  BY DEF Session
  <2>3. awake \in Session /\ awake.turns = turns
    <3>1. awake = [told EXCEPT !.idle = 0]
      OBVIOUS
    <3>2. 0 \in 0 .. IdleTtl
      BY <1>1
    <3> HIDE DEF told, awake, turns
    <3> QED  BY <2>1, <3>1, <3>2 DEF Session
  <2>4. /\ awake.status = s.status /\ awake.progress_floor = s.progress_floor
        /\ awake.analysis_turn_count = s.analysis_turn_count
        /\ awake.last_user_message_id = s.last_user_message_id
    <3> HIDE DEF told
    <3> QED  BY <2>1, <2>2 DEF Session
  <2>5. turn = [awake EXCEPT !.level = level]
    OBVIOUS
  <2> HIDE DEF awake, turn
  <2> QED
    BY <2>3, <2>4, <2>5 DEF Session
<1>4. /\ wrap \in Reasons \cup {None}
      /\ NextWrap(turn, after) \in Reasons \cup {None}
      /\ wrap = None => s.pending_wrap = None /\ ~(TurnCount(s) + 1 >= MaxTurns)
      /\ level = "sufficient" => NextWrap(turn, after) # None
  <2>1. /\ wrap \in Reasons \cup {None}
        /\ wrap = None => s.pending_wrap = None /\ ~(TurnCount(s) + 1 >= MaxTurns)
    BY WrapReasonType
  <2>2. /\ NextWrap(turn, after) \in Reasons \cup {None}
        /\ turn.level = "sufficient" => NextWrap(turn, after) # None
    BY <1>3, WrapReasonType
  <2> HIDE DEF turn, wrap
  <2> QED
    BY <1>3, <2>1, <2>2
<1>5. /\ done \in Session
      /\ done.turns = turns /\ done.level = level
      /\ done.progress_floor = s.progress_floor
      /\ done.analysis_turn_count = s.analysis_turn_count
      /\ done.last_user_message_id = s.last_user_message_id
      /\ wrap # None => done.status = "input_locked"
      /\ wrap = None => done.status = "active" /\ done.pending_wrap = NextWrap(turn, after)
  <2> HIDE DEF turn, wrap
  <2> QED
    BY <1>3, <1>4 DEF Session, Statuses
<1>6. /\ Coverage(level) \in 0 .. 100 /\ (Coverage(level) = 100 <=> level = "sufficient")
      /\ Coverage(s.level) \in 0 .. 100
      /\ s.progress_floor \in 0 .. 100
  BY CoverageBounds DEF Session
<1>7. /\ Progress(done) \in 0 .. 100
      /\ wrap # None => Progress(done) = 100
      /\ wrap = None => Progress(done) = Larger(Coverage(level), s.progress_floor)
  <2> HIDE DEF done
  <2> QED
    BY <1>5, <1>6 DEF Progress, Larger
<1>8. /\ t \in Session
      /\ t.turns = turns /\ t.level = level /\ t.status = done.status
      /\ t.progress_floor = Progress(done)
      /\ t.pending_wrap = done.pending_wrap
      /\ t.analysis_turn_count = s.analysis_turn_count
      /\ t.last_user_message_id = s.last_user_message_id
  <2> HIDE DEF done
  <2> QED
    BY <1>5, <1>7 DEF Session
<1>9. s.analysis_turn_count = None /\ TurnCount(s) < MaxTurns
  BY DEF SoundSession
<1>10. TurnCount(t) = TurnCount(s) + 1
  <2> HIDE DEF t
  <2> QED
    BY <1>2, <1>8 DEF TurnCount
<1>11. (t.status = "active" /\ Progress(t) = 100) => t.pending_wrap # None
  <2> SUFFICES ASSUME t.status = "active", Progress(t) = 100
               PROVE  t.pending_wrap # None
    OBVIOUS
  <2>1. wrap = None
    <3> HIDE DEF t, done
    <3> QED  BY <1>5, <1>8
  <2>2. Progress(t) = Larger(Coverage(level), Larger(Coverage(level), s.progress_floor))
    <3> HIDE DEF t, done
    <3> QED  BY <1>7, <1>8, <2>1 DEF Progress
  <2>3. level = "sufficient" \/ s.progress_floor = 100
    <3> HIDE DEF t, done
    <3> QED  BY <1>6, <2>2 DEF Larger
  <2>4. s.progress_floor # 100
    <3>1. s.progress_floor = 100 => Progress(s) = 100
      BY <1>6 DEF Progress, Larger
    <3> QED  BY <3>1, <1>4, <2>1 DEF SoundSession
  <2> HIDE DEF t, done, wrap, turn
  <2> QED
    BY <2>1, <2>3, <2>4, <1>4, <1>5, <1>8
<1>12. SoundSession(t)
  <2>1. t.status = "active" => TurnCount(s) + 1 < MaxTurns
    <3> HIDE DEF t, done, wrap
    <3> QED  BY <1>1, <1>2, <1>4, <1>5, <1>8 DEF TurnCount
  <2>2. t.status \in {"active", "input_locked"}
    <3> HIDE DEF t, done
    <3> QED  BY <1>5, <1>8
  <2> HIDE DEF t
  <2> QED
    BY <1>1, <1>2, <1>8, <1>9, <1>10, <1>11, <2>1, <2>2 DEF SoundSession, TurnCount
<1> QED
  BY <1>8, <1>10, <1>12 DEF TurnDone

\* A stream's turn also leaves its message id; an analysed, corrected or closed
\* session stays sound, its analysis covering every turn.
LEMMA MessageIdSound ==
    ASSUME NEW s \in Session, SoundSession(s), TurnCount(s) > 0, NEW m \in Messages
    PROVE  LET t == [s EXCEPT !.last_user_message_id = m]
           IN  t \in Session /\ SoundSession(t) /\ TurnCount(t) = TurnCount(s)
<1> DEFINE t == [s EXCEPT !.last_user_message_id = m]
<1>1. t \in Session
  BY DEF Session
<1>2. /\ t.turns = s.turns /\ t.status = s.status /\ t.level = s.level
      /\ t.progress_floor = s.progress_floor /\ t.pending_wrap = s.pending_wrap
      /\ t.analysis_turn_count = s.analysis_turn_count
  BY DEF Session
<1> HIDE DEF t
<1>3. SoundSession(t)
  BY <1>2 DEF SoundSession, TurnCount, Progress
<1> QED
  BY <1>1, <1>2, <1>3 DEF TurnCount, t

LEMMA GreetingSound ==
    ASSUME NEW s \in Session, SoundSession(s)
    PROVE  [s EXCEPT !.idle = 0] \in Session /\ SoundSession([s EXCEPT !.idle = 0])
<1> DEFINE t == [s EXCEPT !.idle = 0]
<1>0. 0 \in 0 .. IdleTtl
  BY ChatConstants
<1>1. t \in Session
  BY <1>0 DEF Session
<1>2. /\ t.turns = s.turns /\ t.status = s.status /\ t.level = s.level
      /\ t.progress_floor = s.progress_floor /\ t.pending_wrap = s.pending_wrap
      /\ t.analysis_turn_count = s.analysis_turn_count
      /\ t.last_user_message_id = s.last_user_message_id
  BY DEF Session
<1> HIDE DEF t
<1>3. SoundSession(t)
  BY <1>2 DEF SoundSession, TurnCount, Progress
<1> QED
  BY <1>1, <1>3 DEF t

LEMMA ReviewedSound ==
    ASSUME NEW s \in Session, TurnCount(s) <= MaxTurns, s.analysis_turn_count = TurnCount(s),
           s.last_user_message_id # None => TurnCount(s) > 0
    PROVE  Reviewed(s) \in Session /\ SoundSession(Reviewed(s))
<1> DEFINE t == Reviewed(s)
<1>1. t \in Session
  BY DEF Reviewed, Session, Statuses
<1>2. /\ t.turns = s.turns /\ t.status = "review"
      /\ t.analysis_turn_count = s.analysis_turn_count
      /\ t.last_user_message_id = s.last_user_message_id
  BY DEF Reviewed, Session
<1> HIDE DEF t
<1>3. SoundSession(t)
  BY <1>2 DEF SoundSession, TurnCount
<1> QED
  BY <1>1, <1>3 DEF t

LEMMA AnalyzedSound ==
    ASSUME NEW s \in Session, SoundSession(s), NEW keys \in SUBSET Keywords
    PROVE  Analyzed(s, keys) \in Session /\ SoundSession(Analyzed(s, keys))
<1> DEFINE a == [s EXCEPT !.analysis_turn_count = TurnCount(s)]
           b == [a EXCEPT !.keywords = keys]
           c == [b EXCEPT !.patch_used = FALSE]
<1>1. TurnCount(s) \in Nat
  BY DEF TurnCount, Session
<1>2. a \in Session /\ a.turns = s.turns /\ a.analysis_turn_count = TurnCount(s)
      /\ a.last_user_message_id = s.last_user_message_id
  <2> HIDE DEF b, c
  <2> QED  BY <1>1 DEF Session
<1>3. b = [a EXCEPT !.keywords = keys] /\ c = [b EXCEPT !.patch_used = FALSE]
  OBVIOUS
<1>4. Analyzed(s, keys) = Reviewed(c)
  BY DEF Analyzed
<1> HIDE DEF a, b, c
<1>5. b \in Session /\ b.turns = s.turns /\ b.analysis_turn_count = TurnCount(s)
      /\ b.last_user_message_id = s.last_user_message_id
  BY <1>2, <1>3 DEF Session
<1>6. c \in Session /\ c.turns = s.turns /\ c.analysis_turn_count = TurnCount(s)
      /\ c.last_user_message_id = s.last_user_message_id
  BY <1>3, <1>5 DEF Session
<1>7. /\ TurnCount(c) = TurnCount(s) /\ TurnCount(c) <= MaxTurns
      /\ c.last_user_message_id # None => TurnCount(c) > 0
  BY <1>6 DEF TurnCount, SoundSession
<1> QED
  BY <1>4, <1>6, <1>7, ReviewedSound

LEMMA PatchedSound ==
    ASSUME NEW s \in Session, SoundSession(s), Closable(s), NEW keys \in SUBSET s.keywords
    PROVE  Patched(s, keys) \in Session /\ SoundSession(Patched(s, keys))
<1> DEFINE a == [s EXCEPT !.keywords = keys]
           b == [a EXCEPT !.patch_used = TRUE]
<1>1. keys \in SUBSET Keywords
  BY DEF Session
<1>2. a \in Session /\ a.turns = s.turns /\ a.analysis_turn_count = s.analysis_turn_count
      /\ a.last_user_message_id = s.last_user_message_id
  <2> HIDE DEF b
  <2> QED  BY <1>1 DEF Session
<1>3. b = [a EXCEPT !.patch_used = TRUE] /\ Patched(s, keys) = Reviewed(b)
  BY DEF Patched
<1> HIDE DEF a, b
<1>4. b \in Session /\ b.turns = s.turns /\ b.analysis_turn_count = s.analysis_turn_count
      /\ b.last_user_message_id = s.last_user_message_id
  BY <1>2, <1>3 DEF Session
<1>5. /\ TurnCount(b) <= MaxTurns /\ b.analysis_turn_count = TurnCount(b)
      /\ b.last_user_message_id # None => TurnCount(b) > 0
  BY <1>4 DEF TurnCount, SoundSession, Closable
<1> QED
  BY <1>3, <1>4, <1>5, ReviewedSound

LEMMA ClosedSound ==
    ASSUME NEW s \in Session, SoundSession(s), Closable(s)
    PROVE  Closed(s) \in Session /\ SoundSession(Closed(s))
<1> DEFINE a == [s EXCEPT !.status = "closed"]
           reason == IF a.completion_reason # None THEN a.completion_reason
                     ELSE IF s.level = "sufficient" THEN "sufficient" ELSE "user_exit"
           b == [a EXCEPT !.completion_reason = reason]
<1>1. a \in Session /\ a.turns = s.turns /\ a.analysis_turn_count = s.analysis_turn_count
      /\ a.last_user_message_id = s.last_user_message_id /\ a.status = "closed"
      /\ a.completion_reason = s.completion_reason
  <2> HIDE DEF b, reason
  <2> QED  BY DEF Session, Statuses
<1>2. b = [a EXCEPT !.completion_reason = reason]
  OBVIOUS
<1>3. Closed(s) = b
  <2>1. Closed(s) = [a EXCEPT !.completion_reason =
                        IF a.completion_reason # None THEN a.completion_reason
                        ELSE IF s.level = "sufficient" THEN "sufficient" ELSE "user_exit"]
    BY DEF Closed
  <2> QED  BY <2>1
<1>4. reason \in Reasons \cup {None}
  <2> HIDE DEF a
  <2> QED  BY <1>1 DEF Session, Reasons
<1> HIDE DEF a, b, reason
<1>5. b \in Session /\ b.turns = s.turns /\ b.analysis_turn_count = s.analysis_turn_count
      /\ b.last_user_message_id = s.last_user_message_id /\ b.status = "closed"
  BY <1>1, <1>2, <1>4 DEF Session
<1>6. SoundSession(b)
  BY <1>5 DEF SoundSession, TurnCount, Closable
<1> QED
  BY <1>3, <1>5, <1>6

-----------------------------------------------------------------------------
(* The lock queue and the answers. *)

LEMMA RemoveAtType ==
    ASSUME NEW s \in Seq(Requests), NEW i \in 1 .. Len(s)
    PROVE  RemoveAt(s, i) \in Seq(Requests)
<1>1. Len(s) \in Nat
  BY LenProperties
<1>2. SubSeq(s, 1, i - 1) \in Seq(Requests)
  BY <1>1, SubSeqProperties
<1>3. SubSeq(s, i + 1, Len(s)) \in Seq(Requests)
  BY <1>1, SubSeqProperties
<1> QED
  BY <1>2, <1>3, ConcatProperties DEF RemoveAt

LEMMA ResponseType ==
    ASSUME NEW s \in Session, TurnCount(s) > 0
    PROVE  ResponseOf(s) \in Response
<1>1. s.turns \in Seq(Messages \cup {None})
  BY DEF Session
<1>2. TurnCount(s) \in Nat /\ TurnCount(s) \in 1 .. Len(s.turns)
  BY <1>1, LenProperties DEF TurnCount
<1>3. s.turns[TurnCount(s)] \in Messages \cup {None}
  BY <1>1, <1>2, ElementOfSeq
<1> QED
  BY <1>2, <1>3 DEF ResponseOf, Response

-----------------------------------------------------------------------------
(* What a step of one handler may do.  Only the holder of the lock changes   *)
(* the record, and only the holder gives the lock away: so what any other    *)
(* handler has in hand stays what it was.                                    *)

LEMMA OneHandler ==
    ASSUME IInv, TypeOK', NEW r \in Requests,
           \A q \in Requests \ {r} : pc'[q] = pc[q] /\ job'[q] = job[q] /\ copy'[q] = copy[q],
           holder' # holder => holder \in {None, r},
           store' # store => holder = r,
           (store # None => SoundSession(store))',
           SoundHandler(r)',
           (copy[r] # None => SoundSession(copy[r]))',
           ((pc[r] = "model" /\ job[r].call # "create") => copy[r] = store)'
    PROVE  IInv'
<1>1. None \notin Requests
  BY ChatConstants
<1>2. ASSUME NEW q \in Requests \ {r}
      PROVE  SoundHandler(q)'
  <2>1. SoundHandler(q) /\ q # None /\ q # r
    BY <1>1 DEF IInv
  <2>2. pc[q] \in Inside => holder' = q
    BY <2>1 DEF SoundHandler
  <2> QED
    BY <2>1, <2>2 DEF SoundHandler, TurnCount
<1>3. ASSUME NEW q \in Requests \ {r}
      PROVE  (copy[q] # None => SoundSession(copy[q]))'
  <2>1. copy'[q] = copy[q] /\ (copy[q] # None => SoundSession(copy[q]))
    BY DEF IInv
  <2> QED
    BY <2>1 DEF SoundSession, TurnCount, Progress
<1>4. ASSUME NEW q \in Requests \ {r}
      PROVE  ((pc[q] = "model" /\ job[q].call # "create") => copy[q] = store)'
  <2>1. pc[q] = "model" => holder = q
    BY DEF IInv, SoundHandler, Inside
  <2>2. pc[q] = "model" => store' = store
    BY <2>1
  <2> QED
    BY <2>2 DEF IInv, CopyIsCurrent
<1>5. CopyIsCurrent'
  BY <1>4 DEF CopyIsCurrent
<1>6. (\A q \in Requests : SoundHandler(q) /\ (copy[q] # None => SoundSession(copy[q])))'
  BY <1>2, <1>3
<1> QED
  BY <1>5, <1>6 DEF IInv

\* A handler that leaves.
LEMMA LeaveStep ==
    ASSUME IInv, NEW r \in Requests, Leave(r),
           store' \in Session \cup {None}, opened' \in Nat,
           answered' \in [Messages -> SUBSET Response],
           store' # store => holder = r,
           store' # None => SoundSession(store')
    PROVE  IInv'
<1>1. None \notin Requests
  BY ChatConstants
<1>2. /\ pc' = [pc EXCEPT ![r] = "idle"]
      /\ holder' = (IF holder = r THEN None ELSE holder)
      /\ job' = [job EXCEPT ![r] = None]
      /\ copy' = [copy EXCEPT ![r] = None]
      /\ shown' = [shown EXCEPT ![r] = None]
  BY DEF Leave, GoTo
<1>3. waiters' \in Seq(Requests)
  <2>1. CASE \E i \in 1 .. Len(waiters) : waiters[i] = r
    <3> DEFINE i == CHOOSE i \in 1 .. Len(waiters) : waiters[i] = r
    <3>1. i \in 1 .. Len(waiters)
      BY <2>1
    <3>2. waiters' = RemoveAt(waiters, i)
      BY <2>1 DEF Leave
    <3> HIDE DEF i
    <3> QED
      BY <3>1, <3>2, RemoveAtType DEF IInv, TypeOK
  <2>2. CASE ~ \E i \in 1 .. Len(waiters) : waiters[i] = r
    BY <2>2 DEF Leave, IInv, TypeOK
  <2> QED
    BY <2>1, <2>2
<1>4. TypeOK'
  BY <1>2, <1>3 DEF IInv, TypeOK, Points
<1>5. SoundHandler(r)'
  BY <1>2 DEF IInv, TypeOK, SoundHandler, Inside
<1>6. copy'[r] = None /\ pc'[r] = "idle"
  BY <1>2 DEF IInv, TypeOK
<1>7. \A q \in Requests \ {r} : pc'[q] = pc[q] /\ job'[q] = job[q] /\ copy'[q] = copy[q]
  BY <1>2 DEF IInv, TypeOK
<1>8. (store # None => SoundSession(store))'
  BY DEF SoundSession, TurnCount, Progress
<1> QED
  BY <1>2, <1>4, <1>5, <1>6, <1>7, <1>8, OneHandler

\* A handler that is refused or fails changes no record.
LEMMA RefuseStep ==
    ASSUME IInv, NEW r \in Requests, Refuse(r), UNCHANGED <<store, opened>>
    PROVE  IInv'
BY LeaveStep DEF Refuse, IInv, TypeOK

\* A handler that asks for the lock: it is inside only if the lock was free.
LEMMA EnterStep ==
    ASSUME IInv, NEW r \in Requests, Enter(r),
           job' \in [Requests -> Job \cup {None}],
           \A q \in Requests \ {r} : job'[q] = job[q],
           job'[r] # None,
           job'[r].call = "stream" => job'[r].message # None,
           UNCHANGED <<store, opened, copy, shown, answered>>
    PROVE  IInv'
<1>1. /\ pc' \in [Requests -> Points]
      /\ pc'[r] \in {"load", "waiting"}
      /\ pc'[r] = "load" => holder' = r
      /\ \A q \in Requests \ {r} : pc'[q] = pc[q]
  BY DEF Enter, GoTo, IInv, TypeOK, Points
<1>2. /\ holder' \in Requests \cup {None}
      /\ holder' # holder => holder = None
  BY DEF Enter, IInv, TypeOK
<1>3. waiters' \in Seq(Requests)
  <2>1. waiters \in Seq(Requests) /\ waiters' \in {waiters, Append(waiters, r)}
    BY DEF Enter, IInv, TypeOK
  <2>2. Append(waiters, r) \in Seq(Requests)
    BY <2>1, AppendProperties
  <2> QED
    BY <2>1, <2>2
<1>4. TypeOK'
  BY <1>1, <1>2, <1>3 DEF IInv, TypeOK
<1>5. SoundHandler(r)'
  BY <1>1 DEF SoundHandler, Inside
<1>6. /\ (store # None => SoundSession(store))'
      /\ (copy[r] # None => SoundSession(copy[r]))'
  BY DEF IInv, SoundSession, TurnCount, Progress
<1> QED
  BY <1>1, <1>2, <1>4, <1>5, <1>6, OneHandler

\* A handler inside the lock that goes on with a sound session in hand.
LEMMA WorkOnStep ==
    ASSUME IInv, NEW r \in Requests, NEW s \in Session,
           NEW point \in {"model", "delete", "save"},
           pc[r] \in Inside, SoundSession(s), WorkOn(r, s, point),
           point = "model" /\ job[r].call \in {"send", "stream"} => s.status = "active",
           point = "model" /\ job[r].call # "create" => s = store,
           point = "save" /\ job[r].call = "stream" => TurnCount(s) > 0,
           UNCHANGED <<store, opened>>
    PROVE  IInv'
<1>1. s # None
  BY ChatConstants
<1>2. /\ pc' = [pc EXCEPT ![r] = point]
      /\ copy' = [copy EXCEPT ![r] = s]
      /\ UNCHANGED <<store, opened, holder, waiters, job, shown, answered>>
  BY DEF WorkOn, GoTo, lockVars
<1>3. point \in Points
  BY DEF Points
<1>4. TypeOK'
  BY <1>2, <1>3 DEF IInv, TypeOK
<1>5. pc'[r] = point /\ copy'[r] = s
  BY <1>2 DEF IInv, TypeOK
<1>6. holder = r /\ SoundHandler(r) /\ pc[r] # "idle"
  BY DEF IInv, SoundHandler, Inside
<1>7. SoundHandler(r)'
  BY <1>1, <1>2, <1>5, <1>6 DEF SoundHandler, TurnCount
<1>8. \A q \in Requests \ {r} : pc'[q] = pc[q] /\ job'[q] = job[q] /\ copy'[q] = copy[q]
  BY <1>2 DEF IInv, TypeOK
<1>9. /\ (store # None => SoundSession(store))'
      /\ (copy[r] # None => SoundSession(copy[r]))'
      /\ ((pc[r] = "model" /\ job[r].call # "create") => copy[r] = store)'
  <2>1. store # None => SoundSession(store)
    BY DEF IInv
  <2> QED
    BY <1>2, <1>5, <2>1 DEF SoundSession, TurnCount, Progress
<1> QED
  BY <1>2, <1>4, <1>7, <1>8, <1>9, OneHandler

LEMMA StartSaveStep ==
    ASSUME IInv, NEW r \in Requests, NEW s \in Session,
           pc[r] \in Inside, SoundSession(s), StartSave(r, s),
           job[r].call = "stream" => TurnCount(s) > 0,
           UNCHANGED <<store, opened>>
    PROVE  IInv'
<1>1. CASE Expired(s)
  BY <1>1, RefuseStep DEF StartSave
<1>2. CASE ~Expired(s)
  <2>1. WorkOn(r, s, "save")
    BY <1>2 DEF StartSave
  <2> QED
    BY <2>1, WorkOnStep
<1> QED
  BY <1>1, <1>2

\* A stream answered from the record, which holds a turn.
LEMMA AnswerConfirmedStep ==
    ASSUME IInv, NEW r \in Requests, pc[r] # "idle", job[r].call = "stream",
           Confirmed(r), AnswerConfirmed(r), UNCHANGED <<store, opened>>
    PROVE  IInv'
<1>1. /\ Loaded \in Session /\ Loaded = store
      /\ Loaded.last_user_message_id = job[r].message
  BY DEF Confirmed, Found, Loaded, IInv, TypeOK
<1>2. job[r].message # None
  BY DEF IInv, SoundHandler
<1>3. TurnCount(Loaded) > 0
  BY <1>1, <1>2 DEF IInv, SoundSession, Confirmed, Found
<1>4. ResponseOf(Loaded) \in Response
  BY <1>1, <1>3, ResponseType
<1>5. answered' \in [Messages -> SUBSET Response]
  BY <1>4 DEF AnswerConfirmed, IInv, TypeOK
<1> QED
  BY <1>5, LeaveStep DEF AnswerConfirmed, IInv, TypeOK

\* What a handler loads is the record as it stands.
LEMMA LoadedSound ==
    ASSUME IInv, Loaded # None
    PROVE  Loaded = store /\ Loaded \in Session /\ SoundSession(Loaded)
BY DEF Loaded, IInv, TypeOK

-----------------------------------------------------------------------------
(* The steps of the handlers. *)

LEMMA WakeStep ==
    ASSUME IInv, NEW r \in Requests, Wake(r)
    PROVE  IInv'
<1>1. /\ pc[r] = "waiting" /\ holder = None /\ holder' = r
      /\ waiters' = Tail(waiters) /\ waiters # <<>>
      /\ pc' = [pc EXCEPT ![r] = "load"]
      /\ UNCHANGED <<store, opened, job, copy, shown, answered>>
  BY DEF Wake, GoTo
<1>2. waiters' \in Seq(Requests)
  BY <1>1, HeadTailProperties DEF IInv, TypeOK
<1>3. TypeOK'
  BY <1>1, <1>2 DEF IInv, TypeOK, Points
<1>4. SoundHandler(r)'
  BY <1>1 DEF IInv, TypeOK, SoundHandler, Inside
<1>5. /\ pc'[r] = "load"
      /\ \A q \in Requests \ {r} : pc'[q] = pc[q] /\ job'[q] = job[q] /\ copy'[q] = copy[q]
  BY <1>1 DEF IInv, TypeOK
<1>6. /\ (store # None => SoundSession(store))'
      /\ (copy[r] # None => SoundSession(copy[r]))'
  BY <1>1 DEF IInv, SoundSession, TurnCount, Progress
<1> QED
  BY <1>1, <1>3, <1>4, <1>5, <1>6, OneHandler

\* Moving on without touching anything but pc, outside the lock.
LEMMA ConfirmTurnStep ==
    ASSUME IInv, NEW r \in Requests, ConfirmTurn(r)
    PROVE  IInv'
<1>1. pc[r] = "confirm" /\ job[r].call = "stream" /\ UNCHANGED <<store, opened>>
  BY DEF ConfirmTurn, IInv, SoundHandler
<1>2. CASE Confirmed(r)
  BY <1>1, <1>2, AnswerConfirmedStep DEF ConfirmTurn
<1>3. CASE ~Confirmed(r) /\ Found(r) /\ Sendable(Loaded)
  <2>1. /\ pc' = [pc EXCEPT ![r] = "open"]
        /\ UNCHANGED <<store, opened, holder, waiters, job, copy, shown, answered>>
    BY <1>1, <1>3 DEF ConfirmTurn, GoTo, lockVars
  <2>2. TypeOK'
    BY <2>1 DEF IInv, TypeOK, Points
  <2>3. SoundHandler(r)'
    BY <1>1, <2>1 DEF IInv, TypeOK, SoundHandler, Inside
  <2>4. /\ pc'[r] = "open"
        /\ \A q \in Requests \ {r} : pc'[q] = pc[q] /\ job'[q] = job[q] /\ copy'[q] = copy[q]
    BY <2>1 DEF IInv, TypeOK
  <2>5. /\ (store # None => SoundSession(store))'
        /\ (copy[r] # None => SoundSession(copy[r]))'
    BY <2>1 DEF IInv, SoundSession, TurnCount, Progress
  <2> QED
    BY <2>1, <2>2, <2>3, <2>4, <2>5, OneHandler
<1>4. CASE ~Confirmed(r) /\ ~(Found(r) /\ Sendable(Loaded))
  BY <1>1, <1>4, RefuseStep DEF ConfirmTurn
<1> QED
  BY <1>2, <1>3, <1>4

LEMMA OpenStreamStep ==
    ASSUME IInv, NEW r \in Requests, OpenStream(r)
    PROVE  IInv'
<1>1. /\ pc[r] = "open" /\ UNCHANGED <<store, opened>>
      /\ job[r] # None /\ (job[r].call = "stream" => job[r].message # None)
  BY DEF OpenStream, IInv, SoundHandler
<1>2. CASE holder = None
  BY <1>1, <1>2, EnterStep DEF OpenStream, IInv, TypeOK
<1>3. CASE holder # None
  BY <1>1, <1>3, RefuseStep DEF OpenStream
<1> QED
  BY <1>2, <1>3

LEMMA LoadToCreateStep ==
    ASSUME IInv, NEW r \in Requests, LoadToCreate(r)
    PROVE  IInv'
<1>1. /\ pc[r] \in Inside /\ job[r].call = "create" /\ UNCHANGED <<store, opened>>
      /\ opened \in Nat /\ job[r] \in Job
  BY DEF LoadToCreate, Load, Inside, IInv, TypeOK, SoundHandler
<1>2. CASE Loaded # None
  BY <1>1, <1>2, RefuseStep DEF LoadToCreate
<1>3. CASE Loaded = None
  <2>1. WorkOn(r, NewSession(job[r].user), "model")
    BY <1>3 DEF LoadToCreate
  <2>2. job[r].user \in Users
    BY <1>1 DEF Job
  <2>3. NewSession(job[r].user) \in Session /\ SoundSession(NewSession(job[r].user))
    BY <1>1, <2>2, NewSessionSound
  <2> QED
    BY <1>1, <2>1, <2>3, WorkOnStep
<1> QED
  BY <1>2, <1>3

LEMMA LoadToSendStep ==
    ASSUME IInv, NEW r \in Requests, LoadToSend(r)
    PROVE  IInv'
<1>1. pc[r] \in Inside /\ UNCHANGED <<store, opened>>
  BY DEF LoadToSend, Load, Inside
<1>2. CASE Found(r) /\ Sendable(Loaded)
  <2>1. WorkOn(r, Loaded, "model") /\ Loaded # None /\ Loaded.status = "active"
    BY <1>2 DEF LoadToSend, Found, Sendable
  <2> QED
    BY <1>1, <2>1, LoadedSound, WorkOnStep
<1>3. CASE ~(Found(r) /\ Sendable(Loaded))
  BY <1>1, <1>3, RefuseStep DEF LoadToSend
<1> QED
  BY <1>2, <1>3

LEMMA LoadToStreamStep ==
    ASSUME IInv, NEW r \in Requests, LoadToStream(r)
    PROVE  IInv'
<1>1. /\ pc[r] \in Inside /\ pc[r] # "idle" /\ job[r].call = "stream"
      /\ UNCHANGED <<store, opened>>
  BY DEF LoadToStream, Load, Inside
<1>2. CASE Confirmed(r)
  BY <1>1, <1>2, AnswerConfirmedStep DEF LoadToStream
<1>3. CASE ~Confirmed(r) /\ Found(r) /\ Sendable(Loaded)
  <2>1. WorkOn(r, Loaded, "model") /\ Loaded # None /\ Loaded.status = "active"
    BY <1>3 DEF LoadToStream, Found, Sendable
  <2> QED
    BY <1>1, <2>1, LoadedSound, WorkOnStep
<1>4. CASE ~Confirmed(r) /\ ~(Found(r) /\ Sendable(Loaded))
  BY <1>1, <1>4, RefuseStep DEF LoadToStream
<1> QED
  BY <1>2, <1>3, <1>4

LEMMA LoadToAnalyzeStep ==
    ASSUME IInv, NEW r \in Requests, LoadToAnalyze(r)
    PROVE  IInv'
<1>1. pc[r] \in Inside /\ job[r].call = "analyze" /\ UNCHANGED <<store, opened>>
  BY DEF LoadToAnalyze, Load, Inside
<1>2. CASE Refuse(r)
  BY <1>1, <1>2, RefuseStep
<1>3. CASE Loaded # None /\ WorkOn(r, Loaded, "delete")
  BY <1>1, <1>3, LoadedSound, WorkOnStep
<1>4. CASE /\ Loaded # None /\ Loaded.analysis_turn_count = TurnCount(Loaded)
           /\ StartSave(r, Reviewed(Loaded))
  <2>1. Reviewed(Loaded) \in Session /\ SoundSession(Reviewed(Loaded))
    BY <1>4, LoadedSound, ReviewedSound DEF SoundSession
  <2> QED
    BY <1>1, <1>4, <2>1, StartSaveStep
<1>5. CASE Loaded # None /\ WorkOn(r, Loaded, "model")
  BY <1>1, <1>5, LoadedSound, WorkOnStep
<1> QED
  BY <1>2, <1>3, <1>4, <1>5 DEF LoadToAnalyze

LEMMA LoadToPatchStep ==
    ASSUME IInv, NEW r \in Requests, LoadToPatch(r)
    PROVE  IInv'
<1>1. pc[r] \in Inside /\ job[r].call = "patch" /\ UNCHANGED <<store, opened>>
  BY DEF LoadToPatch, Load, Inside
<1>2. CASE Refuse(r)
  BY <1>1, <1>2, RefuseStep
<1>3. CASE ~Refuse(r)
  <2>1. Loaded # None /\ Closable(Loaded)
    BY <1>3 DEF LoadToPatch, Found
  <2>2. PICK keys \in SUBSET Loaded.keywords : StartSave(r, Patched(Loaded, keys))
    BY <1>3 DEF LoadToPatch
  <2>3. Patched(Loaded, keys) \in Session /\ SoundSession(Patched(Loaded, keys))
    BY <2>1, <2>2, LoadedSound, PatchedSound
  <2> QED
    BY <1>1, <2>2, <2>3, StartSaveStep
<1> QED
  BY <1>2, <1>3

LEMMA LoadToRecommendStep ==
    ASSUME IInv, NEW r \in Requests, LoadToRecommend(r)
    PROVE  IInv'
<1>1. pc[r] \in Inside /\ job[r].call = "close" /\ UNCHANGED <<store, opened>>
  BY DEF LoadToRecommend, Load, Inside
<1>2. CASE ~(Found(r) /\ Closable(Loaded))
  BY <1>1, <1>2, RefuseStep DEF LoadToRecommend
<1>3. CASE Found(r) /\ Closable(Loaded)
  <2>1. /\ shown' = [shown EXCEPT ![r] = PayloadOf(Loaded)]
        /\ holder' = None
        /\ pc' = [pc EXCEPT ![r] = "recommend"]
        /\ UNCHANGED <<store, opened, waiters, job, copy, answered>>
    BY <1>1, <1>3 DEF LoadToRecommend, GoTo
  <2>2. PayloadOf(Loaded) \in Payload
    <3>1. Loaded \in Session
      BY <1>3, LoadedSound DEF Found
    <3> QED
      BY <3>1 DEF PayloadOf, Payload, Session, TurnCount
  <2>3. holder = r
    BY <1>1 DEF IInv, SoundHandler
  <2>4. TypeOK'
    BY <2>1, <2>2 DEF IInv, TypeOK, Points
  <2>5. SoundHandler(r)'
    BY <1>1, <2>1 DEF IInv, TypeOK, SoundHandler, Inside
  <2>6. /\ pc'[r] = "recommend"
        /\ \A q \in Requests \ {r} : pc'[q] = pc[q] /\ job'[q] = job[q] /\ copy'[q] = copy[q]
    BY <2>1 DEF IInv, TypeOK
  <2>7. /\ (store # None => SoundSession(store))'
        /\ (copy[r] # None => SoundSession(copy[r]))'
    BY <2>1 DEF IInv, SoundSession, TurnCount, Progress
  <2> QED
    BY <2>1, <2>3, <2>4, <2>5, <2>6, <2>7, OneHandler
<1> QED
  BY <1>2, <1>3

LEMMA LoadToCloseStep ==
    ASSUME IInv, NEW r \in Requests, LoadToClose(r)
    PROVE  IInv'
<1>1. pc[r] \in Inside /\ job[r].call = "close" /\ UNCHANGED <<store, opened>>
  BY DEF LoadToClose, Load, Inside
<1>2. CASE Found(r) /\ Closable(Loaded)
  <2>1. Closed(Loaded) \in Session /\ SoundSession(Closed(Loaded))
    BY <1>2, LoadedSound, ClosedSound DEF Found
  <2> QED
    BY <1>1, <1>2, <2>1, StartSaveStep DEF LoadToClose
<1>3. CASE ~(Found(r) /\ Closable(Loaded))
  BY <1>1, <1>3, RefuseStep DEF LoadToClose
<1> QED
  BY <1>2, <1>3

LEMMA RecommendedStep ==
    ASSUME IInv, NEW r \in Requests, Recommended(r)
    PROVE  IInv'
<1>1. job[r] # None /\ (job[r].call = "stream" => job[r].message # None)
  BY DEF Recommended, IInv, SoundHandler
<1> QED
  BY <1>1, EnterStep DEF Recommended, IInv, TypeOK

LEMMA ModelFailsStep ==
    ASSUME IInv, NEW r \in Requests, ModelFails(r)
    PROVE  IInv'
BY RefuseStep DEF ModelFails

LEMMA StoreFailsStep ==
    ASSUME IInv, NEW r \in Requests, StoreFails(r)
    PROVE  IInv'
BY RefuseStep DEF StoreFails

LEMMA GreetStep ==
    ASSUME IInv, NEW r \in Requests, Greet(r)
    PROVE  IInv'
<1>1. /\ pc[r] \in Inside /\ job[r].call = "create" /\ UNCHANGED <<store, opened>>
      /\ copy[r] \in Session /\ SoundSession(copy[r])
  BY DEF Greet, Inside, IInv, TypeOK, SoundHandler
<1>2. /\ [copy[r] EXCEPT !.idle = 0] \in Session
      /\ SoundSession([copy[r] EXCEPT !.idle = 0])
  BY <1>1, GreetingSound
<1> QED
  BY <1>1, <1>2, StartSaveStep DEF Greet

LEMMA CompleteTurnStep ==
    ASSUME IInv, NEW r \in Requests, NEW tired \in BOOLEAN, NEW tired_after \in BOOLEAN,
           NEW level \in Outcomes, CompleteTurn(r, tired, level, tired_after)
    PROVE  IInv'
<1> DEFINE wrap == WrapReason(copy[r], tired)
           done == TurnDone(copy[r], job[r].message, wrap, level, tired_after)
           kept == [done EXCEPT !.last_user_message_id = job[r].message]
<1>1. /\ pc[r] = "model" /\ pc[r] \in Inside /\ job[r].call \in {"send", "stream"}
      /\ UNCHANGED <<store, opened>>
      /\ StartSave(r, IF job[r].call = "send" THEN done ELSE kept)
  BY DEF CompleteTurn, Inside
<1>2. /\ copy[r] \in Session /\ SoundSession(copy[r]) /\ copy[r].status = "active"
      /\ job[r] \in Job
      /\ job[r].call = "stream" => job[r].message # None
  BY <1>1 DEF IInv, TypeOK, SoundHandler
<1>3. job[r].message \in Messages \cup {None} /\ level \in Levels
  BY <1>2, ChatConstants DEF Job
<1>4. done \in Session /\ SoundSession(done) /\ TurnCount(done) = TurnCount(copy[r]) + 1
  BY <1>2, <1>3, TurnDoneSound
<1>5. TurnCount(done) > 0
  <2>1. TurnCount(copy[r]) \in Nat
    BY <1>2, LenProperties DEF TurnCount, Session
  <2> HIDE DEF done
  <2> QED  BY <1>4, <2>1
<1>6. CASE job[r].call = "send"
  <2> HIDE DEF done, kept
  <2> QED  BY <1>1, <1>4, <1>6, StartSaveStep
<1>7. CASE job[r].call = "stream"
  <2>1. job[r].message \in Messages
    BY <1>2, <1>3, <1>7
  <2> HIDE DEF done
  <2>2. kept \in Session /\ SoundSession(kept) /\ TurnCount(kept) > 0
    BY <1>4, <1>5, <2>1, MessageIdSound
  <2> HIDE DEF kept
  <2> QED  BY <1>1, <1>7, <2>2, StartSaveStep
<1> QED
  BY <1>1, <1>6, <1>7

LEMMA FinishAnalysisStep ==
    ASSUME IInv, NEW r \in Requests, NEW keys \in SUBSET Keywords, FinishAnalysis(r, keys)
    PROVE  IInv'
<1>1. /\ pc[r] \in Inside /\ job[r].call = "analyze" /\ UNCHANGED <<store, opened>>
      /\ copy[r] \in Session /\ SoundSession(copy[r])
  BY DEF FinishAnalysis, Inside, IInv, TypeOK, SoundHandler
<1> QED
  BY <1>1, AnalyzedSound, StartSaveStep DEF FinishAnalysis

LEMMA DeleteSessionStep ==
    ASSUME IInv, NEW r \in Requests, DeleteSession(r)
    PROVE  IInv'
<1>1. holder = r /\ Leave(r) /\ store' = None /\ opened' = opened /\ answered' = answered
  BY DEF DeleteSession, Refuse, IInv, SoundHandler, Inside
<1> QED
  BY <1>1, LeaveStep DEF IInv, TypeOK

LEMMA SaveStep ==
    ASSUME IInv, NEW r \in Requests, Save(r)
    PROVE  IInv'
<1>1. /\ pc[r] = "save" /\ holder = r
      /\ store' = copy[r] /\ opened' = copy[r].gen
      /\ answered' = (IF job[r].call = "create" THEN [m \in Messages |-> {}] ELSE answered)
      /\ pc' = [pc EXCEPT ![r] = "saved"]
      /\ UNCHANGED <<holder, waiters, job, copy, shown>>
  BY DEF Save, GoTo, lockVars, IInv, SoundHandler, Inside
<1>2. copy[r] \in Session /\ SoundSession(copy[r])
  BY <1>1 DEF IInv, TypeOK, SoundHandler
<1>3. opened' \in Nat
  BY <1>1, <1>2 DEF Session
<1>4. answered' \in [Messages -> SUBSET Response]
  BY <1>1 DEF IInv, TypeOK
<1>5. TypeOK'
  BY <1>1, <1>2, <1>3, <1>4 DEF IInv, TypeOK, Points
<1>6. /\ pc'[r] = "saved"
      /\ \A q \in Requests \ {r} : pc'[q] = pc[q] /\ job'[q] = job[q] /\ copy'[q] = copy[q]
  BY <1>1 DEF IInv, TypeOK
<1>7. SoundHandler(r)'
  BY <1>1, <1>6 DEF IInv, SoundHandler, TurnCount
<1>8. /\ (store # None => SoundSession(store))'
      /\ (copy[r] # None => SoundSession(copy[r]))'
  BY <1>1, <1>2 DEF SoundSession, TurnCount, Progress
<1> QED
  BY <1>1, <1>5, <1>6, <1>7, <1>8, OneHandler

LEMMA AnswerStep ==
    ASSUME IInv, NEW r \in Requests, Answer(r)
    PROVE  IInv'
<1>1. pc[r] = "saved" /\ Leave(r) /\ UNCHANGED <<store, opened>>
  BY DEF Answer
<1>2. answered' \in [Messages -> SUBSET Response]
  <2>1. CASE job[r].call = "stream"
    <3>1. copy[r] \in Session /\ TurnCount(copy[r]) > 0
      BY <1>1, <2>1 DEF IInv, TypeOK, SoundHandler
    <3>2. ResponseOf(copy[r]) \in Response
      BY <3>1, ResponseType
    <3> QED
      BY <2>1, <3>2 DEF Answer, IInv, TypeOK
  <2>2. CASE job[r].call # "stream"
    BY <2>2 DEF Answer, IInv, TypeOK
  <2> QED
    BY <2>1, <2>2
<1> QED
  BY <1>1, <1>2, LeaveStep DEF IInv, TypeOK

-----------------------------------------------------------------------------
(* The clients, the process, the clock. *)

LEMMA QueuedCallStep ==
    ASSUME IInv, NEW r \in Requests, NEW u \in Users, NEW c \in Calls, QueuedCall(r, c, u)
    PROVE  IInv'
<1> DEFINE j == [call |-> c, user |-> u, message |-> None]
<1>1. j \in Job /\ j.call # "stream"
  BY ChatConstants DEF Job, QueuedCall
<1>2. j # None
  BY <1>1, ChatConstants
<1>3. job' = [job EXCEPT ![r] = j] /\ UNCHANGED <<store, opened, copy, shown, answered>>
  BY DEF QueuedCall, Arrive
<1> HIDE DEF j
<1>4. /\ job' \in [Requests -> Job \cup {None}] /\ job'[r] = j
      /\ \A q \in Requests \ {r} : job'[q] = job[q]
  BY <1>1, <1>3 DEF IInv, TypeOK
<1> QED
  BY <1>1, <1>2, <1>3, <1>4, EnterStep DEF QueuedCall

LEMMA SendCallStep ==
    ASSUME IInv, NEW r \in Requests, NEW u \in Users, SendCall(r, u)
    PROVE  IInv'
<1> DEFINE j == [call |-> "send", user |-> u, message |-> None]
<1>1. j \in Job /\ j.call # "stream"
  BY ChatConstants DEF Job, AllCalls
<1>2. j # None
  BY <1>1, ChatConstants
<1>3. job' = [job EXCEPT ![r] = j] /\ UNCHANGED <<store, opened, copy, shown, answered>>
  BY DEF SendCall, Arrive
<1> HIDE DEF j
<1>4. /\ job' \in [Requests -> Job \cup {None}] /\ job'[r] = j
      /\ \A q \in Requests \ {r} : job'[q] = job[q]
  BY <1>1, <1>3 DEF IInv, TypeOK
<1> QED
  BY <1>1, <1>2, <1>3, <1>4, EnterStep DEF SendCall

LEMMA StreamCallStep ==
    ASSUME IInv, NEW r \in Requests, NEW u \in Users, NEW m \in Messages, StreamCall(r, u, m)
    PROVE  IInv'
<1> DEFINE j == [call |-> "stream", user |-> u, message |-> m]
<1>1. j \in Job /\ j.call = "stream" /\ j.message # None
  BY ChatConstants DEF Job, AllCalls
<1>2. j # None
  BY <1>1, ChatConstants
<1>3. /\ job' = [job EXCEPT ![r] = j] /\ pc' = [pc EXCEPT ![r] = "confirm"]
      /\ UNCHANGED <<store, opened, holder, waiters, copy, shown, answered>>
  BY DEF StreamCall, Arrive, GoTo, lockVars
<1> HIDE DEF j
<1>4. TypeOK'
  BY <1>1, <1>3 DEF IInv, TypeOK, Points
<1>5. /\ job'[r] = j /\ pc'[r] = "confirm"
      /\ \A q \in Requests \ {r} : pc'[q] = pc[q] /\ job'[q] = job[q] /\ copy'[q] = copy[q]
  BY <1>3 DEF IInv, TypeOK
<1>6. SoundHandler(r)'
  BY <1>1, <1>2, <1>5 DEF SoundHandler, Inside
<1>7. /\ (store # None => SoundSession(store))'
      /\ (copy[r] # None => SoundSession(copy[r]))'
  BY <1>3 DEF IInv, SoundSession, TurnCount, Progress
<1> QED
  BY <1>3, <1>4, <1>5, <1>6, <1>7, OneHandler

LEMMA DisconnectStep ==
    ASSUME IInv, NEW r \in Requests, Disconnect(r)
    PROVE  IInv'
BY RefuseStep DEF Disconnect

\* A crash empties the process; the record was sound and stays.
LEMMA CrashStep ==
    ASSUME IInv, Crash
    PROVE  IInv'
<1>1. TypeOK'
  BY EmptySeq DEF Crash, IInv, TypeOK, Points
<1>2. \A r \in Requests : pc'[r] = "idle" /\ job'[r] = None /\ copy'[r] = None
  BY DEF Crash
<1>3. (\A r \in Requests : SoundHandler(r) /\ (copy[r] # None => SoundSession(copy[r])))'
  BY <1>2 DEF SoundHandler, Inside
<1>4. CopyIsCurrent'
  BY <1>2 DEF CopyIsCurrent
<1>5. (store # None => SoundSession(store))'
  BY DEF Crash, IInv, SoundSession, TurnCount, Progress
<1> QED
  BY <1>1, <1>3, <1>4, <1>5 DEF IInv

\* Time passes for the record and for every copy of it alike.
\* What a close has shown grows old like a session.
LEMMA OlderPayload ==
    ASSUME NEW p \in Payload
    PROVE  /\ Older(p) \in Payload /\ Older(p) # None
           /\ Older(p) = [p EXCEPT !.idle = Smaller(p.idle + 1, IdleTtl),
                                  !.age = Smaller(p.age + 1, MaxLifetime)]
           /\ Older(p).gen = p.gen
           /\ Expired(p) => Expired(Older(p))
<1>1. p # None
  BY ChatConstants
<1>2. /\ IdleTtl \in Nat /\ MaxLifetime \in Nat
      /\ p.idle \in 0 .. IdleTtl /\ p.age \in 0 .. MaxLifetime
  BY ChatConstants DEF Payload
<1>3. /\ Smaller(p.idle + 1, IdleTtl) \in 0 .. IdleTtl
      /\ Smaller(p.age + 1, MaxLifetime) \in 0 .. MaxLifetime
  BY <1>2 DEF Smaller
<1>4. Older(p) = [p EXCEPT !.idle = Smaller(p.idle + 1, IdleTtl),
                           !.age = Smaller(p.age + 1, MaxLifetime)]
  BY <1>1 DEF Older, Payload
<1>5. Older(p) \in Payload
  BY <1>3, <1>4 DEF Payload
<1>6. Older(p) # None
  BY <1>5, ChatConstants
<1>7. /\ Older(p).gen = p.gen
      /\ Older(p).idle = Smaller(p.idle + 1, IdleTtl)
      /\ Older(p).age = Smaller(p.age + 1, MaxLifetime)
  BY <1>4 DEF Payload
<1>8. Expired(p) => Expired(Older(p))
  BY <1>2, <1>7 DEF Expired, Smaller
<1> QED
  BY <1>4, <1>5, <1>6, <1>7, <1>8

LEMMA TickStep ==
    ASSUME IInv, Tick
    PROVE  IInv'
<1>1. Older(None) = None
  BY DEF Older
<1>2. /\ store' = Older(store)
      /\ \A r \in Requests : copy'[r] = Older(copy[r])
      /\ copy' = [r \in Requests |-> Older(copy[r])]
      /\ shown' = [r \in Requests |-> Older(shown[r])]
      /\ UNCHANGED <<opened, holder, waiters, pc, job, answered>>
  BY DEF Tick, lockVars
<1>3. ASSUME NEW s \in Session \cup {None}, s # None => SoundSession(s)
      PROVE  /\ Older(s) \in Session \cup {None}
             /\ Older(s) # None <=> s # None
             /\ Older(s) # None => /\ SoundSession(Older(s))
                                  /\ Older(s).status = s.status
                                  /\ TurnCount(Older(s)) = TurnCount(s)
  <2>1. CASE s = None
    BY <1>1, <2>1
  <2>2. CASE s \in Session /\ s # None
    <3>1. /\ Older(s) \in Session /\ Older(s) # None
          /\ Older(s).turns = s.turns /\ Older(s).status = s.status
          /\ SoundSession(Older(s))
      BY <1>3, <2>2, OlderSession
    <3> QED
      BY <2>2, <3>1 DEF TurnCount
  <2> QED
    BY <2>1, <2>2
<1>4. store \in Session \cup {None} /\ (store # None => SoundSession(store))
  BY DEF IInv, TypeOK
<1>5. ASSUME NEW r \in Requests
      PROVE  copy[r] \in Session \cup {None} /\ (copy[r] # None => SoundSession(copy[r]))
  BY DEF IInv, TypeOK
<1>6. TypeOK'
  <2>1. store' \in Session \cup {None}
    BY <1>2, <1>3, <1>4
  <2>2. copy' \in [Requests -> Session \cup {None}]
    BY <1>2, <1>3, <1>5
  <2>3. shown' \in [Requests -> Payload \cup {None}]
    <3>1. ASSUME NEW r \in Requests
          PROVE  Older(shown[r]) \in Payload \cup {None}
      <4>1. shown[r] \in Payload \cup {None}
        BY DEF IInv, TypeOK
      <4> QED
        BY <1>1, <4>1, OlderPayload
    <3> QED
      BY <1>2, <3>1
  <2> QED
    BY <1>2, <2>1, <2>2, <2>3 DEF IInv, TypeOK
<1>7. (store # None => SoundSession(store))'
  BY <1>2, <1>3, <1>4
<1>8. ASSUME NEW r \in Requests
      PROVE  SoundHandler(r)' /\ (copy[r] # None => SoundSession(copy[r]))'
  <2>1. /\ copy'[r] # None <=> copy[r] # None
        /\ copy'[r] # None => /\ SoundSession(copy'[r])
                             /\ copy'[r].status = copy[r].status
                             /\ TurnCount(copy'[r]) = TurnCount(copy[r])
    BY <1>2, <1>3, <1>5
  <2>2. SoundHandler(r) /\ pc'[r] = pc[r] /\ job'[r] = job[r] /\ holder' = holder
    BY <1>2 DEF IInv
  <2>3. TurnCount(copy[r])' = TurnCount(copy'[r])
    BY DEF TurnCount
  <2>4. SoundHandler(r)'
    BY <2>1, <2>2, <2>3 DEF SoundHandler
  <2> QED
    BY <2>1, <2>4
<1>9. CopyIsCurrent'
  BY <1>2 DEF IInv, CopyIsCurrent
<1> QED
  BY <1>6, <1>7, <1>8, <1>9 DEF IInv

-----------------------------------------------------------------------------
(* The invariant and what it gives. *)

LEMMA InitIInv == Init => IInv
<1> SUFFICES ASSUME Init PROVE IInv
  OBVIOUS
<1>1. TypeOK
  BY EmptySeq DEF Init, TypeOK, Points
<1> QED
  BY <1>1 DEF Init, IInv, SoundHandler, CopyIsCurrent, Inside

LEMMA NextIInv == IInv /\ [Next]_vars => IInv'
<1> SUFFICES ASSUME IInv, [Next]_vars PROVE IInv'
  OBVIOUS
<1>1. ASSUME NEW r \in Requests, Step(r)
      PROVE  IInv'
  BY <1>1, WakeStep, ConfirmTurnStep, OpenStreamStep, LoadToCreateStep, LoadToSendStep,
     LoadToStreamStep, LoadToAnalyzeStep, LoadToPatchStep, LoadToRecommendStep,
     LoadToCloseStep, RecommendedStep, ModelFailsStep, StoreFailsStep, GreetStep, CompleteTurnStep,
     FinishAnalysisStep, DeleteSessionStep, SaveStep, AnswerStep DEF Step
<1>2. ASSUME NEW r \in Requests, Client(r)
      PROVE  IInv'
  BY <1>2, QueuedCallStep, SendCallStep, StreamCallStep, DisconnectStep DEF Client
<1>3. CASE Crash
  BY <1>3, CrashStep
<1>4. CASE Tick
  BY <1>4, TickStep
<1>5. CASE UNCHANGED vars
  BY <1>5 DEF vars, IInv, TypeOK, SoundHandler, SoundSession, CopyIsCurrent, TurnCount,
              Progress
<1> QED
  BY <1>1, <1>2, <1>3, <1>4, <1>5 DEF Next

\* Whatever the handlers, the clients, the clock and the crashes do, the
\* invariant holds in every reachable state.
THEOREM Invariance == Spec => []IInv
<1> QED
  BY InitIInv, NextIInv, PTL DEF Spec

\* Every variable of the room keeps its type: no save writes a malformed session.
THEOREM TypeCorrect == Spec => []TypeOK
<1>1. IInv => TypeOK
  BY DEF IInv
<1> QED
  BY <1>1, Invariance, PTL

\* No session outgrows MAX_TURNS, and none is left open at its last turn.
THEOREM TurnLimit == Spec => []TurnsBounded
<1>1. IInv => TurnsBounded
  BY DEF IInv, TurnsBounded, SoundSession
<1> QED
  BY <1>1, Invariance, PTL

\* No turn slips in between an analysis and the close.
THEOREM AnalysisCovers == Spec => []AnalysisFresh
<1>1. IInv => AnalysisFresh
  BY DEF IInv, AnalysisFresh, SoundSession
<1> QED
  BY <1>1, Invariance, PTL

\* An open session that shows 100% has its wrap-up booked.
THEOREM ReadyConversationEnds == Spec => []FullProgressEnds
<1>1. IInv => FullProgressEnds
  BY DEF IInv, FullProgressEnds, SoundSession
<1> QED
  BY <1>1, Invariance, PTL

\* No handler saves over another's work: the lock outlives every await between
\* a handler's read and its write.
THEOREM NoLostUpdate == Spec => []CopyIsCurrent
<1>1. IInv => CopyIsCurrent
  BY DEF IInv
<1> QED
  BY <1>1, Invariance, PTL

-----------------------------------------------------------------------------
(* The past of a session: the record. *)

\* Age touches idle and age only, and an expired session stays expired.
LEMMA OlderFields ==
    ASSUME NEW s \in Session
    PROVE  /\ Older(s) \in Session /\ Older(s) # None
           /\ Older(s).gen = s.gen /\ Older(s).turns = s.turns /\ Older(s).status = s.status
           /\ Older(s).level = s.level /\ Older(s).keywords = s.keywords
           /\ Older(s).patch_used = s.patch_used
           /\ Older(s).last_user_message_id = s.last_user_message_id
           /\ Older(s).idle = Smaller(s.idle + 1, IdleTtl)
           /\ Older(s).age = Smaller(s.age + 1, MaxLifetime)
           /\ Expired(s) => Expired(Older(s))
<1>1. s # None
  BY ChatConstants
<1>2. /\ IdleTtl \in Nat /\ MaxLifetime \in Nat
      /\ s.idle \in 0 .. IdleTtl /\ s.age \in 0 .. MaxLifetime
  BY ChatConstants DEF Session
<1>3. Older(s) \in Session /\ Older(s) # None
  BY OlderSession
<1>4. Older(s) = [s EXCEPT !.idle = Smaller(s.idle + 1, IdleTtl),
                           !.age = Smaller(s.age + 1, MaxLifetime)]
  BY <1>1 DEF Older, Session
<1>5. /\ Older(s).gen = s.gen /\ Older(s).turns = s.turns /\ Older(s).status = s.status
      /\ Older(s).level = s.level /\ Older(s).keywords = s.keywords
      /\ Older(s).patch_used = s.patch_used
      /\ Older(s).last_user_message_id = s.last_user_message_id
      /\ Older(s).idle = Smaller(s.idle + 1, IdleTtl)
      /\ Older(s).age = Smaller(s.age + 1, MaxLifetime)
  BY <1>4 DEF Session
<1>6. Expired(s) => Expired(Older(s))
  BY <1>2, <1>5 DEF Expired, Smaller
<1> QED
  BY <1>3, <1>5, <1>6

\* Two sessions with the same turns, profile and last message have the same past.
LEMMA SamePast ==
    ASSUME NEW s, NEW t, History(s),
           t.turns = s.turns, t.level = s.level,
           t.last_user_message_id = s.last_user_message_id,
           t.status \in Collecting => ~t.patch_used,
           t.status \notin Collecting => ~TooSparse(s)
    PROVE  History(t)
BY DEF History, TurnCount, TooSparse

\* A session opens without a past.
LEMMA NewSessionPast ==
    ASSUME NEW u \in Users, opened \in Nat
    PROVE  Fresh(NewSession(u)) /\ History(NewSession(u))
<1>1. Len(<<>>) = 0
  BY EmptySeq
<1>2. Fresh(NewSession(u))
  BY DEF Fresh, NewSession
<1>3. History(NewSession(u))
  BY <1>1 DEF History, NewSession, TurnCount, Collecting
<1> QED
  BY <1>2, <1>3

LEMMA GreetedPast ==
    ASSUME NEW s \in Session, Fresh(s), History(s)
    PROVE  Fresh([s EXCEPT !.idle = 0]) /\ History([s EXCEPT !.idle = 0])
<1> DEFINE t == [s EXCEPT !.idle = 0]
<1>1. /\ t.gen = s.gen /\ t.status = s.status /\ t.turns = s.turns /\ t.level = s.level
      /\ t.keywords = s.keywords /\ t.patch_used = s.patch_used
      /\ t.last_user_message_id = s.last_user_message_id
  BY DEF Session
<1> HIDE DEF t
<1>2. Fresh(t)
  BY <1>1 DEF Fresh
<1>3. History(t)
  BY <1>1, SamePast DEF Fresh, Collecting
<1> QED
  BY <1>2, <1>3 DEF t

\* complete_turn adds the turn at the end and leaves the rest of the past alone.
LEMMA TurnDoneFields ==
    ASSUME NEW s \in Session, s.status = "active", NEW m, NEW wrap, NEW after, NEW level
    PROVE  LET t == TurnDone(s, m, wrap, level, after)
           IN  /\ t.turns = Append(s.turns, m) /\ t.idle = 0 /\ t.level = level
               /\ t.gen = s.gen /\ t.age = s.age
               /\ t.keywords = s.keywords /\ t.patch_used = s.patch_used
               /\ t.last_user_message_id = s.last_user_message_id
               /\ t.status \in Collecting
<1> DEFINE turns == Append(s.turns, m)
           turn == [s EXCEPT !.turns = turns, !.idle = 0, !.level = level]
           done == IF wrap # None
                   THEN [turn EXCEPT !.status = "input_locked", !.completion_reason = wrap,
                                     !.pending_wrap = None]
                   ELSE [turn EXCEPT !.pending_wrap = NextWrap(turn, after)]
           t == [done EXCEPT !.progress_floor = Progress(done)]
<1>1. /\ turn.turns = turns /\ turn.idle = 0 /\ turn.level = level
      /\ turn.gen = s.gen /\ turn.age = s.age /\ turn.status = "active"
      /\ turn.keywords = s.keywords /\ turn.patch_used = s.patch_used
      /\ turn.last_user_message_id = s.last_user_message_id
      /\ DOMAIN turn = DOMAIN s
  <2> HIDE DEF turns
  <2> QED  BY DEF Session
<1>2. /\ done.turns = turns /\ done.idle = 0 /\ done.level = level
      /\ done.gen = s.gen /\ done.age = s.age /\ done.status \in Collecting
      /\ done.keywords = s.keywords /\ done.patch_used = s.patch_used
      /\ done.last_user_message_id = s.last_user_message_id
      /\ DOMAIN done = DOMAIN s
  <2> HIDE DEF turns, turn
  <2> QED  BY <1>1 DEF Session, Collecting
<1>3. /\ t.turns = turns /\ t.idle = 0 /\ t.level = level
      /\ t.gen = s.gen /\ t.age = s.age /\ t.status \in Collecting
      /\ t.keywords = s.keywords /\ t.patch_used = s.patch_used
      /\ t.last_user_message_id = s.last_user_message_id
  <2> HIDE DEF turns, done
  <2> QED  BY <1>2 DEF Session
<1> QED
  BY <1>3 DEF TurnDone

\* The turn recorded last is the one the session remembers the message of.
LEMMA TurnPast ==
    ASSUME NEW s \in Session, NEW t \in Session, History(s), s.status = "active",
           NEW m \in Messages \cup {None},
           t.turns = Append(s.turns, m),
           t.patch_used = s.patch_used, t.status \in Collecting,
           \/ /\ m = None /\ t.last_user_message_id = s.last_user_message_id
              /\ ~OneAnswerPath
           \/ t.last_user_message_id = m /\ s.last_user_message_id # m
    PROVE  /\ TurnCount(t) = TurnCount(s) + 1
           /\ t.turns[TurnCount(t)] = m
           /\ \A i \in 1 .. TurnCount(s) : t.turns[i] = s.turns[i]
           /\ History(t)
<1> DEFINE n == TurnCount(s)
<1>1. /\ n \in Nat /\ TurnCount(t) = n + 1 /\ t.turns[n + 1] = m
      /\ \A i \in 1 .. n : t.turns[i] = s.turns[i]
  BY AppendProperties DEF Session, TurnCount
<1>2. ~t.patch_used
  BY DEF History, Collecting
<1>3. ASSUME NEW i \in 1 .. n, t.turns[i] = t.turns[i + 1]
      PROVE  t.turns[i] = None
  <2>1. CASE i < n
    <3>1. i \in 1 .. n - 1 /\ i + 1 \in 1 .. n
      BY <1>1, <2>1
    <3>2. t.turns[i] = s.turns[i] /\ t.turns[i + 1] = s.turns[i + 1]
      BY <1>1, <3>1
    <3> QED
      BY <1>3, <3>1, <3>2 DEF History
  <2>2. CASE i = n
    <3>1. t.turns[i] = s.turns[n] /\ t.turns[i + 1] = m
      BY <1>1, <2>2
    <3>2. n > 0
      BY <2>2
    <3>3. s.turns[n] # None => s.last_user_message_id = s.turns[n]
      BY <3>2 DEF History
    <3> QED
      BY <1>3, <3>1, <3>3
  <2>3. n \in Nat => i < n \/ i = n
    OBVIOUS
  <2> QED
    BY <1>1, <2>1, <2>2, <2>3
<1>4. History(t)
  <2>1. t.status \in Collecting => ~t.patch_used
    BY <1>2
  <2>2. TurnCount(t) # 0 /\ TurnCount(t) - 1 = n
    BY <1>1
  <2>3. /\ t.turns[TurnCount(t)] # None => t.last_user_message_id = t.turns[TurnCount(t)]
        /\ OneAnswerPath /\ t.last_user_message_id # None =>
              t.turns[TurnCount(t)] = t.last_user_message_id
    BY <1>1
  <2> HIDE DEF n
  <2> QED
    BY <1>3, <2>1, <2>2, <2>3 DEF History
<1> QED
  BY <1>1, <1>4

\* A complete turn, as complete_turn and the handler of the call leave it.
LEMMA TurnEdited ==
    ASSUME NEW s \in Session, NEW t \in Session, History(s), s.status = "active",
           NEW j \in Job, j.call \in {"send", "stream"},
           j.call = "send" => j.message = None /\ ~OneAnswerPath,
           j.call = "stream" => j.message # s.last_user_message_id,
           NEW wrap, NEW after, NEW level,
           t = IF j.call = "send" THEN TurnDone(s, j.message, wrap, level, after)
               ELSE [TurnDone(s, j.message, wrap, level, after)
                        EXCEPT !.last_user_message_id = j.message],
           TurnDone(s, j.message, wrap, level, after) \in Session
    PROVE  Edited(j, s, t) /\ History(t) /\ t.turns[TurnCount(t)] = j.message
<1> DEFINE done == TurnDone(s, j.message, wrap, level, after)
<1>1. /\ done.turns = Append(s.turns, j.message) /\ done.idle = 0
      /\ done.gen = s.gen /\ done.age = s.age
      /\ done.keywords = s.keywords /\ done.patch_used = s.patch_used
      /\ done.last_user_message_id = s.last_user_message_id
      /\ done.status \in Collecting
  BY TurnDoneFields
<1> HIDE DEF done
<1>2. t = IF j.call = "send" THEN done ELSE [done EXCEPT !.last_user_message_id = j.message]
  BY DEF done
<1>3. done \in Session
  BY DEF done
<1>4. /\ t.turns = Append(s.turns, j.message) /\ t.idle = 0
      /\ t.gen = s.gen /\ t.age = s.age
      /\ t.keywords = s.keywords /\ t.patch_used = s.patch_used
      /\ t.status \in Collecting
      /\ t.last_user_message_id =
            IF j.call = "send" THEN s.last_user_message_id ELSE j.message
  <2>1. CASE j.call = "send"
    BY <1>1, <1>2, <2>1
  <2>2. CASE j.call # "send"
    <3>1. t = [done EXCEPT !.last_user_message_id = j.message]
      BY <1>2, <2>2
    <3>2. /\ t.turns = done.turns /\ t.idle = done.idle /\ t.gen = done.gen /\ t.age = done.age
          /\ t.keywords = done.keywords /\ t.patch_used = done.patch_used
          /\ t.status = done.status /\ t.last_user_message_id = j.message
      BY <1>3, <3>1 DEF Session
    <3> QED
      BY <1>1, <2>2, <3>2
  <2> QED
    BY <2>1, <2>2
<1>5. 0 <= s.idle
  BY DEF Session
<1>6. Edited(j, s, t)
  BY <1>4, <1>5 DEF Edited, TookTurn
<1>7. j.message \in Messages \cup {None}
  BY DEF Job
<1>8. \/ /\ j.message = None /\ t.last_user_message_id = s.last_user_message_id
         /\ ~OneAnswerPath
      \/ t.last_user_message_id = j.message /\ s.last_user_message_id # j.message
  BY <1>4
<1>9. History(t) /\ t.turns[TurnCount(t)] = j.message
  BY <1>4, <1>7, <1>8, TurnPast
<1> QED
  BY <1>6, <1>9

\* The analysis, the correction and the close leave the turns and the profile alone.
LEMMA ReviewedEdited ==
    ASSUME NEW s \in Session, SoundSession(s), History(s), s.status # "closed",
           s.analysis_turn_count = TurnCount(s), NEW j, j.call = "analyze"
    PROVE  Edited(j, s, Reviewed(s)) /\ History(Reviewed(s))
<1> DEFINE t == Reviewed(s)
<1>1. TurnCount(s) # None
  BY ChatConstants DEF TurnCount, Session
<1>2. s.status = "review"
  BY <1>1 DEF SoundSession, Session, Statuses
<1>3. /\ t.gen = s.gen /\ t.age = s.age /\ t.idle = s.idle /\ t.turns = s.turns
      /\ t.level = s.level /\ t.status = "review" /\ t.keywords = s.keywords
      /\ t.patch_used = s.patch_used
      /\ t.last_user_message_id = s.last_user_message_id
  BY DEF Reviewed, Session
<1> HIDE DEF t
<1>4. Edited(j, s, t)
  BY <1>2, <1>3 DEF Edited, SameTurns, LooksTheSame
<1>5. History(t)
  <2>1. ~TooSparse(s)
    BY <1>2 DEF History, Collecting
  <2> QED
    BY <1>3, <2>1, SamePast DEF Collecting
<1> QED
  BY <1>4, <1>5 DEF t

LEMMA AnalyzedEdited ==
    ASSUME NEW s \in Session, History(s), s.status \in Collecting, ~TooSparse(s),
           NEW keys \in SUBSET Keywords, NEW j, j.call = "analyze"
    PROVE  Edited(j, s, Analyzed(s, keys)) /\ History(Analyzed(s, keys))
<1> DEFINE a == [s EXCEPT !.analysis_turn_count = TurnCount(s), !.keywords = keys,
                          !.patch_used = FALSE]
           t == Reviewed(a)
<1>1. /\ a.gen = s.gen /\ a.age = s.age /\ a.idle = s.idle /\ a.turns = s.turns
      /\ a.level = s.level /\ a.patch_used = FALSE
      /\ a.last_user_message_id = s.last_user_message_id
      /\ DOMAIN a = DOMAIN s
  BY DEF Session
<1>2. /\ t.gen = s.gen /\ t.age = s.age /\ t.idle = s.idle /\ t.turns = s.turns
      /\ t.level = s.level /\ t.status = "review" /\ t.patch_used = FALSE
      /\ t.last_user_message_id = s.last_user_message_id
  <2> HIDE DEF a
  <2> QED  BY <1>1 DEF Reviewed, Session
<1>3. Analyzed(s, keys) = t
  BY DEF Analyzed
<1> HIDE DEF t
<1>4. TurnCount(s) \in Nat /\ (TurnCount(s) = 0 => s.level = "empty")
  BY DEF TurnCount, Session, History
<1>5. TurnCount(s) > 0
  <2>1. MaxTurns \in Nat \ {0}
    BY ChatConstants
  <2> QED
    BY <1>4, <2>1 DEF TooSparse
<1>6. Edited(j, s, t)
  BY <1>2, <1>5 DEF Edited, SameTurns, GotAnalysis
<1>7. History(t)
  BY <1>2, SamePast DEF Collecting
<1> QED
  BY <1>3, <1>6, <1>7

LEMMA PatchedEdited ==
    ASSUME NEW s \in Session, SoundSession(s), History(s), Closable(s), ~s.patch_used,
           NEW keys \in SUBSET s.keywords, NEW j, j.call = "patch"
    PROVE  Edited(j, s, Patched(s, keys)) /\ History(Patched(s, keys))
<1> DEFINE a == [s EXCEPT !.keywords = keys, !.patch_used = TRUE]
           t == Reviewed(a)
<1>1. /\ a.gen = s.gen /\ a.age = s.age /\ a.idle = s.idle /\ a.turns = s.turns
      /\ a.level = s.level /\ a.patch_used = TRUE /\ a.keywords = keys
      /\ a.last_user_message_id = s.last_user_message_id
      /\ DOMAIN a = DOMAIN s
  BY DEF Session
<1>2. /\ t.gen = s.gen /\ t.age = s.age /\ t.idle = s.idle /\ t.turns = s.turns
      /\ t.level = s.level /\ t.status = "review" /\ t.patch_used = TRUE
      /\ t.keywords = keys
      /\ t.last_user_message_id = s.last_user_message_id
  <2> HIDE DEF a
  <2> QED  BY <1>1 DEF Reviewed, Session
<1>3. Patched(s, keys) = t
  BY DEF Patched
<1> HIDE DEF t
<1>4. s.status = "review"
  BY DEF Closable, SoundSession, Session, Statuses
<1>5. Edited(j, s, t)
  BY <1>2, <1>4 DEF Edited, SameTurns, GotCorrection
<1>6. History(t)
  <2>1. ~TooSparse(s)
    BY <1>4 DEF History, Collecting
  <2> QED
    BY <1>2, <2>1, SamePast DEF Collecting
<1> QED
  BY <1>3, <1>5, <1>6

LEMMA ClosedEdited ==
    ASSUME NEW s \in Session, SoundSession(s), History(s), Closable(s), NEW j, j.call = "close"
    PROVE  Edited(j, s, Closed(s)) /\ History(Closed(s))
<1> DEFINE t == Closed(s)
<1>1. /\ t.gen = s.gen /\ t.age = s.age /\ t.idle = s.idle /\ t.turns = s.turns
      /\ t.level = s.level /\ t.status = "closed" /\ t.patch_used = s.patch_used
      /\ t.keywords = s.keywords
      /\ t.last_user_message_id = s.last_user_message_id
  BY DEF Closed, Session
<1> HIDE DEF t
<1>2. s.status = "review"
  BY DEF Closable, SoundSession, Session, Statuses
<1>3. Edited(j, s, t)
  BY <1>1, <1>2 DEF Edited, SameTurns, GotClosed
<1>4. History(t)
  <2>1. ~TooSparse(s)
    BY <1>2 DEF History, Collecting
  <2> QED
    BY <1>1, <2>1, SamePast DEF Collecting
<1> QED
  BY <1>3, <1>4 DEF t

-----------------------------------------------------------------------------
(* What a step of one handler may do. *)

\* What the other handlers have in hand stays true: if the record changes, none
\* of them is inside the lock, and what they have shown is still as it was.
LEMMA OthersInHand ==
    ASSUME HInv, NEW r \in Requests, NEW q \in Requests \ {r},
           pc'[q] = pc[q] /\ job'[q] = job[q] /\ copy'[q] = copy[q] /\ shown'[q] = shown[q],
           \/ UNCHANGED <<store, opened>>
           \/ holder = r /\ (shown[q] # None => ShownStands(shown[q])')
    PROVE  InHand(q)' /\ (copy[q] # None => History(copy[q]))'
<1>1. InHand(q) /\ (copy[q] # None => History(copy[q]))
  BY DEF HInv
<1>2. (copy[q] # None => History(copy[q]))'
  BY <1>1 DEF History, TurnCount, TooSparse
<1>3. CASE UNCHANGED <<store, opened>>
  <2>1. InHand(q)'
    BY <1>1, <1>3 DEF InHand, ShownStands, PayloadOf, TurnCount, TooSparse, Fresh, Expired
  <2> QED
    BY <1>2, <2>1
<1>4. CASE holder = r /\ (shown[q] # None => ShownStands(shown[q])')
  <2>1. pc'[q] \notin Inside
    <3>1. holder # q
      BY <1>4
    <3> QED
      BY <3>1 DEF HInv, IInv, SoundHandler
  <2>2. shown'[q] # None => ShownStands(shown[q])'
    BY <1>4
  <2>3. InHand(q)'
    BY <1>1, <2>1, <2>2 DEF InHand, Inside
  <2> QED
    BY <1>2, <2>3
<1> QED
  BY <1>3, <1>4

\* A step of one handler that leaves the record alone.
LEMMA QuietStep ==
    ASSUME HInv, IInv', NEW r \in Requests,
           \A q \in Requests \ {r} : /\ pc'[q] = pc[q] /\ job'[q] = job[q]
                                     /\ copy'[q] = copy[q] /\ shown'[q] = shown[q],
           UNCHANGED <<store, opened>>,
           InHand(r)',
           (copy[r] # None => History(copy[r]))',
           AnswersStand'
    PROVE  HInv'
<1>1. (store # None => store.gen = opened /\ History(store))'
  BY DEF HInv, History, TurnCount, TooSparse
<1>2. \A q \in Requests \ {r} : InHand(q)' /\ (copy[q] # None => History(copy[q]))'
  BY OthersInHand
<1>3. (\A q \in Requests : InHand(q) /\ (copy[q] # None => History(copy[q])))'
  BY <1>2
<1> QED
  BY <1>1, <1>3 DEF HInv

\* The answers given so far are as good after a step that changes neither them
\* nor the record.
LEMMA SameAnswers ==
    ASSUME AnswersStand, UNCHANGED <<store, answered>>
    PROVE  AnswersStand'
BY DEF AnswersStand, RetryGetsItsReply, TurnCount

LEMMA LeaveQuietly ==
    ASSUME HInv, IInv', NEW r \in Requests, Leave(r), UNCHANGED <<store, opened>>, AnswersStand'
    PROVE  HInv'
<1>1. /\ pc' = [pc EXCEPT ![r] = "idle"]
      /\ job' = [job EXCEPT ![r] = None]
      /\ copy' = [copy EXCEPT ![r] = None]
      /\ shown' = [shown EXCEPT ![r] = None]
  BY DEF Leave, GoTo
<1>2. /\ pc'[r] = "idle" /\ job'[r] = None /\ copy'[r] = None /\ shown'[r] = None
      /\ \A q \in Requests \ {r} : /\ pc'[q] = pc[q] /\ job'[q] = job[q]
                                   /\ copy'[q] = copy[q] /\ shown'[q] = shown[q]
  BY <1>1 DEF HInv, IInv, TypeOK
<1>3. InHand(r)' /\ (copy[r] # None => History(copy[r]))'
  BY <1>2 DEF InHand
<1> QED
  BY <1>2, <1>3, QuietStep

LEMMA RefuseQuietly ==
    ASSUME HInv, IInv', NEW r \in Requests, Refuse(r), UNCHANGED <<store, opened>>
    PROVE  HInv'
BY LeaveQuietly, SameAnswers DEF Refuse, HInv

\* A handler with a call that moves on without a session in hand.
LEMMA MoveOnQuietly ==
    ASSUME HInv, IInv', NEW r \in Requests,
           pc' \in [Requests -> Points], job' \in [Requests -> Job \cup {None}],
           pc'[r] \in {"confirm", "open", "waiting", "load"},
           \A q \in Requests \ {r} : pc'[q] = pc[q] /\ job'[q] = job[q],
           job'[r].call \in Calls,
           job'[r].call # "stream" => job'[r].message = None,
           UNCHANGED <<store, opened, copy, shown, answered>>
    PROVE  HInv'
<1>1. InHand(r) /\ (copy[r] # None => History(copy[r]))
  BY DEF HInv
<1>2. InHand(r)'
  <2>1. shown[r] # None => ShownStands(shown[r])
    BY <1>1 DEF InHand
  <2>2. (shown[r] # None => ShownStands(shown[r]))'
    BY <2>1 DEF ShownStands, PayloadOf, TurnCount
  <2> QED
    BY <2>2 DEF InHand
<1>3. (copy[r] # None => History(copy[r]))'
  BY <1>1 DEF History, TurnCount, TooSparse
<1> QED
  BY <1>2, <1>3, QuietStep, SameAnswers DEF HInv

\* A handler inside the lock that goes on with a session in hand.
LEMMA WorkOnQuietly ==
    ASSUME HInv, IInv', NEW r \in Requests, NEW s \in Session,
           NEW point \in {"model", "delete", "save"},
           pc[r] \in Inside, History(s), WorkOn(r, s, point),
           UNCHANGED <<store, opened>>,
           point = "delete" => s = store /\ s.status \in Collecting,
           point = "model" /\ job[r].call = "stream" => s.last_user_message_id # job[r].message,
           point = "model" /\ job[r].call = "analyze" => s.status \in Collecting /\ ~TooSparse(s),
           job[r].call = "create" => Fresh(s) /\ (store # None => Expired(store)),
           point = "save" /\ job[r].call # "create" => store # None /\ Edited(job[r], store, s),
           point = "save" /\ job[r].call = "stream" => s.turns[TurnCount(s)] = job[r].message,
           point = "save" /\ job[r].call = "close" => shown[r] # None
    PROVE  HInv'
<1>1. InHand(r) /\ s # None
  BY ChatConstants DEF HInv
<1>2. /\ pc'[r] = point /\ copy'[r] = s
      /\ \A q \in Requests \ {r} : pc'[q] = pc[q] /\ copy'[q] = copy[q]
      /\ UNCHANGED <<job, shown, answered>>
  BY DEF WorkOn, GoTo, lockVars, HInv, IInv, TypeOK
<1>3. InHand(r)'
  <2>1. (shown[r] # None => ShownStands(shown[r]))'
    BY <1>1, <1>2 DEF InHand, ShownStands, PayloadOf, TurnCount
  <2>2. Fresh(s)' <=> Fresh(s)
    BY DEF Fresh
  <2>3. Edited(job[r], store, s)' <=> Edited(job[r], store, s)
    BY <1>2 DEF Edited, TookTurn, SameTurns, GotAnalysis, GotCorrection, GotClosed,
              LooksTheSame, TurnCount
  <2>4. Expired(store)' <=> Expired(store)
    BY DEF Expired
  <2> QED
    BY <1>1, <1>2, <2>1, <2>2, <2>3, <2>4 DEF InHand, TurnCount, TooSparse
<1>4. (copy[r] # None => History(copy[r]))'
  BY <1>2 DEF History, TurnCount, TooSparse
<1>5. AnswersStand'
  BY <1>2, SameAnswers DEF HInv
<1> QED
  BY <1>2, <1>3, <1>4, <1>5, QuietStep

\* The save is refused for an expired session, or begins.
LEMMA StartSaveQuietly ==
    ASSUME HInv, IInv', NEW r \in Requests, NEW s \in Session,
           pc[r] \in Inside, History(s), StartSave(r, s),
           UNCHANGED <<store, opened>>,
           job[r].call = "create" => Fresh(s) /\ (store # None => Expired(store)),
           job[r].call # "create" => store # None /\ Edited(job[r], store, s),
           job[r].call = "stream" => s.turns[TurnCount(s)] = job[r].message,
           job[r].call = "close" => shown[r] # None
    PROVE  HInv'
<1>1. CASE Expired(s)
  BY <1>1, RefuseQuietly DEF StartSave
<1>2. CASE ~Expired(s)
  BY <1>2, WorkOnQuietly DEF StartSave
<1> QED
  BY <1>1, <1>2

-----------------------------------------------------------------------------
(* The steps of the handlers. *)

\* A handler in the course of a call knows what the call is.
LEMMA CallKnown ==
    ASSUME HInv, NEW r \in Requests, pc[r] # "idle"
    PROVE  /\ job[r] \in Job /\ job[r] # None /\ job[r].call \in Calls
           /\ job[r].call # "stream" => job[r].message = None
           /\ job[r].call = "stream" => job[r].message \in Messages
BY DEF HInv, IInv, TypeOK, SoundHandler, InHand, Job

\* What a handler loads is the record, with its past.
LEMMA LoadedPast ==
    ASSUME HInv, Loaded # None
    PROVE  /\ Loaded = store /\ Loaded \in Session /\ store # None
           /\ SoundSession(Loaded) /\ History(Loaded)
BY LoadedSound DEF HInv, Loaded

LEMMA WakeKeeps ==
    ASSUME HInv, IInv', NEW r \in Requests, Wake(r)
    PROVE  HInv'
<1>1. /\ pc[r] # "idle" /\ pc' = [pc EXCEPT ![r] = "load"]
      /\ UNCHANGED <<store, opened, job, copy, shown, answered>>
  BY DEF Wake, GoTo
<1> QED
  BY <1>1, CallKnown, MoveOnQuietly DEF HInv, IInv, TypeOK, Points

\* The answer made from the record is the reply the record holds at its end.
LEMMA AnswerConfirmedKeeps ==
    ASSUME HInv, IInv', NEW r \in Requests, pc[r] # "idle", job[r].call = "stream",
           Confirmed(r), AnswerConfirmed(r), UNCHANGED <<store, opened>>
    PROVE  HInv'
<1>1. /\ Loaded = store /\ store \in Session /\ store # None
      /\ SoundSession(store) /\ History(store)
      /\ store.last_user_message_id = job[r].message
  BY LoadedPast DEF Confirmed, Found
<1>2. job[r].message \in Messages /\ job[r].message # None
  BY CallKnown, ChatConstants
<1>3. TurnCount(store) \in Nat /\ TurnCount(store) > 0
  BY <1>1, <1>2 DEF SoundSession, TurnCount, Session
<1>4. /\ ResponseOf(store).turn = TurnCount(store)
      /\ ResponseOf(store).reply = store.turns[TurnCount(store)]
  BY DEF ResponseOf
<1>5. \A m \in Messages : \A a \in answered'[m] :
         a \in answered[m] \/ (m = job[r].message /\ a = ResponseOf(store))
  BY <1>1, <1>2 DEF AnswerConfirmed, HInv, IInv, TypeOK
<1>6. AnswersStand'
  <2>1. ASSUME NEW m \in Messages, NEW a \in answered'[m]
        PROVE  a.turn \in 1 .. TurnCount(store) /\ store.turns[a.turn] = a.reply
    BY <1>1, <1>3, <1>4, <1>5, <2>1 DEF HInv, AnswersStand
  <2>2. ASSUME NEW m \in Messages, NEW a \in answered'[m], OneAnswerPath
        PROVE  a.reply = m
    <3>1. store.turns[TurnCount(store)] = job[r].message
      BY <1>1, <1>2, <2>2 DEF History
    <3> QED
      BY <1>4, <1>5, <2>2, <3>1 DEF HInv, AnswersStand, RetryGetsItsReply
  <2>3. store' = store
    OBVIOUS
  <2> QED
    BY <2>1, <2>2, <2>3 DEF AnswersStand, RetryGetsItsReply, TurnCount
<1> QED
  BY <1>6, LeaveQuietly DEF AnswerConfirmed

LEMMA ConfirmTurnKeeps ==
    ASSUME HInv, IInv', NEW r \in Requests, ConfirmTurn(r)
    PROVE  HInv'
<1>1. pc[r] = "confirm" /\ job[r].call = "stream" /\ UNCHANGED <<store, opened>>
  BY DEF ConfirmTurn, HInv, IInv, SoundHandler
<1>2. CASE Confirmed(r)
  BY <1>1, <1>2, AnswerConfirmedKeeps DEF ConfirmTurn
<1>3. CASE ~Confirmed(r) /\ Found(r) /\ Sendable(Loaded)
  <2>1. /\ pc' = [pc EXCEPT ![r] = "open"]
        /\ UNCHANGED <<store, opened, job, copy, shown, answered>>
    BY <1>1, <1>3 DEF ConfirmTurn, GoTo
  <2> QED
    BY <1>1, <2>1, CallKnown, MoveOnQuietly DEF HInv, IInv, TypeOK, Points
<1>4. CASE ~Confirmed(r) /\ ~(Found(r) /\ Sendable(Loaded))
  BY <1>1, <1>4, RefuseQuietly DEF ConfirmTurn
<1> QED
  BY <1>2, <1>3, <1>4

\* A handler with a call that asks for the lock.
LEMMA EnterQuietly ==
    ASSUME HInv, IInv', NEW r \in Requests, Enter(r),
           job' \in [Requests -> Job \cup {None}],
           \A q \in Requests \ {r} : job'[q] = job[q],
           job'[r].call \in Calls,
           job'[r].call # "stream" => job'[r].message = None,
           UNCHANGED <<store, opened, copy, shown, answered>>
    PROVE  HInv'
<1>1. /\ pc' \in [Requests -> Points]
      /\ pc'[r] \in {"load", "waiting"}
      /\ \A q \in Requests \ {r} : pc'[q] = pc[q]
  BY DEF Enter, GoTo, HInv, IInv, TypeOK, Points
<1> QED
  BY <1>1, MoveOnQuietly

LEMMA OpenStreamKeeps ==
    ASSUME HInv, IInv', NEW r \in Requests, OpenStream(r)
    PROVE  HInv'
<1>1. pc[r] # "idle" /\ UNCHANGED <<store, opened>>
  BY DEF OpenStream
<1>2. CASE holder = None
  BY <1>1, <1>2, CallKnown, EnterQuietly DEF OpenStream, HInv, IInv, TypeOK
<1>3. CASE holder # None
  BY <1>1, <1>3, RefuseQuietly DEF OpenStream
<1> QED
  BY <1>2, <1>3

LEMMA RecommendedKeeps ==
    ASSUME HInv, IInv', NEW r \in Requests, Recommended(r)
    PROVE  HInv'
<1>1. pc[r] # "idle"
  BY DEF Recommended
<1> QED
  BY <1>1, CallKnown, EnterQuietly DEF Recommended, HInv, IInv, TypeOK

LEMMA LoadToCreateKeeps ==
    ASSUME HInv, IInv', NEW r \in Requests, LoadToCreate(r)
    PROVE  HInv'
<1>1. /\ pc[r] \in Inside /\ pc[r] # "idle" /\ job[r].call = "create"
      /\ opened \in Nat /\ UNCHANGED <<store, opened>>
  BY DEF LoadToCreate, Load, Inside, HInv, IInv, TypeOK
<1>2. CASE Loaded # None
  BY <1>1, <1>2, RefuseQuietly DEF LoadToCreate
<1>3. CASE Loaded = None
  <2> DEFINE s == NewSession(job[r].user)
  <2>1. WorkOn(r, s, "model")
    BY <1>3 DEF LoadToCreate
  <2>2. job[r].user \in Users
    BY <1>1, CallKnown DEF Job
  <2>3. s \in Session /\ Fresh(s) /\ History(s)
    BY <1>1, <2>2, NewSessionSound, NewSessionPast
  <2>4. store # None => Expired(store)
    BY <1>3 DEF Loaded
  <2> HIDE DEF s
  <2> QED
    BY <1>1, <2>1, <2>3, <2>4, WorkOnQuietly
<1> QED
  BY <1>2, <1>3

LEMMA LoadToSendKeeps ==
    ASSUME HInv, IInv', NEW r \in Requests, LoadToSend(r)
    PROVE  HInv'
<1>1. pc[r] \in Inside /\ job[r].call = "send" /\ UNCHANGED <<store, opened>>
  BY DEF LoadToSend, Load, Inside
<1>2. CASE Found(r) /\ Sendable(Loaded)
  <2>1. WorkOn(r, Loaded, "model") /\ Loaded # None
    BY <1>2 DEF LoadToSend, Found
  <2> QED
    BY <1>1, <2>1, LoadedPast, WorkOnQuietly
<1>3. CASE ~(Found(r) /\ Sendable(Loaded))
  BY <1>1, <1>3, RefuseQuietly DEF LoadToSend
<1> QED
  BY <1>2, <1>3

LEMMA LoadToStreamKeeps ==
    ASSUME HInv, IInv', NEW r \in Requests, LoadToStream(r)
    PROVE  HInv'
<1>1. /\ pc[r] \in Inside /\ pc[r] # "idle" /\ job[r].call = "stream"
      /\ UNCHANGED <<store, opened>>
  BY DEF LoadToStream, Load, Inside
<1>2. CASE Confirmed(r)
  BY <1>1, <1>2, AnswerConfirmedKeeps DEF LoadToStream
<1>3. CASE ~Confirmed(r) /\ Found(r) /\ Sendable(Loaded)
  <2>1. /\ WorkOn(r, Loaded, "model") /\ Loaded # None
        /\ Loaded.last_user_message_id # job[r].message
    BY <1>3 DEF LoadToStream, Found, Confirmed
  <2> QED
    BY <1>1, <2>1, LoadedPast, WorkOnQuietly
<1>4. CASE ~Confirmed(r) /\ ~(Found(r) /\ Sendable(Loaded))
  BY <1>1, <1>4, RefuseQuietly DEF LoadToStream
<1> QED
  BY <1>2, <1>3, <1>4

LEMMA LoadToAnalyzeKeeps ==
    ASSUME HInv, IInv', NEW r \in Requests, LoadToAnalyze(r)
    PROVE  HInv'
<1>1. pc[r] \in Inside /\ job[r].call = "analyze" /\ UNCHANGED <<store, opened>>
  BY DEF LoadToAnalyze, Load, Inside
<1>2. CASE Loaded = None \/ Loaded.status = "closed"
  BY <1>1, <1>2, RefuseQuietly DEF LoadToAnalyze
<1>3. CASE Loaded # None /\ Loaded.status # "closed"
  <2>1. /\ Loaded = store /\ Loaded \in Session /\ store # None
        /\ SoundSession(Loaded) /\ History(Loaded)
    BY <1>3, LoadedPast
  <2>2. CASE TooSparse(Loaded)
    <3>1. WorkOn(r, Loaded, "delete")
      BY <1>3, <2>2 DEF LoadToAnalyze
    <3>2. Loaded.status \in Collecting
      BY <2>1, <2>2 DEF History
    <3> QED
      BY <1>1, <2>1, <3>1, <3>2, WorkOnQuietly
  <2>3. CASE ~TooSparse(Loaded) /\ Loaded.analysis_turn_count = TurnCount(Loaded)
    <3>1. StartSave(r, Reviewed(Loaded))
      BY <1>3, <2>3 DEF LoadToAnalyze
    <3>2. Reviewed(Loaded) \in Session
      BY <2>1, <2>3, ReviewedSound DEF SoundSession
    <3>3. Edited(job[r], Loaded, Reviewed(Loaded)) /\ History(Reviewed(Loaded))
      BY <1>1, <1>3, <2>1, <2>3, ReviewedEdited
    <3> QED
      BY <1>1, <2>1, <3>1, <3>2, <3>3, StartSaveQuietly
  <2>4. CASE ~TooSparse(Loaded) /\ Loaded.analysis_turn_count # TurnCount(Loaded)
    <3>1. WorkOn(r, Loaded, "model")
      BY <1>3, <2>4 DEF LoadToAnalyze
    <3>2. Loaded.status \in Collecting
      BY <1>3, <2>1, <2>4 DEF SoundSession, Collecting, Session, Statuses
    <3> QED
      BY <1>1, <2>1, <2>4, <3>1, <3>2, WorkOnQuietly
  <2> QED
    BY <2>2, <2>3, <2>4
<1> QED
  BY <1>2, <1>3

LEMMA LoadToPatchKeeps ==
    ASSUME HInv, IInv', NEW r \in Requests, LoadToPatch(r)
    PROVE  HInv'
<1>1. pc[r] \in Inside /\ job[r].call = "patch" /\ UNCHANGED <<store, opened>>
  BY DEF LoadToPatch, Load, Inside
<1>2. CASE ~(Found(r) /\ Closable(Loaded) /\ ~Loaded.patch_used)
  BY <1>1, <1>2, RefuseQuietly DEF LoadToPatch
<1>3. CASE Found(r) /\ Closable(Loaded) /\ ~Loaded.patch_used
  <2>1. PICK keys \in SUBSET Loaded.keywords : StartSave(r, Patched(Loaded, keys))
    BY <1>3 DEF LoadToPatch
  <2>2. /\ Loaded = store /\ Loaded \in Session /\ store # None
        /\ SoundSession(Loaded) /\ History(Loaded)
    BY <1>3, LoadedPast DEF Found
  <2>3. Patched(Loaded, keys) \in Session
    BY <1>3, <2>2, PatchedSound
  <2>4. Edited(job[r], Loaded, Patched(Loaded, keys)) /\ History(Patched(Loaded, keys))
    BY <1>1, <1>3, <2>2, PatchedEdited
  <2> QED
    BY <1>1, <2>1, <2>2, <2>3, <2>4, StartSaveQuietly
<1> QED
  BY <1>2, <1>3

\* What a close shows is the record it has just read.
LEMMA LoadToRecommendKeeps ==
    ASSUME HInv, IInv', NEW r \in Requests, LoadToRecommend(r)
    PROVE  HInv'
<1>1. /\ pc[r] \in Inside /\ pc[r] # "idle" /\ job[r].call = "close"
      /\ UNCHANGED <<store, opened>>
  BY DEF LoadToRecommend, Load, Inside
<1>2. CASE ~(Found(r) /\ Closable(Loaded))
  BY <1>1, <1>2, RefuseQuietly DEF LoadToRecommend
<1>3. CASE Found(r) /\ Closable(Loaded)
  <2>1. /\ shown' = [shown EXCEPT ![r] = PayloadOf(Loaded)]
        /\ pc' = [pc EXCEPT ![r] = "recommend"]
        /\ UNCHANGED <<job, copy, answered>>
    BY <1>3 DEF LoadToRecommend, GoTo
  <2>2. /\ Loaded = store /\ store \in Session /\ store # None
        /\ SoundSession(store) /\ History(store) /\ store.gen = opened
    BY <1>3, LoadedPast DEF Found, HInv
  <2>3. store.status \notin Collecting
    BY <1>3, <2>2 DEF Closable, SoundSession, Collecting, Session, Statuses
  <2>4. /\ shown'[r] = PayloadOf(store) /\ pc'[r] = "recommend"
        /\ \A q \in Requests \ {r} : pc'[q] = pc[q] /\ shown'[q] = shown[q]
    BY <2>1, <2>2 DEF HInv, IInv, TypeOK
  <2>5. ShownStands(shown[r])'
    <3>1. PayloadOf(store).gen = opened /\ opened \in Nat
      BY <2>2 DEF PayloadOf, HInv, IInv, TypeOK
    <3>2. PayloadOf(store)' = PayloadOf(store)
      BY <1>1 DEF PayloadOf, TurnCount
    <3>3. store' = store /\ opened' = opened /\ store # None /\ store.gen = opened
      BY <1>1, <2>2
    <3>4. PayloadOf(store).gen = store.gen
      BY DEF PayloadOf
    <3> QED
      BY <2>3, <2>4, <3>1, <3>2, <3>3, <3>4 DEF ShownStands
  <2>6. InHand(r)'
    BY <1>1, <2>1, <2>4, <2>5, CallKnown DEF InHand
  <2>7. (copy[r] # None => History(copy[r]))'
    BY <2>1 DEF HInv, History, TurnCount, TooSparse
  <2> QED
    BY <1>1, <2>1, <2>4, <2>6, <2>7, QuietStep, SameAnswers DEF HInv
<1> QED
  BY <1>2, <1>3

LEMMA LoadToCloseKeeps ==
    ASSUME HInv, IInv', NEW r \in Requests, LoadToClose(r)
    PROVE  HInv'
<1>1. /\ pc[r] \in Inside /\ job[r].call = "close" /\ shown[r] # None
      /\ UNCHANGED <<store, opened>>
  BY DEF LoadToClose, Load, Inside
<1>2. CASE ~(Found(r) /\ Closable(Loaded))
  BY <1>1, <1>2, RefuseQuietly DEF LoadToClose
<1>3. CASE Found(r) /\ Closable(Loaded)
  <2>1. /\ Loaded = store /\ Loaded \in Session /\ store # None
        /\ SoundSession(Loaded) /\ History(Loaded)
    BY <1>3, LoadedPast DEF Found
  <2>2. Closed(Loaded) \in Session
    BY <1>3, <2>1, ClosedSound
  <2>3. Edited(job[r], Loaded, Closed(Loaded)) /\ History(Closed(Loaded))
    BY <1>1, <1>3, <2>1, ClosedEdited
  <2>4. StartSave(r, Closed(Loaded))
    BY <1>3 DEF LoadToClose
  <2> QED
    BY <1>1, <2>1, <2>2, <2>3, <2>4, StartSaveQuietly
<1> QED
  BY <1>2, <1>3

LEMMA GreetKeeps ==
    ASSUME HInv, IInv', NEW r \in Requests, Greet(r)
    PROVE  HInv'
<1> DEFINE s == [copy[r] EXCEPT !.idle = 0]
<1>1. /\ pc[r] = "model" /\ pc[r] \in Inside /\ job[r].call = "create"
      /\ UNCHANGED <<store, opened>> /\ StartSave(r, s)
  BY DEF Greet, Inside
<1>2. /\ copy[r] \in Session /\ SoundSession(copy[r]) /\ History(copy[r])
      /\ Fresh(copy[r]) /\ (store # None => Expired(store))
  BY <1>1 DEF HInv, IInv, TypeOK, SoundHandler, InHand
<1>3. s \in Session /\ Fresh(s) /\ History(s)
  BY <1>2, GreetingSound, GreetedPast
<1> HIDE DEF s
<1> QED
  BY <1>1, <1>2, <1>3, StartSaveQuietly

LEMMA CompleteTurnKeeps ==
    ASSUME HInv, IInv', NEW r \in Requests, NEW tired \in BOOLEAN, NEW tired_after \in BOOLEAN,
           NEW level \in Outcomes, CompleteTurn(r, tired, level, tired_after)
    PROVE  HInv'
<1> DEFINE s == copy[r]
           m == job[r].message
           wrap == WrapReason(s, tired)
           done == TurnDone(s, m, wrap, level, tired_after)
           t == IF job[r].call = "send" THEN done ELSE [done EXCEPT !.last_user_message_id = m]
<1>1. /\ pc[r] = "model" /\ pc[r] \in Inside /\ pc[r] # "idle"
      /\ job[r].call \in {"send", "stream"}
      /\ UNCHANGED <<store, opened>> /\ StartSave(r, t)
  BY DEF CompleteTurn, Inside
<1>2. /\ s \in Session /\ SoundSession(s) /\ History(s) /\ s.status = "active"
      /\ s = store /\ store # None
  BY <1>1 DEF HInv, IInv, TypeOK, SoundHandler, CopyIsCurrent
<1>3. /\ job[r] \in Job /\ job[r].call \in Calls
      /\ job[r].call = "send" => m = None
      /\ job[r].call = "stream" => m \in Messages
  BY <1>1, CallKnown
<1>4. job[r].call = "stream" => m # s.last_user_message_id
  BY <1>1 DEF HInv, InHand
<1>5. m \in Messages \cup {None} /\ level \in Levels
  BY <1>3, ChatConstants DEF Job
<1>6. done \in Session /\ SoundSession(done) /\ TurnCount(done) = TurnCount(s) + 1
  BY <1>2, <1>5, TurnDoneSound
<1>7. t \in Session
  <2> HIDE DEF done, m
  <2>1. CASE job[r].call = "send"
    BY <1>6, <2>1
  <2>2. CASE job[r].call = "stream"
    <3>1. m \in Messages /\ t = [done EXCEPT !.last_user_message_id = m]
      BY <1>3, <2>2
    <3> QED
      BY <1>6, <3>1 DEF Session
  <2> QED
    BY <1>1, <2>1, <2>2
<1>8. job[r].call = "send" => ~OneAnswerPath
  BY <1>3 DEF OneAnswerPath
<1>9. Edited(job[r], s, t) /\ History(t) /\ t.turns[TurnCount(t)] = m
  BY <1>1, <1>2, <1>3, <1>4, <1>6, <1>7, <1>8, TurnEdited
<1> HIDE DEF t, done
<1> QED
  BY <1>1, <1>2, <1>7, <1>9, StartSaveQuietly

LEMMA FinishAnalysisKeeps ==
    ASSUME HInv, IInv', NEW r \in Requests, NEW keys \in SUBSET Keywords, FinishAnalysis(r, keys)
    PROVE  HInv'
<1> DEFINE s == copy[r]
<1>1. /\ pc[r] = "model" /\ pc[r] \in Inside /\ job[r].call = "analyze"
      /\ UNCHANGED <<store, opened>> /\ StartSave(r, Analyzed(s, keys))
  BY DEF FinishAnalysis, Inside
<1>2. /\ s \in Session /\ SoundSession(s) /\ History(s) /\ s = store /\ store # None
      /\ s.status \in Collecting /\ ~TooSparse(s)
  BY <1>1 DEF HInv, IInv, TypeOK, SoundHandler, CopyIsCurrent, InHand
<1>3. Analyzed(s, keys) \in Session
  BY <1>2, AnalyzedSound
<1>4. Edited(job[r], s, Analyzed(s, keys)) /\ History(Analyzed(s, keys))
  BY <1>1, <1>2, AnalyzedEdited
<1> QED
  BY <1>1, <1>2, <1>3, <1>4, StartSaveQuietly

\* The room is empty: nothing shown before is of a session still to be seen.
LEMMA DeleteSessionKeeps ==
    ASSUME HInv, IInv', NEW r \in Requests, DeleteSession(r)
    PROVE  HInv'
<1>1. /\ holder = r /\ store' = None /\ opened' = opened /\ answered' = answered
      /\ pc' = [pc EXCEPT ![r] = "idle"]
      /\ job' = [job EXCEPT ![r] = None]
      /\ copy' = [copy EXCEPT ![r] = None]
      /\ shown' = [shown EXCEPT ![r] = None]
  BY DEF DeleteSession, Refuse, Leave, GoTo, HInv, IInv, SoundHandler, Inside
<1>2. /\ pc'[r] = "idle" /\ job'[r] = None /\ copy'[r] = None /\ shown'[r] = None
      /\ \A q \in Requests \ {r} : /\ pc'[q] = pc[q] /\ job'[q] = job[q]
                                   /\ copy'[q] = copy[q] /\ shown'[q] = shown[q]
  BY <1>1 DEF HInv, IInv, TypeOK
<1>3. ASSUME NEW q \in Requests \ {r}
      PROVE  InHand(q)' /\ (copy[q] # None => History(copy[q]))'
  <2>1. store # None /\ store.status \in Collecting
    BY DEF DeleteSession, HInv, InHand
  <2>2. shown[q] # None => ShownStands(shown[q])
    BY DEF HInv, InHand
  <2>3. shown[q] # None => Expired(shown[q]) /\ shown[q].gen <= opened
    BY <2>1, <2>2 DEF ShownStands
  <2>4. (shown[q] # None => ShownStands(shown[q])')
    BY <1>1, <1>2, <2>3 DEF ShownStands, Expired
  <2> QED
    BY <1>1, <1>2, <2>4, OthersInHand
<1>4. InHand(r)' /\ (copy[r] # None => History(copy[r]))'
  BY <1>2 DEF InHand
<1>5. AnswersStand'
  BY <1>1 DEF HInv, AnswersStand, RetryGetsItsReply
<1>6. (\A q \in Requests : InHand(q) /\ (copy[q] # None => History(copy[q])))'
  BY <1>3, <1>4
<1> QED
  BY <1>1, <1>5, <1>6 DEF HInv

\* What a save other than the first of a session does to the record: the turns
\* stay, and a session that is past its turns keeps what a close may have shown.
LEMMA EditKeeps ==
    ASSUME NEW s \in Session, NEW t \in Session, NEW j \in Job, Edited(j, s, t)
    PROVE  /\ t.gen = s.gen
           /\ TurnCount(s) \in Nat /\ TurnCount(t) \in Nat /\ TurnCount(s) <= TurnCount(t)
           /\ \A i \in 1 .. TurnCount(s) : t.turns[i] = s.turns[i]
           /\ s.status \notin Collecting =>
                 t.status \notin Collecting /\ PayloadOf(t) = PayloadOf(s)
<1>1. TurnCount(s) \in Nat /\ s.turns \in Seq(Messages \cup {None})
  BY DEF TurnCount, Session
<1>2. CASE TookTurn(s, t, j.message)
  <2>1. s.status \in Collecting /\ t.turns = Append(s.turns, j.message)
    BY <1>2 DEF TookTurn, Collecting
  <2>2. j.message \in Messages \cup {None}
    BY DEF Job
  <2> QED
    BY <1>1, <2>1, <2>2, AppendProperties DEF Edited, TurnCount
<1>3. CASE SameTurns(s, t) /\ ~TookTurn(s, t, j.message)
  <2>1. /\ t.turns = s.turns /\ t.level = s.level /\ t.gen = s.gen
        /\ t.idle = s.idle /\ t.age = s.age
    BY <1>3 DEF SameTurns, Edited
  <2>2. s.status \notin Collecting => t.status \notin Collecting
    BY <1>3 DEF Edited, GotAnalysis, GotCorrection, GotClosed, LooksTheSame, Collecting
  <2> QED
    BY <1>1, <2>1, <2>2 DEF TurnCount, PayloadOf
<1> QED
  BY <1>2, <1>3 DEF Edited

LEMMA SaveKeeps ==
    ASSUME HInv, IInv', NEW r \in Requests, Save(r)
    PROVE  HInv'
<1>1. /\ pc[r] = "save" /\ pc[r] # "idle" /\ holder = r
      /\ store' = copy[r] /\ opened' = copy[r].gen
      /\ answered' = (IF job[r].call = "create" THEN [m \in Messages |-> {}] ELSE answered)
      /\ pc' = [pc EXCEPT ![r] = "saved"]
      /\ UNCHANGED <<job, copy, shown>>
  BY DEF Save, GoTo, HInv, IInv, SoundHandler, Inside
<1>2. /\ copy[r] \in Session /\ copy[r] # None /\ History(copy[r])
      /\ InHand(r) /\ opened \in Nat
      /\ job[r] \in Job
  BY <1>1, CallKnown DEF HInv, IInv, TypeOK, SoundHandler
<1>3. /\ pc'[r] = "saved"
      /\ \A q \in Requests \ {r} : pc'[q] = pc[q]
  BY <1>1 DEF HInv, IInv, TypeOK
<1>4. /\ \A q \in Requests : shown[q] # None => ShownStands(shown[q])'
      /\ opened' >= opened
      /\ AnswersStand'
  <2>1. CASE job[r].call = "create"
    <3>1. copy[r].gen = opened + 1
      BY <1>1, <1>2, <2>1 DEF InHand, Fresh
    <3>2. ASSUME NEW q \in Requests, shown[q] # None
          PROVE  ShownStands(shown[q])'
      <4>1. shown[q].gen <= opened /\ shown[q].gen \in Nat
        BY <3>2 DEF HInv, InHand, ShownStands, IInv, TypeOK, Payload
      <4>2. ShownStands(shown[q]) /\ (store # None => Expired(store))
        BY <1>1, <1>2, <2>1, <3>2 DEF HInv, InHand
      <4>3. Expired(shown[q])
        BY <4>2 DEF ShownStands, PayloadOf, Expired
      <4> QED
        BY <1>1, <1>2, <3>1, <4>1, <4>3 DEF ShownStands, Expired
    <3>3. AnswersStand'
      BY <1>1, <2>1 DEF AnswersStand, RetryGetsItsReply
    <3> QED
      BY <1>1, <1>2, <3>1, <3>2, <3>3
  <2>2. CASE job[r].call # "create"
    <3>1. store \in Session /\ store # None /\ store.gen = opened /\ Edited(job[r], store, copy[r])
      BY <1>1, <1>2, <2>2 DEF InHand, HInv, IInv, TypeOK
    <3> DEFINE s == store
               t == copy[r]
    <3>2. /\ t.gen = s.gen
          /\ TurnCount(s) \in Nat /\ TurnCount(t) \in Nat /\ TurnCount(s) <= TurnCount(t)
          /\ \A i \in 1 .. TurnCount(s) : t.turns[i] = s.turns[i]
          /\ s.status \notin Collecting =>
                t.status \notin Collecting /\ PayloadOf(t) = PayloadOf(s)
      BY <1>2, <3>1, EditKeeps
    <3>3. opened' = opened
      BY <1>1, <3>1, <3>2
    <3>4. ASSUME NEW q \in Requests, shown[q] # None
          PROVE  ShownStands(shown[q])'
      <4>1. ShownStands(shown[q])
        BY <3>4 DEF HInv, InHand
      <4>2. PayloadOf(store)' = PayloadOf(t)
        BY <1>1 DEF PayloadOf, TurnCount
      <4>3. shown'[q] = shown[q] /\ store' = t /\ t # None
        BY <1>1, <1>2
      <4> QED
        BY <3>1, <3>2, <3>3, <4>1, <4>2, <4>3 DEF ShownStands, Expired
    <3>5. AnswersStand'
      <4>1. answered' = answered
        BY <1>1, <2>2
      <4>2. ASSUME NEW m \in Messages, NEW a \in answered[m]
            PROVE  a.turn \in 1 .. TurnCount(t) /\ t.turns[a.turn] = a.reply
        <5>1. a.turn \in 1 .. TurnCount(s) /\ s.turns[a.turn] = a.reply
          BY <3>1, <4>2 DEF HInv, AnswersStand
        <5> QED
          BY <3>2, <5>1
      <4>3. store' = t
        BY <1>1
      <4>4. OneAnswerPath => RetryGetsItsReply'
        BY <4>1 DEF HInv, AnswersStand, RetryGetsItsReply
      <4> QED
        BY <4>1, <4>2, <4>3, <4>4 DEF AnswersStand, TurnCount
    <3> QED
      BY <1>2, <3>3, <3>4, <3>5
  <2> QED
    BY <2>1, <2>2
<1>5. ASSUME NEW q \in Requests \ {r}
      PROVE  InHand(q)' /\ (copy[q] # None => History(copy[q]))'
  BY <1>1, <1>3, <1>4, OthersInHand
<1>6. InHand(r)'
  BY <1>1, <1>2, <1>3, <1>4 DEF InHand, TurnCount
<1>7. (copy[r] # None => History(copy[r]))' /\ (store # None => History(store))'
  BY <1>1, <1>2 DEF History, TurnCount, TooSparse
<1>8. store'.gen = opened'
  BY <1>1
<1>9. (\A q \in Requests : InHand(q) /\ (copy[q] # None => History(copy[q])))'
  BY <1>5, <1>6, <1>7
<1> QED
  BY <1>4, <1>7, <1>8, <1>9 DEF HInv

\* A stream answers with the turn it has just recorded, the reply to its message.
LEMMA AnswerKeeps ==
    ASSUME HInv, IInv', NEW r \in Requests, Answer(r)
    PROVE  HInv'
<1>1. pc[r] = "saved" /\ pc[r] # "idle" /\ Leave(r) /\ UNCHANGED <<store, opened>>
  BY DEF Answer
<1>2. CASE job[r].call # "stream"
  <2>1. answered' = answered
    BY <1>2 DEF Answer
  <2> QED
    BY <1>1, <2>1, LeaveQuietly, SameAnswers DEF HInv
<1>3. CASE job[r].call = "stream"
  <2>1. /\ copy[r] = store /\ store \in Session /\ store # None
        /\ TurnCount(store) \in Nat /\ TurnCount(store) > 0
        /\ store.turns[TurnCount(store)] = job[r].message
    BY <1>1, <1>3 DEF HInv, InHand, IInv, TypeOK, SoundHandler, TurnCount, Session
  <2>2. job[r].message \in Messages
    BY <1>1, <1>3, CallKnown
  <2>3. \A m \in Messages : \A a \in answered'[m] :
           a \in answered[m] \/ (m = job[r].message /\ a = ResponseOf(store))
    BY <1>3, <2>1, <2>2 DEF Answer, HInv, IInv, TypeOK
  <2>4. /\ ResponseOf(store).turn = TurnCount(store)
        /\ ResponseOf(store).reply = job[r].message
    BY <2>1 DEF ResponseOf
  <2>5. ASSUME NEW m \in Messages, NEW a \in answered'[m]
        PROVE  a.turn \in 1 .. TurnCount(store) /\ store.turns[a.turn] = a.reply
    BY <2>1, <2>3, <2>4 DEF HInv, AnswersStand
  <2>6. OneAnswerPath => \A m \in Messages : \A a \in answered'[m] : a.reply = m
    BY <2>3, <2>4 DEF HInv, AnswersStand, RetryGetsItsReply
  <2>7. AnswersStand'
    BY <1>1, <2>5, <2>6 DEF AnswersStand, RetryGetsItsReply, TurnCount
  <2> QED
    BY <1>1, <2>7, LeaveQuietly
<1> QED
  BY <1>2, <1>3

-----------------------------------------------------------------------------
(* The clients, the process, the clock. *)

LEMMA CallArrives ==
    ASSUME HInv, NEW r \in Requests, NEW c \in Calls, NEW u \in Users,
           NEW m \in Messages \cup {None}, Arrive(r, c, u, m)
    PROVE  /\ job' \in [Requests -> Job \cup {None}]
           /\ job'[r].call = c /\ job'[r].message = m
           /\ \A q \in Requests \ {r} : job'[q] = job[q]
           /\ UNCHANGED <<store, opened, copy, shown, answered>>
<1>1. [call |-> c, user |-> u, message |-> m] \in Job
  BY ChatConstants DEF Job
<1> QED
  BY <1>1 DEF Arrive, HInv, IInv, TypeOK

LEMMA QueuedCallKeeps ==
    ASSUME HInv, IInv', NEW r \in Requests, NEW u \in Users, NEW c \in Calls, QueuedCall(r, c, u)
    PROVE  HInv'
<1>1. Arrive(r, c, u, None) /\ Enter(r) /\ c # "stream"
  BY DEF QueuedCall
<1> QED
  BY <1>1, CallArrives, EnterQuietly

LEMMA SendCallKeeps ==
    ASSUME HInv, IInv', NEW r \in Requests, NEW u \in Users, SendCall(r, u)
    PROVE  HInv'
<1>1. Arrive(r, "send", u, None) /\ Enter(r) /\ "send" \in Calls
  BY DEF SendCall, Arrive
<1> QED
  BY <1>1, CallArrives, EnterQuietly

LEMMA StreamCallKeeps ==
    ASSUME HInv, IInv', NEW r \in Requests, NEW u \in Users, NEW m \in Messages, StreamCall(r, u, m)
    PROVE  HInv'
<1>1. /\ Arrive(r, "stream", u, m) /\ "stream" \in Calls
      /\ pc' = [pc EXCEPT ![r] = "confirm"]
  BY DEF StreamCall, Arrive, GoTo
<1>2. /\ pc' \in [Requests -> Points] /\ pc'[r] = "confirm"
      /\ \A q \in Requests \ {r} : pc'[q] = pc[q]
  BY <1>1 DEF HInv, IInv, TypeOK, Points
<1> QED
  BY <1>1, <1>2, CallArrives, MoveOnQuietly

LEMMA CrashKeeps ==
    ASSUME HInv, IInv', Crash
    PROVE  HInv'
<1>1. \A r \in Requests : /\ pc'[r] = "idle" /\ job'[r] = None
                          /\ copy'[r] = None /\ shown'[r] = None
  BY DEF Crash
<1>2. (\A r \in Requests : InHand(r) /\ (copy[r] # None => History(copy[r])))'
  BY <1>1 DEF InHand
<1>3. (store # None => store.gen = opened /\ History(store))'
  BY DEF Crash, HInv, History, TurnCount, TooSparse
<1>4. AnswersStand'
  BY SameAnswers DEF Crash, HInv
<1> QED
  BY <1>2, <1>3, <1>4 DEF HInv

\* A session and what a handler makes of it grow old together.
LEMMA OlderTogether ==
    ASSUME NEW s \in Session, NEW t \in Session, NEW j, Edited(j, s, t)
    PROVE  Edited(j, Older(s), Older(t))
<1>1. IdleTtl \in Nat /\ s.idle \in Nat /\ t.idle \in Nat
  BY ChatConstants DEF Session
<1> DEFINE a == Older(s)
           b == Older(t)
<1>2. /\ a.gen = s.gen /\ a.turns = s.turns /\ a.status = s.status /\ a.level = s.level
      /\ a.keywords = s.keywords /\ a.patch_used = s.patch_used
      /\ a.idle = Smaller(s.idle + 1, IdleTtl) /\ a.age = Smaller(s.age + 1, MaxLifetime)
      /\ b.gen = t.gen /\ b.turns = t.turns /\ b.status = t.status /\ b.level = t.level
      /\ b.keywords = t.keywords /\ b.patch_used = t.patch_used
      /\ b.idle = Smaller(t.idle + 1, IdleTtl) /\ b.age = Smaller(t.age + 1, MaxLifetime)
  BY OlderFields
<1>3. t.idle <= s.idle => Smaller(t.idle + 1, IdleTtl) <= Smaller(s.idle + 1, IdleTtl)
  BY <1>1 DEF Smaller
<1> HIDE DEF a, b
<1>4. a.gen = b.gen /\ a.age = b.age
  BY <1>2 DEF Edited
<1>5. TookTurn(s, t, j.message) => TookTurn(a, b, j.message)
  BY <1>2, <1>3 DEF TookTurn
<1>6. SameTurns(s, t) => SameTurns(a, b)
  BY <1>2 DEF SameTurns
<1>7. /\ GotAnalysis(s, t) => GotAnalysis(a, b)
      /\ GotCorrection(s, t) => GotCorrection(a, b)
      /\ GotClosed(s, t) => GotClosed(a, b)
      /\ LooksTheSame(s, t) => LooksTheSame(a, b)
  BY <1>2 DEF GotAnalysis, GotCorrection, GotClosed, LooksTheSame, TurnCount
<1>8. Edited(j, a, b)
  BY <1>4, <1>5, <1>6, <1>7 DEF Edited
<1> QED
  BY <1>8 DEF a, b

LEMMA OlderPast ==
    ASSUME NEW s \in Session, History(s)
    PROVE  History(Older(s))
<1>1. /\ Older(s).turns = s.turns /\ Older(s).level = s.level /\ Older(s).status = s.status
      /\ Older(s).patch_used = s.patch_used
      /\ Older(s).last_user_message_id = s.last_user_message_id
  BY OlderFields
<1>2. /\ s.status \in Collecting => ~s.patch_used
      /\ s.status \notin Collecting => ~TooSparse(s)
  BY DEF History
<1> HIDE DEF History
<1> QED
  BY <1>1, <1>2, SamePast

LEMMA TickKeeps ==
    ASSUME HInv, IInv', Tick
    PROVE  HInv'
<1>1. /\ store' = Older(store) /\ Older(None) = None
      /\ \A r \in Requests : copy'[r] = Older(copy[r])
      /\ \A r \in Requests : shown'[r] = Older(shown[r])
      /\ UNCHANGED <<opened, pc, job, answered>>
  BY DEF Tick, lockVars, Older
<1>2. /\ store \in Session \cup {None} /\ (store # None => store.gen = opened /\ History(store))
      /\ \A r \in Requests : copy[r] \in Session \cup {None} /\ (copy[r] # None => History(copy[r]))
  BY DEF HInv, IInv, TypeOK
<1>3. ASSUME NEW s \in Session, s # None
      PROVE  /\ Older(s) # None
             /\ Older(s).gen = s.gen /\ Older(s).turns = s.turns /\ Older(s).status = s.status
             /\ Older(s).level = s.level /\ Older(s).keywords = s.keywords
             /\ Older(s).patch_used = s.patch_used
             /\ Older(s).last_user_message_id = s.last_user_message_id
             /\ Expired(s) => Expired(Older(s))
             /\ History(s) => History(Older(s))
             /\ PayloadOf(Older(s)) = Older(PayloadOf(s))
             /\ Fresh(s) => Fresh(Older(s))
             /\ TooSparse(Older(s)) <=> TooSparse(s)
             /\ TurnCount(Older(s)) = TurnCount(s)
  <2>1. /\ Older(s) # None
        /\ Older(s).gen = s.gen /\ Older(s).turns = s.turns /\ Older(s).status = s.status
        /\ Older(s).level = s.level /\ Older(s).keywords = s.keywords
        /\ Older(s).patch_used = s.patch_used
        /\ Older(s).last_user_message_id = s.last_user_message_id
        /\ Expired(s) => Expired(Older(s))
    BY OlderFields
  <2>2. History(s) => History(Older(s))
    BY OlderPast
  <2>3. PayloadOf(Older(s)) = Older(PayloadOf(s))
    <3>1. PayloadOf(s) \in Payload
      BY DEF PayloadOf, Payload, Session, TurnCount
    <3>2. /\ Older(PayloadOf(s)) = [PayloadOf(s) EXCEPT
                 !.idle = Smaller(PayloadOf(s).idle + 1, IdleTtl),
                 !.age = Smaller(PayloadOf(s).age + 1, MaxLifetime)]
      BY <3>1, OlderPayload
    <3>3. /\ Older(s).idle = Smaller(s.idle + 1, IdleTtl)
          /\ Older(s).age = Smaller(s.age + 1, MaxLifetime)
      BY OlderFields
    <3> QED
      BY <2>1, <3>2, <3>3 DEF PayloadOf, TurnCount
  <2> QED
    BY <2>1, <2>2, <2>3 DEF Fresh, TooSparse, TurnCount
<1>4. store' # None <=> store # None
  BY <1>1, <1>2, <1>3
<1>5. ASSUME NEW r \in Requests, shown[r] # None, shown[r] \in Payload, ShownStands(shown[r])
      PROVE  ShownStands(shown[r])'
  <2> DEFINE p == shown[r]
  <2>1. store # None => /\ store' = Older(store)
                        /\ PayloadOf(store)' = Older(PayloadOf(store))
                        /\ store'.gen = store.gen /\ store'.status = store.status
    <3>1. PayloadOf(store)' = PayloadOf(store')
      BY DEF PayloadOf, TurnCount
    <3> QED
      BY <1>1, <1>2, <1>3, <3>1
  <2>2. Older(p).gen = p.gen /\ (Expired(p) => Expired(Older(p)))
    BY <1>5, OlderPayload
  <2>3. shown'[r] = Older(p) /\ (Expired(shown[r])' <=> Expired(Older(p)))
    BY <1>1 DEF Expired
  <2>4. /\ p.gen <= opened
        /\ ~Expired(p) => store # None /\ store.gen = p.gen
        /\ (store # None /\ store.gen = p.gen) =>
              store.status \notin Collecting /\ p = PayloadOf(store)
    BY <1>5 DEF ShownStands
  <2>5. /\ shown'[r].gen <= opened'
        /\ ~Expired(shown[r])' => store' # None /\ store'.gen = shown'[r].gen
    BY <1>1, <1>4, <2>1, <2>2, <2>3, <2>4
  <2>6. (store' # None /\ store'.gen = shown'[r].gen) =>
           store'.status \notin Collecting /\ shown'[r] = PayloadOf(store)'
    BY <1>4, <2>1, <2>2, <2>3, <2>4
  <2> QED
    BY <2>5, <2>6 DEF ShownStands
<1>6. ASSUME NEW r \in Requests
      PROVE  InHand(r)' /\ (copy[r] # None => History(copy[r]))'
  <2>1. InHand(r) /\ SoundHandler(r)
    BY DEF HInv, IInv
  <2>2. copy[r] \in Session \cup {None} /\ copy'[r] = Older(copy[r])
    BY <1>1, <1>2
  <2>3. /\ shown'[r] = Older(shown[r]) /\ pc'[r] = pc[r] /\ job'[r] = job[r]
        /\ shown'[r] # None <=> shown[r] # None
    <3>1. shown[r] \in Payload \cup {None}
      BY DEF HInv, IInv, TypeOK
    <3> QED
      BY <1>1, <3>1, OlderPayload
  <2>4. (shown[r] # None => ShownStands(shown[r]))'
    <3>1. shown[r] # None => ShownStands(shown[r]) /\ shown[r] \in Payload
      BY <2>1 DEF InHand, HInv, IInv, TypeOK
    <3> QED
      BY <1>5, <2>3, <3>1
  <2>5. CASE copy[r] = None
    <3>1. copy'[r] = None
      BY <1>1, <2>2, <2>5
    <3>2. pc[r] \notin {"model", "save", "saved"}
      BY <2>1, <2>5 DEF SoundHandler
    <3>3. pc[r] # "delete"
      BY <2>1, <2>5 DEF InHand
    <3> QED
      BY <2>1, <2>3, <2>4, <3>1, <3>2, <3>3 DEF InHand
  <2>6. CASE copy[r] # None
    <3> DEFINE c == copy[r]
               d == Older(copy[r])
    <3>1. /\ c \in Session /\ History(c)
          /\ d # None
          /\ d.gen = c.gen /\ d.turns = c.turns /\ d.status = c.status
          /\ d.last_user_message_id = c.last_user_message_id
          /\ History(d)
          /\ Fresh(c) => Fresh(d)
          /\ TooSparse(d) <=> TooSparse(c)
          /\ TurnCount(d) = TurnCount(c)
      BY <1>2, <1>3, <2>6
    <3>2. copy'[r] = d
      BY <2>2
    <3>3. pc[r] \in {"delete", "saved"} => copy'[r] = store'
      BY <1>1, <2>1, <2>2 DEF InHand
    <3>4. pc[r] = "delete" => store' # None /\ store'.status \in Collecting
      BY <1>1, <1>2, <1>3, <1>4, <2>1 DEF InHand
    <3>5. pc[r] \in {"model", "save"} /\ job[r].call = "create" =>
             Fresh(d) /\ (store' # None => Expired(store)')
      BY <1>1, <1>2, <1>3, <1>4, <2>1, <3>1 DEF InHand, Expired
    <3>6. pc[r] = "save" /\ job[r].call # "create" =>
             store' # None /\ Edited(job[r], store', d)
      <4> SUFFICES ASSUME pc[r] = "save", job[r].call # "create"
                   PROVE  store' # None /\ Edited(job[r], store', d)
        OBVIOUS
      <4>1. store # None /\ store \in Session /\ Edited(job[r], store, c)
        BY <1>2, <2>1 DEF InHand
      <4>2. Edited(job[r], Older(store), d)
        BY <3>1, <4>1, OlderTogether
      <4>3. store' = Older(store) /\ store' # None
        BY <1>1, <1>4, <4>1
      <4> HIDE DEF d
      <4> QED
        BY <4>2, <4>3
    <3> HIDE DEF d
    <3>7. InHand(r)'
      <4>1. (copy[r].turns[TurnCount(copy[r])])' = d.turns[TurnCount(d)]
        BY <3>2 DEF TurnCount
      <4>2. Fresh(copy[r])' <=> Fresh(d)
        BY <1>1, <3>2 DEF Fresh
      <4>3. Edited(job[r], store, copy[r])' <=> Edited(job[r], store', d)
        BY <2>3, <3>2 DEF Edited, TookTurn, SameTurns, GotAnalysis, GotCorrection, GotClosed,
                          LooksTheSame, TurnCount
      <4>4. TooSparse(copy[r])' <=> TooSparse(d)
        BY <3>2 DEF TooSparse, TurnCount
      <4> QED
        BY <2>1, <2>3, <2>4, <3>1, <3>2, <3>3, <3>4, <3>5, <3>6, <4>1, <4>2, <4>3, <4>4
           DEF InHand
    <3>8. (copy[r] # None => History(copy[r]))'
      BY <3>1, <3>2 DEF History, TurnCount, TooSparse
    <3> QED
      BY <3>7, <3>8
  <2> QED
    BY <2>5, <2>6
<1>7. (store # None => store.gen = opened /\ History(store))'
  <2>1. store # None => /\ History(Older(store)) /\ Older(store).gen = store.gen
    BY <1>2, <1>3
  <2> QED
    BY <1>1, <1>2, <1>4, <2>1 DEF History, TurnCount, TooSparse
<1>8. AnswersStand'
  <2>1. store # None => TurnCount(store)' = TurnCount(store) /\ store'.turns = store.turns
    BY <1>1, <1>2, <1>3 DEF TurnCount
  <2> QED
    BY <1>1, <1>4, <2>1 DEF HInv, AnswersStand, RetryGetsItsReply
<1> QED
  BY <1>6, <1>7, <1>8 DEF HInv

-----------------------------------------------------------------------------
(* The invariant and what it gives. *)

LEMMA InitHInv == Init => HInv
<1> SUFFICES ASSUME Init PROVE HInv
  OBVIOUS
<1>1. IInv
  BY InitIInv
<1> QED
  BY <1>1 DEF Init, HInv, InHand, AnswersStand, RetryGetsItsReply

LEMMA NextHInv == HInv /\ [Next]_vars => HInv'
<1> SUFFICES ASSUME HInv, [Next]_vars PROVE HInv'
  OBVIOUS
<1>0. IInv'
  BY NextIInv DEF HInv
<1>1. ASSUME NEW r \in Requests, Step(r)
      PROVE  HInv'
  <2>1. CASE ModelFails(r) \/ StoreFails(r)
    BY <1>0, <2>1, RefuseQuietly DEF ModelFails, StoreFails
  <2> QED
    BY <1>0, <1>1, <2>1, WakeKeeps, ConfirmTurnKeeps, OpenStreamKeeps, LoadToCreateKeeps,
       LoadToSendKeeps, LoadToStreamKeeps, LoadToAnalyzeKeeps, LoadToPatchKeeps,
       LoadToRecommendKeeps, LoadToCloseKeeps, RecommendedKeeps, GreetKeeps, CompleteTurnKeeps,
       FinishAnalysisKeeps, DeleteSessionKeeps, SaveKeeps, AnswerKeeps DEF Step
<1>2. ASSUME NEW r \in Requests, Client(r)
      PROVE  HInv'
  <2>1. CASE Disconnect(r)
    BY <1>0, <2>1, RefuseQuietly DEF Disconnect
  <2> QED
    BY <1>0, <1>2, <2>1, QueuedCallKeeps, SendCallKeeps, StreamCallKeeps DEF Client
<1>3. CASE Crash
  BY <1>0, <1>3, CrashKeeps
<1>4. CASE Tick
  BY <1>0, <1>4, TickKeeps
<1>5. CASE UNCHANGED vars
  <2>1. UNCHANGED <<store, opened, pc, job, copy, shown, answered>>
    BY <1>5 DEF vars
  <2>2. (store # None => store.gen = opened /\ History(store))'
    BY <2>1 DEF HInv, History, TurnCount, TooSparse
  <2>3. AnswersStand'
    BY <2>1, SameAnswers DEF HInv
  <2>4. ASSUME NEW r \in Requests
        PROVE  InHand(r)' /\ (copy[r] # None => History(copy[r]))'
    BY <2>1 DEF HInv, InHand, ShownStands, PayloadOf, TurnCount, TooSparse, Fresh, Expired,
               Edited, TookTurn, SameTurns, GotAnalysis, GotCorrection, GotClosed,
               LooksTheSame, History
  <2> QED
    BY <1>0, <2>2, <2>3, <2>4 DEF HInv
<1> QED
  BY <1>1, <1>2, <1>3, <1>4, <1>5 DEF Next

\* What a session remembers of its past, and what the handlers hold of it, is
\* right in every reachable state.
THEOREM HistoryInvariance == Spec => []HInv
<1> QED
  BY InitHInv, NextHInv, PTL DEF Spec

\* An answered turn stays in the record, at its place.
THEOREM AnsweredTurnsStay == Spec => []AnswersKept
<1>1. HInv => AnswersKept
  <2> SUFFICES ASSUME HInv, store # None, NEW m \in Messages, NEW a \in answered[m]
               PROVE  a.turn <= TurnCount(store) /\ store.turns[a.turn] = a.reply
    BY DEF AnswersKept
  <2>1. a.turn \in 1 .. TurnCount(store) /\ store.turns[a.turn] = a.reply
    BY DEF HInv, AnswersStand
  <2>2. TurnCount(store) \in Nat
    BY DEF HInv, IInv, TypeOK, Session, TurnCount
  <2> QED
    BY <2>1, <2>2
<1> QED
  BY <1>1, HistoryInvariance, PTL

\* No message is answered by two turns in a row.
THEOREM NoTurnTwice == Spec => []NoRepeatedTurn
<1>1. HInv => NoRepeatedTurn
  BY DEF HInv, History, NoRepeatedTurn
<1> QED
  BY <1>1, HistoryInvariance, PTL

\* In a room that is only written to by streams, a stream gets the reply to its
\* own message, also when it is answered from the record.
THEOREM OwnReply ==
    ASSUME OneAnswerPath
    PROVE  Spec => []RetryGetsItsReply
<1>1. HInv => RetryGetsItsReply
  BY DEF HInv, AnswersStand
<1> QED
  BY <1>1, HistoryInvariance, PTL

\* A close returns the recommendations of the session it closes, as it still is,
\* unless the one they were made from has expired and been followed by another.
THEOREM CloseShowsItsSession == Spec => []CloseMatchesRecommendation
<1>1. HInv => CloseMatchesRecommendation
  <2> SUFFICES ASSUME HInv, NEW r \in Requests, pc[r] \in {"save", "saved"},
                      job[r].call = "close"
               PROVE  \/ shown[r] = PayloadOf(copy[r])
                      \/ Expired(shown[r]) /\ shown[r].gen < copy[r].gen
    BY DEF CloseMatchesRecommendation
  <2>1. /\ InHand(r) /\ copy[r] \in Session /\ copy[r] # None
        /\ shown[r] # None /\ ShownStands(shown[r]) /\ shown[r] \in Payload
    BY DEF HInv, IInv, TypeOK, SoundHandler, InHand
  <2>2. store # None /\ copy[r].gen = store.gen /\ PayloadOf(copy[r]) = PayloadOf(store)
    <3>1. CASE pc[r] = "saved"
      BY <2>1, <3>1 DEF InHand
    <3>2. CASE pc[r] = "save"
      <4>1. store # None /\ Edited(job[r], store, copy[r])
        BY <2>1, <3>2 DEF InHand
      <4> QED
        BY <4>1 DEF Edited, SameTurns, PayloadOf, TurnCount
    <3> QED
      BY <3>1, <3>2
  <2>3. CASE store.gen = shown[r].gen
    BY <2>1, <2>2, <2>3 DEF ShownStands
  <2>4. CASE store.gen # shown[r].gen
    <3>1. store.gen = opened /\ opened \in Nat /\ shown[r].gen \in Nat
      BY <2>1, <2>2 DEF HInv, IInv, TypeOK, Payload
    <3>2. shown[r].gen <= opened /\ Expired(shown[r])
      BY <2>1, <2>4 DEF ShownStands
    <3> QED
      BY <2>2, <2>4, <3>1, <3>2
  <2> QED
    BY <2>3, <2>4
<1> QED
  BY <1>1, HistoryInvariance, PTL

-----------------------------------------------------------------------------
(* The record keeps the promise of SessionLifecycle: a save is one of its     *)
(* steps or shows nothing new, a deletion discards, a tick may expire, and    *)
(* every other step of the room leaves the record as it is.                   *)

\* A stored session shows a record.
LEMMA ViewType ==
    ASSUME NEW s \in Session
    PROVE  /\ View(s) # None
           /\ View(s) = [ gen |-> s.gen, status |-> s.status, turns |-> TurnCount(s),
                          keywords |-> s.keywords, patched |-> s.patch_used ]
<1>1. s # None
  BY ChatConstants
<1>2. View(s) = [ gen |-> s.gen, status |-> s.status, turns |-> TurnCount(s),
                  keywords |-> s.keywords, patched |-> s.patch_used ]
  BY <1>1 DEF View
<1>3. View(s) \in SessionView
  BY <1>2 DEF SessionView, Session, TurnCount
<1>4. None \notin SessionView
  BY ChatConstants
<1> QED
  BY <1>2, <1>3, <1>4

\* What is seen of one session, told from what is seen of another.
LEMMA ViewMoves ==
    ASSUME NEW s \in Session, NEW t \in Session, t.gen = s.gen
    PROVE  /\ t.keywords = s.keywords /\ t.patch_used = s.patch_used =>
                 View(t) = [View(s) EXCEPT !.turns = TurnCount(t), !.status = t.status]
           /\ TurnCount(t) = TurnCount(s) /\ t.patch_used = s.patch_used =>
                 View(t) = [View(s) EXCEPT !.status = t.status, !.keywords = t.keywords]
           /\ TurnCount(t) = TurnCount(s) /\ t.status = s.status =>
                 View(t) = [View(s) EXCEPT !.keywords = t.keywords, !.patched = t.patch_used]
<1> DEFINE v == View(s)
           x == [v EXCEPT !.turns = TurnCount(t)]
           y == [v EXCEPT !.status = t.status]
           z == [v EXCEPT !.keywords = t.keywords]
<1>1. /\ v = [ gen |-> s.gen, status |-> s.status, turns |-> TurnCount(s),
               keywords |-> s.keywords, patched |-> s.patch_used ]
      /\ View(t) = [ gen |-> t.gen, status |-> t.status, turns |-> TurnCount(t),
                     keywords |-> t.keywords, patched |-> t.patch_used ]
  BY ViewType
<1>2. /\ [v EXCEPT !.turns = TurnCount(t), !.status = t.status] = [x EXCEPT !.status = t.status]
      /\ [v EXCEPT !.status = t.status, !.keywords = t.keywords] =
            [y EXCEPT !.keywords = t.keywords]
      /\ [v EXCEPT !.keywords = t.keywords, !.patched = t.patch_used] =
            [z EXCEPT !.patched = t.patch_used]
  <2> HIDE DEF v
  <2> QED  OBVIOUS
<1> HIDE DEF v
<1>3. /\ x = [ gen |-> s.gen, status |-> s.status, turns |-> TurnCount(t),
               keywords |-> s.keywords, patched |-> s.patch_used ]
      /\ y = [ gen |-> s.gen, status |-> t.status, turns |-> TurnCount(s),
               keywords |-> s.keywords, patched |-> s.patch_used ]
      /\ z = [ gen |-> s.gen, status |-> s.status, turns |-> TurnCount(s), keywords |-> t.keywords,
               patched |-> s.patch_used ]
  BY <1>1
<1> HIDE DEF x, y, z
<1>4. /\ [x EXCEPT !.status = t.status] =
            [ gen |-> s.gen, status |-> t.status, turns |-> TurnCount(t),
              keywords |-> s.keywords, patched |-> s.patch_used ]
      /\ [y EXCEPT !.keywords = t.keywords] =
            [ gen |-> s.gen, status |-> t.status, turns |-> TurnCount(s), keywords |-> t.keywords,
              patched |-> s.patch_used ]
      /\ [z EXCEPT !.patched = t.patch_used] =
            [ gen |-> s.gen, status |-> s.status, turns |-> TurnCount(s),
              keywords |-> t.keywords, patched |-> t.patch_used ]
  BY <1>3
<1> QED
  BY <1>1, <1>2, <1>4 DEF v

LEMMA SameRecord ==
    ASSUME UNCHANGED <<store, opened>>
    PROVE  UNCHANGED Lifecycle!vars
BY DEF Lifecycle!vars, View, TurnCount, Expired

LEMMA FirstSaveOpens ==
    ASSUME HInv, NEW r \in Requests, Save(r), job[r].call = "create"
    PROVE  Lifecycle!Open
<1>1. pc[r] = "save" /\ store' = copy[r] /\ opened' = copy[r].gen
  BY DEF Save
<1>2. /\ copy[r] \in Session /\ Fresh(copy[r]) /\ (store # None => Expired(store))
  BY <1>1 DEF HInv, IInv, TypeOK, SoundHandler, InHand
<1>3. TurnCount(copy[r]) = 0
  BY <1>2, EmptySeq DEF Fresh, TurnCount
<1>4. View(store)' = View(copy[r])
  BY <1>1 DEF View, TurnCount
<1>5. /\ View(copy[r]) = [gen |-> opened', status |-> "active", turns |-> 0, keywords |-> {},
                         patched |-> FALSE]
      /\ opened' = opened + 1
  BY <1>1, <1>2, <1>3, ViewType DEF Fresh, Session
<1>6. store = None => View(store) = None
  BY DEF View
<1> QED
  BY <1>2, <1>4, <1>5, <1>6 DEF Lifecycle!Open

LEMMA LaterSaveMoves ==
    ASSUME HInv, NEW r \in Requests, Save(r), job[r].call # "create"
    PROVE  Lifecycle!Next \/ UNCHANGED Lifecycle!vars
<1> DEFINE s == store
           t == copy[r]
           j == job[r]
<1>1. pc[r] = "save" /\ store' = t /\ opened' = t.gen
  BY DEF Save
<1>2. /\ s \in Session /\ t \in Session /\ s # None /\ t # None
      /\ Edited(j, s, t) /\ SoundSession(s) /\ SoundSession(t)
      /\ j \in Job /\ t.gen = s.gen /\ opened' = opened
  BY <1>1, CallKnown DEF Edited, HInv, IInv, TypeOK, SoundHandler, InHand
<1>3. /\ View(store)' = View(t)
      /\ (store # None /\ Expired(store))' <=> Expired(t)
  BY <1>1, <1>2 DEF View, TurnCount, Expired
<1>4. /\ View(s) # None
      /\ View(s) = [ gen |-> s.gen, status |-> s.status, turns |-> TurnCount(s),
                     keywords |-> s.keywords, patched |-> s.patch_used ]
      /\ View(t) = [ gen |-> t.gen, status |-> t.status, turns |-> TurnCount(t),
                     keywords |-> t.keywords, patched |-> t.patch_used ]
  BY <1>2, ViewType
<1>5. CASE TookTurn(s, t, j.message)
  <2>1. /\ s.status = "active" /\ t.status \in Collecting
        /\ t.turns = Append(s.turns, j.message)
        /\ t.keywords = s.keywords /\ t.patch_used = s.patch_used
        /\ t.idle <= s.idle /\ t.age = s.age
    BY <1>2, <1>5 DEF TookTurn, Edited
  <2>2. TurnCount(t) = TurnCount(s) + 1 /\ TurnCount(s) \in Nat
    BY <1>2, <2>1, AppendProperties DEF TurnCount, Session, Job
  <2>3. Expired(t) => Expired(s)
    <3>1. /\ s.idle \in Nat /\ t.idle \in Nat /\ IdleTtl \in Nat
          /\ s.age \in Nat /\ MaxLifetime \in Nat
      BY <1>2, ChatConstants DEF Session
    <3> QED
      BY <2>1, <3>1 DEF Expired
  <2>4. /\ TurnCount(s) < MaxTurns
        /\ t.status = "active" => TurnCount(s) + 1 < MaxTurns
    BY <1>2, <2>1, <2>2 DEF SoundSession
  <2>5. View(t) = [View(s) EXCEPT !.turns = @ + 1, !.status = t.status]
    <3>1. View(s).turns + 1 = TurnCount(t)
      BY <1>4, <2>2
    <3>2. [View(s) EXCEPT !.turns = TurnCount(t), !.status = t.status] = View(t)
      BY <1>2, <2>1, ViewMoves
    <3> QED
      BY <3>1, <3>2
  <2>6. Lifecycle!Is("active") /\ View(s).turns = TurnCount(s)
    BY <1>4, <2>1 DEF Lifecycle!Is
  <2>7. Lifecycle!Turn
    BY <1>2, <1>3, <2>1, <2>3, <2>4, <2>5, <2>6 DEF Lifecycle!Turn, Collecting
  <2> QED
    BY <2>7 DEF Lifecycle!Next
<1>6. CASE SameTurns(s, t)
  <2>1. /\ t.turns = s.turns /\ t.idle = s.idle /\ t.age = s.age
        /\ TurnCount(t) = TurnCount(s)
    BY <1>2, <1>6 DEF SameTurns, Edited, TurnCount
  <2>2. Expired(t) <=> Expired(s)
    BY <2>1 DEF Expired
  <2>3. (store # None /\ Expired(store))' <=> (store # None /\ Expired(store))
    BY <1>2, <1>3, <2>2
  <2>4. CASE GotAnalysis(s, t)
    <3>1. /\ s.status \in Collecting /\ TurnCount(s) > 0 /\ t.status = "review"
          /\ t.patch_used = FALSE /\ s.patch_used = FALSE /\ t.keywords \in SUBSET Keywords
      BY <1>2, <2>4 DEF GotAnalysis, HInv, History, Session
    <3>2. View(t) = [View(s) EXCEPT !.status = "review", !.keywords = t.keywords]
      <4>1. t.patch_used = s.patch_used
        BY <3>1
      <4>2. View(t) = [View(s) EXCEPT !.status = t.status, !.keywords = t.keywords]
        BY <1>2, <2>1, <4>1, ViewMoves
      <4> QED
        BY <3>1, <4>2
    <3>3. /\ Lifecycle!Is("active") \/ Lifecycle!Is("input_locked")
          /\ View(s).turns > 0
      BY <1>4, <3>1 DEF Lifecycle!Is, Collecting
    <3>4. Lifecycle!Review
      BY <1>2, <1>3, <2>3, <3>1, <3>2, <3>3 DEF Lifecycle!Review
    <3> QED
      BY <3>4 DEF Lifecycle!Next
  <2>5. CASE GotCorrection(s, t)
    <3>1. /\ s.status = "review" /\ ~s.patch_used /\ t.status = "review"
          /\ t.patch_used = TRUE /\ t.keywords \in SUBSET s.keywords
      BY <1>2, <2>5 DEF GotCorrection, Session
    <3>2. View(t) = [View(s) EXCEPT !.keywords = t.keywords, !.patched = TRUE]
      <4>1. t.status = s.status
        BY <3>1
      <4>2. View(t) = [View(s) EXCEPT !.keywords = t.keywords, !.patched = t.patch_used]
        BY <1>2, <2>1, <4>1, ViewMoves
      <4> QED
        BY <3>1, <4>2
    <3>3. /\ Lifecycle!Is("review") /\ ~View(s).patched
          /\ View(s).keywords = s.keywords
      BY <1>4, <3>1 DEF Lifecycle!Is
    <3>4. Lifecycle!Correct
      BY <1>2, <1>3, <2>3, <3>1, <3>2, <3>3 DEF Lifecycle!Correct
    <3> QED
      BY <3>4 DEF Lifecycle!Next
  <2>6. CASE GotClosed(s, t)
    <3>1. /\ s.status = "review" /\ t.status = "closed"
          /\ t.keywords = s.keywords /\ t.patch_used = s.patch_used
      BY <2>6 DEF GotClosed
    <3>2. View(t) = [View(s) EXCEPT !.status = "closed"]
      BY <1>2, <1>4, <2>1, <3>1
    <3>3. Lifecycle!Close
      BY <1>2, <1>3, <1>4, <2>3, <3>1, <3>2 DEF Lifecycle!Close, Lifecycle!Is
    <3> QED
      BY <3>3 DEF Lifecycle!Next
  <2>7. CASE LooksTheSame(s, t)
    <3>1. View(t) = View(s)
      BY <1>2, <1>4, <2>1, <2>7 DEF LooksTheSame
    <3> QED
      BY <1>2, <1>3, <2>3, <3>1 DEF Lifecycle!vars
  <2> QED
    BY <1>2, <1>5, <2>4, <2>5, <2>6, <2>7 DEF Edited
<1> QED
  BY <1>2, <1>5, <1>6 DEF Edited

\* A session is thrown away only while it collects turns.
LEMMA DeletionDiscards ==
    ASSUME HInv, NEW r \in Requests, DeleteSession(r)
    PROVE  Lifecycle!Discard
<1>1. pc[r] = "delete" /\ store' = None /\ opened' = opened
  BY DEF DeleteSession
<1>2. store \in Session /\ store.status \in Collecting
  BY <1>1 DEF HInv, IInv, TypeOK, InHand
<1>3. View(store) # None /\ View(store).status = store.status
  BY <1>2, ViewType
<1>4. View(store)' = None
  BY <1>1 DEF View
<1> QED
  BY <1>1, <1>2, <1>3, <1>4 DEF Lifecycle!Discard, Lifecycle!Is, Collecting

\* Time changes nothing that is seen of a session but that it no longer counts.
LEMMA TickExpires ==
    ASSUME HInv, Tick
    PROVE  Lifecycle!Expire \/ UNCHANGED Lifecycle!vars
<1>1. /\ store' = Older(store) /\ store \in Session \cup {None} /\ Older(None) = None
      /\ opened' = opened
  BY DEF Tick, HInv, IInv, TypeOK, Older
<1>2. CASE store = None
  BY <1>1, <1>2, SameRecord
<1>3. CASE store # None
  <2>1. /\ Older(store) \in Session /\ Older(store) # None
        /\ Older(store).turns = store.turns /\ Older(store).status = store.status
        /\ Older(store).keywords = store.keywords /\ Older(store).gen = store.gen
        /\ Older(store).patch_used = store.patch_used
        /\ Expired(store) => Expired(Older(store))
    BY <1>1, <1>3, OlderFields
  <2>2. View(Older(store)) = View(store) /\ View(store) # None
    BY <1>1, <1>3, <2>1, ViewType DEF TurnCount
  <2>3. /\ View(store)' = View(Older(store))
        /\ (store # None /\ Expired(store))' <=> Expired(Older(store))
    BY <1>1, <2>1 DEF View, TurnCount, Expired
  <2>4. CASE Expired(Older(store))
    BY <1>1, <2>2, <2>3, <2>4 DEF Lifecycle!Expire
  <2>5. CASE ~Expired(Older(store))
    BY <1>1, <2>1, <2>2, <2>3, <2>5 DEF Lifecycle!vars
  <2> QED
    BY <2>4, <2>5
<1> QED
  BY <1>2, <1>3

\* The room implements SessionLifecycle: one session at a time, which collects
\* turns, is analysed, corrected at most once and closed, and never goes back.
THEOREM LifecycleKept == Spec => KeepsLifecycle
<1>1. Init => Lifecycle!Init
  BY DEF Init, Lifecycle!Init, View
<1>2. HInv /\ [Next]_vars => [Lifecycle!Next]_(Lifecycle!vars)
  <2> SUFFICES ASSUME HInv, [Next]_vars
               PROVE  Lifecycle!Next \/ UNCHANGED Lifecycle!vars
    OBVIOUS
  <2>1. ASSUME NEW r \in Requests, Step(r)
        PROVE  Lifecycle!Next \/ UNCHANGED Lifecycle!vars
    <3>1. CASE Save(r)
      BY <3>1, FirstSaveOpens, LaterSaveMoves DEF Lifecycle!Next
    <3>2. CASE DeleteSession(r)
      BY <3>2, DeletionDiscards DEF Lifecycle!Next
    <3>3. CASE ~Save(r) /\ ~DeleteSession(r)
      <4>1. UNCHANGED <<store, opened>>
        BY <2>1, <3>3 DEF Step, Wake, ConfirmTurn, OpenStream, LoadToCreate, LoadToSend,
           LoadToStream, LoadToAnalyze, LoadToPatch, LoadToRecommend, LoadToClose, Load,
           Recommended, ModelFails, StoreFails, Greet, CompleteTurn, FinishAnalysis, Answer
      <4> QED
        BY <4>1, SameRecord
    <3> QED
      BY <3>1, <3>2, <3>3
  <2>2. ASSUME NEW r \in Requests, Client(r)
        PROVE  Lifecycle!Next \/ UNCHANGED Lifecycle!vars
    <3>1. UNCHANGED <<store, opened>>
      BY <2>2 DEF Client, SendCall, QueuedCall, StreamCall, Arrive, Disconnect
    <3> QED
      BY <3>1, SameRecord
  <2>3. CASE Crash
    BY <2>3, SameRecord DEF Crash
  <2>4. CASE Tick
    BY <2>4, TickExpires DEF Lifecycle!Next
  <2>5. CASE UNCHANGED vars
    BY <2>5, SameRecord DEF vars
  <2> QED
    BY <2>1, <2>2, <2>3, <2>4, <2>5 DEF Next
<1> QED
  BY <1>1, <1>2, HistoryInvariance, PTL DEF Spec, KeepsLifecycle, Lifecycle!Spec

===============================================================================
