---------------------------- MODULE ConversationTurn ----------------------------
(***************************************************************************)
(* The turns of one session, one after another: the decision before the      *)
(* reply is generated, the reply as it is streamed to the user symbol by     *)
(* symbol, and the record of the turn, for which the extraction of the       *)
(* utterance has meanwhile come back.  ChatSession shows that nothing else   *)
(* touches the record in between.                                            *)
(***************************************************************************)
EXTENDS ConversationPolicy, ReplyGuards

CONSTANTS
    Utterances,       \* what a user may say
    MaxReply          \* bound: symbols of a generated reply

ASSUME TurnConstants == Utterances \subseteq Utterance /\ MaxReply \in Nat

VARIABLES
    session,
    said,             \* the utterance that is being answered, or None
    decision,
    raw,              \* what the model has generated so far
    emitted           \* what of it the user was shown

vars == <<session, said, decision, raw, emitted>>

NoDecision == Wrap(None)
Holds == decision.goal = "WRAP"

TypeOK ==
    /\ session \in Session
    /\ said \in Utterance \cup {None}
    /\ decision \in Decision
    /\ Len(raw) <= MaxReply /\ Range(raw) \subseteq Symbols
    /\ Range(emitted) \subseteq Symbols

BeginTurn(u) ==
    /\ said = None /\ session.status = "active"
    /\ said' = u
    /\ decision' = DecideGoal(session, u)
    /\ raw' = <<>> /\ emitted' = <<>>
    /\ UNCHANGED session

\* stream_message: what is certain to stay is shown at once.
Token(symbol) ==
    /\ said # None /\ Len(raw) < MaxReply
    /\ raw' = Append(raw, symbol)
    /\ LET stable == StablePrefix(raw', Holds)
       IN  emitted' = IF Len(stable) > Len(emitted) /\ IsPrefix(emitted, stable)
                      THEN stable ELSE emitted
    /\ UNCHANGED <<session, said, decision>>

\* The extraction gives the depth of the answer and a first new interest, if
\* there is one, and the merge may make the profile sufficient or no longer so.
FinishTurn(depth, new_interest, sufficient) ==
    /\ said # None
    /\ new_interest \notin session.known
    /\ session' = CompleteTurn(session, said, decision, depth, new_interest, sufficient)
    /\ said' = None /\ decision' = NoDecision
    /\ raw' = <<>> /\ emitted' = <<>>

\* The client leaves or the model fails: nothing of the turn is kept.
AbandonTurn ==
    /\ said # None
    /\ said' = None /\ decision' = NoDecision
    /\ raw' = <<>> /\ emitted' = <<>>
    /\ UNCHANGED session

Init ==
    /\ session = NewSession
    /\ said = None /\ decision = NoDecision
    /\ raw = <<>> /\ emitted = <<>>

Next ==
    \/ \E u \in Utterances : BeginTurn(u)
    \/ \E symbol \in Symbols : Token(symbol)
    \/ \E depth \in 0 .. 100 \cup {None}, topic \in Topics \cup {None}, sufficient \in BOOLEAN :
          FinishTurn(depth, topic, sufficient)
    \/ AbandonTurn

Spec == Init /\ [][Next]_vars

-----------------------------------------------------------------------------
(* Properties. *)

\* "The result must always be the beginning of the confirmed reply": whatever
\* the model generates next, or if it stops here, the words that were shown
\* are the beginning of the reply that is stored; and the reply that locks the
\* input leaves no question open.
StreamedTextStands ==
    LET final == FinalReply(raw, Holds)
    IN  said # None => /\ IsPrefix(emitted, final)
                       /\ Holds => Len(final) = 1 \/ final[Len(final) - 2] # "?"

\* The talk keeps moving: a topic is followed up at most so many times however
\* lively or evasive the answers are, two choices are never offered in a row,
\* and no topic is gone back to twice, or while it is being talked of.
TopicsVary ==
    /\ TopicFollowCount(session) <= TOPIC_FOLLOW_LIMIT_ENGAGED
    /\ \A k \in 1 .. Len(session.moves) - 1 :
          ~(session.moves[k] = "choice" /\ session.moves[k + 1] = "choice")
    /\ decision.topic # None =>
          /\ decision.topic \in session.known \ session.returned
          /\ decision.topic \notin said.names

\* An end that was judged after an answer had gone out comes with the next turn
\* and for that reason, whatever is said in it; and a session ends in no other
\* way than with a turn that was answered as its last.
AnnouncedEnd ==
    [][/\ session.pending_wrap # None =>
            session'.status = "input_locked" /\ session'.completion_reason = session.pending_wrap
       /\ session'.status = "input_locked" =>
            decision.goal = "WRAP" /\ session'.completion_reason # None]_session

===============================================================================
