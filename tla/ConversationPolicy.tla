--------------------------- MODULE ConversationPolicy ---------------------------
(***************************************************************************)
(* How a turn of the conversation is chosen and recorded (policy, energy and *)
(* complete_turn): whether to go on or to wrap up, and with which move.      *)
(*                                                                         *)
(* A session is a record.  Energies are in hundredths; how an utterance's    *)
(* length, laughter and evasions make up its energy is left out, so any      *)
(* utterance may have any score.  A profile is how much of it the            *)
(* recommendation has: the counts that recommendation_readiness looks at.    *)
(***************************************************************************)
EXTENDS Integers, Sequences, FiniteSets

CONSTANTS
    Topics,             \* interests: values of query signals
    NScenes,            \* COMPANION_SCENES, from the room's first one on
    MAX_TURNS, COMPANION_LIGHTEN_STREAK, COMPANION_WRAP_STREAK, MOVE_HISTORY_LIMIT,
    TOPIC_FOLLOW_LIMIT, TOPIC_FOLLOW_LIMIT_ENGAGED, CHOICE_GAP,
    None                \* Python's None

Moves == {"follow", "add", "choice", "return", "shift"}
Reasons == {"SUFFICIENT", "USER_EXIT", "MAX_CYCLES"}
LOW_ENERGY == 35
CHOICE_ANSWER_ENERGY == 50
ENGAGED_ENERGY == 80

Utterance == [ score : 0 .. 100, asks_back : BOOLEAN, unsure : BOOLEAN, exit : BOOLEAN,
               names : SUBSET Topics ]

Session == [ status : {"active", "input_locked"}, turn_count : 0 .. MAX_TURNS,
             completion_reason : Reasons \cup {None}, pending_wrap : Reasons \cup {None},
             moves : UNION {[1 .. n -> Moves] : n \in 0 .. MOVE_HISTORY_LIMIT}, streak : Nat,
             best_topic : Topics \cup {None}, best_energy : 0 .. 100,
             returned : SUBSET Topics, used_scenes : SUBSET (1 .. NScenes),
             recent : Seq(SUBSET Topics), known : SUBSET Topics, sufficient : BOOLEAN ]

NewSession == [ status |-> "active", turn_count |-> 0, completion_reason |-> None,
                pending_wrap |-> None, moves |-> <<>>, streak |-> 0, best_topic |-> None,
                best_energy |-> 0, returned |-> {}, used_scenes |-> {}, recent |-> <<>>,
                known |-> {}, sufficient |-> FALSE ]

Decision == [ goal : {"CHAT", "WRAP"}, reason : Reasons \cup {None}, move : Moves \cup {None},
              topic : Topics \cup {None}, scene : (1 .. NScenes) \cup {None} ]

ASSUME PolicyConstants ==
    /\ NScenes \in Nat /\ MAX_TURNS \in Nat \ {0}
    /\ None \notin Topics \cup Moves \cup Reasons /\ None \notin 1 .. NScenes /\ None \notin Utterance
    /\ TOPIC_FOLLOW_LIMIT \in Nat /\ TOPIC_FOLLOW_LIMIT_ENGAGED \in Nat
    /\ COMPANION_LIGHTEN_STREAK \in Nat /\ COMPANION_WRAP_STREAK \in Nat
    /\ MOVE_HISTORY_LIMIT \in Nat \ {0} /\ CHOICE_GAP \in 1 .. MOVE_HISTORY_LIMIT

-----------------------------------------------------------------------------
(* A definition named X_something is X with a mistake in it; nothing uses it. *)

LastMove(s) == IF s.moves = <<>> THEN None ELSE s.moves[Len(s.moves)]

Recent(seq, n) == SubSeq(seq, IF Len(seq) > n THEN Len(seq) - n + 1 ELSE 1, Len(seq))

\* turn_energy: the depth of the answer, 0 to 100, is known only when the turn
\* is recorded; picking one of two options is no sign of boredom.
TurnEnergy(s, u, depth) ==
    LET felt == IF depth = None THEN u.score ELSE (7 * u.score + 3 * depth) \div 10
    IN  IF LastMove(s) = "choice" /\ felt < CHOICE_ANSWER_ENERGY THEN CHOICE_ANSWER_ENERGY ELSE felt

StreakAfter(s, energy) == IF energy < LOW_ENERGY THEN s.streak + 1 ELSE 0

\* Follow-up questions on the present topic; a turn without a question neither
\* counts nor ends them.
TopicFollowCount(s) ==
    Cardinality({i \in DOMAIN s.moves :
                    s.moves[i] = "follow" /\ \A j \in i .. Len(s.moves) : s.moves[j] \in {"follow", "add"}})

\* energy: the utterance's, or None.
TopicDone_Engaged(s, energy) ==
    TopicFollowCount(s) >= TOPIC_FOLLOW_LIMIT /\ (energy = None \/ energy < ENGAGED_ENERGY)

TopicDone(s, energy) ==
    LET count == TopicFollowCount(s)
    IN  \/ count >= TOPIC_FOLLOW_LIMIT_ENGAGED
        \/ count >= TOPIC_FOLLOW_LIMIT /\ (energy = None \/ energy < ENGAGED_ENERGY)

\* The topic to go back to: not one that was just talked of, and only once.
ReturnTopic(s, u) ==
    IF \/ s.best_topic \in s.returned \cup u.names
       \/ \E k \in DOMAIN Recent(s.recent, 2) : s.best_topic \in Recent(s.recent, 2)[k]
    THEN None ELSE s.best_topic

Unused(s) == 1 .. NScenes \ s.used_scenes
PickScene(s) == IF Unused(s) = {} THEN None ELSE CHOOSE n \in Unused(s) : \A m \in Unused(s) : n <= m

Wrap(reason) == [goal |-> "WRAP", reason |-> reason, move |-> None, topic |-> None, scene |-> None]
Chat(move) == [goal |-> "CHAT", reason |-> None, move |-> move, topic |-> None, scene |-> None]
Scene(s, move) == [Chat(move) EXCEPT !.scene = PickScene(s)]

\* The move of a turn that goes on.
ChooseMove(s, u) ==
    LET energy == TurnEnergy(s, u, None)
        done == TopicDone(s, energy)
        topic == ReturnTopic(s, u)
    IN  IF u.asks_back THEN IF done THEN Scene(s, "shift") ELSE Chat("follow")
        ELSE IF u.unsure /\ LastMove(s) # "choice" THEN Chat("choice")
        ELSE IF StreakAfter(s, energy) >= COMPANION_LIGHTEN_STREAK
        THEN IF topic # None /\ LastMove(s) # "return" THEN [Chat("return") EXCEPT !.topic = topic]
             ELSE IF LastMove(s) # "choice" THEN Scene(s, "choice") ELSE Chat("add")
        ELSE IF ~done THEN Chat("follow")
        ELSE IF \E k \in DOMAIN Recent(s.moves, CHOICE_GAP) : Recent(s.moves, CHOICE_GAP)[k] = "choice"
        THEN Scene(s, "shift") ELSE Scene(s, "choice")

\* Why a conversation comes to its end: with the utterance, or (None) with what
\* has been recorded.
WrapReason(s, u) ==
    LET turns_after == IF u # None THEN s.turn_count + 1 ELSE s.turn_count
        streak == IF u # None THEN StreakAfter(s, TurnEnergy(s, u, None)) ELSE s.streak
    IN  IF s.status # "active"
        THEN IF s.completion_reason # None THEN s.completion_reason ELSE "USER_EXIT"
        ELSE IF s.pending_wrap # None THEN s.pending_wrap
        ELSE IF turns_after >= MAX_TURNS THEN "MAX_CYCLES"
        ELSE IF u # None /\ u.exit THEN "USER_EXIT"
        ELSE IF streak >= COMPANION_WRAP_STREAK THEN "USER_EXIT"
        ELSE IF s.sufficient THEN "SUFFICIENT" ELSE None

\* decide_goal for an utterance
DecideGoal_Rejudged(s, u) ==
    LET reason == WrapReason([s EXCEPT !.pending_wrap = None], u)
    IN  IF reason # None THEN Wrap(reason) ELSE ChooseMove(s, u)

DecideGoal(s, u) ==
    IF WrapReason(s, u) # None THEN Wrap(WrapReason(s, u)) ELSE ChooseMove(s, u)

\* record_companion_turn, before the utterance joins the history.
RecordTurn(s, u, d, depth, new_interest) ==
    LET energy == TurnEnergy(s, u, depth)
        better == new_interest # None /\ energy >= s.best_energy
    IN  [s EXCEPT !.streak = StreakAfter(s, energy),
                  !.best_topic = IF better THEN new_interest ELSE @,
                  !.best_energy = IF better THEN energy ELSE @,
                  !.moves = IF d.move = None THEN @ ELSE Recent(Append(@, d.move), MOVE_HISTORY_LIMIT),
                  !.returned = IF d.topic # None THEN @ \cup {d.topic} ELSE @,
                  !.used_scenes = IF d.scene # None THEN @ \cup {d.scene} ELSE @]

\* complete_turn: what the end of a conversation needs once the answer is out is
\* put off to the next turn, whatever the user says in it.
CompleteTurn(s, u, d, depth, new_interest, sufficient) ==
    LET recorded == [RecordTurn(s, u, d, depth, new_interest) EXCEPT
                        !.recent = Recent(Append(@, u.names), 2),
                        !.known = IF new_interest = None THEN @ ELSE @ \cup {new_interest},
                        !.turn_count = @ + 1,
                        !.sufficient = sufficient]
    IN  IF d.goal = "WRAP"
        THEN [recorded EXCEPT !.status = "input_locked", !.completion_reason = d.reason,
                              !.pending_wrap = None]
        ELSE [recorded EXCEPT !.pending_wrap = WrapReason(recorded, None)]

===============================================================================
