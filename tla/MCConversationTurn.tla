-------------------------- MODULE MCConversationTurn --------------------------
(* An instance of ConversationTurn for TLC.  Only the reply to two of the    *)
(* first utterances, one of which ends the session, is any text at all: the  *)
(* texts and the moves do not touch each other.                              *)
EXTENDS ConversationTurn

Says(score, names) ==
    [score |-> score, asks_back |-> FALSE, unsure |-> FALSE, exit |-> FALSE, names |-> names]

MCUtterances ==
    {Says(score, names) : score \in {20, 50, 90}, names \in {{}, Topics}}
    \cup {[Says(90, {}) EXCEPT !.asks_back = TRUE], [Says(50, {}) EXCEPT !.asks_back = TRUE],
          [Says(20, {}) EXCEPT !.unsure = TRUE], [Says(50, {}) EXCEPT !.exit = TRUE]}

Freely == session.turn_count = 0 /\ said \in {Says(50, {}), [Says(50, {}) EXCEPT !.exit = TRUE]}

MCNext ==
    \/ \E u \in Utterances : BeginTurn(u)
    \/ \E symbol \in Symbols : Freely /\ Token(symbol)
    \/ \E depth \in {None, 0, 100}, topic \in Topics \cup {None}, sufficient \in BOOLEAN :
          raw = <<>> /\ FinishTurn(depth, topic, sufficient)
    \/ raw = <<>> /\ AbandonTurn

MCSpec == Init /\ [][MCNext]_vars

===============================================================================
