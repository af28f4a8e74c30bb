--------------------------- MODULE SessionLifecycle ---------------------------
(***************************************************************************)
(* What a conversation room promises to whoever looks at its record,        *)
(* whatever handlers run against it: one session at a time, which collects  *)
(* turns, is analysed, corrected at most once, and closed, in that order    *)
(* and never back.  ChatSession implements it.                              *)
(***************************************************************************)
EXTENDS Integers

CONSTANTS Keywords, MaxTurns, None

VARIABLES
    session,   \* the room's record, or None
    expired,   \* the record is there but no longer counts
    opened     \* sessions opened so far; gen numbers them

vars == <<session, expired, opened>>

Record == [ gen : Nat, status : {"active", "input_locked", "review", "closed"}, turns : 0 .. MaxTurns,
            keywords : SUBSET Keywords, patched : BOOLEAN ]

TypeOK == session \in Record \cup {None} /\ expired \in BOOLEAN /\ opened \in Nat

Init == session = None /\ expired = FALSE /\ opened = 0

Is(status) == session # None /\ session.status = status

\* A session opens only in a room without a live one.  From then on no step
\* brings an earlier one back.
Open ==
    /\ session = None \/ expired
    /\ opened' = opened + 1
    /\ session' =
          [gen |-> opened', status |-> "active", turns |-> 0, keywords |-> {}, patched |-> FALSE]
    /\ expired' \in BOOLEAN

\* One turn more; the last one the room allows locks the input.  The turn was
\* begun before the session expired, and may find it expired and revive it.
Turn ==
    /\ Is("active")
    /\ session.turns < MaxTurns
    /\ \E status \in {"active", "input_locked"} :
          /\ status = "active" => session.turns + 1 < MaxTurns
          /\ session' = [session EXCEPT !.turns = @ + 1, !.status = status]
    /\ expired' \in {expired, FALSE}
    /\ UNCHANGED opened

\* An analysis covers every turn of the session, because it ends the turns.
Review ==
    /\ Is("active") \/ Is("input_locked")
    /\ session.turns > 0
    /\ \E keys \in SUBSET Keywords :
          session' = [session EXCEPT !.status = "review", !.keywords = keys]
    /\ UNCHANGED <<expired, opened>>

Correct ==
    /\ Is("review")
    /\ ~session.patched
    /\ \E keys \in SUBSET session.keywords :
          session' = [session EXCEPT !.keywords = keys, !.patched = TRUE]
    /\ UNCHANGED <<expired, opened>>

Close ==
    /\ Is("review")
    /\ session' = [session EXCEPT !.status = "closed"]
    /\ UNCHANGED <<expired, opened>>

\* A session is thrown away only before it was analysed.
Discard ==
    /\ Is("active") \/ Is("input_locked")
    /\ session' = None
    /\ expired' = FALSE
    /\ UNCHANGED opened

Expire ==
    /\ session # None
    /\ expired' = TRUE
    /\ UNCHANGED <<session, opened>>

Next == Open \/ Turn \/ Review \/ Correct \/ Close \/ Discard \/ Expire

Spec == Init /\ [][Next]_vars

===============================================================================
