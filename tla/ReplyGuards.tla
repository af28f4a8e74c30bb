------------------------------ MODULE ReplyGuards ------------------------------
(***************************************************************************)
(* The text of a reply (guards.py): how a generated reply is cleaned up, how *)
(* the last one of a conversation is closed, and how much of an unfinished  *)
(* one may be shown.  What has been streamed cannot be taken back, so the   *)
(* last must never run ahead of the first two.                              *)
(*                                                                         *)
(* A text is a sequence of symbols, each for the characters that the rules  *)
(* treat alike:                                                             *)
(*    "a" a letter                 "A" more than COMPANION_TAIL_CHARS letters *)
(*    "s" a space                  "n" a line break                         *)
(*    "?" a question mark          "." a mark that ends a sentence          *)
(*    "q" a quotation mark         "N" the speaker's name, ":" its colon    *)
(*    "M" and "m" the two halves of a marker that only a leaked prompt has  *)
(***************************************************************************)
EXTENDS Integers, Sequences, SequencesExt

Symbols == {"a", "A", "s", "n", "?", ".", "q", "N", ":", "M", "m"}
Blank == {"s", "n"}
COMPANION_TAIL_CHARS == 30

\* What a reply that was cleaned away altogether is replaced by, and what the
\* last reply of a conversation ends with.
FALLBACK == <<"fallback">>
CLOSING_MESSAGE == <<"closing">>

From(text, i) == SubSeq(text, i, Len(text))
UpTo(text, i) == SubSeq(text, 1, i)

\* The last place of one of the symbols, or 0.
LastOf(text, symbols) == Max({0} \cup {i \in DOMAIN text : text[i] \in symbols})

LStrip(text) ==
    LET kept == {i \in DOMAIN text : text[i] \notin Blank}
    IN  IF kept = {} THEN <<>> ELSE From(text, Min(kept))

RStrip(text) == UpTo(text, LastOf(text, Symbols \ Blank))

Strip(text) == RStrip(LStrip(text))

\* _SPEAKER_LABEL at the beginning of the text.
Unlabelled(text) ==
    LET after == IF text = <<>> THEN <<>> ELSE LStrip(Tail(text))
    IN  IF text # <<>> /\ Head(text) = "N" /\ after # <<>> /\ Head(after) = ":"
        THEN LStrip(Tail(after)) ELSE text

\* _LEAK_MARKERS: what comes after one is not part of the reply.
Leaks(text) == {i \in 1 .. Len(text) - 1 : text[i] = "M" /\ text[i + 1] = "m"}
BeforeLeak(text) == IF Leaks(text) = {} THEN text ELSE UpTo(text, Min(Leaks(text)) - 1)

\* Each line break becomes, with the blanks around it, one space.  While the text
\* is gone through, a run of blanks that had a break in it is kept as an "n".
Joined(text, symbol) ==
    IF symbol = "n" THEN Append(RStrip(text), "n")
    ELSE IF symbol = "s" /\ text # <<>> /\ Last(text) = "n" THEN text
    ELSE Append(text, symbol)

OneParagraph(text) ==
    LET Before[n \in 0 .. Len(text)] == IF n = 0 THEN <<>> ELSE Joined(Before[n - 1], text[n])
        joined == Before[Len(text)]
    IN  [k \in DOMAIN joined |-> IF joined[k] = "n" THEN "s" ELSE joined[k]]

Unquoted(text) ==
    IF Len(text) > 1 /\ Head(text) = "q" /\ Last(text) = "q"
    THEN Strip(SubSeq(text, 2, Len(text) - 1)) ELSE text

\* A few words may follow a question, not a speech.
WithoutTail(text) ==
    LET end == LastOf(text, {"?"})
        tail == Strip(From(text, end + 1))
        speech == LastOf(tail, {"A"}) > 0 \/ Len(tail) > COMPANION_TAIL_CHARS
    IN  IF end > 0 /\ speech THEN UpTo(text, end) ELSE text

\* sanitize_response
Sanitized(text) ==
    LET cleaned == WithoutTail(Unquoted(Strip(OneParagraph(RStrip(
                      BeforeLeak(Unlabelled(Strip(text))))))))
    IN  IF cleaned = <<>> THEN FALLBACK ELSE cleaned

\* closing_reply: a question nobody can answer any more is left out.
ClosingReply(text) ==
    LET cut == LastOf(UpTo(text, Len(text) - 1), {"."})
        kept == IF text # <<>> /\ Last(text) = "?" THEN Strip(UpTo(text, cut)) ELSE text
    IN  IF kept = <<>> THEN CLOSING_MESSAGE ELSE kept \o <<"s">> \o CLOSING_MESSAGE

FinalReply(text, wrap) == IF wrap THEN ClosingReply(Sanitized(text)) ELSE Sanitized(text)

\* stable_reply_prefix; hold_question is set for the last reply.  A definition
\* named X_something is X with a mistake in it.
StablePrefix_ShowsTail(partial, hold_question) ==
    LET text == LStrip(partial)
        shown == LStrip(OneParagraph(BeforeLeak(Unlabelled(text))))
    IN  IF text = <<"N">> \/ (shown # <<>> /\ Head(shown) = "q") THEN <<>> ELSE RStrip(shown)

StablePrefix(partial, hold_question) ==
    LET text == LStrip(partial)
        unlabelled == Unlabelled(text)
        whole == IF ~hold_question /\ Leaks(unlabelled) = {} /\ Len(unlabelled) > 0
                       /\ Last(unlabelled) = "M"
                 THEN UpTo(unlabelled, Len(unlabelled) - 1) ELSE BeforeLeak(unlabelled)
        cleaned == LStrip(OneParagraph(whole))
        question == LastOf(cleaned, {"?"})
        spoken == IF question > 0 THEN question - 1 ELSE Len(cleaned)
    IN  IF ~hold_question /\ RStrip(text) \in {<<>>, <<"N">>} THEN <<>>
        ELSE IF cleaned # <<>> /\ Head(cleaned) = "q" THEN <<>>
        ELSE IF hold_question THEN UpTo(cleaned, LastOf(UpTo(cleaned, spoken), {"."}))
        ELSE IF question > 0 THEN UpTo(cleaned, question)
        ELSE RStrip(cleaned)

===============================================================================
