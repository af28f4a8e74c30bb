---- MODULE MCSearchIntents ----
(* Two jobs over three intent keys and one call of the model at a time.         *)
EXTENDS SearchIntents, TLC
====
