----------------------------- MODULE MCChatSession -----------------------------
(* Instances of ChatSession for TLC. *)
EXTENDS ChatSession, TLC

\* Handlers are interchangeable: nothing in the model names one.
RequestSymmetry == Permutations(Requests)

===============================================================================
