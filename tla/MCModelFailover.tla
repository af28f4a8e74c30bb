--------------------------- MODULE MCModelFailover ---------------------------
(* Instances of ModelFailover for TLC. *)
EXTENDS ModelFailover, TLC

\* Calls are interchangeable: nothing in the model names one.
CallSymmetry == Permutations(Calls)

===============================================================================
