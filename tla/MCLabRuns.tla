-------------------------------- MODULE MCLabRuns --------------------------------
(* An instance of LabRuns for TLC. *)
EXTENDS LabRuns, TLC

MCSymmetry == Permutations(Runs) \cup Permutations(Workers)

===============================================================================
