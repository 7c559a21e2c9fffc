-------------------------- MODULE MCStrictService --------------------------
(* Model-checking instance of StrictService. *)
EXTENDS StrictService, TLC

Symmetries == Permutations(Threads) \cup Permutations(RunIds)
=============================================================================
