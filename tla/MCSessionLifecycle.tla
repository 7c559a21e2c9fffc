------------------------- MODULE MCSessionLifecycle -------------------------
(* Model-checking instance of SessionLifecycle. *)
EXTENDS SessionLifecycle, TLC

ClientSymmetry == Permutations(Clients)
=============================================================================
