-------------------------- MODULE MCRunSupervisor --------------------------
(* Model-checking instance of RunSupervisor. *)
EXTENDS RunSupervisorRefinement, TLC

ClientSymmetry == Permutations(Clients)
=============================================================================
