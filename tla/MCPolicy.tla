------------------------------ MODULE MCPolicy ------------------------------
(* Values of Policy's constants for the model checker. *)
EXTENDS Policy, TLC

Symmetry == Permutations(Effects) \cup Permutations(Scopes)
=============================================================================
