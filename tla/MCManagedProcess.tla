--------------------------- MODULE MCManagedProcess ---------------------------
(* Values of ManagedProcess's constants for the model checker. *)
EXTENDS ManagedProcess, TLC

Symmetry == Permutations(Callers)
=============================================================================
