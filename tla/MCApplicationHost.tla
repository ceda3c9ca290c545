-------------------------- MODULE MCApplicationHost --------------------------
(* Values of ApplicationHost's constants for the model checker. *)
EXTENDS ApplicationHost, TLC

Symmetry == Permutations(Callers)
=============================================================================
