--------------------------- MODULE MCReconciliation ---------------------------
(* Values of Reconciliation's constants for the model checker. *)
EXTENDS Reconciliation, TLC

CONSTANTS a1, a2, a3, o1, o2

(* Two attempts of one operation and an attempt of another. *)
MCOperationOf == a1 :> o1 @@ a2 :> o1 @@ a3 :> o2
Symmetry == Permutations(Threads)
=============================================================================
