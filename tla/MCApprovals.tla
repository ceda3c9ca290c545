----------------------------- MODULE MCApprovals -----------------------------
(* Values of Approvals' constants for the model checker. *)
EXTENDS Approvals, TLC

Symmetry == Permutations(Threads) \cup Permutations(Intents) \cup Permutations(Approvers)
=============================================================================
