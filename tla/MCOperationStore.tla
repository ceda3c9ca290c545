-------------------------- MODULE MCOperationStore ---------------------------
(* Values of OperationStore's constants for the model checker. *)
EXTENDS OperationStore, TLC

(* Enough of the state machine to wait, run, succeed, and be cancelled     *)
(* from a waiting and from a running state.                                *)
MainTargets == {"queued", "running", "succeeded", "cancelled"}
FewTargets == {"queued", "cancelled"}
=============================================================================
