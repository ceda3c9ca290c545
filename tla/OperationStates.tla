--------------------------- MODULE OperationStates ---------------------------
(***************************************************************************)
(* The states of a durable operation, the transitions between them, and    *)
(* the part of an operation record that later decisions read.              *)
(***************************************************************************)
EXTENDS Naturals

Terminal ==
  {"succeeded", "partially_succeeded", "failed", "cancelled", "timed_out"}

States ==
  Terminal \cup {"accepted", "queued", "running", "waiting_for_approval",
                 "waiting_for_dependency", "waiting_for_human"}

(* Whatever may still run can fail, be cancelled or time out; only a       *)
(* running operation may succeed.                                          *)
Stop == {"failed", "cancelled", "timed_out"}

LegalTransitions ==
  [s \in States |->
    CASE s = "accepted"               -> Stop \cup {"queued", "waiting_for_approval"}
      [] s = "waiting_for_approval"   -> Stop \cup {"queued"}
      [] s = "queued"                 -> Stop \cup {"running", "waiting_for_dependency"}
      [] s = "waiting_for_dependency" -> Stop \cup {"queued", "running"}
      [] s = "waiting_for_human"      -> Stop \cup {"queued"}
      [] s = "running"                -> Terminal \cup {"waiting_for_dependency",
                                                        "waiting_for_human"}
      [] OTHER                        -> {}]

Cancellations == {"not_requested", "requested", "acknowledged", "completed"}

(* completed_at and result_ref are left out: both are set by the           *)
(* transition into a terminal state and never change afterwards.  The      *)
(* cancellation reason is present exactly when cancel is not               *)
(* "not_requested".                                                        *)
Operation ==
  [state: States, cancellable: BOOLEAN, cancel: Cancellations, err: BOOLEAN]

NewOperation(cancellable) ==
  [state |-> "accepted", cancellable |-> cancellable,
   cancel |-> "not_requested", err |-> FALSE]

(* The model validator every stored or replayed operation passes.          *)
Valid(op) ==
  /\ op.state = "failed" => op.err
  /\ op.state = "succeeded" => ~op.err
  /\ op.state \in {"cancelled", "timed_out"} => op.cancel # "not_requested"

=============================================================================
