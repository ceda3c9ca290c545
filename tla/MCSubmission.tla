---------------------------- MODULE MCSubmission -----------------------------
(* Values of Submission's constants for the model checker. *)
EXTENDS Submission, TLC

CONSTANTS t1, t2, k1, i1, i2, o1, o2, o3

(* One key, used by the gateway and by a direct caller for one intent with *)
(* two operations, and by a third caller for a second intent.              *)
MCRequests ==
  {[key |-> k1, intent |-> i1, op |-> o1, gated |-> TRUE],
   [key |-> k1, intent |-> i1, op |-> o2, gated |-> FALSE],
   [key |-> k1, intent |-> i2, op |-> o3, gated |-> FALSE]}

ThreadSymmetry == Permutations(Threads)
=============================================================================
