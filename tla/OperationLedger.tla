--------------------------- MODULE OperationLedger ---------------------------
(***************************************************************************)
(* What a caller of the operation store relies on: every operation is      *)
(* absent or has one state and one version, it is accepted once at version *)
(* 1, and each later version is one legal transition or one observation    *)
(* that leaves the state alone.  Nothing is lost, repeated or undone, and  *)
(* a restart is invisible.  OperationStore implements this with files.     *)
(***************************************************************************)
EXTENDS OperationStates

CONSTANT Ops       \* operation identifiers

VARIABLE ledger    \* ledger[o].version = 0 while o is absent

Absent == [version |-> 0, state |-> "accepted"]

Init == ledger = [o \in Ops |-> Absent]

Publish(o) ==
  /\ ledger[o].version = 0
  /\ ledger' = [ledger EXCEPT ![o] = [version |-> 1, state |-> "accepted"]]

Advance(o) ==
  /\ ledger[o].version > 0
  /\ \E to \in LegalTransitions[ledger[o].state] :
       ledger' = [ledger EXCEPT ![o] = [version |-> @.version + 1, state |-> to]]

Observe(o) ==
  /\ ledger[o].version > 0
  /\ ledger' = [ledger EXCEPT ![o] = [version |-> @.version + 1, state |-> @.state]]

Next == \E o \in Ops : Publish(o) \/ Advance(o) \/ Observe(o)

Spec == Init /\ [][Next]_ledger

=============================================================================
