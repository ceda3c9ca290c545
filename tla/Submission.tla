----------------------------- MODULE Submission ------------------------------
(***************************************************************************)
(* Submitting an operation under an idempotency key, directly through the  *)
(* governance facade or through the local gateway.                         *)
(*                                                                         *)
(* A submission reserves its key, then publishes its operation; the        *)
(* gateway then moves the operation to waiting_for_approval and stores the *)
(* approval request.  Each of these is atomic, under the lock of its own   *)
(* repository and with one durable file at the end, but nothing holds them *)
(* together: other threads act in between, a write may fail, and the       *)
(* process may crash.  A submission whose key is taken reads the operation *)
(* the key was reserved for and answers with that one.                     *)
(*                                                                         *)
(* The operation store appears as the ledger OperationStore implements: a  *)
(* version and a state per operation.                                      *)
(***************************************************************************)
EXTENDS OperationStates, FiniteSets

CONSTANTS
  Threads,         \* threads of the process that call the facade
  Keys,            \* digests of idempotency keys
  Intents,         \* digests of request intents
  Ops,             \* operation identifiers
  Requests,        \* the submissions callers make
  NoRecord,        \* the key is not reserved
  NoWork,          \* the thread is in no call
  MaxOperations,   \* StoreLimits.maximum_operations
  OtherTargets,    \* states other callers of the facade ask for
  VersionBound,    \* model bound: versions the other callers change
  EpochBound,      \* model bound: reservations of one key
  FaultBound       \* model bound: crashes and failed writes in a behaviour

Outcomes == {"accepted", "duplicate_in_progress", "duplicate_completed"}
Record == [intent: Intents, op: Ops, state: {"in_progress", "completed"}]
Work == [request: Requests, epoch: Nat, op: Ops, outcome: Outcomes]

(* A gated request comes through the gateway, which uses the intent digest *)
(* as the key; the identifier of an operation belongs to one intent.       *)
ASSUME SubmissionAssumption ==
  /\ Requests \subseteq [key: Keys, intent: Intents, op: Ops, gated: BOOLEAN]
  /\ \A r, s \in Requests : r.op = s.op => r.intent = s.intent
  /\ NoWork \notin Work /\ NoRecord \notin Record
  /\ OtherTargets \subseteq States
  /\ MaxOperations \in Nat /\ VersionBound \in Nat
  /\ EpochBound \in Nat /\ FaultBound \in Nat

VARIABLES
  reservations,      \* the idempotency record of each key
  ledger,            \* version and state of each operation, version 0: absent
  torn,              \* identifiers taken by a publication that did not finish
  approvalRequests,  \* operations whose ApprovalRequest is stored
  pc, work,          \* where each thread is in its call, and its locals
  epoch,             \* how often each key was reserved
  answers,           \* what submissions returned
  faults             \* crashes and failed writes so far

stores == <<reservations, ledger, torn, approvalRequests>>
history == <<epoch, answers, faults>>
vars == <<stores, pc, work, history>>

Init ==
  /\ reservations = [k \in Keys |-> NoRecord]
  /\ ledger = [o \in Ops |-> [version |-> 0, state |-> "accepted"]]
  /\ torn = {}
  /\ approvalRequests = {}
  /\ pc = [t \in Threads |-> "idle"]
  /\ work = [t \in Threads |-> NoWork]
  /\ epoch = [k \in Keys |-> 0]
  /\ answers = {}
  /\ faults = 0

Exists(o) == ledger[o].version > 0

Goto(t, label) ==
  /\ pc' = [pc EXCEPT ![t] = label]
  /\ UNCHANGED work

(* A return that leaves the locals of the call behind. *)
ReturnInPlace(t) ==
  /\ pc' = [pc EXCEPT ![t] = "idle"]
  /\ UNCHANGED work

Return(t) ==
  /\ pc' = [pc EXCEPT ![t] = "idle"]
  /\ work' = [work EXCEPT ![t] = NoWork]

Answer(t) ==
  /\ Return(t)
  /\ answers' = answers \cup {work[t]}
  /\ UNCHANGED <<epoch, faults>>

Raise(t) ==
  /\ Return(t)
  /\ UNCHANGED <<stores, history>>

-----------------------------------------------------------------------------
(* reserve() reads and writes the record under the repository's lock.  A   *)
(* key reserved for another intent is refused and nothing changes.         *)

(* reserve() as check and write without the lock around both: the write    *)
(* replaces whatever record another thread wrote in between.               *)
ReserveUnlocked(t, r) ==
  /\ pc[t] = "idle"
  /\ reservations[r.key] # NoRecord => reservations[r.key].state = "in_progress"
  /\ epoch[r.key] < EpochBound
  /\ reservations' = [reservations EXCEPT ![r.key] =
       [intent |-> r.intent, op |-> r.op, state |-> "in_progress"]]
  /\ epoch' = [epoch EXCEPT ![r.key] = IF reservations[r.key] = NoRecord THEN @ + 1 ELSE @]
  /\ pc' = [pc EXCEPT ![t] = "publish"]
  /\ work' = [work EXCEPT ![t] = [request |-> r, epoch |-> epoch'[r.key],
                                  op |-> r.op, outcome |-> "accepted"]]
  /\ UNCHANGED <<ledger, torn, approvalRequests, answers, faults>>

ReserveFirst(t, r) ==
  /\ pc[t] = "idle"
  /\ reservations[r.key] = NoRecord
  /\ epoch[r.key] < EpochBound
  /\ reservations' = [reservations EXCEPT ![r.key] =
       [intent |-> r.intent, op |-> r.op, state |-> "in_progress"]]
  /\ epoch' = [epoch EXCEPT ![r.key] = @ + 1]
  /\ pc' = [pc EXCEPT ![t] = "publish"]
  /\ work' = [work EXCEPT ![t] = [request |-> r, epoch |-> epoch[r.key] + 1,
                                  op |-> r.op, outcome |-> "accepted"]]
  /\ UNCHANGED <<ledger, torn, approvalRequests, answers, faults>>

(* A duplicate found without comparing the intents. *)
ReserveAnyIntent(t, r) ==
  /\ pc[t] = "idle"
  /\ reservations[r.key] # NoRecord
  /\ pc' = [pc EXCEPT ![t] = "resolve"]
  /\ work' = [work EXCEPT ![t] =
       [request |-> r, epoch |-> epoch[r.key], op |-> reservations[r.key].op,
        outcome |-> IF reservations[r.key].state = "completed"
                    THEN "duplicate_completed" ELSE "duplicate_in_progress"]]
  /\ UNCHANGED <<stores, history>>

ReserveDuplicate(t, r) ==
  /\ pc[t] = "idle"
  /\ reservations[r.key] # NoRecord
  /\ reservations[r.key].intent = r.intent
  /\ pc' = [pc EXCEPT ![t] = "resolve"]
  /\ work' = [work EXCEPT ![t] =
       [request |-> r, epoch |-> epoch[r.key], op |-> reservations[r.key].op,
        outcome |-> IF reservations[r.key].state = "completed"
                    THEN "duplicate_completed" ELSE "duplicate_in_progress"]]
  /\ UNCHANGED <<stores, history>>

-----------------------------------------------------------------------------
(* The submission that won the reservation. *)

Taken(o) == Exists(o) \/ o \in torn
Full == Cardinality({o \in Ops : Taken(o)}) >= MaxOperations

Published(t) == Goto(t, IF work[t].request.gated THEN "gate" ELSE "answer")

(* A publication that does not ask whether the operation exists. *)
PublishAgain(t) ==
  /\ pc[t] = "publish"
  /\ ledger' = [ledger EXCEPT ![work[t].op] = [version |-> 1, state |-> "accepted"]]
  /\ Published(t)
  /\ UNCHANGED <<reservations, torn, approvalRequests, history>>

Publish(t) ==
  /\ pc[t] = "publish"
  /\ ~Taken(work[t].op)
  /\ ~Full
  /\ ledger' = [ledger EXCEPT ![work[t].op] = [version |-> 1, state |-> "accepted"]]
  /\ Published(t)
  /\ UNCHANGED <<reservations, torn, approvalRequests, history>>

PublishRefused(t) ==
  /\ pc[t] = "publish"
  /\ Taken(work[t].op) \/ Full
  /\ Raise(t)

(* The gateway: the transition expects version 1 and loses to anybody who  *)
(* changed the operation since it was published.                           *)
Gate(t) ==
  /\ pc[t] = "gate"
  /\ ledger[work[t].op].version = 1
  /\ ledger' = [ledger EXCEPT ![work[t].op] =
                  [version |-> 2, state |-> "waiting_for_approval"]]
  /\ Goto(t, "approval")
  /\ UNCHANGED <<reservations, torn, approvalRequests, history>>

GateRefused(t) ==
  /\ pc[t] = "gate"
  /\ ledger[work[t].op].version # 1
  /\ Raise(t)

(* The approval request stored on the way to the gate. *)
CreateApprovalRequestFirst(t) ==
  /\ pc[t] \in {"gate", "approval"}
  /\ approvalRequests' = approvalRequests \cup {work[t].op}
  /\ Goto(t, "answer")
  /\ UNCHANGED <<reservations, ledger, torn, history>>

CreateApprovalRequest(t) ==
  /\ pc[t] = "approval"
  /\ approvalRequests' = approvalRequests \cup {work[t].op}
  /\ Goto(t, "answer")
  /\ UNCHANGED <<reservations, ledger, torn, history>>

(* The call that published the operation returns. *)
Accept(t) ==
  /\ pc[t] = "answer"
  /\ Answer(t)
  /\ UNCHANGED stores

(* The answer built from the reservation alone. *)
ResolveUnread(t) ==
  /\ pc[t] = "resolve"
  /\ Answer(t)
  /\ UNCHANGED stores

(* A duplicate answers with the operation of the reservation it read. *)
Resolve(t) ==
  /\ pc[t] = "resolve"
  /\ Exists(work[t].op)
  /\ Answer(t)
  /\ UNCHANGED stores

ResolveRefused(t) ==
  /\ pc[t] = "resolve"
  /\ ~Exists(work[t].op)
  /\ Raise(t)

-----------------------------------------------------------------------------
(* Faults, and what others do to the same operations and reservations.     *)

(* A write fails and the call raises, before the file of the current step  *)
(* is replaced or after that of the previous one; a publication may leave  *)
(* its directory behind.                                                   *)
WriteFails(t) ==
  /\ pc[t] \in {"publish", "gate", "approval", "answer"}
  /\ faults < FaultBound
  /\ faults' = faults + 1
  /\ torn' \in IF pc[t] = "publish" /\ ~Taken(work[t].op) /\ ~Full
               THEN {torn, torn \cup {work[t].op}} ELSE {torn}
  /\ Return(t)
  /\ UNCHANGED <<reservations, ledger, approvalRequests, epoch, answers>>

Crash ==
  /\ faults < FaultBound
  /\ faults' = faults + 1
  /\ \E t \in Threads : pc[t] # "idle"
  /\ torn' \in {torn} \cup
       {torn \cup {work[t].op} : t \in {u \in Threads :
          pc[u] = "publish" /\ ~Taken(work[u].op) /\ ~Full}}
  /\ pc' = [t \in Threads |-> "idle"]
  /\ work' = [t \in Threads |-> NoWork]
  /\ UNCHANGED <<reservations, ledger, approvalRequests, epoch, answers>>

(* Other callers of the facade: a cancellation request leaves the state,   *)
(* a transition changes it.                                                *)
OthersWrite(o) ==
  /\ ledger[o].version \in 1..VersionBound
  /\ \E to \in {ledger[o].state} \cup
                (OtherTargets \cap LegalTransitions[ledger[o].state]) :
       ledger' = [ledger EXCEPT ![o] = [version |-> @.version + 1, state |-> to]]
  /\ UNCHANGED <<reservations, torn, approvalRequests, pc, work, history>>

Complete(k) ==
  /\ reservations[k] # NoRecord
  /\ reservations' = [reservations EXCEPT ![k] =
       [intent |-> @.intent, op |-> @.op, state |-> "completed"]]
  /\ UNCHANGED <<ledger, torn, approvalRequests, pc, work, history>>

(* Time is not modelled: expires_at may have passed at any moment, and the *)
(* caller that expires the record vouches for the certainty of the effect. *)
Expire(k) ==
  /\ reservations[k] # NoRecord
  /\ reservations' = [reservations EXCEPT ![k] = NoRecord]
  /\ UNCHANGED <<ledger, torn, approvalRequests, pc, work, history>>

-----------------------------------------------------------------------------
Continue(t) ==
  \/ Publish(t) \/ PublishRefused(t)
  \/ Gate(t) \/ GateRefused(t)
  \/ CreateApprovalRequest(t) \/ Accept(t)
  \/ Resolve(t) \/ ResolveRefused(t)

Submit(t, r) ==
  ReserveFirst(t, r) \/ ReserveDuplicate(t, r)

Environment ==
  \/ \E o \in Ops : OthersWrite(o)
  \/ \E k \in Keys : Complete(k) \/ Expire(k)

Next ==
  \/ \E t \in Threads :
       (\E r \in Requests : Submit(t, r)) \/ Continue(t) \/ WriteFails(t)
  \/ Crash
  \/ Environment

Spec == Init /\ [][Next]_vars

-----------------------------------------------------------------------------
(* Records, calls and answers keep their shape; a thread has locals        *)
(* exactly while it is in a call.                                          *)
TypeOK ==
  /\ reservations \in [Keys -> Record \cup {NoRecord}]
  /\ ledger \in [Ops -> [version: Nat, state: States]]
  /\ torn \subseteq Ops
  /\ approvalRequests \subseteq Ops
  /\ pc \in [Threads -> {"idle", "publish", "gate", "approval", "answer", "resolve"}]
  /\ work \in [Threads -> Work \cup {NoWork}]
  /\ \A t \in Threads : pc[t] = "idle" <=> work[t] = NoWork
  /\ epoch \in [Keys -> Nat]
  /\ answers \subseteq Work
  /\ faults \in Nat

(* All answers given under one reservation of a key name one operation,    *)
(* whoever asked and whatever failed in between: IdempotencyRepository     *)
(* .reserve lets one first caller decide the operation.                    *)
OneOperationPerReservation ==
  \A a, b \in answers :
    a.request.key = b.request.key /\ a.epoch = b.epoch => a.op = b.op

(* Nobody is answered with the operation of another intent: reserve()      *)
(* compares intents before a duplicate is resolved.                        *)
AnswersOwnIntent ==
  \A a \in answers : \E r \in Requests : r.op = a.op /\ r.intent = a.request.intent

(* An answer names an operation that is stored and stays stored, because   *)
(* submit_operation publishes or reads it before it returns.               *)
AnsweredOperationExists == \A a \in answers : Exists(a.op)

(* An answer is the operation of the caller's intent, and there is one.    *)
AnswersOwnOperation == AnswersOwnIntent /\ AnsweredOperationExists

(* One call at most wins an operation, also when its key expires and is    *)
(* reserved again or another key names it: nobody gates, or is told        *)
(* "accepted" for, an operation that another call published.               *)
Winners(o) == {t \in Threads : pc[t] \in {"gate", "approval", "answer"} /\ work[t].op = o}
OneWinner ==
  \A o \in Ops :
    /\ \A t, u \in Winners(o) : t = u
    /\ Winners(o) # {} =>
         \A a \in answers : a.op = o => a.outcome # "accepted"

(* An approver never finds the request of an operation that was not moved  *)
(* to waiting_for_approval: the gateway stores the request after the       *)
(* transition.                                                             *)
RequestFollowsGate == \A o \in approvalRequests : ledger[o].version >= 2

(* Submitting, gating and retrying only ever publish an absent operation   *)
(* or advance a present one: no reservation, however often its key is      *)
(* reused, resets an operation.                                            *)
Ledger == INSTANCE OperationLedger
ImplementsLedger == Ledger!Spec

-----------------------------------------------------------------------------
(* What the documentation says and the code does not do.                   *)

(* Expected by the idempotency table of the governance work plan: an       *)
(* identical call is answered with the operation, also while the first     *)
(* call has reserved the key and not yet published the operation.          *)
DuplicatesResolve ==
  \A t \in Threads : pc[t] = "resolve" => Exists(work[t].op)

(* Expected by the same table: a reserved key has an operation, or a call  *)
(* that is creating it.                                                    *)
ReservationHasOperation ==
  \A k \in Keys : reservations[k] # NoRecord =>
    \/ Exists(reservations[k].op)
    \/ \E t \in Threads : pc[t] = "publish" /\ work[t].op = reservations[k].op

(* Expected by the approval lifecycle of the work plan: an operation the   *)
(* gateway answered with has its approval request, or a call that is       *)
(* creating it.                                                            *)
AcceptanceHasRequest ==
  \A a \in answers : a.request.gated =>
    a.op \in approvalRequests \/ Winners(a.op) # {}

=============================================================================
