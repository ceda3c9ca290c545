--------------------------- MODULE Reconciliation ---------------------------
(***************************************************************************)
(* Reconciliation of uncertain effects.  The facade asks the provider      *)
(* adapter what became of a provider operation and stores the answer as    *)
(* audit records, one put after the other: the reconciliation record, the  *)
(* evidence, and a receipt when the outcome is settled.                    *)
(*                                                                         *)
(* The audit repository is immutable: a put under an identifier that has a *)
(* file succeeds only if the content is the same.  Identifiers digest what *)
(* was asked and answered; the contents hold the time as well.             *)
(***************************************************************************)
EXTENDS Naturals, FiniteSets

CONSTANTS
  Threads,
  Attempts,
  OperationOf,   \* the operation of each attempt
  Providers,     \* provider operation references
  NoWork,        \* the thread is in no call
  MaxRecords,    \* ImmutableRecordRepository.max_records
  TimeBound,     \* model bound: last instant
  FaultBound     \* model bound: crashes and failed writes in a behaviour

Settled == {"known_committed", "known_absent"}
Outcomes == Settled \cup {"unknown", "verification_unavailable"}

(* One answer of the adapter; its three records are made of nothing else,  *)
(* so a file is represented by the result it was made from.                *)
Result == [attempt: Attempts, provider: Providers, outcome: Outcomes, at: Nat]
Kinds == {"record", "evidence", "receipt"}

ASSUME ReconciliationAssumption ==
  /\ DOMAIN OperationOf = Attempts
  /\ NoWork \notin Result
  /\ MaxRecords \in Nat /\ TimeBound \in Nat /\ FaultBound \in Nat

VARIABLES
  clock,
  adapter,       \* what the provider adapter of this process answers
  files,         \* files of the audit repository, by kind
  pc, work,      \* the record each thread is about to put, and its result
  reported,      \* results returned to callers
  conflicts,     \* results refused for their content
  faults

vars == <<clock, adapter, files, pc, work, reported, conflicts, faults>>

Init ==
  /\ clock = 0
  /\ adapter \in [Providers -> Outcomes]
  /\ files = [k \in Kinds |-> {}]
  /\ pc = [t \in Threads |-> "idle"]
  /\ work = [t \in Threads |-> NoWork]
  /\ reported = {} /\ conflicts = {}
  /\ faults = 0

-----------------------------------------------------------------------------
(* The audit repository. *)

SameId(k, f, r) ==
  /\ f.provider = r.provider /\ f.outcome = r.outcome
  /\ k = "record" => f.attempt = r.attempt
  /\ k = "receipt" => OperationOf[f.attempt] = OperationOf[r.attempt]

(* Evidence names the operation it was collected for, and a receipt the    *)
(* invocation of the attempt.                                              *)
SameContent(k, f, r) ==
  /\ SameId(k, f, r) /\ f.at = r.at
  /\ k = "receipt" => f.attempt = r.attempt
  /\ OperationOf[f.attempt] = OperationOf[r.attempt]

Stored(k, r) == \E f \in files[k] : SameContent(k, f, r)
Differs(k, r) == \E f \in files[k] : SameId(k, f, r) /\ ~SameContent(k, f, r)
Full == Cardinality(files["record"]) + Cardinality(files["evidence"])
          + Cardinality(files["receipt"]) >= MaxRecords
Absent(k, r) == ~\E f \in files[k] : SameId(k, f, r)

With(k, r) == [files EXCEPT ![k] = @ \cup {r}]

-----------------------------------------------------------------------------
Tick ==
  /\ clock < TimeBound
  /\ clock' = clock + 1
  /\ UNCHANGED <<adapter, files, pc, work, reported, conflicts, faults>>

LeaveInPlace(t) ==
  /\ pc' = [pc EXCEPT ![t] = "idle"]
  /\ UNCHANGED work

Leave(t) ==
  /\ pc' = [pc EXCEPT ![t] = "idle"]
  /\ work' = [work EXCEPT ![t] = NoWork]

Reconcile(t, a, p) ==
  /\ pc[t] = "idle"
  /\ pc' = [pc EXCEPT ![t] = "record"]
  /\ work' = [work EXCEPT ![t] =
                [attempt |-> a, provider |-> p, outcome |-> adapter[p], at |-> clock]]
  /\ UNCHANGED <<clock, adapter, files, reported, conflicts, faults>>

(* The receipt put before what it refers to. *)
AfterReceiptFirst(k, r) ==
  IF k = "record" THEN IF r.outcome \in Settled THEN "receipt" ELSE "evidence"
  ELSE IF k = "receipt" THEN "evidence" ELSE "idle"

After(k, r) ==
  IF k = "record" THEN "evidence"
  ELSE IF k = "evidence" /\ r.outcome \in Settled THEN "receipt" ELSE "idle"

(* The call goes on with the next record, or returns its result.           *)
Continue(t) ==
  LET next == After(pc[t], work[t]) IN
  /\ pc' = [pc EXCEPT ![t] = next]
  /\ work' = [work EXCEPT ![t] = IF next = "idle" THEN NoWork ELSE work[t]]
  /\ reported' = IF next = "idle" THEN reported \cup {work[t]} ELSE reported

Put(t) ==
  /\ pc[t] \in Kinds
  /\ Absent(pc[t], work[t]) /\ ~Full
  /\ files' = With(pc[t], work[t])
  /\ Continue(t)
  /\ UNCHANGED <<clock, adapter, conflicts, faults>>

(* Any content with the identifier taken for the same. *)
PutAgainByName(t) ==
  /\ pc[t] \in Kinds
  /\ ~Absent(pc[t], work[t])
  /\ Continue(t)
  /\ UNCHANGED <<clock, adapter, files, conflicts, faults>>

(* The same content is stored already. *)
PutAgain(t) ==
  /\ pc[t] \in Kinds
  /\ Stored(pc[t], work[t])
  /\ Continue(t)
  /\ UNCHANGED <<clock, adapter, files, conflicts, faults>>

PutConflict(t) ==
  /\ pc[t] \in Kinds
  /\ Differs(pc[t], work[t])
  /\ conflicts' = conflicts \cup {work[t]}
  /\ Leave(t)
  /\ UNCHANGED <<clock, adapter, files, reported, faults>>

PutRefused(t) ==
  /\ pc[t] \in Kinds
  /\ Absent(pc[t], work[t]) /\ Full
  /\ Leave(t)
  /\ UNCHANGED <<clock, adapter, files, reported, conflicts, faults>>

WriteFails(t) ==
  /\ pc[t] \in Kinds
  /\ Absent(pc[t], work[t]) /\ ~Full
  /\ faults < FaultBound
  /\ faults' = faults + 1
  /\ Leave(t)
  /\ UNCHANGED <<clock, adapter, files, reported, conflicts>>

(* The next process may have learned other outcomes. *)
Crash ==
  /\ faults < FaultBound
  /\ faults' = faults + 1
  /\ adapter' \in [Providers -> Outcomes]
  /\ pc' = [t \in Threads |-> "idle"]
  /\ work' = [t \in Threads |-> NoWork]
  /\ UNCHANGED <<clock, files, reported, conflicts>>

Next ==
  \/ Tick
  \/ \E t \in Threads :
       \/ \E a \in Attempts, p \in Providers : Reconcile(t, a, p)
       \/ Put(t) \/ PutAgain(t) \/ PutConflict(t) \/ PutRefused(t) \/ WriteFails(t)
  \/ Crash

Spec == Init /\ [][Next]_vars

-----------------------------------------------------------------------------
(* Files are made of results, and a thread that is about to put a record   *)
(* has the result to make it from.                                         *)
TypeOK ==
  /\ clock \in Nat
  /\ adapter \in [Providers -> Outcomes]
  /\ files \in [Kinds -> SUBSET Result]
  /\ pc \in [Threads -> Kinds \cup {"idle"}]
  /\ DOMAIN work = Threads
  /\ \A t \in Threads : IF pc[t] = "idle" THEN work[t] = NoWork ELSE work[t] \in Result
  /\ reported \subseteq Result /\ conflicts \subseteq Result
  /\ faults \in Nat

(* What a caller was told is on disk with that content: the record, the    *)
(* evidence and, for a settled outcome, the receipt, whatever other        *)
(* threads, failed writes and restarts do meanwhile.                       *)
ReportedStored ==
  \A r \in reported :
    /\ Stored("record", r) /\ Stored("evidence", r)
    /\ r.outcome \in Settled => Stored("receipt", r)

(* A receipt proves something: the reconciliation it was issued in and the *)
(* evidence it refers to were stored before it, and its outcome is settled.*)
ReceiptHasEvidence ==
  \A r \in files["receipt"] :
    r.outcome \in Settled /\ Stored("record", r) /\ Stored("evidence", r)

(* Nothing is half told: a caller's answer has all its records, a receipt  *)
(* has what it refers to.                                                  *)
RecordsComplete == ReportedStored /\ ReceiptHasEvidence

-----------------------------------------------------------------------------
(* What the documentation says and the code does not do.                   *)

(* Expected by the reconciliation table of the work plan: an operation     *)
(* whose effect is not settled stays reconcilable, so a later question     *)
(* with the same answer is not an error.                                   *)
StaysReconcilable == \A r \in conflicts : r.outcome \in Settled

(* Expected by the same table: a committed or absent effect gets its        *)
(* receipt.  Once calls have ended, a settled result that was refused as a  *)
(* repetition has the receipt that the first one announced.                 *)
SettledHasReceipt ==
  (\A t \in Threads : pc[t] = "idle") =>
    \A r \in conflicts :
      r.outcome \in Settled /\ ~Absent("record", r) => ~Absent("receipt", r)
=============================================================================
