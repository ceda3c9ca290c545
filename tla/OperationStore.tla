--------------------------- MODULE OperationStore ----------------------------
(***************************************************************************)
(* The durable operation store and the two controllers that write to it.   *)
(*                                                                         *)
(* An operation is a directory with initial.json, one numbered file per    *)
(* event, and snapshot.json.  Threads of one process share the store; a    *)
(* write happens file by file under the store's lock, while get() and      *)
(* events() take no lock, so that a call reads the snapshot, then the last *)
(* event, then takes the lock and checks again.  One file write is atomic  *)
(* (temporary file, fsync, rename); the process may crash, and a write may *)
(* fail, between any two of them.                                          *)
(***************************************************************************)
EXTENDS OperationStates, FiniteSets

CONSTANTS
  Ops,             \* operation identifiers
  Threads,         \* threads of the process that call the store
  NoThread,        \* the lock is free
  NoWork,          \* the thread is in no call
  NoFile,          \* the file does not exist
  Targets,         \* target states callers ask for
  MaxOperations,   \* StoreLimits.maximum_operations
  MaxEvents,       \* StoreLimits.maximum_events_per_operation
  HistoryBound,    \* model bound: no call starts from a later version
  FaultBound       \* model bound: crashes and failed writes in a behaviour

ASSUME ConstantsAssumption ==
  /\ NoThread \notin Threads
  /\ NoFile \notin Operation
  /\ Targets \subseteq States
  /\ MaxOperations \in Nat
  /\ MaxEvents \in Nat
  /\ HistoryBound \in Nat
  /\ FaultBound \in Nat

VARIABLES
  dirs,            \* operations whose directory exists
  initial,         \* initial.json of each operation
  events,          \* events[o][n] is the event file numbered n
  snapshot,        \* snapshot.json; version 0 while it does not exist
  lock,            \* the thread that holds the store's lock
  pc, work,        \* where each thread is in its call, and its locals
  acked,           \* versions whose write was reported to the caller
  faults           \* crashes and failed writes so far

disk == <<dirs, initial, events, snapshot>>
vars == <<dirs, initial, events, snapshot, lock, pc, work, acked, faults>>

-----------------------------------------------------------------------------
(* Event files.  A digest stands for the hash of the event it is taken of. *)

Kinds == {"accepted", "transition", "requested", "acknowledged"}
Digest == Nat \X Kinds \X States
NoDigest == <<0, "accepted", "accepted">>

Event == [seq: Nat, prev: Digest, kind: Kinds, from: States, to: States, err: BOOLEAN]

DigestOf(e) == <<e.seq, e.kind, e.to>>

AcceptedEvent ==
  [seq |-> 1, prev |-> NoDigest, kind |-> "accepted",
   from |-> "accepted", to |-> "accepted", err |-> FALSE]

Files(o) == DOMAIN events[o]
LastFile(o) == CHOOSE n \in Files(o) : Files(o) = 1 .. n

(* events(): the files are 1, 2, ... without a gap, each event has its     *)
(* file's number and the digest of the event before it.                    *)
Readable(o) ==
  /\ \E last \in Files(o) : Files(o) = 1 .. last
  /\ \A n \in Files(o) :
       /\ events[o][n].seq = n
       /\ events[o][n].prev = IF n = 1 THEN NoDigest ELSE DigestOf(events[o][n - 1])

WithFile(o, n, e) ==
  [events EXCEPT ![o] = [m \in DOMAIN @ \cup {n} |-> IF m = n THEN e ELSE @[m]]]

-----------------------------------------------------------------------------
Init ==
  /\ dirs = {}
  /\ initial = [o \in Ops |-> NoFile]
  /\ events = [o \in Ops |-> [n \in {} |-> AcceptedEvent]]
  /\ snapshot = [o \in Ops |-> [version |-> 0, op |-> NewOperation(TRUE)]]
  /\ lock = NoThread
  /\ pc = [t \in Threads |-> "idle"]
  /\ work = [t \in Threads |-> NoWork]
  /\ acked = [o \in Ops |-> {}]
  /\ faults = 0

(* Mutant of Leave: the locals go, the thread stays where it is. *)
LeaveInPlace(t) ==
  /\ pc' = pc
  /\ work' = [work EXCEPT ![t] = NoWork]

(* Thread t leaves its call, with or without a result. *)
Leave(t) ==
  /\ pc' = [pc EXCEPT ![t] = "idle"]
  /\ work' = [work EXCEPT ![t] = NoWork]

Goto(t, step) == pc' = [pc EXCEPT ![t] = step]

-----------------------------------------------------------------------------
(* publish(): limit and existence are checked under the lock, then the     *)
(* directory, initial.json, event 1 and the snapshot are written in turn.  *)

(* Mutant: the directory may exist already. *)
PublishDirectoryAgain(t, o) ==
  /\ pc[t] = "idle"
  /\ lock = NoThread
  /\ dirs' = dirs \cup {o}
  /\ lock' = t
  /\ work' = [work EXCEPT ![t] = [op |-> o, base |-> 0, event |-> AcceptedEvent,
                                  result |-> NewOperation(TRUE)]]
  /\ Goto(t, "initial")
  /\ UNCHANGED <<initial, events, snapshot, acked, faults>>

PublishDirectory(t, o) ==
  /\ pc[t] = "idle"
  /\ lock = NoThread
  /\ Cardinality(dirs) < MaxOperations
  /\ o \notin dirs
  /\ dirs' = dirs \cup {o}
  /\ lock' = t
  /\ \E cancellable \in BOOLEAN :
       work' = [work EXCEPT ![t] =
                 [op |-> o, base |-> 0, event |-> AcceptedEvent,
                  result |-> NewOperation(cancellable)]]
  /\ Goto(t, "initial")
  /\ UNCHANGED <<initial, events, snapshot, acked, faults>>

PublishInitial(t) ==
  /\ pc[t] = "initial"
  /\ initial' = [initial EXCEPT ![work[t].op] = work[t].result]
  /\ Goto(t, "first_event")
  /\ UNCHANGED <<dirs, events, snapshot, lock, work, acked, faults>>

PublishFirstEvent(t) ==
  /\ pc[t] = "first_event"
  /\ events' = WithFile(work[t].op, 1, work[t].event)
  /\ Goto(t, "snapshot")
  /\ UNCHANGED <<dirs, initial, snapshot, lock, work, acked, faults>>

-----------------------------------------------------------------------------
(* transition(), request() and acknowledge() start from a snapshot read    *)
(* without the lock.  The references a transition must carry (approval,    *)
(* attempt, result) are supplied by the caller; a call without them, or    *)
(* with a time before the last update, is refused and changes nothing.     *)

Begin(t, o, event, result) ==
  /\ work' = [work EXCEPT ![t] = [op |-> o, base |-> snapshot[o].version,
                                  event |-> event, result |-> result]]
  /\ Goto(t, "read_events")
  /\ UNCHANGED <<disk, lock, acked, faults>>

(* Mutant: is_legal is not asked. *)
TransitionUnchecked(t, o, to, err, reason) ==
  LET op == snapshot[o].op IN
  /\ pc[t] = "idle"
  /\ snapshot[o].version \in 1 .. HistoryBound
  /\ to # op.state
  /\ to = "failed" => err
  /\ to = "succeeded" => ~err
  /\ to \in {"cancelled", "timed_out"} => reason
  /\ Begin(t, o,
       [seq |-> snapshot[o].version + 1, prev |-> NoDigest, kind |-> "transition",
        from |-> op.state, to |-> to, err |-> err],
       [op EXCEPT !.state = to, !.err = err])

(* A cancellation reason, given for any target, completes the              *)
(* cancellation; the reason is not part of the stored transition.          *)
Transition(t, o, to, err, reason) ==
  LET op == snapshot[o].op IN
  /\ pc[t] = "idle"
  /\ snapshot[o].version \in 1 .. HistoryBound
  /\ to \in LegalTransitions[op.state]
  /\ to = "failed" => err
  /\ to = "succeeded" => ~err
  /\ to \in {"cancelled", "timed_out"} => reason
  /\ Begin(t, o,
       [seq |-> snapshot[o].version + 1, prev |-> NoDigest, kind |-> "transition",
        from |-> op.state, to |-> to, err |-> err],
       [state |-> to, err |-> err,
        cancellable |-> op.cancellable /\ ~reason,
        cancel |-> IF reason THEN "completed" ELSE op.cancel])

WithCancellation(op, state) == [op EXCEPT !.cancel = state]

(* A cancellation event leaves the operation's state alone. *)
Observation(t, o, kind) ==
  LET op == snapshot[o].op IN
  Begin(t, o,
    [seq |-> snapshot[o].version + 1, prev |-> NoDigest, kind |-> kind,
     from |-> op.state, to |-> op.state, err |-> FALSE],
    WithCancellation(op, kind))

RequestCancellation(t, o) ==
  /\ pc[t] = "idle"
  /\ snapshot[o].version \in 1 .. HistoryBound
  /\ snapshot[o].op.cancellable
  /\ Observation(t, o, "requested")

(* Mutant: the cancellation need not be pending. *)
AcknowledgeAnyCancellation(t, o) ==
  /\ pc[t] = "idle"
  /\ snapshot[o].version \in 1 .. HistoryBound
  /\ Observation(t, o, "acknowledged")

AcknowledgeCancellation(t, o) ==
  /\ pc[t] = "idle"
  /\ snapshot[o].version \in 1 .. HistoryBound
  /\ snapshot[o].op.cancel = "requested"
  /\ Observation(t, o, "acknowledged")

(* The event under construction, linked to its predecessor. *)
Chained(w, before) == [w EXCEPT !.event.prev = DigestOf(before)]

(* Mutant: the digest of the first event instead of the last. *)
ReadFirstEvent(t) ==
  LET o == work[t].op IN
  /\ pc[t] = "read_events"
  /\ Readable(o)
  /\ work' = [work EXCEPT ![t] = Chained(@, events[o][1])]
  /\ Goto(t, "append")
  /\ UNCHANGED <<disk, lock, acked, faults>>

(* events(operation_id)[-1].spec.event_digest, still without the lock. *)
ReadLastEvent(t) ==
  LET o == work[t].op IN
  /\ pc[t] = "read_events"
  /\ Readable(o)
  /\ work' = [work EXCEPT ![t] = Chained(@, events[o][LastFile(o)])]
  /\ Goto(t, "append")
  /\ UNCHANGED <<disk, lock, acked, faults>>

(* Mutant: neither the version nor the event file is checked. *)
CurrentState(t) ==
  snapshot[work[t].op].op.state = work[t].event.from

(* append() and append_observation() check again under the lock.  Only     *)
(* append() checks the event limit.  The event file must not exist.        *)
Current(t) ==
  LET o == work[t].op IN
  /\ snapshot[o].version = work[t].base
  /\ snapshot[o].op.state = work[t].event.from
  /\ work[t].event.kind = "transition" => snapshot[o].version < MaxEvents
  /\ work[t].event.seq \notin Files(o)

(* Mutant: the lock is given back before the snapshot is written. *)
AppendEventUnlocked(t) ==
  /\ pc[t] = "append"
  /\ lock = NoThread
  /\ Current(t)
  /\ lock' = NoThread
  /\ events' = WithFile(work[t].op, work[t].event.seq, work[t].event)
  /\ Goto(t, "snapshot")
  /\ UNCHANGED <<dirs, initial, snapshot, work, acked, faults>>

(* Mutant: the version is reported as soon as its event is written. *)
AppendEventReported(t) ==
  /\ pc[t] = "append"
  /\ lock = NoThread
  /\ Current(t)
  /\ lock' = t
  /\ events' = WithFile(work[t].op, work[t].event.seq, work[t].event)
  /\ acked' = [acked EXCEPT ![work[t].op] = @ \cup {work[t].event.seq}]
  /\ Goto(t, "snapshot")
  /\ UNCHANGED <<dirs, initial, snapshot, work, faults>>

AppendEvent(t) ==
  /\ pc[t] = "append"
  /\ lock = NoThread
  /\ Current(t)
  /\ lock' = t
  /\ events' = WithFile(work[t].op, work[t].event.seq, work[t].event)
  /\ Goto(t, "snapshot")
  /\ UNCHANGED <<dirs, initial, snapshot, work, acked, faults>>

(* The call raises: an unreadable history, a stale version or state, the   *)
(* event limit, or an event file that already exists.                      *)
Refuse(t) ==
  /\ \/ pc[t] = "read_events" /\ ~Readable(work[t].op)
     \/ pc[t] = "append" /\ lock = NoThread /\ ~Current(t)
  /\ Leave(t)
  /\ UNCHANGED <<disk, lock, acked, faults>>

(* _write_snapshot replaces the file. *)
ReplaceSnapshot(t) ==
  snapshot' = [snapshot EXCEPT ![work[t].op] =
                [version |-> work[t].event.seq, op |-> work[t].result]]

(* The last write of publish(), append() and append_observation(). *)
WriteSnapshot(t) ==
  /\ pc[t] = "snapshot"
  /\ ReplaceSnapshot(t)
  /\ acked' = [acked EXCEPT ![work[t].op] = @ \cup {work[t].event.seq}]
  /\ lock' = NoThread
  /\ Leave(t)
  /\ UNCHANGED <<dirs, initial, events, faults>>

-----------------------------------------------------------------------------
(* Mutant: a failed write keeps the lock. *)
WriteFailsLocked(t) ==
  /\ faults < FaultBound
  /\ pc[t] \in {"initial", "first_event", "snapshot"}
  /\ faults' = faults + 1
  /\ Leave(t)
  /\ UNCHANGED <<disk, lock, acked>>

(* A write raises (full disk, record over the size limit): the exception   *)
(* leaves the with-block, and the files written so far stay.  It raises    *)
(* before the file is replaced, or after (the directory sync); for the     *)
(* earlier files of a call the latter is the next write raising before.    *)
WriteFails(t) ==
  /\ faults < FaultBound
  /\ \/ /\ pc[t] \in {"initial", "first_event", "snapshot"}
        /\ UNCHANGED snapshot
     \/ /\ pc[t] = "append" /\ lock = NoThread /\ Current(t)
        /\ UNCHANGED snapshot
     \/ /\ pc[t] = "snapshot"
        /\ ReplaceSnapshot(t)
  /\ faults' = faults + 1
  /\ lock' = NoThread
  /\ Leave(t)
  /\ UNCHANGED <<dirs, initial, events, acked>>

(* The process dies and is restarted on the same directory. *)
Crash ==
  /\ faults < FaultBound
  /\ faults' = faults + 1
  /\ lock' = NoThread
  /\ pc' = [t \in Threads |-> "idle"]
  /\ work' = [t \in Threads |-> NoWork]
  /\ UNCHANGED <<disk, acked>>

Call(t) ==
  \E o \in Ops :
    \/ PublishDirectory(t, o)
    \/ \E to \in Targets, err, reason \in BOOLEAN : Transition(t, o, to, err, reason)
    \/ RequestCancellation(t, o)
    \/ AcknowledgeCancellation(t, o)

Step(t) ==
  \/ PublishInitial(t)
  \/ PublishFirstEvent(t)
  \/ ReadLastEvent(t)
  \/ AppendEvent(t)
  \/ Refuse(t)
  \/ WriteSnapshot(t)

Next ==
  \/ \E t \in Threads : Call(t) \/ Step(t) \/ WriteFails(t)
  \/ Crash

Spec == Init /\ [][Next]_vars

(* A thread inside a call is scheduled until it leaves it; nobody has to   *)
(* call, crash or fail.                                                    *)
FairSpec == Spec /\ \A t \in Threads : WF_vars(Step(t))

-----------------------------------------------------------------------------
(* replay(): the operation rebuilt from initial.json and the event files.  *)

(* Mutant: cancellation events are skipped. *)
RebuiltWithoutCancellation(op, e) ==
  IF e.kind = "transition"
    THEN [op EXCEPT !.state = e.to,
                    !.err = IF e.to \in Terminal THEN e.err ELSE @]
    ELSE op

(* One event applied to a rebuilt operation; a transition that does not    *)
(* start where the history stands, or a result the model validator         *)
(* rejects, ends the replay.                                               *)
Rebuilt(op, e) ==
  IF e.kind = "transition"
    THEN [op EXCEPT !.state = e.to,
                    !.err = IF e.to \in Terminal THEN e.err ELSE @]
    ELSE WithCancellation(op, e.kind)

Applies(op, e) ==
  e.kind = "transition" => op.state = e.from /\ Valid(Rebuilt(op, e))

ReplayUpTo(o) ==
  LET replay[n \in Files(o)] ==
        IF n = 1 THEN [ok |-> TRUE, op |-> initial[o]]
        ELSE LET before == replay[n - 1]
                 e == events[o][n] IN
             [ok |-> before.ok /\ Applies(before.op, e), op |-> Rebuilt(before.op, e)]
  IN replay

ReplaySucceeds(o) ==
  /\ initial[o] # NoFile
  /\ Readable(o)
  /\ snapshot[o].version = LastFile(o)
  /\ ReplayUpTo(o)[LastFile(o)] = [ok |-> TRUE, op |-> snapshot[o].op]

-----------------------------------------------------------------------------
(* Properties.                                                             *)

Work ==
  [op: Ops, base: Nat, event: Event, result: Operation]

(* Every variable has its type; a thread has locals exactly while it is in *)
(* a call.                                                                 *)
TypeOK ==
  /\ dirs \subseteq Ops
  /\ initial \in [Ops -> Operation \cup {NoFile}]
  /\ DOMAIN events = Ops
  /\ \A o \in Ops :
       /\ Files(o) \subseteq Nat
       /\ \A n \in Files(o) : events[o][n] \in Event
  /\ snapshot \in [Ops -> [version: Nat, op: Operation]]
  /\ lock \in Threads \cup {NoThread}
  /\ pc \in [Threads -> {"idle", "initial", "first_event", "snapshot",
                         "read_events", "append"}]
  /\ work \in [Threads -> Work \cup {NoWork}]
  /\ \A t \in Threads : pc[t] # "idle" => work[t] \in Work
  /\ acked \in [Ops -> SUBSET Nat]
  /\ faults \in Nat

(* A published operation's history can always be read: files without a     *)
(* gap and an unbroken digest chain, although the previous digest is read  *)
(* without the lock, racing with other appends, failed writes and crashes. *)
HistoryReadable ==
  \A o \in Ops : snapshot[o].version > 0 => Readable(o)

(* The history is a path of the state machine: every event starts in the   *)
(* state the one before it ended in, a transition is in the table and an   *)
(* observation does not move the state; the snapshot is the state after    *)
(* the event of its version.                                               *)
HistoryLegal ==
  \A o \in Ops :
    /\ \A n \in Files(o) \ {1} :
         LET e == events[o][n] IN
         /\ n - 1 \in Files(o)
         /\ e.from = events[o][n - 1].to
         /\ IF e.kind = "transition" THEN e.to \in LegalTransitions[e.from]
                                     ELSE e.to = e.from
    /\ snapshot[o].version > 0 =>
         /\ snapshot[o].version \in Files(o)
         /\ snapshot[o].op.state = events[o][snapshot[o].version].to

(* While nobody writes, the history is at most one event ahead of the      *)
(* snapshot, and only a crash or a failed write leaves it ahead.           *)
TornOnlyByFault ==
  lock = NoThread =>
    \A o \in Ops :
      /\ Files(o) \subseteq 1 .. snapshot[o].version + 1
      /\ faults = 0 => Files(o) = 1 .. snapshot[o].version

(* A version reported to a caller survives every later crash, failed write *)
(* and concurrent call.                                                    *)
AckedDurable ==
  \A o \in Ops : \A v \in acked[o] :
    /\ v <= snapshot[o].version
    /\ v \in Files(o)

(* What is on disk can be relied on at any moment of any interleaving,     *)
(* crash or failed write: a published history is readable, it is a legal   *)
(* one, it is torn by faults only, and nothing reported is missing.        *)
HistorySound ==
  HistoryReadable /\ HistoryLegal /\ TornOnlyByFault /\ AckedDurable

(* Event files and initial.json are immutable and the snapshot never goes  *)
(* back to an earlier version.                                             *)
AppendOnly ==
  [][\A o \in Ops :
       /\ Files(o) \subseteq DOMAIN events'[o]
       /\ \A n \in Files(o) : events'[o][n] = events[o][n]
       /\ initial[o] # NoFile => initial'[o] = initial[o]
       /\ snapshot[o].version <= snapshot'[o].version]_vars

(* Optimistic concurrency: two calls are never both told that they wrote   *)
(* the same version of the same operation.                                 *)
NoVersionReportedTwice ==
  [][\A t \in Threads :
       pc[t] = "snapshot" /\ snapshot' # snapshot
         => work[t].event.seq \notin acked[work[t].op]]_vars

(* An acknowledgement answers a request nobody has answered yet: going     *)
(* back from it over transitions only, one comes to a request.             *)
AckAnswersRequest ==
  \A o \in Ops : \A n \in Files(o) :
    events[o][n].kind = "acknowledged" =>
      \E m \in Files(o) :
        /\ m < n
        /\ events[o][m].kind = "requested"
        /\ \A k \in Files(o) : m < k /\ k < n => events[o][k].kind = "transition"

(* Replay rebuilds the snapshot field by field, when nothing was torn, no  *)
(* transition completed a cancellation, and no waiting state carries an    *)
(* error: the three cases in which the code's replay cannot succeed.       *)
ReplayFaithful ==
  lock = NoThread =>
    \A o \in Ops :
      LET s == snapshot[o] IN
      /\ s.version > 0
      /\ Files(o) = 1 .. s.version
      /\ s.op.cancel # "completed"
      /\ s.op.err => s.op.state \in Terminal
      => ReplaySucceeds(o)

(* Every call returns: the lock is given back on every path, also when a   *)
(* write fails.                                                            *)
EveryCallReturns ==
  \A t \in Threads : pc[t] # "idle" ~> pc[t] = "idle"

(* The snapshots alone are the ledger: a caller that only uses get() sees  *)
(* an atomic store, whatever the files look like in between.               *)
LedgerView ==
  [o \in Ops |-> [version |-> snapshot[o].version, state |-> snapshot[o].op.state]]

Ledger == INSTANCE OperationLedger WITH ledger <- LedgerView

ImplementsLedger == Ledger!Spec

-----------------------------------------------------------------------------
(* What the code's documentation says and the code does not do.            *)

(* "Crash-safe" (module docstring of the store): after a restart, an       *)
(* operation that was published can take its next event.                   *)
CrashSafeAppend ==
  lock = NoThread =>
    \A o \in Ops : snapshot[o].version > 0 => snapshot[o].version + 1 \notin Files(o)

(* "Return validated operation snapshots" (list_operations): a crash       *)
(* during one publication does not hide the other operations.              *)
CrashSafeListing ==
  lock = NoThread => \A o \in dirs : snapshot[o].version > 0

(* "snapshot does not match replayed history" (the check that ends         *)
(* replay): without any fault, a cancelled or timed-out operation can be   *)
(* replayed like any other.                                                *)
CancelledReplays ==
  lock = NoThread =>
    \A o \in Ops :
      snapshot[o].op.state \in {"cancelled", "timed_out"} => ReplaySucceeds(o)

(* maximum_events_per_operation (StoreLimits): no operation has more event *)
(* files than the limit.                                                   *)
EventRetention ==
  \A o \in Ops : Files(o) \subseteq 1 .. MaxEvents

=============================================================================
