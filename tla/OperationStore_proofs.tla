------------------------ MODULE OperationStore_proofs ------------------------
(***************************************************************************)
(* Proofs about OperationStore: its type invariant, the inductive          *)
(* invariant of its files and calls, what follows from it, and that a      *)
(* history replays to its snapshot.                                        *)
(***************************************************************************)
EXTENDS OperationStore, WellFoundedInduction, TLAPS

-----------------------------------------------------------------------------
(* Every state of the table has its targets in the table. *)
LEMMA LegalTransitionsType ==
  \A s \in States : LegalTransitions[s] \subseteq States
  BY Zenon DEF LegalTransitions, States, Terminal, Stop

(* The typing of what a thread computes for itself. *)
LEMMA RecordTypes ==
  /\ AcceptedEvent \in Event
  /\ \A c \in BOOLEAN : NewOperation(c) \in Operation
  /\ NewOperation(TRUE) \in Operation
  /\ \A e \in Event : DigestOf(e) \in Digest
  /\ NoDigest \in Digest
  BY DEF AcceptedEvent, Event, NewOperation, Operation, DigestOf, Digest, NoDigest,
         Kinds, States, Terminal, Cancellations

(* Recording a cancellation changes no other field. *)
LEMMA WithCancellationType ==
  \A op \in Operation, c \in Cancellations :
    WithCancellation(op, c) \in Operation /\ WithCancellation(op, c).state = op.state
  BY Zenon DEF WithCancellation, Operation

(* Linking an event changes its previous digest only. *)
LEMMA ChainedType ==
  \A w \in Work, e \in Event :
    /\ Chained(w, e) \in Work
    /\ Chained(w, e).op = w.op
    /\ Chained(w, e).base = w.base
    /\ Chained(w, e).result = w.result
    /\ Chained(w, e).event.seq = w.event.seq
    /\ Chained(w, e).event.prev = DigestOf(e)
    /\ Chained(w, e).event.kind = w.event.kind
    /\ Chained(w, e).event.from = w.event.from
    /\ Chained(w, e).event.to = w.event.to
    /\ Chained(w, e).event.err = w.event.err
<1> SUFFICES ASSUME NEW w \in Work, NEW e \in Event
             PROVE  /\ Chained(w, e) \in Work
                    /\ Chained(w, e).op = w.op
                    /\ Chained(w, e).base = w.base
                    /\ Chained(w, e).result = w.result
                    /\ Chained(w, e).event.seq = w.event.seq
                    /\ Chained(w, e).event.prev = DigestOf(e)
                    /\ Chained(w, e).event.kind = w.event.kind
                    /\ Chained(w, e).event.from = w.event.from
                    /\ Chained(w, e).event.to = w.event.to
                    /\ Chained(w, e).event.err = w.event.err
  OBVIOUS
<1>1. DigestOf(e) \in Digest
  BY RecordTypes
<1>2. /\ Chained(w, e).op = w.op
      /\ Chained(w, e).base = w.base
      /\ Chained(w, e).result = w.result
      /\ Chained(w, e).event = [w.event EXCEPT !.prev = DigestOf(e)]
  BY Zenon DEF Chained, Work
<1>3. w.event \in Event
  BY DEF Work
<1>4. /\ [w.event EXCEPT !.prev = DigestOf(e)].seq = w.event.seq
      /\ [w.event EXCEPT !.prev = DigestOf(e)].prev = DigestOf(e)
      /\ [w.event EXCEPT !.prev = DigestOf(e)].kind = w.event.kind
      /\ [w.event EXCEPT !.prev = DigestOf(e)].from = w.event.from
      /\ [w.event EXCEPT !.prev = DigestOf(e)].to = w.event.to
      /\ [w.event EXCEPT !.prev = DigestOf(e)].err = w.event.err
  BY <1>3, Zenon DEF Event
<1>5. Chained(w, e) \in Work
  BY <1>1, Zenon DEF Chained, Work, Event
<1> QED
  BY <1>2, <1>4, <1>5

(* A readable history has a last file, which is the largest number. *)
LEMMA LastFileType ==
  ASSUME NEW o, Readable(o)
  PROVE  LastFile(o) \in Files(o) /\ Files(o) = 1 .. LastFile(o)
  BY Zenon DEF Readable, LastFile

(* One more event file keeps the event files well typed. *)
LEMMA WithFileType ==
  ASSUME DOMAIN events = Ops,
         \A o \in Ops : /\ Files(o) \subseteq Nat
                        /\ \A n \in Files(o) : events[o][n] \in Event,
         NEW p \in Ops, NEW k \in Nat, NEW e \in Event,
         events' = WithFile(p, k, e)
  PROVE  /\ DOMAIN events' = Ops
         /\ \A o \in Ops : /\ Files(o)' \subseteq Nat
                           /\ \A n \in Files(o)' : events'[o][n] \in Event
  BY DEF WithFile, Files

-----------------------------------------------------------------------------
(* Types hold initially and are kept by every step. *)
LEMMA TypeInit == Init => TypeOK
<1> SUFFICES ASSUME Init PROVE TypeOK
  OBVIOUS
<1>1. DOMAIN events = Ops /\ \A o \in Ops : Files(o) = {}
  BY DEF Init, Files
<1>2. snapshot \in [Ops -> [version: Nat, op: Operation]]
  BY RecordTypes DEF Init
<1>3. \A t \in Threads : pc[t] = "idle"
  BY DEF Init
<1>4. initial \in [Ops -> Operation \cup {NoFile}] /\ work \in [Threads -> Work \cup {NoWork}]
  BY Zenon DEF Init
<1> QED
  BY <1>1, <1>2, <1>3, <1>4 DEF Init, TypeOK

LEMMA TypeStep == TypeOK /\ [Next]_vars => TypeOK'
<1> SUFFICES ASSUME TypeOK, [Next]_vars
             PROVE  TypeOK'
  OBVIOUS
<1> USE DEF TypeOK, Leave, Goto, disk
<1>1. ASSUME NEW t \in Threads, NEW o \in Ops, PublishDirectory(t, o)
      PROVE  TypeOK'
  BY <1>1, RecordTypes DEF PublishDirectory, Work, Files
<1>2. ASSUME NEW t \in Threads, NEW o \in Ops, NEW to \in Targets,
             NEW err \in BOOLEAN, NEW reason \in BOOLEAN, Transition(t, o, to, err, reason)
      PROVE  TypeOK'
  BY <1>2, RecordTypes, LegalTransitionsType, ConstantsAssumption
     DEF Transition, Begin, Work, Event, Operation, Kinds, Cancellations, Files
<1>3. ASSUME NEW t \in Threads, NEW o \in Ops,
             RequestCancellation(t, o) \/ AcknowledgeCancellation(t, o)
      PROVE  TypeOK'
  <2>1. PICK kind \in {"requested", "acknowledged"} : Observation(t, o, kind)
    BY <1>3 DEF RequestCancellation, AcknowledgeCancellation
  <2>2. WithCancellation(snapshot[o].op, kind) \in Operation
    BY WithCancellationType DEF Cancellations
  <2>3. snapshot[o].version + 1 \in Nat /\ snapshot[o].op.state \in States
    BY DEF Operation
  <2> DEFINE event == [seq |-> snapshot[o].version + 1, prev |-> NoDigest, kind |-> kind,
                       from |-> snapshot[o].op.state, to |-> snapshot[o].op.state,
                       err |-> FALSE]
  <2>4. event \in Event
    BY <2>3, RecordTypes DEF Event, Kinds
  <2>5. Begin(t, o, event, WithCancellation(snapshot[o].op, kind))
    BY <2>1 DEF Observation
  <2> HIDE DEF event
  <2> QED
    BY <2>2, <2>4, <2>5 DEF Begin, Work, Files
<1>4. ASSUME NEW t \in Threads, PublishInitial(t)
      PROVE  TypeOK'
  BY <1>4 DEF PublishInitial, Work, Files
<1>5. ASSUME NEW t \in Threads, PublishFirstEvent(t)
      PROVE  TypeOK'
  <2>1. work[t].op \in Ops /\ work[t].event \in Event
    BY <1>5 DEF PublishFirstEvent, Work
  <2>2. /\ DOMAIN events' = Ops
        /\ \A o \in Ops : /\ Files(o)' \subseteq Nat
                          /\ \A n \in Files(o)' : events'[o][n] \in Event
    BY <1>5, <2>1, WithFileType DEF PublishFirstEvent
  <2> QED
    BY <1>5, <2>2 DEF PublishFirstEvent
<1>6. ASSUME NEW t \in Threads, ReadLastEvent(t)
      PROVE  TypeOK'
  <2>1. work[t] \in Work /\ work[t].op \in Ops
    BY <1>6 DEF ReadLastEvent, Work
  <2>2. LastFile(work[t].op) \in Files(work[t].op)
    BY <1>6, <2>1, LastFileType DEF ReadLastEvent, Readable
  <2>3. Chained(work[t], events[work[t].op][LastFile(work[t].op)]) \in Work
    BY <2>1, <2>2, ChainedType
  <2> QED
    BY <1>6, <2>3 DEF ReadLastEvent, Files
<1>7. ASSUME NEW t \in Threads, AppendEvent(t)
      PROVE  TypeOK'
  <2>1. work[t].op \in Ops /\ work[t].event \in Event /\ work[t].event.seq \in Nat
    BY <1>7 DEF AppendEvent, Work, Event
  <2>2. /\ DOMAIN events' = Ops
        /\ \A o \in Ops : /\ Files(o)' \subseteq Nat
                          /\ \A n \in Files(o)' : events'[o][n] \in Event
    BY <1>7, <2>1, WithFileType DEF AppendEvent
  <2> QED
    BY <1>7, <2>2 DEF AppendEvent
<1>8. ASSUME NEW t \in Threads, Refuse(t)
      PROVE  TypeOK'
  BY <1>8 DEF Refuse, Files
<1>9. ASSUME NEW t \in Threads, WriteSnapshot(t)
      PROVE  TypeOK'
  BY <1>9 DEF WriteSnapshot, ReplaceSnapshot, Work, Event, Files
<1>10. ASSUME NEW t \in Threads, WriteFails(t)
       PROVE  TypeOK'
  BY <1>10 DEF WriteFails, ReplaceSnapshot, Work, Event, Files
<1>11. CASE Crash
  BY <1>11 DEF Crash, Files
<1>12. CASE UNCHANGED vars
  BY <1>12 DEF vars, Files
<1> QED
  BY <1>1, <1>2, <1>3, <1>4, <1>5, <1>6, <1>7, <1>8, <1>9, <1>10, <1>11, <1>12
     DEF Next, Call, Step

(* The type invariant holds in every reachable state, for every number of  *)
(* operations and threads, limit and bound.                                *)
THEOREM TypeCorrect == Spec => []TypeOK
  BY TypeInit, TypeStep, PTL DEF Spec
-----------------------------------------------------------------------------
(* The inductive invariant.  The safety properties are not inductive: that *)
(* the digest a thread read without the lock is still the last one when it *)
(* appends follows from what the thread's locals say about the files.      *)

Version(o) == snapshot[o].version

(* An event other than the first moves the state along the table, or       *)
(* observes it.                                                            *)
LegalEvent(e) ==
  /\ e.kind # "accepted"
  /\ IF e.kind = "transition" THEN e.to \in LegalTransitions[e.from]
                              ELSE e.to = e.from

(* The history is complete up to the snapshot and at most one event ahead. *)
FilesInv ==
  \A o \in Ops :
    /\ Files(o) = 1 .. Version(o) \/ Files(o) = 1 .. Version(o) + 1
    /\ o \notin dirs => Version(o) = 0 /\ Files(o) = {} /\ initial[o] = NoFile

(* Every event continues the one before it; the snapshot has the state the *)
(* history reaches at its version.                                         *)
ChainInv ==
  \A o \in Ops :
    /\ \A n \in Files(o) :
         /\ events[o][n].seq = n
         /\ n = 1 => events[o][n].prev = NoDigest
         /\ n > 1 => /\ events[o][n].prev = DigestOf(events[o][n - 1])
                     /\ events[o][n].from = events[o][n - 1].to
                     /\ LegalEvent(events[o][n])
    /\ Version(o) > 0 => snapshot[o].op.state = events[o][Version(o)].to

(* A thread that publishes holds the lock, and its operation is absent. *)
Publishing(t) ==
  /\ lock = t
  /\ work[t].op \in dirs
  /\ Version(work[t].op) = 0
  /\ work[t].event = AcceptedEvent
  /\ work[t].result.state = "accepted"

(* A thread that writes to an operation works from a version that exists. *)
Appending(t) ==
  /\ work[t].base \in 1 .. Version(work[t].op)
  /\ work[t].event.seq = work[t].base + 1
  /\ LegalEvent(work[t].event)
  /\ work[t].result.state = work[t].event.to

(* The digest read without the lock is that of the base version's event,   *)
(* unless the next event exists already and the append will be refused.    *)
Linked(t) ==
  \/ work[t].event.seq \in Files(work[t].op)
  \/ work[t].event.prev = DigestOf(events[work[t].op][work[t].base])

(* The thread has written its event and owes the snapshot. *)
Owing(t) ==
  /\ lock = t
  /\ Files(work[t].op) = 1 .. work[t].event.seq
  /\ Version(work[t].op) + 1 = work[t].event.seq
  /\ events[work[t].op][work[t].event.seq] = work[t].event
  /\ Publishing(t) \/ Appending(t)

CallOK(t) ==
  /\ pc[t] = "initial" => /\ Publishing(t)
                          /\ Files(work[t].op) = {}
                          /\ initial[work[t].op] = NoFile
  /\ pc[t] = "first_event" => Publishing(t) /\ Files(work[t].op) = {}
  /\ pc[t] = "read_events" => Appending(t)
  /\ pc[t] = "append" => Appending(t) /\ Linked(t)
  /\ pc[t] = "snapshot" => Owing(t)

CallInv == \A t \in Threads : CallOK(t)

(* What was reported is on disk. *)
AckInv == \A o \in Ops : acked[o] \subseteq 1 .. Version(o)

(* Without a fault, only a thread about to write the snapshot leaves the   *)
(* history ahead of it.                                                    *)
TornInv ==
  faults = 0 =>
    \A o \in Ops :
      \/ Files(o) = 1 .. Version(o)
      \/ \E t \in Threads : pc[t] = "snapshot" /\ work[t].op = o

IInv == TypeOK /\ FilesInv /\ ChainInv /\ CallInv /\ AckInv /\ TornInv

-----------------------------------------------------------------------------
(* How a step of one thread leaves the others alone.                       *)

Holding == {"initial", "first_event", "snapshot"}

(* Only the thread that holds the lock is inside a sequence of writes. *)
LEMMA HoldsLock ==
  ASSUME NEW t \in Threads, CallOK(t), pc[t] \in Holding
  PROVE  lock = t
  BY DEF CallOK, Holding, Publishing, Owing

(* A thread outside the lock is not disturbed by growing histories. *)
LEMMA CallStable ==
  ASSUME NEW u \in Threads, TypeOK, FilesInv, CallOK(u), pc[u] \notin Holding,
         pc'[u] = pc[u], work'[u] = work[u],
         \A o \in Ops : /\ Files(o) \subseteq Files(o)'
                        /\ \A n \in Files(o) : events'[o][n] = events[o][n]
                        /\ Version(o)' \in Nat /\ Version(o) <= Version(o)'
  PROVE  CallOK(u)'
<1>1. CASE pc[u] \in {"read_events", "append"}
  <2>1. work[u].op \in Ops /\ work[u].base \in Nat /\ Version(work[u].op) \in Nat
    BY <1>1 DEF TypeOK, Work, Version
  <2>2. Appending(u) /\ work[u].base \in Files(work[u].op)
    BY <1>1, <2>1 DEF CallOK, Appending, FilesInv
  <2>3. Appending(u)'
    BY <2>1, <2>2 DEF Appending
  <2>4. pc[u] = "append" => Linked(u)'
    BY <2>1, <2>2 DEF CallOK, Linked
  <2> QED
    BY <1>1, <2>3, <2>4 DEF CallOK
<1>2. CASE pc[u] \notin {"read_events", "append"}
  BY <1>2 DEF CallOK, Holding
<1> QED
  BY <1>1, <1>2

(* A thread is not disturbed while files, snapshots and the lock stay. *)
LEMMA CallUnchanged ==
  ASSUME NEW u \in Threads, CallOK(u), pc'[u] = pc[u], work'[u] = work[u],
         UNCHANGED <<dirs, initial, events, snapshot, lock>>
  PROVE  CallOK(u)'
  BY DEF CallOK, Publishing, Appending, Linked, Owing, Files, Version

(* A thread that is in no call satisfies its part of the invariant. *)
LEMMA CallIdle ==
  ASSUME NEW u \in Threads, pc'[u] = "idle"
  PROVE  CallOK(u)'
  BY DEF CallOK

(* Writing one more file leaves the other files alone. *)
LEMMA WithFileEffect ==
  ASSUME DOMAIN events = Ops, NEW p \in Ops, NEW k, NEW e, events' = WithFile(p, k, e)
  PROVE  /\ Files(p)' = Files(p) \cup {k}
         /\ events'[p][k] = e
         /\ \A n \in Files(p) : n # k => events'[p][n] = events[p][n]
         /\ \A o \in Ops : o # p => Files(o)' = Files(o) /\ events'[o] = events[o]
  BY DEF WithFile, Files

(* Events are legal by their kind and ends, whatever they are linked to. *)
LEMMA AcceptedEventFacts ==
  /\ AcceptedEvent.seq = 1
  /\ AcceptedEvent.prev = NoDigest
  /\ AcceptedEvent.to = "accepted"
  /\ \A c \in BOOLEAN : NewOperation(c).state = "accepted"
  BY DEF AcceptedEvent, NewOperation

-----------------------------------------------------------------------------
(* The files after each write.                                             *)

LEMMA FirstEventWritten ==
  ASSUME IInv, NEW t \in Threads, PublishFirstEvent(t), NEW p, p = work[t].op
  PROVE  /\ FilesInv' /\ ChainInv' /\ Owing(t)'
         /\ p \in Ops /\ Files(p) = {} /\ work[t].event.seq = 1
<1>1. p \in Ops /\ pc[t] = "first_event"
  BY DEF PublishFirstEvent, IInv, TypeOK, Work
<1>2. Publishing(t) /\ Files(p) = {}
  BY <1>1 DEF IInv, CallInv, CallOK
<1>3. work[t].event.seq = 1 /\ work[t].event = AcceptedEvent
  BY <1>2, AcceptedEventFacts DEF Publishing
<1>4. /\ Files(p)' = {1}
      /\ events'[p][1] = AcceptedEvent
      /\ \A o \in Ops : o # p => Files(o)' = Files(o) /\ events'[o] = events[o]
  BY <1>1, <1>2, <1>3, WithFileEffect DEF PublishFirstEvent, IInv, TypeOK
<1>5. {1} = 1 .. 1 /\ {1} = 1 .. 0 + 1
  OBVIOUS
<1>6. FilesInv'
  <2>1. UNCHANGED <<dirs, initial, snapshot>>
    BY DEF PublishFirstEvent
  <2>2. Version(p)' = 0 /\ p \in dirs' /\ Files(p)' = 1 .. Version(p)' + 1
    BY <1>1, <1>2, <1>4, <1>5, <2>1 DEF Publishing, Version
  <2>3. \A o \in Ops : o # p => Version(o)' = Version(o) /\ Files(o)' = Files(o)
    BY <1>4, <2>1 DEF Version
  <2> QED
    BY <2>1, <2>2, <2>3 DEF FilesInv, IInv
<1>7. ChainInv'
  BY <1>1, <1>2, <1>4, AcceptedEventFacts
     DEF ChainInv, IInv, PublishFirstEvent, Version, Publishing
<1>8. Owing(t)'
  <2>1. work' = work /\ lock' = lock /\ dirs' = dirs /\ snapshot' = snapshot
    BY DEF PublishFirstEvent
  <2>2. Publishing(t)'
    BY <1>2, <2>1 DEF Publishing, Version
  <2>3. work'[t].op = p /\ work'[t].event.seq = 1 /\ Version(p)' = 0
    BY <1>2, <1>3, <2>1 DEF Publishing, Version
  <2> QED
    <3>1. Files(p)' = 1 .. 1 /\ events'[p][1] = work'[t].event
      BY <1>3, <1>4, <1>5, <2>1
    <3>2. lock' = t /\ 0 + 1 = 1
      BY <1>2, <2>1 DEF Publishing
    <3> QED
      BY <2>2, <2>3, <3>1, <3>2 DEF Owing
<1> QED
  BY <1>1, <1>2, <1>3, <1>6, <1>7, <1>8

LEMMA EventAppended ==
  ASSUME IInv, NEW t \in Threads, AppendEvent(t), NEW p, p = work[t].op,
         NEW v, v = Version(p)
  PROVE  /\ FilesInv' /\ ChainInv' /\ Owing(t)'
         /\ p \in Ops /\ work[t].event.seq \notin Files(p)
<1>1. /\ p \in Ops /\ v \in Nat /\ pc[t] = "append" /\ work[t].event \in Event
      /\ work[t].base \in Nat
  BY DEF AppendEvent, IInv, TypeOK, Work, Version
<1>2. Appending(t) /\ Linked(t) /\ Current(t)
  BY <1>1 DEF IInv, CallInv, CallOK, AppendEvent
<1>3. /\ work[t].base = v /\ v > 0
      /\ work[t].event.seq = v + 1
      /\ v + 1 \notin Files(p)
      /\ work[t].event.from = snapshot[p].op.state
  BY <1>1, <1>2 DEF Current, Appending, Version
<1>4. Files(p) = 1 .. v
  BY <1>1, <1>3 DEF IInv, FilesInv
<1>5. /\ Files(p)' = 1 .. v + 1
      /\ events'[p][v + 1] = work[t].event
      /\ \A n \in 1 .. v : events'[p][n] = events[p][n]
      /\ \A o \in Ops : o # p => Files(o)' = Files(o) /\ events'[o] = events[o]
  <2>1. /\ Files(p)' = Files(p) \cup {v + 1}
        /\ events'[p][v + 1] = work[t].event
        /\ \A n \in Files(p) : n # v + 1 => events'[p][n] = events[p][n]
        /\ \A o \in Ops : o # p => Files(o)' = Files(o) /\ events'[o] = events[o]
    BY <1>1, <1>3, WithFileEffect DEF AppendEvent, IInv, TypeOK
  <2>2. (1 .. v) \cup {v + 1} = 1 .. v + 1
    BY <1>1
  <2> QED
    BY <1>1, <1>4, <2>1, <2>2
<1>6. FilesInv'
  <2>1. UNCHANGED <<dirs, initial, snapshot>> /\ p \in dirs
    BY <1>1, <1>3 DEF AppendEvent, IInv, FilesInv
  <2>2. Version(p)' = v /\ Files(p)' = 1 .. Version(p)' + 1
    BY <1>5, <2>1 DEF Version
  <2>3. \A o \in Ops : o # p => Version(o)' = Version(o) /\ Files(o)' = Files(o)
    BY <1>5, <2>1 DEF Version
  <2> QED
    BY <2>1, <2>2, <2>3 DEF FilesInv, IInv
<1>7. ChainInv'
  <2>1. /\ work[t].event.prev = DigestOf(events[p][v])
        /\ work[t].event.from = events[p][v].to
        /\ LegalEvent(work[t].event)
    BY <1>1, <1>2, <1>3, <1>4 DEF Linked, Appending, IInv, ChainInv
  <2>2. SUFFICES ASSUME NEW o \in Ops
                 PROVE  /\ \A n \in Files(o)' :
                             /\ events'[o][n].seq = n
                             /\ n = 1 => events'[o][n].prev = NoDigest
                             /\ n > 1 => /\ events'[o][n].prev = DigestOf(events'[o][n - 1])
                                         /\ events'[o][n].from = events'[o][n - 1].to
                                         /\ LegalEvent(events'[o][n])
                        /\ Version(o)' > 0 => snapshot'[o].op.state = events'[o][Version(o)'].to
    BY DEF ChainInv, DigestOf, LegalEvent
  <2>3. CASE o # p
    <3>1. events'[o] = events[o] /\ Files(o)' = Files(o) /\ Version(o)' = Version(o)
          /\ snapshot'[o] = snapshot[o]
      BY <1>5, <2>3 DEF AppendEvent, Version
    <3> QED
      BY <3>1 DEF IInv, ChainInv
  <2>4. CASE o = p
    <3>1. v \in 1 .. v /\ v + 1 > 1 /\ v + 1 - 1 = v /\ v + 1 # 1
      BY <1>1, <1>3
    <3>2. ASSUME NEW n \in 1 .. v
          PROVE  /\ events'[o][n].seq = n
                 /\ n = 1 => events'[o][n].prev = NoDigest
                 /\ n > 1 => /\ events'[o][n].prev = DigestOf(events'[o][n - 1])
                             /\ events'[o][n].from = events'[o][n - 1].to
                             /\ LegalEvent(events'[o][n])
      <4>1. n > 1 => n - 1 \in 1 .. v
        BY <1>1
      <4> QED
        BY <1>1, <1>4, <1>5, <2>4, <4>1 DEF IInv, ChainInv
    <3>3. /\ events'[o][v + 1].seq = v + 1
          /\ events'[o][v + 1].prev = DigestOf(events'[o][v])
          /\ events'[o][v + 1].from = events'[o][v].to
          /\ LegalEvent(events'[o][v + 1])
      BY <1>3, <1>5, <2>1, <2>4, <3>1
    <3>4. \A n \in 1 .. v + 1 : n \in 1 .. v \/ n = v + 1
      BY <1>1
    <3>5. Version(o)' = v /\ snapshot'[o] = snapshot[o]
      BY <2>4 DEF AppendEvent, Version
    <3>6. v \in Files(p) /\ snapshot[p].op.state = events[p][v].to
      BY <1>1, <1>3, <1>4, <3>1 DEF IInv, ChainInv
    <3> QED
      <4>1. ASSUME NEW n \in Files(o)'
            PROVE  /\ events'[o][n].seq = n
                   /\ n = 1 => events'[o][n].prev = NoDigest
                   /\ n > 1 => /\ events'[o][n].prev = DigestOf(events'[o][n - 1])
                               /\ events'[o][n].from = events'[o][n - 1].to
                               /\ LegalEvent(events'[o][n])
        <5>1. n \in 1 .. v \/ n = v + 1
          BY <1>5, <2>4, <3>4
        <5> QED
          BY <5>1, <3>1, <3>2, <3>3
      <4>2. snapshot'[o].op.state = events'[o][v].to
        BY <1>5, <2>4, <3>1, <3>5, <3>6
      <4> QED
        BY <4>1, <4>2, <3>5
  <2> QED
    BY <2>3, <2>4
<1>8. Owing(t)'
  <2>1. work' = work /\ lock' = t /\ snapshot' = snapshot
    BY DEF AppendEvent
  <2>2. Appending(t)'
    BY <1>2, <2>1 DEF Appending, Version
  <2>3. work'[t].op = p /\ work'[t].event.seq = v + 1 /\ Version(p)' = v
    BY <1>3, <2>1 DEF Version
  <2> QED
    BY <1>1, <1>5, <2>1, <2>2, <2>3 DEF Owing
<1> QED
  BY <1>1, <1>3, <1>6, <1>7, <1>8

LEMMA SnapshotReplaced ==
  ASSUME IInv, NEW t \in Threads, pc[t] = "snapshot", ReplaceSnapshot(t),
         UNCHANGED <<dirs, initial, events>>, NEW p, p = work[t].op
  PROVE  /\ FilesInv' /\ ChainInv'
         /\ p \in Ops
         /\ Version(p) + 1 = work[t].event.seq
         /\ Version(p)' = work[t].event.seq
         /\ Files(p)' = 1 .. Version(p)'
         /\ \A o \in Ops : o # p => snapshot'[o] = snapshot[o]
<1>1. p \in Ops /\ work[t].event \in Event /\ work[t].event.seq \in Nat
  BY DEF IInv, TypeOK, Work, Event
<1>2. Owing(t)
  BY DEF IInv, CallInv, CallOK
<1>3. /\ snapshot'[p].version = work[t].event.seq
      /\ snapshot'[p].op = work[t].result
      /\ \A o \in Ops : o # p => snapshot'[o] = snapshot[o]
  BY <1>1 DEF ReplaceSnapshot, IInv, TypeOK
<1>4. p \in dirs
  BY <1>1, <1>2 DEF Owing, Publishing, Appending, IInv, FilesInv, TypeOK, Version
<1>5. FilesInv'
  BY <1>1, <1>2, <1>3, <1>4 DEF FilesInv, IInv, Version, Files, Owing
<1>6. work[t].result.state = events[p][work[t].event.seq].to
  BY <1>2, AcceptedEventFacts DEF Owing, Publishing, Appending
<1>7. ChainInv'
  BY <1>1, <1>3, <1>6 DEF ChainInv, IInv, Version, Files
<1>8. Files(p)' = Files(p) /\ Version(p)' = work[t].event.seq
  BY <1>3 DEF Files, Version
<1> QED
  BY <1>1, <1>2, <1>3, <1>5, <1>7, <1>8 DEF Owing

-----------------------------------------------------------------------------
(* Every step keeps the inductive invariant.                               *)

LEMMA IInvInit == Init => IInv
<1> SUFFICES ASSUME Init PROVE IInv
  OBVIOUS
<1>1. \A o \in Ops : Files(o) = {} /\ Version(o) = 0 /\ initial[o] = NoFile
  BY DEF Init, Files, Version
<1>2. 1 .. 0 = {}
  OBVIOUS
<1>3. \A o \in Ops : Files(o) = 1 .. Version(o)
  BY <1>1, <1>2
<1>4. FilesInv /\ ChainInv /\ TornInv
  BY <1>1, <1>3 DEF FilesInv, ChainInv, TornInv
<1>5. CallInv /\ AckInv
  BY <1>1, <1>2 DEF Init, CallInv, CallOK, AckInv
<1> QED
  BY <1>4, <1>5, TypeInit DEF IInv

(* A call begins, reads or is refused: the disk and the lock stay. *)
LEMMA DiskUnchanged ==
  ASSUME IInv, NEW t \in Threads, UNCHANGED <<disk, lock, acked, faults>>,
         pc[t] # "snapshot", CallOK(t)',
         \A u \in Threads : u # t => pc'[u] = pc[u] /\ work'[u] = work[u]
  PROVE  FilesInv' /\ ChainInv' /\ CallInv' /\ AckInv' /\ TornInv'
<1>1. FilesInv' /\ AckInv'
  BY DEF IInv, FilesInv, AckInv, disk, Files, Version
<1>2. ChainInv'
  BY DEF IInv, ChainInv, disk, Files, Version
<1>3. CallInv'
  BY CallUnchanged DEF IInv, CallInv, disk
<1>4. TornInv'
  BY DEF IInv, TornInv, disk, Files, Version
<1> QED
  BY <1>1, <1>2, <1>3, <1>4

(* What a thread computes when its call begins. *)
LEMMA BeginStep ==
  ASSUME IInv, NEW t \in Threads, pc[t] = "idle", NEW o \in Ops, Version(o) > 0,
         NEW event, NEW result, Begin(t, o, event, result),
         event.seq = Version(o) + 1, LegalEvent(event), result.state = event.to
  PROVE  FilesInv' /\ ChainInv' /\ CallInv' /\ AckInv' /\ TornInv'
<1>1. /\ pc'[t] = "read_events"
      /\ work'[t] = [op |-> o, base |-> Version(o), event |-> event, result |-> result]
      /\ \A u \in Threads : u # t => pc'[u] = pc[u] /\ work'[u] = work[u]
      /\ UNCHANGED <<disk, lock, acked, faults>>
  BY DEF Begin, Goto, IInv, TypeOK, Version
<1>2. Version(o)' = Version(o) /\ Version(o) \in 1 .. Version(o)
  BY <1>1 DEF disk, Version, IInv, TypeOK
<1>3. Appending(t)'
  BY <1>1, <1>2 DEF Appending, LegalEvent
<1>4. CallOK(t)'
  BY <1>1, <1>3 DEF CallOK
<1> QED
  BY <1>1, <1>4, DiskUnchanged

LEMMA TransitionStep ==
  ASSUME IInv, NEW t \in Threads, NEW o \in Ops, NEW to \in Targets,
         NEW err \in BOOLEAN, NEW reason \in BOOLEAN, Transition(t, o, to, err, reason)
  PROVE  FilesInv' /\ ChainInv' /\ CallInv' /\ AckInv' /\ TornInv'
<1> DEFINE event == [seq |-> Version(o) + 1, prev |-> NoDigest, kind |-> "transition",
                     from |-> snapshot[o].op.state, to |-> to, err |-> err]
           result == [state |-> to, err |-> err,
                      cancellable |-> snapshot[o].op.cancellable /\ ~reason,
                      cancel |-> IF reason THEN "completed" ELSE snapshot[o].op.cancel]
<1>1. pc[t] = "idle" /\ Version(o) > 0 /\ Begin(t, o, event, result)
  BY ConstantsAssumption DEF Transition, Version
<1>2. event.seq = Version(o) + 1 /\ LegalEvent(event) /\ result.state = event.to
  BY DEF Transition, LegalEvent
<1> HIDE DEF event, result
<1> QED
  BY <1>1, <1>2, BeginStep

LEMMA CancellationStep ==
  ASSUME IInv, NEW t \in Threads, NEW o \in Ops,
         RequestCancellation(t, o) \/ AcknowledgeCancellation(t, o)
  PROVE  FilesInv' /\ ChainInv' /\ CallInv' /\ AckInv' /\ TornInv'
<1>1. PICK kind \in {"requested", "acknowledged"} : Observation(t, o, kind)
  BY DEF RequestCancellation, AcknowledgeCancellation
<1> DEFINE event == [seq |-> Version(o) + 1, prev |-> NoDigest, kind |-> kind,
                     from |-> snapshot[o].op.state, to |-> snapshot[o].op.state,
                     err |-> FALSE]
           result == WithCancellation(snapshot[o].op, kind)
<1>2. pc[t] = "idle" /\ Version(o) > 0
  BY ConstantsAssumption DEF RequestCancellation, AcknowledgeCancellation, Version
<1>3. Begin(t, o, event, result)
  BY <1>1 DEF Observation, Version
<1>4. result.state = snapshot[o].op.state
  BY WithCancellationType DEF Cancellations, IInv, TypeOK
<1>5. event.seq = Version(o) + 1 /\ LegalEvent(event) /\ result.state = event.to
  BY <1>4 DEF LegalEvent
<1> HIDE DEF event, result
<1> QED
  BY <1>2, <1>3, <1>5, BeginStep

LEMMA ReadStep ==
  ASSUME IInv, NEW t \in Threads, ReadLastEvent(t)
  PROVE  FilesInv' /\ ChainInv' /\ CallInv' /\ AckInv' /\ TornInv'
<1>1. PICK p \in Ops : p = work[t].op
  BY DEF ReadLastEvent, IInv, TypeOK, Work
<1>2. /\ Appending(t) /\ work[t] \in Work /\ work[t].base \in Nat /\ Version(p) \in Nat
      /\ pc[t] = "read_events"
  BY <1>1 DEF ReadLastEvent, IInv, CallInv, CallOK, TypeOK, Work, Version
<1>3. LastFile(p) \in Files(p) /\ Files(p) = 1 .. LastFile(p)
  BY <1>1, LastFileType DEF ReadLastEvent
<1>4. LastFile(p) \in Nat /\ events[p][LastFile(p)] \in Event
  BY <1>3 DEF IInv, TypeOK
<1> DEFINE w == Chained(work[t], events[p][LastFile(p)])
<1>5. /\ w.op = p /\ w.base = work[t].base /\ w.result = work[t].result
      /\ w.event.seq = work[t].event.seq
      /\ w.event.prev = DigestOf(events[p][LastFile(p)])
      /\ w.event.kind = work[t].event.kind
      /\ w.event.from = work[t].event.from
      /\ w.event.to = work[t].event.to
  BY <1>1, <1>2, <1>4, ChainedType
<1>6. /\ pc'[t] = "append" /\ work'[t] = w
      /\ \A u \in Threads : u # t => pc'[u] = pc[u] /\ work'[u] = work[u]
      /\ UNCHANGED <<disk, lock, acked, faults>>
  BY <1>1 DEF ReadLastEvent, Goto, IInv, TypeOK
<1> HIDE DEF w
<1>7. UNCHANGED <<events, snapshot>> /\ Version(p)' = Version(p) /\ Files(p)' = Files(p)
  BY <1>6 DEF disk, Version, Files
<1>8. Appending(t)'
  BY <1>1, <1>2, <1>5, <1>6, <1>7 DEF Appending, LegalEvent
<1>9. Linked(t)'
  <2>1. work[t].base \in Files(p) /\ work[t].event.seq = work[t].base + 1
    BY <1>1, <1>2 DEF Appending, IInv, FilesInv
  <2>2. CASE LastFile(p) = work[t].base
    BY <1>5, <1>6, <1>7, <2>2 DEF Linked
  <2>3. CASE LastFile(p) # work[t].base
    <3>1. work[t].event.seq \in Files(p)
      BY <1>2, <1>3, <1>4, <2>1, <2>3
    <3> QED
      BY <1>5, <1>6, <1>7, <3>1 DEF Linked
  <2> QED
    BY <2>2, <2>3
<1>10. CallOK(t)'
  BY <1>6, <1>8, <1>9 DEF CallOK
<1> QED
  BY <1>2, <1>6, <1>10, DiskUnchanged

LEMMA RefuseStep ==
  ASSUME IInv, NEW t \in Threads, Refuse(t)
  PROVE  FilesInv' /\ ChainInv' /\ CallInv' /\ AckInv' /\ TornInv'
<1>1. /\ pc'[t] = "idle" /\ pc[t] # "snapshot"
      /\ \A u \in Threads : u # t => pc'[u] = pc[u] /\ work'[u] = work[u]
      /\ UNCHANGED <<disk, lock, acked, faults>>
  BY DEF Refuse, Leave, IInv, TypeOK
<1> QED
  BY <1>1, CallIdle, DiskUnchanged

(* Publication takes the lock and a new directory. *)
LEMMA PublishDirectoryStep ==
  ASSUME IInv, NEW t \in Threads, NEW o \in Ops, PublishDirectory(t, o)
  PROVE  FilesInv' /\ ChainInv' /\ CallInv' /\ AckInv' /\ TornInv'
<1>1. /\ pc[t] = "idle" /\ lock = NoThread /\ o \notin dirs
      /\ dirs' = dirs \cup {o} /\ lock' = t
      /\ UNCHANGED <<initial, events, snapshot, acked, faults>>
      /\ pc'[t] = "initial"
      /\ \A u \in Threads : u # t => pc'[u] = pc[u] /\ work'[u] = work[u]
  BY DEF PublishDirectory, Goto, IInv, TypeOK
<1>2. /\ work'[t].op = o /\ work'[t].event = AcceptedEvent
      /\ work'[t].result.state = "accepted"
  BY AcceptedEventFacts DEF PublishDirectory, IInv, TypeOK
<1>3. \A p \in Ops : Files(p)' = Files(p) /\ Version(p)' = Version(p)
  BY <1>1 DEF Files, Version
<1>4. FilesInv' /\ ChainInv' /\ AckInv'
  BY <1>1, <1>3 DEF IInv, FilesInv, ChainInv, AckInv
<1>5. Version(o)' = 0 /\ Files(o)' = {} /\ initial'[o] = NoFile
  BY <1>1, <1>3 DEF IInv, FilesInv
<1>6. Publishing(t)'
  BY <1>1, <1>2, <1>5 DEF Publishing
<1>7. CallOK(t)'
  BY <1>1, <1>2, <1>5, <1>6 DEF CallOK
<1>8. ASSUME NEW u \in Threads, u # t
      PROVE  CallOK(u)'
  <2>1. pc[u] \notin Holding
    BY <1>1, <1>8, HoldsLock, ConstantsAssumption DEF IInv, CallInv
  <2>2. \A p \in Ops : Version(p) \in Nat
    BY DEF IInv, TypeOK, Version
  <2> QED
    BY <1>1, <1>3, <1>8, <2>1, <2>2, CallStable DEF IInv, CallInv
<1>9. TornInv'
  BY <1>1, <1>3 DEF IInv, TornInv
<1> QED
  BY <1>4, <1>7, <1>8, <1>9 DEF CallInv

LEMMA PublishInitialStep ==
  ASSUME IInv, NEW t \in Threads, PublishInitial(t)
  PROVE  FilesInv' /\ ChainInv' /\ CallInv' /\ AckInv' /\ TornInv'
<1>1. PICK p \in Ops : p = work[t].op
  BY DEF PublishInitial, IInv, TypeOK, Work
<1>2. /\ pc[t] = "initial"
      /\ UNCHANGED <<dirs, events, snapshot, lock, work, acked, faults>>
      /\ pc'[t] = "first_event"
      /\ \A u \in Threads : u # t => pc'[u] = pc[u]
      /\ \A o \in Ops : o # p => initial'[o] = initial[o]
  BY <1>1 DEF PublishInitial, Goto, IInv, TypeOK
<1>3. Publishing(t) /\ Files(p) = {}
  BY <1>1, <1>2 DEF IInv, CallInv, CallOK
<1>4. \A o \in Ops : Files(o)' = Files(o) /\ Version(o)' = Version(o)
  BY <1>2 DEF Files, Version
<1>5. FilesInv' /\ ChainInv' /\ AckInv'
  BY <1>1, <1>2, <1>3, <1>4 DEF IInv, FilesInv, ChainInv, AckInv, Publishing
<1>6. Publishing(t)'
  BY <1>1, <1>2, <1>3 DEF Publishing, Version
<1>7. CallOK(t)'
  BY <1>1, <1>2, <1>3, <1>4, <1>6 DEF CallOK
<1>8. ASSUME NEW u \in Threads, u # t
      PROVE  CallOK(u)'
  <2>1. pc[u] \notin Holding
    BY <1>2, <1>3, <1>8, HoldsLock DEF IInv, CallInv, Publishing
  <2>2. \A o \in Ops : Version(o) \in Nat
    BY DEF IInv, TypeOK, Version
  <2> QED
    BY <1>2, <1>4, <1>8, <2>1, <2>2, CallStable DEF IInv, CallInv
<1>9. TornInv'
  BY <1>2, <1>4 DEF IInv, TornInv
<1> QED
  BY <1>5, <1>7, <1>8, <1>9 DEF CallInv

(* Both writes of an event file; q is the place they start from. *)
LEMMA EventStep ==
  ASSUME IInv, NEW t \in Threads, NEW p \in Ops, p = work[t].op,
         FilesInv', ChainInv', Owing(t)',
         \/ lock = t
         \/ lock = NoThread,
         work[t].event.seq \notin Files(p),
         events' = WithFile(p, work[t].event.seq, work[t].event),
         UNCHANGED <<dirs, snapshot, work, acked, faults>>,
         pc' = [pc EXCEPT ![t] = "snapshot"]
  PROVE  CallInv' /\ AckInv' /\ TornInv'
<1>1. pc'[t] = "snapshot" /\ \A u \in Threads : u # t => pc'[u] = pc[u]
  BY DEF IInv, TypeOK
<1>2. CallOK(t)'
  BY <1>1 DEF CallOK
<1>3. /\ \A n \in Files(p) : n \in Files(p)' /\ events'[p][n] = events[p][n]
      /\ \A o \in Ops : o # p => Files(o)' = Files(o) /\ events'[o] = events[o]
  BY WithFileEffect DEF IInv, TypeOK
<1>4. \A o \in Ops : /\ Files(o) \subseteq Files(o)'
                     /\ \A n \in Files(o) : events'[o][n] = events[o][n]
                     /\ Version(o)' = Version(o) /\ Version(o) \in Nat
  BY <1>3 DEF IInv, TypeOK, Version
<1>5. ASSUME NEW u \in Threads, u # t
      PROVE  CallOK(u)'
  <2>1. pc[u] \notin Holding
    BY <1>5, HoldsLock, ConstantsAssumption DEF IInv, CallInv
  <2> QED
    BY <1>1, <1>4, <1>5, <2>1, CallStable DEF IInv, CallInv
<1>6. AckInv'
  BY <1>4 DEF IInv, AckInv
<1>7. TornInv'
  <2> SUFFICES ASSUME faults' = 0, NEW o \in Ops
               PROVE  \/ Files(o)' = 1 .. Version(o)'
                      \/ \E u \in Threads : pc'[u] = "snapshot" /\ work'[u].op = o
    BY DEF TornInv
  <2>1. CASE o = p
    BY <1>1, <2>1
  <2>2. CASE o # p
    <3>1. CASE Files(o) = 1 .. Version(o)
      BY <1>3, <1>4, <2>2, <3>1
    <3>2. CASE \E u \in Threads : pc[u] = "snapshot" /\ work[u].op = o
      BY <1>1, <2>2, <3>2
    <3> QED
      BY <3>1, <3>2 DEF IInv, TornInv
  <2> QED
    BY <2>1, <2>2
<1> QED
  BY <1>2, <1>5, <1>6, <1>7 DEF CallInv

LEMMA PublishFirstEventStep ==
  ASSUME IInv, NEW t \in Threads, PublishFirstEvent(t)
  PROVE  FilesInv' /\ ChainInv' /\ CallInv' /\ AckInv' /\ TornInv'
<1>1. PICK p \in Ops : p = work[t].op
  BY DEF PublishFirstEvent, IInv, TypeOK, Work
<1>2. FilesInv' /\ ChainInv' /\ Owing(t)' /\ Files(p) = {} /\ work[t].event.seq = 1
  BY <1>1, FirstEventWritten
<1>3. lock = t
  BY HoldsLock DEF PublishFirstEvent, IInv, CallInv, Holding
<1>4. /\ events' = WithFile(p, work[t].event.seq, work[t].event)
      /\ UNCHANGED <<dirs, snapshot, work, acked, faults>>
      /\ pc' = [pc EXCEPT ![t] = "snapshot"]
  BY <1>1, <1>2 DEF PublishFirstEvent, Goto
<1> QED
  BY <1>1, <1>2, <1>3, <1>4, EventStep

LEMMA AppendStep ==
  ASSUME IInv, NEW t \in Threads, AppendEvent(t)
  PROVE  FilesInv' /\ ChainInv' /\ CallInv' /\ AckInv' /\ TornInv'
<1>1. PICK p \in Ops : p = work[t].op
  BY DEF AppendEvent, IInv, TypeOK, Work
<1>2. FilesInv' /\ ChainInv' /\ Owing(t)' /\ work[t].event.seq \notin Files(p)
  BY <1>1, EventAppended
<1>3. /\ lock = NoThread
      /\ events' = WithFile(p, work[t].event.seq, work[t].event)
      /\ UNCHANGED <<dirs, snapshot, work, acked, faults>>
      /\ pc' = [pc EXCEPT ![t] = "snapshot"]
  BY <1>1 DEF AppendEvent, Goto
<1> QED
  BY <1>1, <1>2, <1>3, EventStep

(* Both ways in which the snapshot is replaced: reported, or not reported  *)
(* because the write raised after replacing the file.                      *)
LEMMA SnapshotStep ==
  ASSUME IInv, NEW t \in Threads, NEW p \in Ops, p = work[t].op,
         pc[t] = "snapshot", ReplaceSnapshot(t), UNCHANGED <<dirs, initial, events>>,
         Leave(t),
         \A o \in Ops : acked'[o] \subseteq
           acked[o] \cup (IF o = p THEN {Version(o)'} ELSE {}),
         faults' \in {faults, faults + 1}
  PROVE  FilesInv' /\ ChainInv' /\ CallInv' /\ AckInv' /\ TornInv'
<1>1. /\ FilesInv' /\ ChainInv'
      /\ Version(p) + 1 = work[t].event.seq
      /\ Version(p)' = work[t].event.seq
      /\ Files(p)' = 1 .. Version(p)'
      /\ \A o \in Ops : o # p => snapshot'[o] = snapshot[o]
  BY SnapshotReplaced
<1>2. /\ pc'[t] = "idle" /\ lock = t
      /\ \A u \in Threads : u # t => pc'[u] = pc[u] /\ work'[u] = work[u]
  BY HoldsLock DEF Leave, IInv, TypeOK, CallInv, Holding
<1>3. \A o \in Ops : /\ Files(o)' = Files(o)
                     /\ Version(o) \in Nat
                     /\ Version(o)' = IF o = p THEN Version(o) + 1 ELSE Version(o)
  BY <1>1 DEF Files, Version, IInv, TypeOK
<1>4. ASSUME NEW u \in Threads, u # t
      PROVE  CallOK(u)'
  <2>1. pc[u] \notin Holding
    BY <1>2, <1>4, HoldsLock DEF IInv, CallInv
  <2>2. \A o \in Ops : /\ Files(o) \subseteq Files(o)'
                       /\ \A n \in Files(o) : events'[o][n] = events[o][n]
                       /\ Version(o)' \in Nat /\ Version(o) <= Version(o)'
    BY <1>3
  <2> QED
    BY <1>2, <1>4, <2>1, <2>2, CallStable DEF IInv, CallInv
<1>5. AckInv'
  <2> SUFFICES ASSUME NEW o \in Ops, NEW v \in acked'[o]
               PROVE  v \in 1 .. Version(o)'
    BY DEF AckInv
  <2>1. CASE o = p /\ v = Version(o)'
    BY <1>3, <2>1
  <2>2. CASE v \in acked[o]
    BY <1>3, <2>2 DEF IInv, AckInv
  <2> QED
    BY <2>1, <2>2
<1>6. TornInv'
  <2> SUFFICES ASSUME faults' = 0, NEW o \in Ops
               PROVE  \/ Files(o)' = 1 .. Version(o)'
                      \/ \E u \in Threads : pc'[u] = "snapshot" /\ work'[u].op = o
    BY DEF TornInv
  <2>1. faults = 0
    BY DEF IInv, TypeOK
  <2>2. CASE o = p
    BY <1>1, <2>2
  <2>3. CASE o # p
    BY <1>2, <1>3, <2>1, <2>3 DEF IInv, TornInv
  <2> QED
    BY <2>2, <2>3
<1> QED
  BY <1>1, <1>2, <1>4, <1>5, <1>6, CallIdle DEF CallInv

LEMMA WriteSnapshotStep ==
  ASSUME IInv, NEW t \in Threads, WriteSnapshot(t)
  PROVE  FilesInv' /\ ChainInv' /\ CallInv' /\ AckInv' /\ TornInv'
<1>1. PICK p \in Ops : p = work[t].op
  BY DEF WriteSnapshot, IInv, TypeOK, Work
<1>2. Version(p)' = work[t].event.seq
  BY <1>1, SnapshotReplaced DEF WriteSnapshot
<1>3. \A o \in Ops : acked'[o] \subseteq acked[o] \cup (IF o = p THEN {Version(o)'} ELSE {})
  BY <1>1, <1>2 DEF WriteSnapshot, IInv, TypeOK
<1> QED
  BY <1>1, <1>3, SnapshotStep DEF WriteSnapshot

(* A failed write releases the lock; what is on disk stays. *)
LEMMA FailStep ==
  ASSUME IInv, NEW t \in Threads, WriteFails(t)
  PROVE  FilesInv' /\ ChainInv' /\ CallInv' /\ AckInv' /\ TornInv'
<1>1. CASE UNCHANGED snapshot
  <2>1. /\ UNCHANGED <<dirs, initial, events, snapshot, acked>> /\ faults' = faults + 1
        /\ pc'[t] = "idle"
        /\ \A u \in Threads : u # t => pc'[u] = pc[u] /\ work'[u] = work[u]
    BY <1>1 DEF WriteFails, Leave, IInv, TypeOK
  <2>2. FilesInv' /\ AckInv'
    BY <2>1 DEF IInv, FilesInv, AckInv, Files, Version
  <2>3. ChainInv'
    BY <2>1 DEF IInv, ChainInv, Files, Version
  <2>4. TornInv'
    BY <2>1 DEF IInv, TypeOK, TornInv
  <2>5. ASSUME NEW u \in Threads, u # t
        PROVE  CallOK(u)'
    <3>1. pc[u] \notin Holding
      BY <1>1, <2>5, HoldsLock, ConstantsAssumption DEF WriteFails, IInv, CallInv, Holding
    <3>2. \A o \in Ops : Files(o)' = Files(o) /\ Version(o)' = Version(o) /\ Version(o) \in Nat
      BY <2>1 DEF Files, Version, IInv, TypeOK
    <3> QED
      BY <2>1, <2>5, <3>1, <3>2, CallStable DEF IInv, CallInv
  <2> QED
    BY <2>1, <2>2, <2>3, <2>4, <2>5, CallIdle DEF CallInv
<1>2. CASE pc[t] = "snapshot" /\ ReplaceSnapshot(t)
  <2>1. PICK p \in Ops : p = work[t].op
    BY <1>2 DEF IInv, TypeOK, Work
  <2> QED
    BY <1>2, <2>1, SnapshotStep DEF WriteFails
<1> QED
  BY <1>1, <1>2 DEF WriteFails

(* A crash forgets the threads and keeps the disk. *)
LEMMA CrashStep ==
  ASSUME IInv, Crash
  PROVE  FilesInv' /\ ChainInv' /\ CallInv' /\ AckInv' /\ TornInv'
<1>1. UNCHANGED <<dirs, initial, events, snapshot, acked>> /\ faults' = faults + 1
  BY DEF Crash, disk
<1>2. CallInv'
  BY CallIdle DEF Crash, CallInv
<1>3. FilesInv' /\ AckInv'
  BY <1>1 DEF IInv, FilesInv, AckInv, Files, Version
<1>4. ChainInv'
  BY <1>1 DEF IInv, ChainInv, Files, Version
<1>5. TornInv'
  BY <1>1 DEF IInv, TypeOK, TornInv
<1> QED
  BY <1>2, <1>3, <1>4, <1>5

LEMMA StutterStep ==
  ASSUME IInv, UNCHANGED vars
  PROVE  FilesInv' /\ ChainInv' /\ CallInv' /\ AckInv' /\ TornInv'
<1>1. UNCHANGED <<dirs, initial, events, snapshot, lock, pc, work, acked, faults>>
  BY DEF vars
<1>2. FilesInv' /\ AckInv'
  BY <1>1 DEF IInv, FilesInv, AckInv, Files, Version
<1>3. ChainInv'
  BY <1>1 DEF IInv, ChainInv, Files, Version
<1>4. CallInv' /\ TornInv'
  BY <1>1, CallUnchanged DEF IInv, CallInv, TornInv, Files, Version
<1> QED
  BY <1>2, <1>3, <1>4

LEMMA IInvStep == IInv /\ [Next]_vars => IInv'
<1> SUFFICES ASSUME IInv, [Next]_vars
             PROVE  IInv'
  OBVIOUS
<1>1. TypeOK'
  BY TypeStep DEF IInv
<1>2. FilesInv' /\ ChainInv' /\ CallInv' /\ AckInv' /\ TornInv'
  <2>1. CASE UNCHANGED vars
    BY <2>1, StutterStep
  <2>2. CASE Crash
    BY <2>2, CrashStep
  <2>3. ASSUME NEW t \in Threads, Call(t)
        PROVE  FilesInv' /\ ChainInv' /\ CallInv' /\ AckInv' /\ TornInv'
    BY <2>3, PublishDirectoryStep, TransitionStep, CancellationStep DEF Call
  <2>4. ASSUME NEW t \in Threads, Step(t) \/ WriteFails(t)
        PROVE  FilesInv' /\ ChainInv' /\ CallInv' /\ AckInv' /\ TornInv'
    BY <2>4, PublishInitialStep, PublishFirstEventStep, ReadStep, AppendStep, RefuseStep,
       WriteSnapshotStep, FailStep DEF Step
  <2> QED
    BY <2>1, <2>2, <2>3, <2>4 DEF Next
<1> QED
  BY <1>1, <1>2 DEF IInv

LEMMA IInvCorrect == Spec => []IInv
  BY IInvInit, IInvStep, PTL DEF Spec


-----------------------------------------------------------------------------
(* What follows, for every number of operations and threads, every limit   *)
(* and every number of crashes and failed writes.                          *)

(* The history of a published operation can always be read.  The digest a  *)
(* thread read without the lock is the last one whenever it is written.    *)
THEOREM HistoryAlwaysReadable == Spec => []HistoryReadable
<1>1. IInv => HistoryReadable
  <2> SUFFICES ASSUME IInv, NEW o \in Ops, Version(o) > 0
               PROVE  Readable(o)
    BY DEF HistoryReadable, Version
  <2>1. Version(o) \in Nat
    BY DEF IInv, TypeOK, Version
  <2>2. PICK last \in {Version(o), Version(o) + 1} : Files(o) = 1 .. last
    BY DEF IInv, FilesInv
  <2>3. last \in Files(o)
    BY <2>1, <2>2
  <2>4. \A n \in Files(o) : n # 1 => n > 1
    BY <2>1, <2>2
  <2> QED
    BY <2>2, <2>3, <2>4 DEF Readable, IInv, ChainInv
<1> QED
  BY <1>1, IInvCorrect, PTL

(* The history is a path of the state machine, and the snapshot's state is *)
(* the one it reaches, although legality is checked without the lock.      *)
THEOREM HistoryAlwaysLegal == Spec => []HistoryLegal
<1>1. IInv => HistoryLegal
  <2> SUFFICES ASSUME IInv, NEW o \in Ops
               PROVE  /\ \A n \in Files(o) \ {1} :
                           /\ n - 1 \in Files(o)
                           /\ events[o][n].from = events[o][n - 1].to
                           /\ IF events[o][n].kind = "transition"
                                THEN events[o][n].to \in LegalTransitions[events[o][n].from]
                                ELSE events[o][n].to = events[o][n].from
                      /\ Version(o) > 0 =>
                           /\ Version(o) \in Files(o)
                           /\ snapshot[o].op.state = events[o][Version(o)].to
    BY DEF HistoryLegal, Version
  <2>1. Version(o) \in Nat
    BY DEF IInv, TypeOK, Version
  <2>2. PICK last \in {Version(o), Version(o) + 1} : Files(o) = 1 .. last
    BY DEF IInv, FilesInv
  <2>3. Version(o) > 0 => /\ Version(o) \in Files(o)
                          /\ snapshot[o].op.state = events[o][Version(o)].to
    BY <2>1, <2>2 DEF IInv, ChainInv
  <2>4. \A n \in Files(o) \ {1} : n > 1 /\ n - 1 \in Files(o)
    BY <2>1, <2>2
  <2> QED
    BY <2>3, <2>4 DEF IInv, ChainInv, LegalEvent
<1> QED
  BY <1>1, IInvCorrect, PTL

(* The history is at most one event ahead of the snapshot, and only after  *)
(* a fault.                                                                *)
THEOREM TornByFaultOnly == Spec => []TornOnlyByFault
<1>1. IInv => TornOnlyByFault
  <2> SUFFICES ASSUME IInv, lock = NoThread, NEW o \in Ops
               PROVE  /\ Files(o) \subseteq 1 .. Version(o) + 1
                      /\ faults = 0 => Files(o) = 1 .. Version(o)
    BY DEF TornOnlyByFault, Version
  <2>1. Version(o) \in Nat
    BY DEF IInv, TypeOK, Version
  <2>2. Files(o) \subseteq 1 .. Version(o) + 1
    BY <2>1 DEF IInv, FilesInv
  <2>3. \A t \in Threads : pc[t] # "snapshot"
    BY HoldsLock, ConstantsAssumption DEF IInv, CallInv, Holding
  <2> QED
    BY <2>2, <2>3 DEF IInv, TornInv
<1> QED
  BY <1>1, IInvCorrect, PTL

(* A version that was reported is never lost. *)
THEOREM AckedAlwaysDurable == Spec => []AckedDurable
<1>1. IInv => AckedDurable
  <2> SUFFICES ASSUME IInv, NEW o \in Ops, NEW v \in acked[o]
               PROVE  v <= Version(o) /\ v \in Files(o)
    BY DEF AckedDurable, Version
  <2>1. Version(o) \in Nat /\ v \in 1 .. Version(o)
    BY DEF IInv, TypeOK, Version, AckInv
  <2> QED
    BY <2>1 DEF IInv, FilesInv
<1> QED
  BY <1>1, IInvCorrect, PTL

(* The steps that write: everything else leaves the disk alone. *)
LEMMA DiskSteps ==
  ASSUME Next
  PROVE  \/ UNCHANGED disk
         \/ \E t \in Threads :
              \/ \E o \in Ops : PublishDirectory(t, o)
              \/ PublishInitial(t)
              \/ PublishFirstEvent(t) \/ AppendEvent(t)
              \/ pc[t] = "snapshot" /\ ReplaceSnapshot(t) /\ UNCHANGED <<dirs, initial, events>>
<1>1. ASSUME NEW t \in Threads, NEW o \in Ops, NEW to, NEW err, NEW reason,
             Transition(t, o, to, err, reason)
      PROVE  UNCHANGED disk
  BY <1>1 DEF Transition, Begin
<1>2. ASSUME NEW t \in Threads, NEW o \in Ops,
             RequestCancellation(t, o) \/ AcknowledgeCancellation(t, o)
      PROVE  UNCHANGED disk
  BY <1>2 DEF RequestCancellation, AcknowledgeCancellation, Observation, Begin
<1>3. ASSUME NEW t \in Threads, ReadLastEvent(t) \/ Refuse(t)
      PROVE  UNCHANGED disk
  BY <1>3 DEF ReadLastEvent, Refuse
<1>4. ASSUME NEW t \in Threads, WriteSnapshot(t) \/ WriteFails(t)
      PROVE  \/ UNCHANGED disk
             \/ pc[t] = "snapshot" /\ ReplaceSnapshot(t) /\ UNCHANGED <<dirs, initial, events>>
  BY <1>4 DEF WriteSnapshot, WriteFails, disk
<1>5. CASE Crash
  BY <1>5 DEF Crash
<1> QED
  BY <1>1, <1>2, <1>3, <1>4, <1>5, Zenon DEF Next, Call, Step

(* Event files and initial.json are never replaced, and the snapshot never *)
(* goes back.                                                              *)
THEOREM AlwaysAppendOnly == Spec => AppendOnly
<1> DEFINE Keeps(o) == /\ Files(o) \subseteq DOMAIN events'[o]
                       /\ \A n \in Files(o) : events'[o][n] = events[o][n]
                       /\ initial[o] # NoFile => initial'[o] = initial[o]
                       /\ snapshot[o].version <= snapshot'[o].version
<1>1. IInv /\ [Next]_vars => [\A o \in Ops : Keeps(o)]_vars
  <2> SUFFICES ASSUME IInv, Next, NEW o \in Ops
               PROVE  Keeps(o)
    OBVIOUS
  <2>1. Version(o) \in Nat
    BY DEF IInv, TypeOK, Version
  <2>2. CASE UNCHANGED disk
    BY <2>1, <2>2 DEF disk, Files, Version
  <2>3. ASSUME NEW t \in Threads, NEW p \in Ops, PublishDirectory(t, p)
        PROVE  Keeps(o)
    BY <2>1, <2>3 DEF PublishDirectory, Files, Version
  <2>4. ASSUME NEW t \in Threads, PublishInitial(t)
        PROVE  Keeps(o)
    <3>1. initial[work[t].op] = NoFile
      BY <2>4 DEF PublishInitial, IInv, CallInv, CallOK
    <3>2. o # work[t].op => initial'[o] = initial[o]
      BY <2>4 DEF PublishInitial, IInv, TypeOK
    <3> QED
      BY <2>1, <2>4, <3>1, <3>2 DEF PublishInitial, Files, Version
  <2>5. ASSUME NEW t \in Threads, PublishFirstEvent(t) \/ AppendEvent(t)
        PROVE  Keeps(o)
    <3>1. PICK p \in Ops : p = work[t].op
      BY <2>5 DEF PublishFirstEvent, AppendEvent, IInv, TypeOK, Work
    <3>2. work[t].event.seq \notin Files(p)
      BY <2>5, <3>1, FirstEventWritten, EventAppended
    <3>3. events' = WithFile(p, work[t].event.seq, work[t].event)
      <4>1. CASE PublishFirstEvent(t)
        BY <3>1, <4>1, FirstEventWritten DEF PublishFirstEvent
      <4>2. CASE AppendEvent(t)
        BY <3>1, <4>2 DEF AppendEvent
      <4> QED
        BY <2>5, <4>1, <4>2
    <3>4. Files(o) \subseteq Files(o)' /\ \A n \in Files(o) : events'[o][n] = events[o][n]
      BY <3>2, <3>3, WithFileEffect DEF IInv, TypeOK
    <3> QED
      BY <2>1, <2>5, <3>4 DEF PublishFirstEvent, AppendEvent, Files, Version
  <2>6. ASSUME NEW t \in Threads, pc[t] = "snapshot", ReplaceSnapshot(t),
               UNCHANGED <<dirs, initial, events>>
        PROVE  Keeps(o)
    <3>1. PICK p \in Ops : p = work[t].op
      BY <2>6 DEF IInv, TypeOK, Work
    <3>2. /\ Version(p)' = Version(p) + 1
          /\ \A q \in Ops : q # p => snapshot'[q] = snapshot[q]
      BY <2>6, <3>1, SnapshotReplaced
    <3>3. Version(o)' \in {Version(o), Version(o) + 1}
      BY <3>2 DEF Version
    <3>4. UNCHANGED <<initial, events>> /\ snapshot[o].version <= snapshot'[o].version
      BY <2>1, <2>6, <3>3 DEF Version
    <3> QED
      BY <3>4 DEF Files
  <2> QED
    BY <2>2, <2>3, <2>4, <2>5, <2>6, DiskSteps, Zenon
<1> QED
  BY <1>1, IInvCorrect, PTL DEF Spec, AppendOnly

(* Two calls are never both told that they wrote the same version. *)
THEOREM NeverReportedTwice == Spec => NoVersionReportedTwice
<1> DEFINE Fresh(t) == pc[t] = "snapshot" /\ snapshot' # snapshot
                         => work[t].event.seq \notin acked[work[t].op]
<1>1. IInv => [\A t \in Threads : Fresh(t)]_vars
  <2> SUFFICES ASSUME IInv, NEW t \in Threads, pc[t] = "snapshot"
               PROVE  work[t].event.seq \notin acked[work[t].op]
    OBVIOUS
  <2>1. PICK p \in Ops : p = work[t].op
    BY DEF IInv, TypeOK, Work
  <2>2. Version(p) \in Nat /\ work[t].event.seq = Version(p) + 1
    BY <2>1 DEF IInv, TypeOK, CallInv, CallOK, Owing, Version
  <2> QED
    BY <2>1, <2>2 DEF IInv, AckInv
<1> QED
  BY <1>1, IInvCorrect, PTL DEF NoVersionReportedTwice

(* The ledger and the store have the same table. *)
LEMMA SameTable == Ledger!LegalTransitions = LegalTransitions
  BY Zenon DEF Ledger!LegalTransitions, LegalTransitions, Ledger!States, States,
               Ledger!Terminal, Terminal, Ledger!Stop, Stop

(* A caller of get() sees an atomic ledger: each snapshot written is one   *)
(* publication, one legal transition or one observation.                   *)
THEOREM StoreImplementsLedger == Spec => ImplementsLedger
<1>1. Init => Ledger!Init
  <2> SUFFICES ASSUME Init PROVE Ledger!Init
    OBVIOUS
  <2>1. \A o \in Ops : snapshot[o].version = 0 /\ snapshot[o].op.state = "accepted"
    BY DEF Init, NewOperation
  <2> QED
    BY <2>1 DEF Ledger!Init, Ledger!Absent, LedgerView
<1>2. IInv /\ [Next]_vars => [Ledger!Next]_LedgerView
  <2> SUFFICES ASSUME IInv, [Next]_vars
               PROVE  Ledger!Next \/ UNCHANGED LedgerView
    OBVIOUS
  <2>1. CASE UNCHANGED snapshot
    BY <2>1 DEF LedgerView
  <2>2. ASSUME NEW t \in Threads, pc[t] = "snapshot", ReplaceSnapshot(t),
               UNCHANGED <<dirs, initial, events>>
        PROVE  Ledger!Next
    <3>1. PICK p \in Ops : p = work[t].op
      BY <2>2 DEF IInv, TypeOK, Work
    <3>2. Owing(t) /\ work[t].event \in Event /\ Version(p) \in Nat
      BY <2>2, <3>1 DEF IInv, CallInv, CallOK, TypeOK, Work, Version
    <3>3. snapshot' = [snapshot EXCEPT ![p] = [version |-> Version(p) + 1, op |-> work[t].result]]
      BY <2>2, <3>1, <3>2 DEF ReplaceSnapshot, Owing
    <3>4. LedgerView' = [LedgerView EXCEPT ![p] = [version |-> Version(p) + 1,
                                                  state |-> work[t].result.state]]
      BY <3>1, <3>3 DEF LedgerView, IInv, TypeOK
    <3>5. LedgerView[p] = [version |-> Version(p), state |-> snapshot[p].op.state]
      BY <3>1 DEF LedgerView, Version
    <3>6. CASE Publishing(t)
      <4>1. Version(p) = 0 /\ work[t].result.state = "accepted"
        BY <3>1, <3>6 DEF Publishing
      <4>2. Ledger!Publish(p)
        BY <3>4, <3>5, <4>1 DEF Ledger!Publish
      <4> QED
        BY <3>1, <4>2 DEF Ledger!Next
    <3>7. CASE Appending(t)
      <4>1. /\ Version(p) > 0
            /\ Version(p) + 1 \in Files(p) /\ Version(p) \in Files(p)
            /\ events[p][Version(p) + 1] = work[t].event
        BY <3>1, <3>2, <3>7 DEF Owing, Appending
      <4>2. work[t].event.from = snapshot[p].op.state
        BY <3>1, <3>2, <4>1 DEF IInv, ChainInv
      <4>3. LegalEvent(work[t].event) /\ work[t].result.state = work[t].event.to
        BY <3>7 DEF Appending
      <4>4. CASE work[t].event.kind = "transition"
        <5>1. work[t].event.to \in LegalTransitions[snapshot[p].op.state]
          BY <4>2, <4>3, <4>4 DEF LegalEvent
        <5>2. Ledger!Advance(p)
          <6>1. LedgerView[p].version = Version(p) /\ LedgerView[p].state = snapshot[p].op.state
            BY <3>5
          <6>2. work[t].event.to \in Ledger!LegalTransitions[LedgerView[p].state]
            BY <5>1, <6>1, SameTable
          <6>3. LedgerView' = [LedgerView EXCEPT ![p] =
                                [version |-> LedgerView[p].version + 1, state |-> work[t].event.to]]
            BY <3>4, <4>3, <6>1
          <6> QED
            BY <4>1, <6>1, <6>2, <6>3 DEF Ledger!Advance
        <5> QED
          BY <3>1, <5>2 DEF Ledger!Next
      <4>5. CASE work[t].event.kind # "transition"
        <5>1. work[t].result.state = snapshot[p].op.state
          BY <4>2, <4>3, <4>5 DEF LegalEvent
        <5>2. Ledger!Observe(p)
          BY <3>4, <3>5, <4>1, <5>1 DEF Ledger!Observe
        <5> QED
          BY <3>1, <5>2 DEF Ledger!Next
      <4> QED
        BY <4>4, <4>5
    <3> QED
      BY <3>2, <3>6, <3>7 DEF Owing
  <2>3. CASE Next
    <3>1. CASE UNCHANGED disk
      BY <2>1, <3>1 DEF disk
    <3>2. ASSUME NEW t \in Threads, NEW p \in Ops, PublishDirectory(t, p)
          PROVE  UNCHANGED snapshot
      BY <3>2 DEF PublishDirectory
    <3>3. ASSUME NEW t \in Threads,
                 PublishInitial(t) \/ PublishFirstEvent(t) \/ AppendEvent(t)
          PROVE  UNCHANGED snapshot
      BY <3>3 DEF PublishInitial, PublishFirstEvent, AppendEvent
    <3> QED
      BY <2>1, <2>2, <2>3, <3>1, <3>2, <3>3, DiskSteps, Zenon
  <2> QED
    BY <2>1, <2>3 DEF vars
<1> QED
  BY <1>1, <1>2, IInvCorrect, PTL DEF Spec, ImplementsLedger, Ledger!Spec
(* The four parts together: what is on disk can be relied on, for any      *)
(* number of operations, threads, crashes and failed writes.               *)
THEOREM HistoryAlwaysSound == Spec => []HistorySound
  BY HistoryAlwaysReadable, HistoryAlwaysLegal, TornByFaultOnly, AckedAlwaysDurable, PTL
     DEF HistorySound

-----------------------------------------------------------------------------
(* Acknowledgements.  The request a call answers is read without the lock; *)
(* what the call is still allowed to assume when it writes follows from    *)
(* the version it started from.                                            *)

(* Going back from event n over transitions only, one comes to a request. *)
PendingAt(o, n) ==
  \E m \in Files(o) :
    /\ m <= n
    /\ events[o][m].kind = "requested"
    /\ \A k \in Files(o) : m < k /\ k <= n => events[o][k].kind = "transition"

(* The history up to the snapshot shows every cancellation that is pending. *)
PendingInv ==
  \A o \in Ops : snapshot[o].op.cancel = "requested" => PendingAt(o, Version(o))

(* The cancellation is pending, unless the version has moved on.           *)
BasedOnRequest(t) ==
  work[t].base = Version(work[t].op) => snapshot[work[t].op].op.cancel = "requested"

(* A call acknowledges a pending cancellation, and makes one pending only  *)
(* by requesting it or by keeping the one it started from.                 *)
Requests(t) ==
  /\ work[t].event.kind = "acknowledged" => BasedOnRequest(t)
  /\ work[t].result.cancel = "requested" =>
       \/ work[t].event.kind = "requested"
       \/ work[t].event.kind = "transition" /\ BasedOnRequest(t)

RequestInv == \A t \in Threads : pc[t] # "idle" => Requests(t)

CancelInv == AckAnswersRequest /\ PendingInv /\ RequestInv

(* The files and the snapshot of operation o stay. *)
Kept(o) == events'[o] = events[o] /\ snapshot'[o] = snapshot[o]

LEMMA PendingKept ==
  ASSUME NEW o \in Ops, events'[o] = events[o], NEW n, PendingAt(o, n)
  PROVE  PendingAt(o, n)'
  BY DEF PendingAt, Files

(* Events and snapshots stay: what the calls in progress compute matters.  *)
LEMMA DiskKept ==
  ASSUME CancelInv, UNCHANGED <<events, snapshot>>,
         \A u \in Threads : pc'[u] # "idle" =>
            \/ work'[u] = work[u] /\ pc[u] # "idle"
            \/ Requests(u)'
  PROVE  CancelInv'
<1>1. AckAnswersRequest'
  BY DEF CancelInv, AckAnswersRequest, Files
<1>2. PendingInv'
  BY PendingKept DEF CancelInv, PendingInv, Version
<1>3. RequestInv'
  BY DEF CancelInv, RequestInv, Requests, BasedOnRequest, Version
<1> QED
  BY <1>1, <1>2, <1>3 DEF CancelInv

(* A call begins with what its snapshot allows. *)
LEMMA BeginRequests ==
  ASSUME TypeOK, CancelInv, NEW t \in Threads, NEW o \in Ops, NEW event, NEW result,
         Begin(t, o, event, result),
         event.kind = "acknowledged" => snapshot[o].op.cancel = "requested",
         result.cancel = "requested" =>
           \/ event.kind = "requested"
           \/ event.kind = "transition" /\ snapshot[o].op.cancel = "requested"
  PROVE  CancelInv'
<1>1. /\ work'[t] = [op |-> o, base |-> snapshot[o].version, event |-> event, result |-> result]
      /\ \A u \in Threads : u # t => pc'[u] = pc[u] /\ work'[u] = work[u]
      /\ UNCHANGED <<events, snapshot>>
  BY DEF Begin, Goto, disk, TypeOK
<1>2. /\ work'[t].op = o /\ work'[t].event = event /\ work'[t].result = result
      /\ snapshot'[o] = snapshot[o]
  BY <1>1
<1>3. Requests(t)'
  BY <1>2 DEF Requests, BasedOnRequest
<1> QED
  BY <1>1, <1>3, DiskKept

LEMMA TransitionRequests ==
  ASSUME TypeOK, CancelInv, NEW t \in Threads, NEW o \in Ops, NEW to \in Targets,
         NEW err \in BOOLEAN, NEW reason \in BOOLEAN, Transition(t, o, to, err, reason)
  PROVE  CancelInv'
<1> DEFINE event == [seq |-> snapshot[o].version + 1, prev |-> NoDigest, kind |-> "transition",
                     from |-> snapshot[o].op.state, to |-> to, err |-> err]
           result == [state |-> to, err |-> err,
                      cancellable |-> snapshot[o].op.cancellable /\ ~reason,
                      cancel |-> IF reason THEN "completed" ELSE snapshot[o].op.cancel]
<1>1. Begin(t, o, event, result)
  BY DEF Transition
<1>2. event.kind = "transition" /\ (result.cancel = "requested" => snapshot[o].op.cancel = "requested")
  OBVIOUS
<1> HIDE DEF event, result
<1> QED
  BY <1>1, <1>2, BeginRequests

LEMMA CancellationRequests ==
  ASSUME TypeOK, CancelInv, NEW t \in Threads, NEW o \in Ops,
         RequestCancellation(t, o) \/ AcknowledgeCancellation(t, o)
  PROVE  CancelInv'
<1>1. PICK kind \in {"requested", "acknowledged"} :
        /\ Observation(t, o, kind)
        /\ kind = "acknowledged" => snapshot[o].op.cancel = "requested"
  BY DEF RequestCancellation, AcknowledgeCancellation
<1> DEFINE event == [seq |-> snapshot[o].version + 1, prev |-> NoDigest, kind |-> kind,
                     from |-> snapshot[o].op.state, to |-> snapshot[o].op.state,
                     err |-> FALSE]
           result == WithCancellation(snapshot[o].op, kind)
<1>2. Begin(t, o, event, result) /\ event.kind = kind
  BY <1>1 DEF Observation
<1>3. result.cancel = kind
  <2>1. snapshot[o].op \in Operation
    BY DEF TypeOK
  <2> QED
    BY <2>1, Zenon DEF WithCancellation, Operation
<1> HIDE DEF event, result
<1> QED
  BY <1>1, <1>2, <1>3, BeginRequests

(* An event is written: an acknowledgement finds the request pending.      *)
LEMMA AppendRequests ==
  ASSUME IInv, CancelInv, NEW t \in Threads, AppendEvent(t)
  PROVE  CancelInv'
<1>1. PICK p \in Ops : p = work[t].op
  BY DEF AppendEvent, IInv, TypeOK, Work
<1>2. PICK v \in Nat : v = Version(p)
  BY DEF IInv, TypeOK, Version
<1>3. Appending(t) /\ Current(t) /\ Requests(t) /\ pc[t] # "idle"
  BY DEF IInv, CallInv, CallOK, AppendEvent, CancelInv, RequestInv
<1>4. work[t].base = v /\ work[t].event.seq = v + 1 /\ v + 1 \notin Files(p)
  BY <1>1, <1>2, <1>3 DEF Current, Appending, Version
<1>5. Files(p) = 1 .. v
  BY <1>1, <1>2, <1>4 DEF IInv, FilesInv
<1>6. /\ Files(p)' = Files(p) \cup {v + 1}
      /\ events'[p][v + 1] = work[t].event
      /\ \A n \in Files(p) : events'[p][n] = events[p][n]
      /\ \A o \in Ops : o # p => Files(o)' = Files(o) /\ events'[o] = events[o]
  BY <1>1, <1>4, WithFileEffect DEF AppendEvent, IInv, TypeOK
<1>7. snapshot' = snapshot /\ work' = work /\ \A u \in Threads : u # t => pc'[u] = pc[u]
  BY DEF AppendEvent, Goto, IInv, TypeOK
<1>8. \A n \in 1 .. v : PendingAt(p, n) => PendingAt(p, n)'
  BY <1>2, <1>5, <1>6 DEF PendingAt
<1>9. AckAnswersRequest'
  <2> SUFFICES ASSUME NEW o \in Ops, NEW n \in Files(o)', events'[o][n].kind = "acknowledged"
               PROVE  \E m \in Files(o)' :
                        /\ m < n
                        /\ events'[o][m].kind = "requested"
                        /\ \A k \in Files(o)' : m < k /\ k < n => events'[o][k].kind = "transition"
    BY DEF AckAnswersRequest
  <2>1. CASE o # p
    BY <1>6, <2>1 DEF CancelInv, AckAnswersRequest
  <2>2. CASE o = p /\ n \in Files(p)
    <3>1. PICK m \in Files(p) :
            /\ m < n
            /\ events[p][m].kind = "requested"
            /\ \A k \in Files(p) : m < k /\ k < n => events[p][k].kind = "transition"
      BY <1>6, <2>2 DEF CancelInv, AckAnswersRequest
    <3>2. \A k \in Files(p)' : k < n => k \in Files(p)
      BY <1>2, <1>5, <1>6, <2>2
    <3> QED
      BY <1>6, <2>2, <3>1, <3>2
  <2>3. CASE o = p /\ n = v + 1
    <3>1. PendingAt(p, v)
      BY <1>1, <1>2, <1>3, <1>4, <1>6, <2>3 DEF Requests, BasedOnRequest, CancelInv, PendingInv
    <3>2. PICK m \in Files(p) :
            /\ m <= v
            /\ events[p][m].kind = "requested"
            /\ \A k \in Files(p) : m < k /\ k <= v => events[p][k].kind = "transition"
      BY <3>1 DEF PendingAt
    <3>3. \A k \in Files(p)' : k < v + 1 => k \in Files(p) /\ k <= v
      BY <1>2, <1>5, <1>6
    <3> QED
      BY <1>2, <1>5, <1>6, <2>3, <3>2, <3>3
  <2> QED
    BY <1>6, <2>1, <2>2, <2>3
<1>10. PendingInv'
  <2> SUFFICES ASSUME NEW o \in Ops, snapshot[o].op.cancel = "requested"
               PROVE  PendingAt(o, Version(o))'
    BY <1>7 DEF PendingInv
  <2>1. PendingAt(o, Version(o)) /\ Version(o)' = Version(o)
    BY <1>7 DEF CancelInv, PendingInv, Version
  <2>2. CASE o # p
    BY <1>6, <2>1, <2>2 DEF PendingAt
  <2>3. CASE o = p
    <3>1. v \in 1 .. v
      BY <1>2, <1>3, <1>4, <1>1 DEF Appending, Version
    <3> QED
      BY <1>2, <1>8, <2>1, <2>3, <3>1 DEF PendingAt
  <2> QED
    BY <2>2, <2>3
<1>11. RequestInv'
  BY <1>3, <1>7 DEF CancelInv, RequestInv, Requests, BasedOnRequest, Version
<1> QED
  BY <1>9, <1>10, <1>11 DEF CancelInv

(* The first event of an operation is no acknowledgement. *)
LEMMA PublishRequests ==
  ASSUME IInv, CancelInv, NEW t \in Threads, PublishFirstEvent(t)
  PROVE  CancelInv'
<1>1. PICK p \in Ops : p = work[t].op
  BY DEF PublishFirstEvent, IInv, TypeOK, Work
<1>2. Files(p) = {} /\ Publishing(t)
  BY <1>1 DEF IInv, CallInv, CallOK, PublishFirstEvent
<1>3. /\ Files(p)' = {1}
      /\ events'[p][1].kind = "accepted"
      /\ \A o \in Ops : o # p => Files(o)' = Files(o) /\ events'[o] = events[o]
  <2>1. work[t].event.kind = "accepted"
    BY <1>2 DEF Publishing, AcceptedEvent
  <2> QED
    BY <1>1, <1>2, <2>1, WithFileEffect DEF PublishFirstEvent, IInv, TypeOK
<1>4. snapshot' = snapshot /\ work' = work /\ \A u \in Threads : u # t => pc'[u] = pc[u]
  BY DEF PublishFirstEvent, Goto, IInv, TypeOK
<1>5. AckAnswersRequest'
  BY <1>3 DEF CancelInv, AckAnswersRequest
<1>6. PendingInv'
  BY <1>2, <1>3, <1>4 DEF CancelInv, PendingInv, PendingAt, Version
<1>7. RequestInv'
  BY <1>4 DEF CancelInv, RequestInv, Requests, BasedOnRequest, Version, PublishFirstEvent
<1> QED
  BY <1>5, <1>6, <1>7 DEF CancelInv

(* The snapshot moves to the version whose event is already on disk, and   *)
(* every other call on this operation has an older version than that.      *)
LEMMA SnapshotRequests ==
  ASSUME IInv, CancelInv, NEW t \in Threads, pc[t] = "snapshot", ReplaceSnapshot(t),
         UNCHANGED <<dirs, initial, events>>, Leave(t)
  PROVE  CancelInv'
<1>1. PICK p \in Ops : p = work[t].op
  BY DEF IInv, TypeOK, Work
<1>2. PICK v \in Nat : v = Version(p)
  BY DEF IInv, TypeOK, Version
<1>3. Owing(t) /\ Requests(t)
  BY DEF IInv, CallInv, CallOK, CancelInv, RequestInv
<1>4. /\ snapshot'[p].version = v + 1 /\ snapshot'[p].op = work[t].result
      /\ \A o \in Ops : o # p => snapshot'[o] = snapshot[o]
      /\ events[p][v + 1] = work[t].event /\ Files(p) = 1 .. v + 1
      /\ pc'[t] = "idle"
      /\ \A u \in Threads : u # t => pc'[u] = pc[u] /\ work'[u] = work[u]
  BY <1>1, <1>2, <1>3 DEF ReplaceSnapshot, Leave, Owing, IInv, TypeOK, Version
<1>5. AckAnswersRequest'
  BY DEF CancelInv, AckAnswersRequest, Files
<1>6. PendingInv'
  <2> SUFFICES ASSUME NEW o \in Ops, snapshot'[o].op.cancel = "requested"
               PROVE  PendingAt(o, Version(o))'
    BY DEF PendingInv
  <2>1. CASE o # p
    BY <1>4, <2>1, PendingKept DEF CancelInv, PendingInv, Version
  <2>2. CASE o = p
    <3>1. work[t].result.cancel = "requested" /\ Version(p)' = v + 1
      BY <1>4, <2>2 DEF Version
    <3>2. CASE work[t].event.kind = "requested"
      BY <1>2, <1>4, <2>2, <3>1, <3>2 DEF PendingAt, Files
    <3>3. CASE work[t].event.kind = "transition" /\ BasedOnRequest(t)
      <4>1. Appending(t)
        BY <1>3, <3>3 DEF Owing, Publishing, AcceptedEvent
      <4>2. work[t].base \in Nat /\ work[t].event.seq = v + 1
        BY <1>1, <1>2, <1>3 DEF IInv, TypeOK, Work, Owing
      <4>3. work[t].base = v
        BY <1>2, <4>1, <4>2 DEF Appending
      <4>4. PendingAt(p, v)
        BY <1>1, <1>2, <3>3, <4>3 DEF BasedOnRequest, CancelInv, PendingInv
      <4>5. PICK m \in Files(p) :
              /\ m <= v
              /\ events[p][m].kind = "requested"
              /\ \A k \in Files(p) : m < k /\ k <= v => events[p][k].kind = "transition"
        BY <4>4 DEF PendingAt
      <4>6. \A k \in Files(p) : k <= v \/ k = v + 1
        BY <1>2, <1>4
      <4>7. PendingAt(p, v + 1)
        BY <1>2, <1>4, <3>3, <4>5, <4>6 DEF PendingAt
      <4> QED
        BY <2>2, <3>1, <4>7, PendingKept
    <3> QED
      BY <1>3, <3>1, <3>2, <3>3 DEF Requests
  <2> QED
    BY <2>1, <2>2
<1>7. RequestInv'
  <2> SUFFICES ASSUME NEW u \in Threads, pc'[u] # "idle"
               PROVE  Requests(u)'
    BY DEF RequestInv
  <2>1. u # t /\ Requests(u) /\ work'[u] = work[u] /\ pc[u] # "idle"
    BY <1>4 DEF CancelInv, RequestInv
  <2>2. work[u].op \in Ops /\ pc[u] \notin Holding
    BY <1>3, <2>1, HoldsLock DEF IInv, CallInv, TypeOK, Work, Owing
  <2>3. Appending(u)
    BY <2>1, <2>2 DEF IInv, CallInv, CallOK, TypeOK, Holding
  <2>4. CASE work[u].op # p
    BY <1>4, <2>1, <2>2, <2>4 DEF Requests, BasedOnRequest, Version
  <2>5. CASE work[u].op = p
    <3>1. work[u].base # Version(p)'
      BY <1>2, <1>4, <2>3, <2>5 DEF Appending, Version
    <3> QED
      BY <2>1, <2>5, <3>1 DEF Requests, BasedOnRequest
  <2> QED
    BY <2>4, <2>5
<1> QED
  BY <1>5, <1>6, <1>7 DEF CancelInv

(* The steps that write no event and no snapshot. *)
LEMMA OtherRequests ==
  ASSUME IInv, CancelInv, NEW t \in Threads,
         \/ \E o \in Ops : PublishDirectory(t, o)
         \/ PublishInitial(t)
         \/ ReadLastEvent(t)
         \/ Refuse(t)
         \/ WriteFails(t) /\ UNCHANGED snapshot
  PROVE  CancelInv'
<1>1. ASSUME NEW o \in Ops, PublishDirectory(t, o)
      PROVE  CancelInv'
  <2>1. PICK c \in BOOLEAN :
          work' = [work EXCEPT ![t] = [op |-> o, base |-> 0, event |-> AcceptedEvent,
                                       result |-> NewOperation(c)]]
    BY <1>1 DEF PublishDirectory
  <2>2. work'[t].event.kind = "accepted" /\ work'[t].result.cancel = "not_requested"
    BY <2>1 DEF IInv, TypeOK, AcceptedEvent, NewOperation
  <2>3. /\ UNCHANGED <<events, snapshot>>
        /\ \A u \in Threads : u # t => pc'[u] = pc[u] /\ work'[u] = work[u]
    BY <1>1, <2>1 DEF PublishDirectory, Goto, IInv, TypeOK
  <2>4. Requests(t)'
    BY <2>2 DEF Requests
  <2> QED
    BY <2>3, <2>4, DiskKept
<1>2. CASE PublishInitial(t)
  <2>1. /\ UNCHANGED <<events, snapshot, work>> /\ pc[t] # "idle"
        /\ \A u \in Threads : u # t => pc'[u] = pc[u]
    BY <1>2 DEF PublishInitial, Goto, IInv, TypeOK
  <2> QED
    BY <2>1, DiskKept
<1>3. CASE ReadLastEvent(t)
  <2>1. PICK p \in Ops : p = work[t].op
    BY <1>3 DEF ReadLastEvent, IInv, TypeOK, Work
  <2>2. work[t] \in Work /\ pc[t] # "idle" /\ events[p][LastFile(p)] \in Event
    BY <1>3, <2>1, LastFileType DEF ReadLastEvent, IInv, TypeOK
  <2> DEFINE w == Chained(work[t], events[p][LastFile(p)])
  <2>3. /\ w.op = work[t].op /\ w.base = work[t].base /\ w.result = work[t].result
        /\ w.event.kind = work[t].event.kind
    BY <2>2, ChainedType
  <2>4. /\ UNCHANGED <<events, snapshot>> /\ work'[t] = w
        /\ \A u \in Threads : u # t => pc'[u] = pc[u] /\ work'[u] = work[u]
    BY <1>3, <2>1 DEF ReadLastEvent, Goto, disk, IInv, TypeOK
  <2> HIDE DEF w
  <2>5. Requests(t)'
    BY <2>2, <2>3, <2>4 DEF Requests, BasedOnRequest, Version, CancelInv, RequestInv
  <2> QED
    BY <2>4, <2>5, DiskKept
<1>4. CASE Refuse(t) \/ (WriteFails(t) /\ UNCHANGED snapshot)
  <2>1. /\ UNCHANGED <<events, snapshot>> /\ pc'[t] = "idle"
        /\ \A u \in Threads : u # t => pc'[u] = pc[u] /\ work'[u] = work[u]
    BY <1>4 DEF Refuse, WriteFails, Leave, disk, IInv, TypeOK
  <2> QED
    BY <2>1, DiskKept
<1> QED
  BY <1>1, <1>2, <1>3, <1>4

LEMMA CancelInvStep == IInv /\ CancelInv /\ [Next]_vars => CancelInv'
<1> SUFFICES ASSUME IInv, CancelInv, [Next]_vars
             PROVE  CancelInv'
  OBVIOUS
<1>1. CASE UNCHANGED vars
  BY <1>1, DiskKept DEF vars
<1>2. CASE Crash
  BY <1>2, DiskKept DEF Crash, disk
<1>3. ASSUME NEW t \in Threads, Call(t)
      PROVE  CancelInv'
  BY <1>3, OtherRequests, TransitionRequests, CancellationRequests DEF Call, IInv
<1>4. ASSUME NEW t \in Threads, Step(t)
      PROVE  CancelInv'
  BY <1>4, OtherRequests, PublishRequests, AppendRequests, SnapshotRequests
     DEF Step, WriteSnapshot
<1>5. ASSUME NEW t \in Threads, WriteFails(t)
      PROVE  CancelInv'
  BY <1>5, OtherRequests, SnapshotRequests DEF WriteFails
<1> QED
  BY <1>1, <1>2, <1>3, <1>4, <1>5 DEF Next

(* An acknowledgement always answers a request that nobody has answered,   *)
(* for any number of threads, crashes and failed writes, although whether  *)
(* the cancellation is pending is read without the lock.                   *)
THEOREM AckAlwaysAnswersRequest == Spec => []AckAnswersRequest
<1>1. Init => CancelInv
  BY DEF Init, CancelInv, AckAnswersRequest, PendingInv, RequestInv, NewOperation, Files
<1>2. CancelInv => AckAnswersRequest
  BY DEF CancelInv
<1> QED
  BY <1>1, <1>2, CancelInvStep, IInvCorrect, PTL DEF Spec

-----------------------------------------------------------------------------
(* Replay.  The recursion of replay() stays out of the invariant: what is  *)
(* invariant is that some sequence of operations is a replay of the events *)
(* up to the snapshot, and a step adds at most one operation to it.        *)

(* A terminal state is left by no transition. *)
LEMMA NothingAfterTerminal ==
  \A s \in Terminal : LegalTransitions[s] = {}
  BY DEF LegalTransitions, States, Terminal, Stop

(* A set of natural numbers has a least one. *)
LEMMA LeastNumber ==
  ASSUME NEW S \in SUBSET Nat, S # {}
  PROVE  \E x \in S : \A y \in S : x <= y
<1> DEFINE R == {p \in Nat \X Nat : p[1] < p[2]}
<1>1. R = OpToRel(<, Nat)
  BY Zenon DEF OpToRel
<1>2. IsWellFoundedOn(R, Nat)
  BY <1>1, NatLessThanWellFounded, Zenon
<1> HIDE DEF R
<1>3. PICK x \in S : \A y \in S : ~(<<y, x>> \in R)
  BY <1>2, WFMin, Zenon
<1>4. ASSUME NEW y \in S
      PROVE  x <= y
  <2>1. <<y, x>> \in Nat \X Nat /\ <<y, x>>[1] = y /\ <<y, x>>[2] = x
    OBVIOUS
  <2>2. ~(y < x)
    BY <1>3, <2>1, Zenon DEF R
  <2> QED
    BY <2>2
<1> QED
  BY <1>4

(* r is a replay of the first n events: the operations it goes through.    *)
Replays(o, r, n) ==
  /\ DOMAIN r = 1 .. n
  /\ r[1] = [ok |-> TRUE, op |-> initial[o]]
  /\ \A k \in 2 .. n :
       r[k] = [ok |-> r[k - 1].ok /\ Applies(r[k - 1].op, events[o][k]),
               op |-> Rebuilt(r[k - 1].op, events[o][k])]

(* Such a replay is the one the code computes: where the recursion first   *)
(* differed from it, both would have been made of equal operations.        *)
LEMMA ReplayUnique ==
  ASSUME NEW o, NEW n \in Nat \ {0}, Files(o) = 1 .. n,
         NEW r, r = [k \in 1 .. n |-> r[k]], Replays(o, r, n)
  PROVE  ReplayUpTo(o)[n] = r[n]
<1> DEFINE Body(f, k) == IF k = 1 THEN [ok |-> TRUE, op |-> initial[o]]
                         ELSE [ok |-> f[k - 1].ok /\ Applies(f[k - 1].op, events[o][k]),
                               op |-> Rebuilt(f[k - 1].op, events[o][k])]
           g == CHOOSE f : f = [k \in Files(o) |-> Body(f, k)]
<1>1. r = [k \in Files(o) |-> Body(r, k)]
  <2>1. ASSUME NEW k \in 1 .. n
        PROVE  r[k] = Body(r, k)
    <3>1. CASE k = 1
      BY <3>1 DEF Replays
    <3>2. CASE k # 1
      <4>1. k \in 2 .. n
        BY <3>2
      <4> QED
        BY <3>2, <4>1, Zenon DEF Replays
    <3> QED
      BY <3>1, <3>2
  <2> HIDE DEF Body
  <2> QED
    BY <2>1
<1>2. g = [k \in Files(o) |-> Body(g, k)]
  <2> HIDE DEF Body
  <2> QED
    BY <1>1, Zenon
<1>3. ReplayUpTo(o) = g
  BY Zenon DEF ReplayUpTo
<1> HIDE DEF g
<1>4. \A k \in 1 .. n : g[k] = Body(g, k) /\ r[k] = Body(r, k)
  <2> HIDE DEF Body
  <2> QED
    BY <1>1, <1>2
<1> DEFINE Apart == {k \in 1 .. n : g[k] # r[k]}
<1>5. Apart = {}
  <2> SUFFICES ASSUME Apart # {}
               PROVE  FALSE
    OBVIOUS
  <2>1. PICK k \in Apart : \A m \in Apart : k <= m
    <3>1. Apart \subseteq Nat
      OBVIOUS
    <3> HIDE DEF Apart
    <3> QED
      BY <3>1, LeastNumber
  <2>2. k # 1
    BY <1>4
  <2>3. k - 1 \in 1 .. n /\ k - 1 \notin Apart
    BY <2>1, <2>2
  <2>4. g[k - 1] = r[k - 1]
    BY <2>3
  <2>5. Body(g, k) = Body(r, k)
    BY <2>4, Zenon
  <2>6. k \in 1 .. n /\ g[k] # r[k]
    OBVIOUS
  <2> HIDE DEF Body, Apart
  <2> QED
    BY <1>4, <2>5, <2>6, Zenon
<1> QED
  BY <1>3, <1>5

(* A replayed operation has an error only from a transition into a         *)
(* terminal state; a snapshot also has that of any other transition.       *)
SameButError(op, s) ==
  /\ op \in Operation
  /\ op.state = s.state
  /\ op.cancellable = s.cancellable
  /\ op.cancel = s.cancel
  /\ op.err <=> s.err /\ s.state \in Terminal

(* res is what event e makes of operation s; a transition that completed a *)
(* cancellation is of no interest here, except for its state.              *)
Follows(s, e, res) ==
  IF e.kind = "transition"
    THEN /\ e.from = s.state
         /\ e.to \in LegalTransitions[s.state]
         /\ e.to = "failed" => e.err
         /\ e.to = "succeeded" => ~e.err
         /\ res.state = e.to
         /\ res.err = e.err
         /\ res.cancel # "completed" =>
              /\ res.cancel = s.cancel
              /\ res.cancellable = s.cancellable
              /\ e.to \notin {"cancelled", "timed_out"}
    ELSE /\ e.kind \in {"requested", "acknowledged"}
         /\ s.cancel # "completed"
         /\ res = WithCancellation(s, e.kind)

(* Recording a cancellation, field by field. *)
LEMMA WithCancellationFields ==
  \A op \in Operation, c \in Cancellations :
    /\ WithCancellation(op, c) \in Operation
    /\ WithCancellation(op, c).state = op.state
    /\ WithCancellation(op, c).cancellable = op.cancellable
    /\ WithCancellation(op, c).err = op.err
    /\ WithCancellation(op, c).cancel = c
  BY Zenon DEF WithCancellation, Operation

(* The replay keeps up with the snapshot over one event. *)
LEMMA RebuiltFollows ==
  ASSUME NEW op, NEW s \in Operation, NEW res \in Operation, NEW e \in Event,
         SameButError(op, s), Follows(s, e, res), res.cancel # "completed"
  PROVE  /\ Applies(op, e) /\ SameButError(Rebuilt(op, e), res)
         /\ s.cancel # "completed"
<1>1. CASE e.kind = "transition"
  <2>1. s.state \notin Terminal
    BY <1>1, NothingAfterTerminal DEF Follows
  <2>2. ~op.err /\ op \in Operation /\ e.to \in States /\ e.err \in BOOLEAN
    BY <2>1 DEF SameButError, Event
  <2> DEFINE next == [op EXCEPT !.state = e.to, !.err = IF e.to \in Terminal THEN e.err ELSE @]
  <2>3. Rebuilt(op, e) = next
    BY <1>1 DEF Rebuilt
  <2>4. /\ next.state = e.to /\ next.cancel = op.cancel /\ next.cancellable = op.cancellable
        /\ next.err = IF e.to \in Terminal THEN e.err ELSE op.err
        /\ next \in Operation
    BY <2>2 DEF Operation
  <2> HIDE DEF next
  <2>5. SameButError(next, res)
    BY <1>1, <2>2, <2>4 DEF SameButError, Follows
  <2>6. Valid(next) /\ op.state = e.from
    BY <1>1, <2>2, <2>4 DEF Valid, SameButError, Follows, Terminal
  <2> QED
    BY <1>1, <2>3, <2>5, <2>6 DEF Applies, Follows
<1>2. CASE e.kind # "transition"
  <2>1. e.kind \in Cancellations /\ res = WithCancellation(s, e.kind) /\ s.cancel # "completed"
    BY <1>2 DEF Follows, Cancellations
  <2>2. Rebuilt(op, e) = WithCancellation(op, e.kind) /\ Applies(op, e)
    BY <1>2 DEF Rebuilt, Applies
  <2> QED
    BY <2>1, <2>2, WithCancellationFields DEF SameButError
<1> QED
  BY <1>1, <1>2

NewOperations == {NewOperation(c) : c \in BOOLEAN}

(* What a call is going to write: the first call the operation it has put  *)
(* or will put in initial.json, any other what follows from the snapshot   *)
(* it started from, unless that has moved on and the call will be refused. *)
Results(t) ==
  /\ work[t].result.cancel = "completed" => ~work[t].result.cancellable
  /\ IF work[t].event.kind = "accepted"
       THEN /\ work[t].result \in NewOperations
            /\ pc[t] # "initial" => initial[work[t].op] = work[t].result
       ELSE work[t].base = Version(work[t].op) =>
              Follows(snapshot[work[t].op].op, work[t].event, work[t].result)

(* A published operation has its initial.json, and while no cancellation   *)
(* was completed its events replay to the snapshot.  A cancellation that   *)
(* was completed stays so, because no other can be requested.              *)
Replayable(o) ==
  Version(o) > 0 =>
    /\ initial[o] \in Operation
    /\ snapshot[o].op.cancel = "completed" => ~snapshot[o].op.cancellable
    /\ snapshot[o].op.cancel # "completed" =>
         \E r : /\ r = [k \in 1 .. Version(o) |-> r[k]]
                /\ Replays(o, r, Version(o))
                /\ r[Version(o)].ok
                /\ SameButError(r[Version(o)].op, snapshot[o].op)

ReplayInv ==
  /\ \A t \in Threads : pc[t] # "idle" => Results(t)
  /\ \A o \in Ops : Replayable(o)

LEMMA ReplayableKept ==
  ASSUME NEW o, Version(o) \in Nat, Replayable(o),
         initial'[o] = initial[o], snapshot'[o] = snapshot[o],
         \A n \in 1 .. Version(o) : events'[o][n] = events[o][n]
  PROVE  Replayable(o)'
<1>1. Version(o)' = Version(o)
  BY DEF Version
<1>2. ASSUME NEW r, Replays(o, r, Version(o))
      PROVE  Replays(o, r, Version(o))'
  <2>1. \A k \in 2 .. Version(o) : events'[o][k] = events[o][k]
    OBVIOUS
  <2> QED
    BY <1>1, <1>2, <2>1 DEF Replays
<1> QED
  BY <1>1, <1>2 DEF Replayable

(* Snapshots and the events up to them stay: what the calls in progress    *)
(* are going to write matters.                                             *)
LEMMA RecordsKept ==
  ASSUME TypeOK, ReplayInv, UNCHANGED <<initial, snapshot>>,
         \A o \in Ops : \A n \in 1 .. Version(o) : events'[o][n] = events[o][n],
         \A u \in Threads : pc'[u] # "idle" =>
            \/ work'[u] = work[u] /\ pc[u] # "idle" /\ (pc'[u] = "initial" <=> pc[u] = "initial")
            \/ Results(u)'
  PROVE  ReplayInv'
<1>1. ASSUME NEW u \in Threads, pc'[u] # "idle"
      PROVE  Results(u)'
  BY <1>1 DEF ReplayInv, Results, Version
<1>2. ASSUME NEW o \in Ops
      PROVE  Replayable(o)'
  <2>1. Version(o) \in Nat /\ Replayable(o)
    BY DEF TypeOK, Version, ReplayInv
  <2> QED
    BY <2>1, ReplayableKept
<1> QED
  BY <1>1, <1>2 DEF ReplayInv

(* A call begins with what follows from its snapshot. *)
LEMMA BeginResults ==
  ASSUME TypeOK, ReplayInv, NEW t \in Threads, NEW o \in Ops, NEW event, NEW result,
         Begin(t, o, event, result),
         event.kind # "accepted",
         result.cancel = "completed" => ~result.cancellable,
         Follows(snapshot[o].op, event, result)
  PROVE  ReplayInv'
<1>1. /\ work'[t] = [op |-> o, base |-> snapshot[o].version, event |-> event, result |-> result]
      /\ \A u \in Threads : u # t => pc'[u] = pc[u] /\ work'[u] = work[u]
      /\ UNCHANGED <<events, initial, snapshot>>
  BY DEF Begin, Goto, disk, TypeOK
<1>2. /\ work'[t].op = o /\ work'[t].event = event /\ work'[t].result = result
      /\ snapshot'[o] = snapshot[o]
  BY <1>1
<1>3. Results(t)'
  BY <1>2 DEF Results, Version
<1> QED
  BY <1>1, <1>3, RecordsKept

LEMMA TransitionResults ==
  ASSUME TypeOK, ReplayInv, NEW t \in Threads, NEW o \in Ops, NEW to \in Targets,
         NEW err \in BOOLEAN, NEW reason \in BOOLEAN, Transition(t, o, to, err, reason)
  PROVE  ReplayInv'
<1> DEFINE event == [seq |-> snapshot[o].version + 1, prev |-> NoDigest, kind |-> "transition",
                     from |-> snapshot[o].op.state, to |-> to, err |-> err]
           result == [state |-> to, err |-> err,
                      cancellable |-> snapshot[o].op.cancellable /\ ~reason,
                      cancel |-> IF reason THEN "completed" ELSE snapshot[o].op.cancel]
<1>1. Begin(t, o, event, result)
  BY DEF Transition
<1>2. /\ event.kind = "transition" /\ event.from = snapshot[o].op.state
      /\ event.to = to /\ event.err = err
      /\ result.state = to /\ result.err = err
      /\ result.cancellable = (snapshot[o].op.cancellable /\ ~reason)
      /\ result.cancel = IF reason THEN "completed" ELSE snapshot[o].op.cancel
  OBVIOUS
<1> HIDE DEF event, result
<1>3. /\ snapshot[o].op.cancellable \in BOOLEAN
      /\ snapshot[o].op.cancel = "completed" => ~snapshot[o].op.cancellable
  BY DEF TypeOK, Operation, ReplayInv, Replayable, Version, Transition
<1>4. result.cancel = "completed" => ~result.cancellable
  BY <1>2, <1>3
<1>5. Follows(snapshot[o].op, event, result)
  BY <1>2, <1>3 DEF Follows, Transition
<1> QED
  BY <1>1, <1>2, <1>4, <1>5, BeginResults

LEMMA CancellationResults ==
  ASSUME TypeOK, ReplayInv, NEW t \in Threads, NEW o \in Ops,
         RequestCancellation(t, o) \/ AcknowledgeCancellation(t, o)
  PROVE  ReplayInv'
<1>1. PICK kind \in {"requested", "acknowledged"} :
        /\ Observation(t, o, kind)
        /\ snapshot[o].op.cancellable \/ snapshot[o].op.cancel = "requested"
        /\ Version(o) > 0
  BY DEF RequestCancellation, AcknowledgeCancellation, Version
<1> DEFINE event == [seq |-> snapshot[o].version + 1, prev |-> NoDigest, kind |-> kind,
                     from |-> snapshot[o].op.state, to |-> snapshot[o].op.state,
                     err |-> FALSE]
           result == WithCancellation(snapshot[o].op, kind)
<1>2. Begin(t, o, event, result) /\ event.kind = kind
  BY <1>1 DEF Observation
<1>3. result.cancel = kind
  <2>1. snapshot[o].op \in Operation /\ kind \in Cancellations
    BY DEF TypeOK, Cancellations
  <2> QED
    BY <2>1, WithCancellationFields
<1>4. snapshot[o].op.cancel # "completed"
  BY <1>1 DEF ReplayInv, Replayable
<1>5. result = WithCancellation(snapshot[o].op, kind)
  OBVIOUS
<1> HIDE DEF event, result
<1>6. Follows(snapshot[o].op, event, result)
  BY <1>1, <1>2, <1>4, <1>5 DEF Follows
<1> QED
  BY <1>1, <1>2, <1>3, <1>6, BeginResults

(* A call that is inside the sequence of writes is the only one.           *)
LEMMA OthersOutside ==
  ASSUME IInv, NEW t \in Threads, pc[t] \in Holding, NEW u \in Threads, u # t, pc[u] # "idle"
  PROVE  /\ pc[u] \in {"read_events", "append"} /\ Appending(u)
         /\ work[u].event.kind # "accepted"
         /\ work[u].op \in Ops /\ work[u].base \in Nat
<1>1. lock = t /\ t # NoThread
  BY HoldsLock, ConstantsAssumption DEF IInv, CallInv
<1>2. pc[u] \notin Holding
  BY <1>1, HoldsLock DEF IInv, CallInv
<1>3. pc[u] \in {"read_events", "append"}
  BY <1>2 DEF IInv, TypeOK, Holding
<1>4. Appending(u) /\ work[u] \in Work
  BY <1>3 DEF IInv, CallInv, CallOK, TypeOK
<1> QED
  BY <1>3, <1>4 DEF Appending, LegalEvent, Work

(* initial.json is written for an operation that has no version yet. *)
LEMMA InitialResults ==
  ASSUME IInv, ReplayInv, NEW t \in Threads, PublishInitial(t)
  PROVE  ReplayInv'
<1>1. PICK p \in Ops : p = work[t].op
  BY DEF PublishInitial, IInv, TypeOK, Work
<1>2. /\ Publishing(t) /\ Results(t) /\ pc[t] = "initial"
      /\ work[t].event.kind = "accepted" /\ Version(p) = 0
  <2>1. pc[t] = "initial" /\ pc[t] # "idle"
    BY DEF PublishInitial
  <2>2. Publishing(t) /\ Results(t)
    BY <2>1 DEF IInv, CallInv, CallOK, ReplayInv
  <2> QED
    BY <1>1, <2>1, <2>2 DEF Publishing, AcceptedEvent
<1>3. /\ initial'[p] = work[t].result
      /\ \A o \in Ops : o # p => initial'[o] = initial[o]
      /\ snapshot' = snapshot /\ events' = events /\ work' = work
      /\ \A u \in Threads : u # t => pc'[u] = pc[u]
  BY <1>1 DEF PublishInitial, Goto, IInv, TypeOK
<1>4. ASSUME NEW u \in Threads, pc'[u] # "idle"
      PROVE  Results(u)'
  <2>1. CASE u = t
    BY <1>1, <1>2, <1>3, <2>1 DEF Results
  <2>2. CASE u # t
    <3>1. Results(u) /\ work[u].event.kind # "accepted"
      BY <1>2, <1>3, <1>4, <2>2, OthersOutside DEF ReplayInv, Holding
    <3> QED
      BY <1>3, <2>2, <3>1 DEF Results, Version
  <2> QED
    BY <2>1, <2>2
<1>5. ASSUME NEW o \in Ops
      PROVE  Replayable(o)'
  <2>1. CASE o = p
    BY <1>2, <1>3, <2>1 DEF Replayable, Version
  <2>2. CASE o # p
    BY <1>3, <2>2, ReplayableKept DEF ReplayInv, IInv, TypeOK, Version
  <2> QED
    BY <2>1, <2>2
<1> QED
  BY <1>4, <1>5 DEF ReplayInv

(* An event file is written behind the events of the snapshot.             *)
LEMMA EventResults ==
  ASSUME IInv, ReplayInv, NEW t \in Threads, PublishFirstEvent(t) \/ AppendEvent(t)
  PROVE  ReplayInv'
<1>1. PICK p \in Ops : p = work[t].op
  BY DEF PublishFirstEvent, AppendEvent, IInv, TypeOK, Work
<1>2. PICK k : events' = WithFile(p, k, work[t].event) /\ k \notin 1 .. Version(p)
  <2>1. CASE PublishFirstEvent(t)
    BY <1>1, <2>1 DEF PublishFirstEvent, IInv, CallInv, CallOK, Publishing
  <2>2. CASE AppendEvent(t)
    <3>1. work[t].event.seq \notin Files(p)
      BY <1>1, <2>2 DEF AppendEvent, Current
    <3>2. 1 .. Version(p) \subseteq Files(p)
      BY DEF IInv, TypeOK, FilesInv, Version
    <3> QED
      BY <1>1, <2>2, <3>1, <3>2 DEF AppendEvent
  <2> QED
    BY <2>1, <2>2
<1>3. \A o \in Ops : \A n \in 1 .. Version(o) : events'[o][n] = events[o][n]
  <2>1. \A o \in Ops : 1 .. Version(o) \subseteq Files(o)
    BY DEF IInv, TypeOK, FilesInv, Version
  <2> QED
    BY <1>2, <2>1, WithFileEffect DEF IInv, TypeOK
<1>4. /\ UNCHANGED <<initial, snapshot, work>>
      /\ pc[t] \in {"first_event", "append"} /\ pc'[t] = "snapshot"
      /\ \A u \in Threads : u # t => pc'[u] = pc[u]
  BY DEF PublishFirstEvent, AppendEvent, Goto, IInv, TypeOK
<1> QED
  BY <1>3, <1>4, RecordsKept DEF IInv

(* The snapshot takes up the event that is already on disk.                *)
LEMMA SnapshotRecords ==
  ASSUME IInv, ReplayInv, NEW t \in Threads, pc[t] = "snapshot", ReplaceSnapshot(t),
         UNCHANGED <<dirs, initial, events>>, Leave(t)
  PROVE  ReplayInv'
<1>1. PICK p \in Ops : p = work[t].op
  BY DEF IInv, TypeOK, Work
<1>2. PICK v \in Nat : v = Version(p)
  BY DEF IInv, TypeOK, Version
<1>3. Owing(t) /\ Results(t) /\ work[t] \in Work
  BY DEF IInv, CallInv, CallOK, ReplayInv, TypeOK
<1>4. /\ Version(p)' = v + 1 /\ snapshot'[p].op = work[t].result
      /\ \A o \in Ops : o # p => snapshot'[o] = snapshot[o]
      /\ events[p][v + 1] = work[t].event
      /\ pc'[t] = "idle"
      /\ \A u \in Threads : u # t => pc'[u] = pc[u] /\ work'[u] = work[u]
  BY <1>1, <1>2, <1>3 DEF ReplaceSnapshot, Leave, Owing, IInv, TypeOK, Version
<1> DEFINE e == work[t].event
           res == work[t].result
<1>5. e \in Event /\ res \in Operation /\ (res.cancel = "completed" => ~res.cancellable)
  BY <1>3 DEF Work, Results
<1>6. Replayable(p)'
  <2>1. CASE Publishing(t)
    <3>1. v = 0 /\ res \in NewOperations /\ initial[p] = res
      BY <1>1, <1>2, <1>3, <2>1 DEF Publishing, Results, AcceptedEvent
    <3>2. SameButError(res, res)
      BY <1>5, <3>1 DEF SameButError, NewOperations, NewOperation
    <3>3. PICK x : x = res
      OBVIOUS
    <3> DEFINE r == [k \in 1 .. 1 |-> [ok |-> TRUE, op |-> x]]
    <3>4. /\ r = [k \in 1 .. 1 |-> r[k]]
          /\ r[1] = [ok |-> TRUE, op |-> x] /\ r[1].ok /\ r[1].op = x
          /\ DOMAIN r = 1 .. 1
      OBVIOUS
    <3>5. 2 .. 1 = {}
      OBVIOUS
    <3> HIDE DEF r
    <3>6. Replays(p, r, 1)'
      BY <3>1, <3>3, <3>4, <3>5, Zenon DEF Replays
    <3>7. Version(p)' = 1
      BY <1>4, <3>1
    <3>8. initial'[p] \in Operation /\ SameButError(r[1].op, snapshot'[p].op)
      BY <1>4, <1>5, <3>1, <3>2, <3>3, <3>4
    <3> QED
      BY <1>4, <1>5, <3>4, <3>6, <3>7, <3>8 DEF Replayable, SameButError
  <2>2. CASE Appending(t)
    <3>1. e.kind # "accepted" /\ v > 0 /\ work[t].base = v
      BY <1>1, <1>2, <1>3, <2>2 DEF Appending, LegalEvent, Owing, Work
    <3>2. Follows(snapshot[p].op, e, res)
      BY <1>1, <1>2, <1>3, <3>1 DEF Results
    <3>3. Replayable(p) /\ snapshot[p].op \in Operation
      BY DEF ReplayInv, IInv, TypeOK
    <3>4. ASSUME res.cancel # "completed"
          PROVE  \E r : /\ r = [k \in 1 .. v + 1 |-> r[k]]
                        /\ Replays(p, r, v + 1)
                        /\ r[v + 1].ok
                        /\ SameButError(r[v + 1].op, res)
      <4>1. snapshot[p].op.cancel # "completed"
        BY <3>2, <3>4 DEF Follows
      <4>2. PICK q : /\ q = [k \in 1 .. v |-> q[k]]
                     /\ Replays(p, q, v)
                     /\ q[v].ok
                     /\ SameButError(q[v].op, snapshot[p].op)
        BY <1>2, <3>1, <3>3, <4>1 DEF Replayable
      <4>3. Applies(q[v].op, e) /\ SameButError(Rebuilt(q[v].op, e), res)
        BY <1>5, <3>2, <3>3, <3>4, <4>2, RebuiltFollows
      <4> DEFINE last == [ok |-> q[v].ok /\ Applies(q[v].op, e), op |-> Rebuilt(q[v].op, e)]
                 r == [k \in 1 .. v + 1 |-> IF k = v + 1 THEN last ELSE q[k]]
      <4>4. last.ok /\ last.op = Rebuilt(q[v].op, e)
        BY <4>2, <4>3
      <4> HIDE DEF last
      <4>5. /\ r = [k \in 1 .. v + 1 |-> r[k]] /\ DOMAIN r = 1 .. v + 1
            /\ r[v + 1] = last
            /\ \A k \in 1 .. v : r[k] = q[k]
        OBVIOUS
      <4> HIDE DEF r
      <4>6. ASSUME NEW k \in 2 .. v + 1
            PROVE  r[k] = [ok |-> r[k - 1].ok /\ Applies(r[k - 1].op, events[p][k]),
                           op |-> Rebuilt(r[k - 1].op, events[p][k])]
        <5>1. CASE k = v + 1
          <6>1. k - 1 = v /\ v \in 1 .. v
            BY <3>1, <5>1
          <6>2. r[k - 1] = q[v] /\ events[p][k] = e /\ r[k] = last
            BY <1>4, <4>5, <5>1, <6>1
          <6> QED
            BY <6>2, Zenon DEF last
        <5>2. CASE k # v + 1
          <6>1. k \in 2 .. v /\ k \in 1 .. v /\ k - 1 \in 1 .. v
            BY <5>2
          <6>2. r[k] = q[k] /\ r[k - 1] = q[k - 1]
            BY <4>5, <6>1
          <6> QED
            BY <4>2, <6>1, <6>2, Zenon DEF Replays
        <5> QED
          BY <5>1, <5>2
      <4>7. Replays(p, r, v + 1)
        <5>1. 1 \in 1 .. v
          BY <3>1
        <5>2. r[1] = [ok |-> TRUE, op |-> initial[p]]
          BY <4>2, <4>5, <5>1 DEF Replays
        <5> QED
          BY <4>5, <4>6, <5>2, Zenon DEF Replays
      <4> QED
        BY <4>3, <4>4, <4>5, <4>7, Zenon
    <3>5. ASSUME NEW r, Replays(p, r, v + 1)
          PROVE  Replays(p, r, v + 1)'
      BY <3>5 DEF Replays
    <3>6. initial'[p] \in Operation
      BY <1>2, <3>1, <3>3 DEF Replayable
    <3> QED
      BY <1>4, <1>5, <3>4, <3>5, <3>6 DEF Replayable
  <2> QED
    BY <1>3, <2>1, <2>2 DEF Owing
<1>7. ASSUME NEW o \in Ops, o # p
      PROVE  Replayable(o)'
  BY <1>4, <1>7, ReplayableKept DEF ReplayInv, IInv, TypeOK, Version
<1>8. ASSUME NEW u \in Threads, pc'[u] # "idle"
      PROVE  Results(u)'
  <2>1. u # t /\ pc[u] # "idle" /\ work'[u] = work[u] /\ Results(u)
    BY <1>4, <1>8 DEF ReplayInv
  <2>2. /\ Appending(u) /\ work[u].event.kind # "accepted"
        /\ work[u].op \in Ops /\ work[u].base \in Nat
    BY <2>1, OthersOutside DEF Holding
  <2>3. CASE work[u].op = p
    <3>1. work[u].base # Version(p)'
      BY <1>2, <1>4, <2>2, <2>3 DEF Appending
    <3> QED
      BY <2>1, <2>2, <2>3, <3>1 DEF Results
  <2>4. CASE work[u].op # p
    BY <1>4, <2>1, <2>2, <2>4 DEF Results, Version
  <2> QED
    BY <2>3, <2>4
<1> QED
  BY <1>6, <1>7, <1>8 DEF ReplayInv

(* The steps that write no file a replay reads. *)
LEMMA OtherResults ==
  ASSUME IInv, ReplayInv, NEW t \in Threads,
         \/ \E o \in Ops : PublishDirectory(t, o)
         \/ ReadLastEvent(t)
         \/ Refuse(t)
         \/ WriteFails(t) /\ UNCHANGED snapshot
  PROVE  ReplayInv'
<1>1. ASSUME NEW o \in Ops, PublishDirectory(t, o)
      PROVE  ReplayInv'
  <2>1. PICK c \in BOOLEAN :
          work' = [work EXCEPT ![t] = [op |-> o, base |-> 0, event |-> AcceptedEvent,
                                       result |-> NewOperation(c)]]
    BY <1>1 DEF PublishDirectory
  <2>2. /\ work'[t].event.kind = "accepted" /\ work'[t].result = NewOperation(c)
        /\ work'[t].result.cancel = "not_requested"
    BY <2>1 DEF IInv, TypeOK, AcceptedEvent, NewOperation
  <2>3. /\ UNCHANGED <<events, initial, snapshot>>
        /\ pc'[t] = "initial"
        /\ \A u \in Threads : u # t => pc'[u] = pc[u] /\ work'[u] = work[u]
    BY <1>1, <2>1 DEF PublishDirectory, Goto, IInv, TypeOK
  <2>4. Results(t)'
    BY <2>2, <2>3 DEF Results, NewOperations
  <2> QED
    BY <2>3, <2>4, RecordsKept DEF IInv
<1>2. CASE ReadLastEvent(t)
  <2>1. PICK p \in Ops : p = work[t].op
    BY <1>2 DEF ReadLastEvent, IInv, TypeOK, Work
  <2>2. /\ work[t] \in Work /\ pc[t] = "read_events" /\ Appending(t)
        /\ events[p][LastFile(p)] \in Event
    BY <1>2, <2>1, LastFileType DEF ReadLastEvent, IInv, TypeOK, CallInv, CallOK
  <2> DEFINE w == Chained(work[t], events[p][LastFile(p)])
  <2>3. /\ w.op = work[t].op /\ w.base = work[t].base /\ w.result = work[t].result
        /\ w.event.kind = work[t].event.kind /\ w.event.from = work[t].event.from
        /\ w.event.to = work[t].event.to /\ w.event.err = work[t].event.err
    BY <2>2, ChainedType
  <2>4. /\ UNCHANGED <<events, initial, snapshot>> /\ work'[t] = w
        /\ \A u \in Threads : u # t => pc'[u] = pc[u] /\ work'[u] = work[u]
    BY <1>2, <2>1 DEF ReadLastEvent, Goto, disk, IInv, TypeOK
  <2>5. Results(t) /\ work[t].event.kind # "accepted"
    BY <2>2 DEF ReplayInv, Appending, LegalEvent
  <2> HIDE DEF w
  <2>6. Results(t)'
    BY <2>3, <2>4, <2>5 DEF Results, Follows, Version
  <2> QED
    BY <2>4, <2>6, RecordsKept DEF IInv
<1>3. CASE Refuse(t) \/ (WriteFails(t) /\ UNCHANGED snapshot)
  <2>1. /\ UNCHANGED <<events, initial, snapshot>> /\ pc'[t] = "idle"
        /\ \A u \in Threads : u # t => pc'[u] = pc[u] /\ work'[u] = work[u]
    BY <1>3 DEF Refuse, WriteFails, Leave, disk, IInv, TypeOK
  <2> QED
    BY <2>1, RecordsKept DEF IInv
<1> QED
  BY <1>1, <1>2, <1>3

LEMMA ReplayInvStep == IInv /\ ReplayInv /\ [Next]_vars => ReplayInv'
<1> SUFFICES ASSUME IInv, ReplayInv, [Next]_vars
             PROVE  ReplayInv'
  OBVIOUS
<1>1. CASE UNCHANGED vars
  BY <1>1, RecordsKept DEF vars, IInv
<1>2. CASE Crash
  BY <1>2, RecordsKept DEF Crash, disk, IInv
<1>3. ASSUME NEW t \in Threads, Call(t)
      PROVE  ReplayInv'
  BY <1>3, OtherResults, TransitionResults, CancellationResults DEF Call, IInv
<1>4. ASSUME NEW t \in Threads, Step(t)
      PROVE  ReplayInv'
  BY <1>4, OtherResults, InitialResults, EventResults, SnapshotRecords
     DEF Step, WriteSnapshot
<1>5. ASSUME NEW t \in Threads, WriteFails(t)
      PROVE  ReplayInv'
  BY <1>5, OtherResults, SnapshotRecords DEF WriteFails
<1> QED
  BY <1>1, <1>2, <1>3, <1>4, <1>5 DEF Next

(* A complete history can always be replayed, and the replay ends at the   *)
(* snapshot field by field, whatever calls raced, failed or were cut off:  *)
(* but for the three cases the property names, replay never refuses.       *)
THEOREM ReplayAlwaysFaithful == Spec => []ReplayFaithful
<1>1. Init => ReplayInv
  BY DEF Init, ReplayInv, Replayable, Version
<1>2. IInv /\ HistoryReadable /\ ReplayInv => ReplayFaithful
  <2> SUFFICES ASSUME IInv, HistoryReadable, ReplayInv, NEW o \in Ops,
                      NEW v, v = Version(o), v > 0, Files(o) = 1 .. v,
                      snapshot[o].op.cancel # "completed",
                      snapshot[o].op.err => snapshot[o].op.state \in Terminal
               PROVE  ReplaySucceeds(o)
    BY DEF ReplayFaithful, Version
  <2>1. v \in Nat \ {0} /\ snapshot[o].op \in Operation /\ Readable(o)
    BY DEF IInv, TypeOK, Version, HistoryReadable
  <2>2. LastFile(o) = v
    <3>1. LastFile(o) \in 1 .. v /\ 1 .. v = 1 .. LastFile(o)
      BY <2>1, LastFileType
    <3> QED
      BY <2>1, <3>1
  <2>3. Replayable(o)
    BY DEF ReplayInv
  <2>4. PICK r : /\ r = [k \in 1 .. v |-> r[k]]
                 /\ Replays(o, r, v)
                 /\ r[v].ok
                 /\ SameButError(r[v].op, snapshot[o].op)
    BY <2>3 DEF Replayable
  <2>5. ReplayUpTo(o)[v] = r[v]
    BY <2>1, <2>4, ReplayUnique
  <2>6. r[v].op = snapshot[o].op
    BY <2>1, <2>4 DEF SameButError, Operation
  <2>7. r[v] = [ok |-> TRUE, op |-> snapshot[o].op]
    <3>1. CASE v = 1
      BY <2>4, <2>6, <3>1 DEF Replays
    <3>2. CASE v # 1
      <4>1. v \in 2 .. v
        BY <2>1, <3>2
      <4>2. PICK ok, op : r[v] = [ok |-> ok, op |-> op] /\ ok \in BOOLEAN
        BY <2>4, <4>1 DEF Replays
      <4> QED
        BY <2>4, <2>6, <4>2
    <3> QED
      BY <3>1, <3>2
  <2>8. initial[o] # NoFile
    BY <2>3, ConstantsAssumption DEF Replayable
  <2> QED
    BY <2>1, <2>2, <2>5, <2>7, <2>8 DEF ReplaySucceeds, Version
<1> QED
  BY <1>1, <1>2, ReplayInvStep, IInvCorrect, HistoryAlwaysReadable, PTL DEF Spec

=============================================================================
