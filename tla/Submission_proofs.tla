-------------------------- MODULE Submission_proofs --------------------------
(***************************************************************************)
(* Proofs about Submission: what the calls in progress and the answers     *)
(* given so far claim about a key is never contradicted, and an operation  *)
(* is won, gated and reset by nobody else.                                 *)
(***************************************************************************)
EXTENDS Submission, TLAPS

-----------------------------------------------------------------------------
(* The typing of the records each step builds. *)

LEMMA TableType == \A s \in States : LegalTransitions[s] \subseteq States
  BY Zenon DEF LegalTransitions, States, Terminal, Stop

LEMMA StateTypes == {"accepted", "waiting_for_approval"} \subseteq States
  BY DEF States, Terminal

LEMMA TypeInit == Init => TypeOK
  BY StateTypes DEF Init, TypeOK

LEMMA ReserveTypes ==
  ASSUME TypeOK, NEW t \in Threads, NEW r \in Requests, Submit(t, r)
  PROVE  TypeOK'
<1> USE SubmissionAssumption DEF TypeOK
<1>1. r.key \in Keys /\ r.intent \in Intents /\ r.op \in Ops
  OBVIOUS
<1>2. CASE ReserveFirst(t, r)
  <2>1. [intent |-> r.intent, op |-> r.op, state |-> "in_progress"] \in Record
    BY <1>1 DEF Record
  <2>2. [request |-> r, epoch |-> epoch[r.key] + 1, op |-> r.op, outcome |-> "accepted"] \in Work
    BY <1>1 DEF Work, Outcomes
  <2> QED
    BY <1>1, <1>2, <2>1, <2>2 DEF ReserveFirst
<1>3. CASE ReserveDuplicate(t, r)
  <2>1. work'[t] \in Work /\ work'[t] # NoWork
    <3>1. reservations[r.key] \in Record
      BY <1>1, <1>3 DEF ReserveDuplicate
    <3>2. epoch[r.key] \in Nat /\ reservations[r.key].op \in Ops
      BY <1>1, <3>1 DEF Record
    <3> QED
      BY <1>1, <1>3, <3>2 DEF ReserveDuplicate, Work, Outcomes
  <2> QED
    BY <1>3, <2>1 DEF ReserveDuplicate, stores, history
<1> QED
  BY <1>2, <1>3 DEF Submit

LEMMA TypeStep == TypeOK /\ [Next]_vars => TypeOK'
<1> SUFFICES ASSUME TypeOK, [Next]_vars
             PROVE  TypeOK'
  OBVIOUS
<1> USE DEF TypeOK, stores, history
<1>1. ASSUME NEW t \in Threads, Continue(t)
      PROVE  TypeOK'
  <2>1. work[t] = NoWork \/ work[t] \in Work
    OBVIOUS
  <2>2. pc[t] # "idle" => work[t] \in Work /\ work[t].op \in Ops
    BY <2>1 DEF Work
  <2>3. CASE Publish(t)
    BY <2>2, <2>3, StateTypes DEF Publish, Published, Goto
  <2>4. CASE PublishRefused(t) \/ GateRefused(t) \/ ResolveRefused(t)
    BY <2>4 DEF PublishRefused, GateRefused, ResolveRefused, Raise, Return
  <2>5. CASE Gate(t)
    BY <2>2, <2>5, StateTypes DEF Gate, Goto
  <2>6. CASE CreateApprovalRequest(t)
    BY <2>2, <2>6 DEF CreateApprovalRequest, Goto
  <2>7. CASE Accept(t) \/ Resolve(t)
    BY <2>2, <2>7 DEF Accept, Resolve, Answer, Return
  <2> QED
    BY <1>1, <2>3, <2>4, <2>5, <2>6, <2>7 DEF Continue
<1>2. ASSUME NEW t \in Threads, WriteFails(t)
      PROVE  TypeOK'
  <2>1. work[t] \in Work /\ work[t].op \in Ops
    BY <1>2 DEF WriteFails, Work
  <2> QED
    BY <1>2, <2>1 DEF WriteFails, Return
<1>3. CASE Crash
  <2>1. \A u \in Threads : pc[u] = "publish" => work[u].op \in Ops
    BY DEF Work
  <2>2. torn' \subseteq Ops
    BY <1>3, <2>1 DEF Crash
  <2>3. faults' \in Nat
    BY <1>3 DEF Crash
  <2> QED
    BY <1>3, <2>2, <2>3 DEF Crash
<1>4. ASSUME NEW o \in Ops, OthersWrite(o)
      PROVE  TypeOK'
  <2>1. PICK to \in {ledger[o].state} \cup (OtherTargets \cap LegalTransitions[ledger[o].state]) :
          ledger' = [ledger EXCEPT ![o] = [version |-> @.version + 1, state |-> to]]
    BY <1>4 DEF OthersWrite
  <2>2. to \in States
    BY <2>1, TableType
  <2>3. ledger' \in [Ops -> [version: Nat, state: States]]
    BY <2>1, <2>2
  <2> QED
    BY <1>4, <2>3 DEF OthersWrite
<1>5. ASSUME NEW k \in Keys, Complete(k) \/ Expire(k)
      PROVE  TypeOK'
  <2>1. reservations' \in [Keys -> Record \cup {NoRecord}]
    BY <1>5 DEF Complete, Expire, Record
  <2> QED
    BY <1>5, <2>1 DEF Complete, Expire
<1>6. CASE UNCHANGED vars
  BY <1>6 DEF vars
<1> QED
  BY <1>1, <1>2, <1>3, <1>4, <1>5, <1>6, ReserveTypes DEF Next, Environment

(* Records, calls and answers keep their shape. *)
THEOREM TypeCorrect == Spec => []TypeOK
  BY TypeInit, TypeStep, PTL DEF Spec

-----------------------------------------------------------------------------
(* The inductive invariant.  A claim is what a call in progress or an      *)
(* answer says of its key: in that reservation, the operation is this one. *)

Busy == {t \in Threads : pc[t] # "idle"}
Claims == answers \cup {work[t] : t \in Busy}

(* The operation was named by a submission of the claim's intent. *)
OfIntent(o, i) == \E r \in Requests : r.op = o /\ r.intent = i

ClaimOK(c) ==
  /\ c.epoch <= epoch[c.request.key]
  /\ OfIntent(c.op, c.request.intent)
  /\ reservations[c.request.key] # NoRecord /\ c.epoch = epoch[c.request.key]
       => c.op = reservations[c.request.key].op

Agree(c, d) == c.request.key = d.request.key /\ c.epoch = d.epoch => c.op = d.op

ReservationOK(k) ==
  reservations[k] # NoRecord => OfIntent(reservations[k].op, reservations[k].intent)

KeyInv ==
  /\ \A c \in Claims : ClaimOK(c)
  /\ \A c, d \in Claims : Agree(c, d)
  /\ \A k \in Keys : ReservationOK(k)

CallInv ==
  \A t \in Threads :
    /\ pc[t] \in {"gate", "approval", "answer"} => Exists(work[t].op)
    /\ pc[t] = "approval" => ledger[work[t].op].version >= 2
    /\ pc[t] = "resolve" => work[t].outcome # "accepted"

IInv ==
  /\ TypeOK
  /\ KeyInv
  /\ CallInv
  /\ AnsweredOperationExists
  /\ OneWinner
  /\ RequestFollowsGate

LEMMA IInvInit == Init => IInv
  BY TypeInit, SubmissionAssumption
     DEF Init, IInv, KeyInv, Claims, Busy, CallInv, AnsweredOperationExists, OneWinner,
         Winners, RequestFollowsGate, ReservationOK

LEMMA BusyWork ==
  ASSUME TypeOK, NEW t \in Threads, pc[t] # "idle"
  PROVE  /\ work[t] \in Work
         /\ work[t].op \in Ops
         /\ work[t].request.key \in Keys
         /\ work[t] \in Claims
  BY SubmissionAssumption DEF TypeOK, Work, Claims, Busy

-----------------------------------------------------------------------------
(* Keys. *)

(* A step that makes no claim and reserves no key keeps what is known of   *)
(* the keys.                                                               *)
LEMMA NoNewClaim ==
  ASSUME TypeOK, KeyInv,
         Claims' \subseteq Claims, epoch' = epoch,
         \A k \in Keys : reservations'[k] # NoRecord =>
           /\ reservations[k] # NoRecord
           /\ reservations'[k].op = reservations[k].op
           /\ reservations'[k].intent = reservations[k].intent
  PROVE  KeyInv'
<1>1. \A c \in Claims : c.request.key \in Keys
  BY SubmissionAssumption DEF Claims, Busy, TypeOK, Work
<1>2. \A c \in Claims' : ClaimOK(c)'
  BY <1>1 DEF KeyInv, ClaimOK, OfIntent
<1>3. \A c, d \in Claims' : Agree(c, d)'
  BY DEF KeyInv, Agree
<1>4. \A k \in Keys : ReservationOK(k)'
  BY DEF KeyInv, ReservationOK, OfIntent
<1> QED
  BY <1>2, <1>3, <1>4 DEF KeyInv

(* The calls of the other threads, and whatever was answered, stay. *)
LEMMA FewerClaims ==
  ASSUME TypeOK, NEW t \in Threads,
         \/ pc' = [pc EXCEPT ![t] = "idle"]
         \/ work' = work /\ pc[t] # "idle" /\ \E l : pc' = [pc EXCEPT ![t] = l],
         \A u \in Threads : u # t => work'[u] = work[u],
         answers' \subseteq Claims
  PROVE  Claims' \subseteq Claims
  BY DEF TypeOK, Claims, Busy

(* A claim added by reserving or by finding the key reserved. *)
LEMMA ReserveKeys ==
  ASSUME TypeOK, KeyInv, NEW t \in Threads, NEW r \in Requests,
         ReserveFirst(t, r) \/ ReserveDuplicate(t, r)
  PROVE  KeyInv'
<1> USE SubmissionAssumption
<1>0. r.key \in Keys /\ pc[t] = "idle"
  BY DEF ReserveFirst, ReserveDuplicate
<1>. PICK w : w = work'[t]
  OBVIOUS
<1>1. Claims' \subseteq Claims \cup {w}
  BY DEF ReserveFirst, ReserveDuplicate, history, Claims, Busy, TypeOK
<1>2. \A c \in Claims : c.request.key \in Keys /\ c.epoch \in Nat
  BY DEF Claims, Busy, TypeOK, Work
<1>3. CASE ReserveFirst(t, r)
  <2>1. /\ w.request = r
        /\ w.epoch = epoch[r.key] + 1
        /\ w.op = r.op
    BY <1>3 DEF ReserveFirst, TypeOK
  <2>2. /\ epoch' = [epoch EXCEPT ![r.key] = epoch[r.key] + 1]
        /\ epoch'[r.key] = epoch[r.key] + 1
        /\ reservations'[r.key] # NoRecord
        /\ reservations'[r.key].op = r.op
        /\ reservations'[r.key].intent = r.intent
        /\ \A k \in Keys : k # r.key =>
             reservations'[k] = reservations[k] /\ epoch'[k] = epoch[k]
    BY <1>0, <1>3 DEF ReserveFirst, TypeOK, Record
  <2>3. \A c \in Claims : ClaimOK(c)' /\ Agree(c, w)' /\ Agree(w, c)'
    <3> SUFFICES ASSUME NEW c \in Claims
                 PROVE  ClaimOK(c)' /\ Agree(c, w)' /\ Agree(w, c)'
      OBVIOUS
    <3>1. c.request.key \in Keys /\ c.epoch \in Nat /\ c.epoch <= epoch[c.request.key]
      BY <1>2 DEF KeyInv, ClaimOK
    <3>2. epoch \in [Keys -> Nat]
      BY DEF TypeOK
    <3>3. CASE c.request.key = r.key
      <4>1. c.epoch < epoch'[r.key] /\ c.epoch # w.epoch
        BY <2>1, <2>2, <3>1, <3>2, <3>3
      <4> QED
        BY <2>1, <2>2, <3>1, <3>2, <3>3, <4>1 DEF KeyInv, ClaimOK, OfIntent, Agree
    <3>4. CASE c.request.key # r.key
      BY <2>1, <2>2, <3>1, <3>4 DEF KeyInv, ClaimOK, OfIntent, Agree
    <3> QED
      BY <3>3, <3>4
  <2>4. ClaimOK(w)' /\ Agree(w, w)'
    <3>1. OfIntent(r.op, r.intent)'
      BY DEF OfIntent
    <3> QED
      BY <2>1, <2>2, <3>1, <1>0 DEF ClaimOK, Agree, TypeOK
  <2>5. \A k \in Keys : ReservationOK(k)'
    BY <2>2 DEF KeyInv, ReservationOK, OfIntent
  <2>6. \A c \in Claims' : ClaimOK(c)'
    BY <1>1, <2>3, <2>4
  <2>7. \A c, d \in Claims' : Agree(c, d)'
    BY <1>1, <2>3, <2>4 DEF KeyInv, Agree
  <2> QED
    BY <2>5, <2>6, <2>7 DEF KeyInv
<1>4. CASE ReserveDuplicate(t, r)
  <2>1. /\ w.request = r
        /\ w.epoch = epoch[r.key]
        /\ w.op = reservations[r.key].op
        /\ reservations[r.key] # NoRecord
        /\ reservations[r.key].intent = r.intent
        /\ reservations' = reservations
        /\ epoch' = epoch
    BY <1>4 DEF ReserveDuplicate, TypeOK, stores, history
  <2>2. \A c \in Claims : ClaimOK(c)' /\ Agree(c, w)' /\ Agree(w, c)'
    BY <2>1 DEF KeyInv, ClaimOK, OfIntent, Agree
  <2>3. ClaimOK(w)' /\ Agree(w, w)'
    BY <1>0, <2>1 DEF KeyInv, ClaimOK, ReservationOK, OfIntent, Agree, TypeOK
  <2>4. \A k \in Keys : ReservationOK(k)'
    BY <2>1 DEF KeyInv, ReservationOK, OfIntent
  <2>5. \A c \in Claims' : ClaimOK(c)'
    BY <1>1, <2>2, <2>3
  <2>6. \A c, d \in Claims' : Agree(c, d)'
    BY <1>1, <2>2, <2>3 DEF KeyInv, Agree
  <2> QED
    BY <2>4, <2>5, <2>6 DEF KeyInv
<1> QED
  BY <1>3, <1>4

(* Every step keeps what is known of the keys. *)
LEMMA KeyStep == TypeOK /\ KeyInv /\ Next => KeyInv'
<1> SUFFICES ASSUME TypeOK, KeyInv, Next
             PROVE  KeyInv'
  OBVIOUS
<1> DEFINE Same == reservations' = reservations /\ epoch' = epoch
<1>1. ASSUME Same, Claims' \subseteq Claims
      PROVE  KeyInv'
  BY <1>1, NoNewClaim
<1>2. ASSUME NEW t \in Threads, NEW r \in Requests, Submit(t, r)
      PROVE  KeyInv'
  BY <1>2, ReserveKeys DEF Submit
<1>3. ASSUME NEW t \in Threads, Continue(t)
      PROVE  KeyInv'
  <2>1. pc[t] # "idle" /\ Same
    BY <1>3 DEF Continue, Publish, PublishRefused, Gate, GateRefused, CreateApprovalRequest,
                Accept, Resolve, ResolveRefused, Answer, Raise, stores, history
  <2>2. work[t] \in Claims
    BY <2>1, BusyWork
  <2>3. answers' \subseteq Claims
    BY <1>3, <2>2
       DEF Continue, Publish, PublishRefused, Gate, GateRefused, CreateApprovalRequest,
           Accept, Resolve, ResolveRefused, Answer, Raise, stores, history, Claims
  <2>4. \/ Goto(t, pc'[t])
        \/ Return(t)
    BY <1>3 DEF Continue, Publish, PublishRefused, Gate, GateRefused, CreateApprovalRequest,
                Accept, Resolve, ResolveRefused, Answer, Raise, Published, Goto, TypeOK
  <2>5. Claims' \subseteq Claims
    BY <2>1, <2>3, <2>4, FewerClaims DEF Goto, Return, TypeOK
  <2> QED
    BY <1>1, <2>1, <2>5
<1>4. ASSUME NEW t \in Threads, WriteFails(t)
      PROVE  KeyInv'
  BY <1>1, <1>4 DEF WriteFails, Return, Claims, Busy, TypeOK
<1>5. CASE Crash
  BY <1>1, <1>5 DEF Crash, Claims, Busy, TypeOK
<1>6. ASSUME NEW o \in Ops, OthersWrite(o)
      PROVE  KeyInv'
  BY <1>1, <1>6 DEF OthersWrite, history, Claims, Busy
<1>7. ASSUME NEW k \in Keys, Complete(k) \/ Expire(k)
      PROVE  KeyInv'
  <2>1. Claims' \subseteq Claims /\ epoch' = epoch
    BY <1>7 DEF Complete, Expire, history, Claims, Busy
  <2>2. \A j \in Keys : reservations'[j] # NoRecord =>
          /\ reservations[j] # NoRecord
          /\ reservations'[j].op = reservations[j].op
          /\ reservations'[j].intent = reservations[j].intent
    BY <1>7 DEF Complete, Expire, TypeOK
  <2> QED
    BY <2>1, <2>2, NoNewClaim
<1> QED
  BY <1>2, <1>3, <1>4, <1>5, <1>6, <1>7 DEF Next, Environment

-----------------------------------------------------------------------------
(* Operations. *)

OperationInv ==
  CallInv /\ AnsweredOperationExists /\ OneWinner /\ RequestFollowsGate

(* No step takes an operation back to an earlier version. *)
LEMMA VersionsGrow ==
  ASSUME TypeOK, Next
  PROVE  \A o \in Ops : ledger'[o].version >= ledger[o].version
<1>1. CASE UNCHANGED ledger
  BY <1>1 DEF TypeOK
<1>2. ASSUME NEW t \in Threads, Publish(t)
      PROVE  \A o \in Ops : ledger'[o].version >= ledger[o].version
  <2>1. ~Exists(work[t].op)
    BY <1>2 DEF Publish, Taken
  <2> QED
    BY <1>2, <2>1 DEF Publish, TypeOK, Exists
<1>3. ASSUME NEW t \in Threads, Gate(t)
      PROVE  \A o \in Ops : ledger'[o].version >= ledger[o].version
  BY <1>3 DEF Gate, TypeOK
<1>4. ASSUME NEW o \in Ops, OthersWrite(o)
      PROVE  \A p \in Ops : ledger'[p].version >= ledger[p].version
  BY <1>4 DEF OthersWrite, TypeOK
<1>5. \/ UNCHANGED ledger
      \/ \E t \in Threads : Publish(t) \/ Gate(t)
      \/ \E o \in Ops : OthersWrite(o)
  BY DEF Next, Submit, ReserveFirst, ReserveDuplicate, Continue,
         PublishRefused, GateRefused, CreateApprovalRequest, Accept, Resolve,
         ResolveRefused, Raise, WriteFails, Crash, Environment, Complete, Expire,
         stores
<1> QED
  BY <1>1, <1>2, <1>3, <1>4, <1>5

(* A step that takes no call forward and answers nobody. *)
LEMMA QuietStep ==
  ASSUME TypeOK, TypeOK', OperationInv, Next,
         \A t \in Threads :
           pc'[t] = "idle" \/ (pc'[t] = pc[t] /\ work'[t] = work[t]),
         answers' = answers, approvalRequests' = approvalRequests
  PROVE  OperationInv'
<1> USE DEF TypeOK
<1>1. \A o \in Ops : ledger[o].version \in Nat /\ ledger'[o].version \in Nat
  OBVIOUS
<1>2. \A o \in Ops : /\ Exists(o) => Exists(o)'
                     /\ ledger[o].version >= 2 => ledger'[o].version >= 2
  BY <1>1, VersionsGrow DEF Exists
<1>3. \A t \in Threads : pc[t] # "idle" => work[t].op \in Ops
  BY BusyWork
<1>4. CallInv'
  BY <1>2, <1>3 DEF OperationInv, CallInv, Exists
<1>5. AnsweredOperationExists'
  BY <1>2 DEF OperationInv, AnsweredOperationExists, Work
<1>6. OneWinner'
  BY DEF OperationInv, OneWinner, Winners
<1>7. RequestFollowsGate'
  BY <1>2 DEF OperationInv, RequestFollowsGate
<1> QED
  BY <1>4, <1>5, <1>6, <1>7 DEF OperationInv

(* What a step that takes thread t to another label leaves alone. *)
LEMMA StepKeeps ==
  ASSUME TypeOK, TypeOK', OperationInv, Next, NEW t \in Threads,
         \A u \in Threads \ {t} : pc'[u] = pc[u] /\ work'[u] = work[u]
  PROVE  /\ \A o \in Ops : Exists(o) => Exists(o)'
         /\ \A o \in Ops : ledger[o].version >= 2 => ledger'[o].version >= 2
         /\ \A u \in Threads \ {t} :
              /\ pc'[u] \in {"gate", "approval", "answer"} => ledger'[work'[u].op].version > 0
              /\ pc'[u] = "approval" => ledger'[work'[u].op].version >= 2
              /\ pc'[u] = "resolve" => work'[u].outcome # "accepted"
         /\ \A a \in answers : Exists(a.op)'
         /\ \A o \in approvalRequests : ledger'[o].version >= 2
         /\ \A o \in Ops : Winners(o)' \subseteq Winners(o) \cup {t}
<1> USE DEF TypeOK
<1>1. \A o \in Ops : ledger[o].version \in Nat /\ ledger'[o].version \in Nat
  OBVIOUS
<1>2. \A o \in Ops : /\ Exists(o) => Exists(o)'
                     /\ ledger[o].version >= 2 => ledger'[o].version >= 2
  BY <1>1, VersionsGrow DEF Exists
<1>3. \A u \in Threads : pc[u] # "idle" => work[u].op \in Ops
  BY BusyWork
<1>4. \A u \in Threads \ {t} :
        /\ pc'[u] \in {"gate", "approval", "answer"} => ledger'[work'[u].op].version > 0
        /\ pc'[u] = "approval" => ledger'[work'[u].op].version >= 2
        /\ pc'[u] = "resolve" => work'[u].outcome # "accepted"
  BY <1>2, <1>3 DEF OperationInv, CallInv, Exists
<1>5. \A a \in answers : Exists(a.op)'
  BY <1>2 DEF OperationInv, AnsweredOperationExists, Work
<1>6. \A o \in approvalRequests : ledger'[o].version >= 2
  BY <1>2 DEF OperationInv, RequestFollowsGate
<1>7. \A o \in Ops : Winners(o)' \subseteq Winners(o) \cup {t}
  BY DEF Winners
<1> QED
  BY <1>2, <1>4, <1>5, <1>6, <1>7

LEMMA ReserveOperations ==
  ASSUME TypeOK, TypeOK', OperationInv, Next, NEW t \in Threads, NEW r \in Requests,
         ReserveFirst(t, r) \/ ReserveDuplicate(t, r)
  PROVE  OperationInv'
<1> USE DEF TypeOK
<1>1. /\ answers' = answers /\ approvalRequests' = approvalRequests
      /\ \A u \in Threads \ {t} : pc'[u] = pc[u] /\ work'[u] = work[u]
  BY DEF ReserveFirst, ReserveDuplicate, stores, history
<1>2. /\ pc'[t] \in {"publish", "resolve"}
      /\ pc'[t] = "resolve" => work'[t].outcome # "accepted"
  BY DEF ReserveFirst, ReserveDuplicate
<1>3. CallInv' /\ AnsweredOperationExists' /\ RequestFollowsGate'
  BY <1>1, <1>2, StepKeeps DEF CallInv, AnsweredOperationExists, RequestFollowsGate, Exists
<1>4. \A o \in Ops : Winners(o)' \subseteq Winners(o)
  BY <1>1, <1>2 DEF Winners
<1>5. OneWinner'
  BY <1>1, <1>4 DEF OperationInv, OneWinner
<1> QED
  BY <1>3, <1>5 DEF OperationInv

LEMMA PublishOperations ==
  ASSUME TypeOK, TypeOK', OperationInv, Next, NEW t \in Threads, Publish(t)
  PROVE  OperationInv'
<1> USE DEF TypeOK
<1>1. /\ answers' = answers /\ approvalRequests' = approvalRequests
      /\ \A u \in Threads \ {t} : pc'[u] = pc[u] /\ work'[u] = work[u]
      /\ pc'[t] \in {"gate", "answer"} /\ work'[t] = work[t] /\ pc[t] = "publish"
  BY DEF Publish, Published, Goto, history
<1>2. PICK o \in Ops : o = work[t].op
  BY <1>1, BusyWork
<1>3. ~Exists(o) /\ ledger'[o].version = 1
  BY <1>2 DEF Publish, Taken
<1>4. CallInv' /\ AnsweredOperationExists' /\ RequestFollowsGate'
  BY <1>1, <1>2, <1>3, StepKeeps
     DEF CallInv, AnsweredOperationExists, RequestFollowsGate, Exists
<1>5. Winners(o) = {} /\ \A a \in answers : a.op # o
  BY <1>3 DEF OperationInv, CallInv, AnsweredOperationExists, Winners
<1>6. Winners(o)' \subseteq {t}
  BY <1>1, <1>5, StepKeeps
<1>7. \A p \in Ops \ {o} : Winners(p)' = Winners(p)
  BY <1>1, <1>2 DEF Winners
<1>8. OneWinner'
  BY <1>1, <1>5, <1>6, <1>7 DEF OperationInv, OneWinner
<1> QED
  BY <1>4, <1>8 DEF OperationInv

LEMMA GateOperations ==
  ASSUME TypeOK, TypeOK', OperationInv, Next, NEW t \in Threads,
         Gate(t) \/ CreateApprovalRequest(t)
  PROVE  OperationInv'
<1> USE DEF TypeOK
<1>1. /\ answers' = answers
      /\ \A u \in Threads \ {t} : pc'[u] = pc[u] /\ work'[u] = work[u]
      /\ work'[t] = work[t]
      /\ pc[t] \in {"gate", "approval"}
  BY DEF Gate, CreateApprovalRequest, Goto, history
<1>2. PICK o \in Ops : o = work[t].op
  BY <1>1, BusyWork
<1>3. Exists(o)
  BY <1>1, <1>2 DEF OperationInv, CallInv
<1>4. /\ ledger'[o].version >= 2
      /\ approvalRequests' \subseteq approvalRequests \cup {o}
      /\ pc'[t] \in {"approval", "answer"}
  <2>1. CASE Gate(t)
    BY <1>2, <2>1 DEF Gate, Goto
  <2>2. CASE CreateApprovalRequest(t)
    BY <1>2, <2>2 DEF CreateApprovalRequest, Goto, OperationInv, CallInv
  <2> QED
    BY <2>1, <2>2
<1>5. CallInv' /\ AnsweredOperationExists' /\ RequestFollowsGate'
  BY <1>1, <1>2, <1>3, <1>4, StepKeeps
     DEF CallInv, AnsweredOperationExists, RequestFollowsGate, Exists
<1>6. \A p \in Ops : Winners(p)' = Winners(p)
  BY <1>1, <1>4 DEF Winners
<1>7. OneWinner'
  BY <1>1, <1>6 DEF OperationInv, OneWinner
<1> QED
  BY <1>5, <1>7 DEF OperationInv

LEMMA AnswerOperations ==
  ASSUME TypeOK, TypeOK', OperationInv, Next, NEW t \in Threads,
         Accept(t) \/ Resolve(t)
  PROVE  OperationInv'
<1> USE DEF TypeOK
<1>1. /\ answers' = answers \cup {work[t]} /\ approvalRequests' = approvalRequests
      /\ \A u \in Threads \ {t} : pc'[u] = pc[u] /\ work'[u] = work[u]
      /\ pc'[t] = "idle" /\ pc[t] \in {"answer", "resolve"}
  BY DEF Accept, Resolve, Answer, Return, stores
<1>2. PICK o \in Ops : o = work[t].op
  BY <1>1, BusyWork
<1>3. Exists(o)
  BY <1>2 DEF Accept, Resolve, OperationInv, CallInv
<1>4. CallInv' /\ AnsweredOperationExists' /\ RequestFollowsGate'
  BY <1>1, <1>2, <1>3, StepKeeps
     DEF CallInv, AnsweredOperationExists, RequestFollowsGate, Exists
<1>5. \A p \in Ops : Winners(p)' \subseteq Winners(p) \ {t}
  BY <1>1 DEF Winners
<1>6. CASE Resolve(t)
  <2>1. work[t].outcome # "accepted"
    BY <1>6 DEF Resolve, OperationInv, CallInv
  <2> QED
    BY <1>1, <1>4, <1>5, <2>1 DEF OperationInv, OneWinner
<1>7. CASE Accept(t)
  <2>1. t \in Winners(o)
    BY <1>2, <1>7 DEF Accept, Winners
  <2>2. Winners(o)' = {}
    BY <1>5, <2>1 DEF OperationInv, OneWinner
  <2>3. ASSUME NEW p \in Ops
        PROVE  /\ \A u, v \in Winners(p)' : u = v
               /\ Winners(p)' # {} =>
                    \A a \in answers' : a.op = p => a.outcome # "accepted"
    <3>1. CASE p = o
      BY <2>2, <3>1
    <3>2. CASE p # o
      BY <1>1, <1>2, <1>5, <3>2 DEF OperationInv, OneWinner
    <3> QED
      BY <3>1, <3>2
  <2>4. OneWinner'
    BY <2>3 DEF OneWinner
  <2> QED
    BY <1>4, <2>4 DEF OperationInv
<1> QED
  BY <1>6, <1>7

LEMMA OperationStep ==
  ASSUME TypeOK, TypeOK', OperationInv, Next
  PROVE  OperationInv'
<1> USE DEF TypeOK
<1>2. ASSUME NEW t \in Threads, PublishRefused(t) \/ GateRefused(t) \/ ResolveRefused(t)
      PROVE  OperationInv'
  BY <1>2, QuietStep DEF PublishRefused, GateRefused, ResolveRefused, Raise, Return, stores,
                         history
<1>3. ASSUME NEW t \in Threads, WriteFails(t)
      PROVE  OperationInv'
  <2>1. /\ UNCHANGED <<reservations, ledger, approvalRequests, epoch, answers>>
        /\ pc' = [pc EXCEPT ![t] = "idle"] /\ work' = [work EXCEPT ![t] = NoWork]
    BY <1>3 DEF WriteFails, Return
  <2> QED
    BY <2>1, QuietStep
<1>4. CASE Crash
  BY <1>4, QuietStep DEF Crash
<1>5. CASE Environment
  BY <1>5, QuietStep DEF Environment, OthersWrite, Complete, Expire, history
<1> QED
  BY <1>2, <1>3, <1>4, <1>5, ReserveOperations, PublishOperations, GateOperations,
     AnswerOperations DEF Next, Submit, Continue

-----------------------------------------------------------------------------
(* The invariant is inductive. *)
LEMMA IInvStep == IInv /\ [Next]_vars => IInv'
<1> SUFFICES ASSUME IInv, [Next]_vars
             PROVE  IInv'
  OBVIOUS
<1>1. CASE Next
  BY <1>1, TypeStep, KeyStep, OperationStep DEF IInv, OperationInv
<1>2. CASE UNCHANGED vars
  <2>1. TypeOK'
    BY <1>2, TypeStep DEF IInv
  <2>2. KeyInv'
    BY <1>2, NoNewClaim DEF IInv, vars, stores, history, Claims, Busy
  <2> QED
    BY <1>2, <2>1, <2>2
       DEF IInv, vars, stores, history, CallInv, AnsweredOperationExists, OneWinner,
           Winners, RequestFollowsGate, Exists
<1> QED
  BY <1>1, <1>2

LEMMA IInvCorrect == Spec => []IInv
  BY IInvInit, IInvStep, PTL DEF Spec

(* All answers given under one reservation of a key name one operation:    *)
(* the claims of one reservation agree, and answers are claims.            *)
THEOREM OneOperationAlways == Spec => []OneOperationPerReservation
<1>1. IInv => OneOperationPerReservation
  BY DEF IInv, KeyInv, Claims, Agree, OneOperationPerReservation
<1> QED
  BY <1>1, IInvCorrect, PTL

(* Nobody is answered with the operation of another intent. *)
THEOREM AnswersAlwaysOwnIntent == Spec => []AnswersOwnIntent
<1>1. IInv => AnswersOwnIntent
  BY DEF IInv, KeyInv, Claims, ClaimOK, OfIntent, AnswersOwnIntent
<1> QED
  BY <1>1, IInvCorrect, PTL

(* An answer names an operation that is stored and stays stored. *)
THEOREM AnsweredAlwaysExists == Spec => []AnsweredOperationExists
  BY IInvCorrect, PTL DEF IInv

(* One call at most wins an operation. *)
THEOREM OneWinnerAlways == Spec => []OneWinner
  BY IInvCorrect, PTL DEF IInv

(* An approval request is stored for gated operations only. *)
THEOREM RequestAlwaysFollowsGate == Spec => []RequestFollowsGate
  BY IInvCorrect, PTL DEF IInv

-----------------------------------------------------------------------------
(* The ledger. *)

(* An operation that nobody changed since it was published is accepted. *)
FreshInv == \A o \in Ops : ledger[o].version <= 1 => ledger[o].state = "accepted"

LEMMA SameTable == Ledger!LegalTransitions = LegalTransitions
  BY Zenon DEF Ledger!LegalTransitions, LegalTransitions, Ledger!States, States,
               Ledger!Terminal, Terminal, Ledger!Stop, Stop

LEMMA GateLegal == "waiting_for_approval" \in LegalTransitions["accepted"]
<1>1. "accepted" \in States
  BY StateTypes
<1>2. LegalTransitions["accepted"] = Stop \cup {"queued", "waiting_for_approval"}
  BY <1>1, Zenon DEF LegalTransitions
<1> QED
  BY <1>2

LEMMA LedgerStep ==
  ASSUME TypeOK, FreshInv, Next
  PROVE  FreshInv' /\ [Ledger!Next]_ledger
<1> USE DEF TypeOK
<1>1. CASE UNCHANGED ledger
  BY <1>1 DEF FreshInv
<1>2. ASSUME NEW t \in Threads, Publish(t)
      PROVE  FreshInv' /\ [Ledger!Next]_ledger
  <2>1. PICK o \in Ops : o = work[t].op
    BY <1>2, BusyWork DEF Publish
  <2>2. /\ ledger[o].version = 0
        /\ ledger' = [ledger EXCEPT ![o] = [version |-> 1, state |-> "accepted"]]
    BY <1>2, <2>1 DEF Publish, Taken, Exists
  <2> QED
    BY <2>2 DEF FreshInv, Ledger!Next, Ledger!Publish
<1>3. ASSUME NEW t \in Threads, Gate(t)
      PROVE  FreshInv' /\ [Ledger!Next]_ledger
  <2>1. PICK o \in Ops : o = work[t].op
    BY <1>3, BusyWork DEF Gate
  <2>2. /\ ledger[o].version = 1
        /\ ledger' = [ledger EXCEPT ![o] = [version |-> 2, state |-> "waiting_for_approval"]]
        /\ ledger[o].state = "accepted"
    BY <1>3, <2>1 DEF Gate, FreshInv
  <2>3. "waiting_for_approval" \in Ledger!LegalTransitions[ledger[o].state]
    BY <2>2, SameTable, GateLegal
  <2>4. Ledger!Advance(o)
    <3>1. ledger[o].version + 1 = 2 /\ ledger[o].version > 0
      BY <2>2
    <3>2. ledger' = [ledger EXCEPT ![o] = [version |-> ledger[o].version + 1,
                                           state |-> "waiting_for_approval"]]
      BY <2>2, <3>1
    <3> QED
      BY <2>3, <3>1, <3>2, Zenon DEF Ledger!Advance
  <2> QED
    BY <2>2, <2>4 DEF FreshInv, Ledger!Next
<1>4. ASSUME NEW o \in Ops, OthersWrite(o)
      PROVE  FreshInv' /\ [Ledger!Next]_ledger
  <2>1. PICK to \in {ledger[o].state} \cup (OtherTargets \cap LegalTransitions[ledger[o].state]) :
          ledger' = [ledger EXCEPT ![o] = [version |-> @.version + 1, state |-> to]]
    BY <1>4 DEF OthersWrite
  <2>2. ledger[o].version > 0
    BY <1>4 DEF OthersWrite
  <2>3. CASE to = ledger[o].state
    <3>1. Ledger!Observe(o)
      BY <2>1, <2>2, <2>3 DEF Ledger!Observe
    <3> QED
      BY <2>1, <2>2, <3>1 DEF FreshInv, Ledger!Next
  <2>4. CASE to \in LegalTransitions[ledger[o].state]
    <3>1. Ledger!Advance(o)
      BY <2>1, <2>2, <2>4, SameTable DEF Ledger!Advance
    <3> QED
      BY <2>1, <2>2, <3>1 DEF FreshInv, Ledger!Next
  <2> QED
    BY <2>1, <2>3, <2>4
<1>5. \/ UNCHANGED ledger
      \/ \E t \in Threads : Publish(t) \/ Gate(t)
      \/ \E o \in Ops : OthersWrite(o)
  BY DEF Next, Submit, ReserveFirst, ReserveDuplicate, Continue,
         PublishRefused, GateRefused, CreateApprovalRequest, Accept, Resolve,
         ResolveRefused, Raise, WriteFails, Crash, Environment, Complete, Expire,
         stores
<1> QED
  BY <1>1, <1>2, <1>3, <1>4, <1>5

(* Submitting, gating and retrying only publish absent operations and      *)
(* advance present ones, as the ledger of the operation store allows.      *)
THEOREM SubmissionImplementsLedger == Spec => ImplementsLedger
<1>1. Init => FreshInv /\ Ledger!Init
  BY DEF Init, FreshInv, Ledger!Init, Ledger!Absent
<1>2. TypeOK /\ FreshInv /\ [Next]_vars => FreshInv' /\ [Ledger!Next]_ledger
  BY LedgerStep DEF vars, stores, FreshInv
<1> QED
  BY <1>1, <1>2, TypeCorrect, PTL DEF Spec, ImplementsLedger, Ledger!Spec
(* Nobody is answered with an operation of another intent or one that does *)
(* not exist.                                                              *)
THEOREM AnswersAlwaysOwnOperation == Spec => []AnswersOwnOperation
  BY AnswersAlwaysOwnIntent, AnsweredAlwaysExists, PTL DEF AnswersOwnOperation
=============================================================================
