-------------------------- MODULE Approvals_proofs ---------------------------
(***************************************************************************)
(* Proofs about Approvals: at most one execution per binding, evidence for *)
(* every execution, and recorded decisions that survive restarts.          *)
(***************************************************************************)
EXTENDS Approvals, SequenceTheorems, TLAPS

-----------------------------------------------------------------------------
LEMMA TypeInit == Init => TypeOK
  BY DEF Init, TypeOK

LEMMA ApproveTypes ==
  ASSUME TypeOK, NEW t \in Threads, Approve(t)
  PROVE  TypeOK'
<1> USE DEF TypeOK, disk, memory, history, Return, Goto, Start
<1>1. ASSUME NEW r \in requests, NEW o \in Outcomes, NEW by \in Approvers, Decide(t, r, o, by)
      PROVE  TypeOK'
  <2>1. [request |-> r, outcome |-> o, at |-> clock, by |-> by] \in Decision
    BY DEF Decision
  <2> QED
    BY <1>1, <2>1 DEF Decide
<1>2. CASE Remember(t)
  <2>1. work[t] \in Decision
    BY <1>2 DEF Remember
  <2>2. \A r \in DOMAIN active' : active'[r] \in Decision
    BY <1>2, <2>1 DEF Remember
  <2> QED
    BY <1>2, <2>1, <2>2 DEF Remember
<1>3. CASE RecordDecision(t)
  BY <1>3 DEF RecordDecision
<1>4. CASE RecordConflict(t)
  BY <1>4 DEF RecordConflict
<1> QED
  BY <1>1, <1>2, <1>3, <1>4 DEF Approve

LEMMA AttemptTypes ==
  ASSUME TypeOK, NEW t \in Threads, Attempt(t)
  PROVE  TypeOK'
<1> USE DEF TypeOK, disk, memory, history, Return, Goto, Start
<1>1. ASSUME NEW i \in Intents, NEW b \in bindings, Invoke(t, i, b)
      PROVE  TypeOK'
  <2>1. [intent |-> i, now |-> clock, binding |-> b] \in Call
    BY DEF Call
  <2> QED
    BY <1>1, <2>1 DEF Invoke
<1>3. pc[t] \in {"consume", "remember", "execute"} => work[t] \in Call /\ work[t].binding \in Binding
  BY DEF Call
<1>4. CASE Consume(t) \/ ConsumeRefused(t)
  BY <1>3, <1>4 DEF Consume, ConsumeRefused
<1>5. CASE RememberConsumed(t)
  BY <1>3, <1>5 DEF RememberConsumed
<1>6. CASE Execute(t)
  <2>1. executions' \in Seq(Call)
    BY <1>3, <1>6, AppendProperties DEF Execute
  <2> QED
    BY <1>6, <2>1 DEF Execute
<1>7. CASE ExecuteUnavailable(t)
  BY <1>7 DEF ExecuteUnavailable
<1> QED
  BY <1>1, <1>4, <1>5, <1>6, <1>7 DEF Attempt

LEMMA TypeStep == TypeOK /\ [Next]_vars => TypeOK'
<1> SUFFICES ASSUME TypeOK, [Next]_vars
             PROVE  TypeOK'
  OBVIOUS
<1> USE DEF TypeOK, disk, memory, history
<1>1. CASE Tick
  BY <1>1 DEF Tick
<1>2. ASSUME NEW i \in Intents, CreateRequest(i)
      PROVE  TypeOK'
  <2>1. [intent |-> i, at |-> clock] \in Request
    BY DEF Request
  <2> QED
    BY <1>2, <2>1 DEF CreateRequest
<1>3. ASSUME NEW d \in returned, Revoke(d) \/ Bind(d)
      PROVE  TypeOK'
  <2>1. [decision |-> d] \in Binding
    BY DEF Binding
  <2> QED
    BY <1>3, <2>1 DEF Revoke, Bind
<1>4. ASSUME NEW t \in Threads, WriteFails(t)
      PROVE  TypeOK'
  <2>1. pc[t] = "consume" => work[t].binding \in Binding
    BY DEF Call
  <2> QED
    BY <1>4, <2>1 DEF WriteFails, Return
<1>5. CASE Crash
  <2>1. PICK f \in [{d.request : d \in decisions} -> decisions] : active' = f
    BY <1>5 DEF Crash
  <2>2. \A r \in DOMAIN active' : active'[r] \in Decision
    BY <2>1
  <2> QED
    BY <1>5, <2>2 DEF Crash
<1>6. CASE UNCHANGED vars
  BY <1>6 DEF vars
<1> QED
  BY <1>1, <1>2, <1>3, <1>4, <1>5, <1>6, ApproveTypes, AttemptTypes DEF Next

(* Records have the shape of their kind. *)
THEOREM TypeCorrect == Spec => []TypeOK
  BY TypeInit, TypeStep, PTL DEF Spec

-----------------------------------------------------------------------------
(* The inductive invariant: recorded decisions are in memory, bindings     *)
(* lead to recorded approvals, calls carry their evidence, and a binding   *)
(* past its file belongs to one call or one execution.                     *)

DecisionInv ==
  /\ RecordedStaysDecided
  /\ \A t \in Threads : pc[t] = "record" => work[t].request \in DOMAIN active
  /\ returned \subseteq decisions

Approved(b) == b.decision \in decisions /\ b.decision.outcome = "approved"

Evidence(call) ==
  /\ call.binding \in bindings
  /\ call.binding.decision.request = [intent |-> call.intent, at |-> call.now]
  /\ call.binding.decision.at <= call.now
  /\ call.now < Expires(call.binding.decision.request)

Attempting(t) == pc[t] \in {"consume", "remember", "execute"}

EvidenceInv ==
  /\ \A b \in bindings : Approved(b)
  /\ \A t \in Threads : Attempting(t) => Evidence(work[t])
  /\ \A n \in 1 .. Len(executions) : Evidence(executions[n])

Holds(t) == pc[t] \in {"remember", "execute"}

UseInv ==
  /\ \A n \in 1 .. Len(executions) : executions[n].binding \in consumedFiles
  /\ \A t \in Threads : Holds(t) =>
       /\ work[t].binding \in consumedFiles
       /\ \A n \in 1 .. Len(executions) : executions[n].binding # work[t].binding
       /\ \A u \in Threads : Holds(u) /\ work[u].binding = work[t].binding => u = t
  /\ ExecutedOnce

IInv == TypeOK /\ DecisionInv /\ EvidenceInv /\ UseInv

LEMMA IInvInit == Init => IInv
  BY TypeInit DEF Init, IInv, DecisionInv, RecordedStaysDecided, EvidenceInv, UseInv,
                  ExecutedOnce, Attempting, Holds

-----------------------------------------------------------------------------
(* Recorded decisions. *)

LEMMA DecisionStep ==
  ASSUME TypeOK, DecisionInv, Next
  PROVE  DecisionInv'
<1> USE DEF TypeOK, DecisionInv, RecordedStaysDecided, disk, memory, history
<1>1. ASSUME NEW t \in Threads, Approve(t)
      PROVE  DecisionInv'
  <2>1. ASSUME NEW r \in requests, NEW o \in Outcomes, NEW by \in Approvers, Decide(t, r, o, by)
        PROVE  DecisionInv'
    BY <2>1 DEF Decide, Start
  <2>2. CASE Remember(t)
    BY <2>2 DEF Remember, Goto
  <2>3. CASE RecordDecision(t)
    BY <2>3 DEF RecordDecision, Return
  <2>4. CASE RecordConflict(t)
    BY <2>4 DEF RecordConflict, Return
  <2> QED
    BY <1>1, <2>1, <2>2, <2>3, <2>4 DEF Approve
<1>2. ASSUME NEW t \in Threads, Attempt(t)
      PROVE  DecisionInv'
  <2>1. UNCHANGED <<decisions, active, returned>>
    BY <1>2 DEF Attempt, Invoke, Consume, ConsumeRefused, RememberConsumed,
                Execute, ExecuteUnavailable
  <2>2. \A u \in Threads : pc'[u] = "record" => pc[u] = "record" /\ work'[u] = work[u]
    BY <1>2 DEF Attempt, Invoke, Consume, ConsumeRefused, RememberConsumed,
                Execute, ExecuteUnavailable, Start, Goto, Return
  <2> QED
    BY <2>1, <2>2
<1>3. ASSUME NEW t \in Threads, WriteFails(t)
      PROVE  DecisionInv'
  BY <1>3 DEF WriteFails, Return
<1>4. CASE Crash
  <2>1. PICK f \in [{d.request : d \in decisions} -> decisions] : active' = f
    BY <1>4 DEF Crash
  <2>2. \A d \in decisions : d.request \in DOMAIN active'
    BY <2>1
  <2> QED
    BY <1>4, <2>2 DEF Crash
<1>5. CASE Tick
  BY <1>5 DEF Tick
<1>6. ASSUME NEW i \in Intents, CreateRequest(i)
      PROVE  DecisionInv'
  BY <1>6 DEF CreateRequest
<1>7. ASSUME NEW d \in returned, Revoke(d) \/ Bind(d)
      PROVE  DecisionInv'
  BY <1>7 DEF Revoke, Bind
<1> QED
  BY <1>1, <1>2, <1>3, <1>4, <1>5, <1>6, <1>7 DEF Next

-----------------------------------------------------------------------------
(* Evidence. *)

LEMMA EvidenceStep ==
  ASSUME TypeOK, DecisionInv, EvidenceInv, Next
  PROVE  EvidenceInv'
<1> USE DEF TypeOK, disk, memory, history
<1>1. decisions \subseteq decisions' /\ bindings \subseteq bindings'
  BY DEF Next, Tick, CreateRequest, Revoke, Bind, Approve, Decide, Remember, RecordDecision,
         RecordConflict, Attempt, Invoke, Consume, ConsumeRefused,
         RememberConsumed, Execute, ExecuteUnavailable, WriteFails, Crash
<1>2. \A call : Evidence(call) => Evidence(call)'
  BY <1>1 DEF Evidence, Expires
<1>3. ASSUME bindings' = bindings, executions' = executions,
             \A t \in Threads : Attempting(t)' => Attempting(t) /\ work'[t] = work[t]
      PROVE  EvidenceInv'
  <2>1. \A t \in Threads : Attempting(t)' => Evidence(work[t])'
    BY <1>2, <1>3 DEF EvidenceInv
  <2>2. \A t \in Threads : (Attempting(t) => Evidence(work[t]))'
    <3> SUFFICES ASSUME NEW t \in Threads, Attempting(t)'
                 PROVE  Evidence(work[t])'
      OBVIOUS
    <3>1. PICK w : w = work[t]
      OBVIOUS
    <3>2. work'[t] = w /\ Evidence(w)
      BY <1>3, <3>1 DEF EvidenceInv
    <3> QED
      BY <1>2, <3>2
  <2>3. \A b \in bindings' : Approved(b)'
    BY <1>1, <1>3 DEF EvidenceInv, Approved
  <2>4. \A n \in 1 .. Len(executions') : Evidence(executions[n])'
    BY <1>1, <1>3 DEF EvidenceInv, Evidence, Expires
  <2> QED
    BY <2>2, <2>3, <2>4 DEF EvidenceInv
<1>4. ASSUME NEW t \in Threads, Approve(t)
      PROVE  EvidenceInv'
  <2>1. /\ bindings' = bindings /\ executions' = executions
        /\ \A u \in Threads : Attempting(u)' => Attempting(u) /\ work'[u] = work[u]
    BY <1>4 DEF Approve, Decide, Remember, RecordDecision, RecordConflict, Start, Goto,
                Return, Attempting
  <2> QED
    BY <1>3, <2>1
<1>5. ASSUME NEW t \in Threads, NEW i \in Intents, NEW b \in bindings, Invoke(t, i, b)
      PROVE  EvidenceInv'
  <2>1. PICK call : call = [intent |-> i, now |-> clock, binding |-> b]
    OBVIOUS
  <2>2. Evidence(call)
    BY <1>5, <2>1 DEF Invoke, Accepts, MatchesDecision, CurrentlyValid, Evidence
  <2>3. work'[t] = call /\ \A u \in Threads \ {t} : work'[u] = work[u] /\ pc'[u] = pc[u]
    BY <1>5, <2>1 DEF Invoke, Start
  <2>4. executions' = executions /\ bindings' = bindings /\ decisions' = decisions
    BY <1>5 DEF Invoke
  <2>5. \A u \in Threads : (Attempting(u) => Evidence(work[u]))'
    BY <2>2, <2>3, <2>4 DEF EvidenceInv, Evidence, Attempting, Expires
  <2> QED
    BY <2>4, <2>5 DEF EvidenceInv, Approved, Evidence, Expires
<1>6. ASSUME NEW t \in Threads, Execute(t)
      PROVE  EvidenceInv'
  <2>1. /\ executions' = Append(executions, work[t]) /\ pc[t] = "execute"
        /\ bindings' = bindings /\ decisions' = decisions
    BY <1>6 DEF Execute
  <2>2. Evidence(work[t]) /\ work[t] \in Call
    BY <2>1 DEF EvidenceInv, Attempting
  <2>3. /\ Len(executions') = Len(executions) + 1
        /\ \A n \in 1 .. Len(executions) : executions'[n] = executions[n]
        /\ executions'[Len(executions) + 1] = work[t]
    BY <2>1, <2>2, AppendProperties
  <2>4. Len(executions) \in Nat
    BY LenProperties
  <2>5. \A n \in 1 .. Len(executions') : n \in 1 .. Len(executions) \/ n = Len(executions) + 1
    BY <2>3, <2>4
  <2>6. \A n \in 1 .. Len(executions') : Evidence(executions[n])'
    BY <2>1, <2>2, <2>3, <2>5 DEF EvidenceInv, Evidence, Expires
  <2>7. \A u \in Threads : Attempting(u)' => Attempting(u) /\ work'[u] = work[u]
    BY <1>6 DEF Execute, Return, Attempting
  <2>8. \A u \in Threads : (Attempting(u) => Evidence(work[u]))'
    BY <2>1, <2>7 DEF EvidenceInv, Evidence, Expires
  <2> QED
    BY <2>1, <2>6, <2>8 DEF EvidenceInv, Approved
<1>7. ASSUME NEW t \in Threads,
             \/ Consume(t) \/ ConsumeRefused(t) \/ RememberConsumed(t)
             \/ ExecuteUnavailable(t) \/ WriteFails(t)
      PROVE  EvidenceInv'
  <2>1. /\ bindings' = bindings /\ executions' = executions
        /\ \A u \in Threads : Attempting(u)' => Attempting(u) /\ work'[u] = work[u]
    BY <1>7 DEF Consume, ConsumeRefused, RememberConsumed,
                ExecuteUnavailable, WriteFails, Goto, Return, Attempting
  <2> QED
    BY <1>3, <2>1
<1>8. CASE Tick \/ Crash \/ \E i \in Intents : CreateRequest(i)
  BY <1>3, <1>8 DEF Tick, Crash, CreateRequest, Attempting
<1>9. ASSUME NEW d \in returned, Revoke(d)
      PROVE  EvidenceInv'
  BY <1>3, <1>9 DEF Revoke, Attempting
<1>10. ASSUME NEW d \in returned, Bind(d)
       PROVE  EvidenceInv'
  <2>1. d \in decisions /\ d.outcome = "approved"
    BY <1>10 DEF Bind, DecisionInv
  <2>2. \A b \in bindings' : Approved(b)'
    BY <1>10, <2>1 DEF Bind, EvidenceInv, Approved
  <2> QED
    BY <1>10, <2>2 DEF Bind, EvidenceInv, Evidence, Expires, Attempting
<1> QED
  BY <1>4, <1>5, <1>6, <1>7, <1>8, <1>9, <1>10 DEF Next, Attempt

-----------------------------------------------------------------------------
(* Use. *)

LEMMA UseStep ==
  ASSUME TypeOK, UseInv, Next
  PROVE  UseInv'
<1> USE DEF TypeOK, disk, memory, history
<1>1. ASSUME executions' = executions, consumedFiles \subseteq consumedFiles',
             \A t \in Threads : Holds(t)' => Holds(t) /\ work'[t] = work[t]
      PROVE  UseInv'
  BY <1>1 DEF UseInv, ExecutedOnce
<1>2. ASSUME NEW t \in Threads, Consume(t)
      PROVE  UseInv'
  <2>1. /\ work[t].binding \notin consumedFiles
        /\ consumedFiles' = consumedFiles \cup {work[t].binding}
        /\ work' = work /\ executions' = executions
        /\ \A u \in Threads : Holds(u)' => Holds(u) \/ u = t
    BY <1>2 DEF Consume, Goto, Holds
  <2> QED
    BY <2>1 DEF UseInv, ExecutedOnce
<1>3. ASSUME NEW t \in Threads, Execute(t)
      PROVE  UseInv'
  <2>1. /\ executions' = Append(executions, work[t]) /\ Holds(t) /\ work[t] \in Call
        /\ consumedFiles' = consumedFiles
        /\ ~Holds(t)'
        /\ \A u \in Threads : Holds(u)' => Holds(u) /\ work'[u] = work[u]
    BY <1>3 DEF Execute, Holds, Return
  <2>2. /\ Len(executions') = Len(executions) + 1
        /\ \A n \in 1 .. Len(executions) : executions'[n] = executions[n]
        /\ executions'[Len(executions) + 1] = work[t]
    BY <2>1, AppendProperties
  <2>3. Len(executions) \in Nat
    BY LenProperties
  <2>4. \A n \in 1 .. Len(executions') : n \in 1 .. Len(executions) \/ n = Len(executions) + 1
    BY <2>2, <2>3
  <2>5. \A n \in 1 .. Len(executions') : executions'[n].binding \in consumedFiles'
    BY <2>1, <2>2, <2>4 DEF UseInv
  <2>6. ExecutedOnce'
    BY <2>1, <2>2, <2>4 DEF UseInv, ExecutedOnce
  <2>7. ASSUME NEW u \in Threads, Holds(u)'
        PROVE  /\ work'[u].binding \in consumedFiles'
               /\ \A n \in 1 .. Len(executions') : executions'[n].binding # work'[u].binding
               /\ \A v \in Threads : Holds(v)' /\ work'[v].binding = work'[u].binding => v = u
    <3>1. u # t /\ Holds(u) /\ work'[u] = work[u] /\ work[u].binding # work[t].binding
      BY <2>1, <2>7 DEF UseInv
    <3> QED
      BY <2>1, <2>2, <2>4, <3>1 DEF UseInv
  <2> QED
    BY <2>5, <2>6, <2>7 DEF UseInv
<1>4. ASSUME NEW t \in Threads, RememberConsumed(t)
      PROVE  UseInv'
  BY <1>1, <1>4 DEF RememberConsumed, Goto, Holds
<1>5. ASSUME NEW t \in Threads,
             \/ \E i \in Intents, b \in bindings : Invoke(t, i, b)
             \/ ConsumeRefused(t) \/ ExecuteUnavailable(t) \/ WriteFails(t)
      PROVE  UseInv'
  <2>1. /\ executions' = executions /\ consumedFiles \subseteq consumedFiles'
        /\ \A u \in Threads : Holds(u)' => Holds(u) /\ work'[u] = work[u]
    BY <1>5 DEF Invoke, ConsumeRefused, ExecuteUnavailable, WriteFails,
                Start, Return, Holds
  <2> QED
    BY <1>1, <2>1
<1>6. ASSUME NEW t \in Threads, Approve(t)
      PROVE  UseInv'
  <2>1. /\ executions' = executions /\ consumedFiles' = consumedFiles
        /\ \A u \in Threads : Holds(u)' => Holds(u) /\ work'[u] = work[u]
    BY <1>6 DEF Approve, Decide, Remember, RecordDecision, RecordConflict, Start, Goto,
                Return, Holds
  <2> QED
    BY <1>1, <2>1
<1>7. CASE Tick \/ Crash \/ (\E i \in Intents : CreateRequest(i))
           \/ \E d \in returned : Revoke(d) \/ Bind(d)
  BY <1>1, <1>7 DEF Tick, Crash, CreateRequest, Revoke, Bind, Holds
<1> QED
  BY <1>2, <1>3, <1>4, <1>5, <1>6, <1>7 DEF Next, Attempt

-----------------------------------------------------------------------------
(* The invariant is inductive. *)
LEMMA IInvStep == IInv /\ [Next]_vars => IInv'
<1> SUFFICES ASSUME IInv, [Next]_vars
             PROVE  IInv'
  OBVIOUS
<1>1. CASE Next
  BY <1>1, TypeStep, DecisionStep, EvidenceStep, UseStep DEF IInv
<1>2. CASE UNCHANGED vars
  <2>1. TypeOK'
    BY <1>2, TypeStep DEF IInv
  <2>2. DecisionInv' /\ EvidenceInv'
    BY <1>2 DEF IInv, vars, disk, memory, history, DecisionInv, RecordedStaysDecided,
                EvidenceInv, Evidence, Expires, Approved, Attempting
  <2>3. UseInv'
    BY <1>2 DEF IInv, vars, disk, memory, history, UseInv, ExecutedOnce, Holds
  <2> QED
    BY <2>1, <2>2, <2>3 DEF IInv
<1> QED
  BY <1>1, <1>2

LEMMA IInvCorrect == Spec => []IInv
  BY IInvInit, IInvStep, PTL DEF Spec

(* A binding executes at most once, with any number of threads, restarts   *)
(* and failed writes.                                                      *)
THEOREM ExecutedAtMostOnce == Spec => []ExecutedOnce
  BY IInvCorrect, PTL DEF IInv, UseInv

(* Every execution has a recorded, approved decision for its own intent    *)
(* and was in time.                                                        *)
THEOREM ExecutionAlwaysHasEvidence == Spec => []ExecutionHasEvidence
<1>1. IInv => ExecutionHasEvidence
  BY DEF IInv, EvidenceInv, Evidence, Approved, ExecutionHasEvidence
<1> QED
  BY <1>1, IInvCorrect, PTL

(* A request whose decision is recorded accepts no other one, also after   *)
(* restarts.                                                               *)
THEOREM RecordedAlwaysDecided == Spec => []RecordedStaysDecided
  BY IInvCorrect, PTL DEF IInv, DecisionInv
=============================================================================
