------------------------------ MODULE Approvals ------------------------------
(***************************************************************************)
(* Approval of governed invocations: approvers decide requests, a caller   *)
(* of the facade turns an approved decision into a binding, and the        *)
(* invocation boundary executes an intent once per binding.                *)
(*                                                                         *)
(* ApprovalService keeps the decisions and the consumed bindings of the    *)
(* process in memory, without a lock; the facade stores every record it    *)
(* returns in the audit repository, and a consumed binding is one file in  *)
(* the consumption repository.  A restart rebuilds the memory from these.  *)
(* Each call takes its time when it starts.                                *)
(***************************************************************************)
EXTENDS Naturals, Sequences

CONSTANTS
  Threads,       \* threads that decide or invoke
  Intents,       \* intent digests: caller, tool, revision and arguments
  Approvers,     \* subjects of trusted approvers
  NoDecision,    \* the request has no decision in memory
  NoWork,        \* the thread is in no call
  Lifetime,      \* time until a request expires
  TimeBound,     \* model bound: last instant
  FaultBound     \* model bound: crashes and failed writes in a behaviour

(* A request is identified by its intent and the time of the policy        *)
(* decision it was made from, a decision by request, outcome and time.     *)
Request == [intent: Intents, at: Nat]
Outcomes == {"approved", "denied", "expired"}
Decision == [request: Request, outcome: Outcomes, at: Nat, by: Approvers]
Binding == [decision: Decision]
Call == [intent: Intents, now: Nat, binding: Binding]

ASSUME ApprovalAssumption ==
  /\ NoDecision \notin Decision
  /\ NoWork \notin Decision \cup Call
  /\ Lifetime \in Nat /\ TimeBound \in Nat /\ FaultBound \in Nat

VARIABLES
  clock,
  requests,      \* ApprovalRequests in the audit repository
  decisions,     \* ApprovalDecisions in the audit repository
  bindings,      \* ApprovalBindings in the audit repository
  consumedFiles, \* bindings with a file in the consumption repository
  active,        \* memory: the decision of each request
  consumed,      \* memory: consumed bindings
  pc, work,      \* where each thread is in its call, and its locals
  returned,      \* decisions that decide() returned
  revoked,       \* decisions that revoke() returned a revocation of
  executions,    \* what the boundary executed, in order
  faults         \* crashes and failed writes so far

disk == <<requests, decisions, bindings, consumedFiles>>
memory == <<active, consumed>>
history == <<returned, revoked, executions, faults>>
vars == <<clock, disk, memory, pc, work, history>>

Init ==
  /\ clock = 0
  /\ requests = {} /\ decisions = {} /\ bindings = {} /\ consumedFiles = {}
  /\ active = [r \in {} |-> NoDecision]
  /\ consumed = {}
  /\ pc = [t \in Threads |-> "idle"]
  /\ work = [t \in Threads |-> NoWork]
  /\ returned = {} /\ revoked = {} /\ executions = <<>>
  /\ faults = 0

Goto(t, label) ==
  /\ pc' = [pc EXCEPT ![t] = label]
  /\ UNCHANGED work

Start(t, label, locals) ==
  /\ pc[t] = "idle"
  /\ pc' = [pc EXCEPT ![t] = label]
  /\ work' = [work EXCEPT ![t] = locals]

(* A call that ends and leaves its locals behind. *)
ReturnInPlace(t) ==
  /\ pc' = [pc EXCEPT ![t] = "idle"]
  /\ UNCHANGED work

Return(t) ==
  /\ pc' = [pc EXCEPT ![t] = "idle"]
  /\ work' = [work EXCEPT ![t] = NoWork]

Tick ==
  /\ clock < TimeBound
  /\ clock' = clock + 1
  /\ UNCHANGED <<disk, memory, pc, work, history>>

-----------------------------------------------------------------------------
(* Requests and decisions. *)

Expires(r) == r.at + Lifetime

(* An invocation without a binding: policy asks for approval.              *)
CreateRequest(i) ==
  /\ requests' = requests \cup {[intent |-> i, at |-> clock]}
  /\ UNCHANGED <<clock, decisions, bindings, consumedFiles, memory, pc, work, history>>

(* decide() asks whether the request has a decision ...                    *)
Decide(t, r, outcome, by) ==
  /\ r \in requests
  /\ r \notin DOMAIN active
  /\ outcome = "approved" => clock < Expires(r)
  /\ Start(t, "decide",
           [request |-> r, outcome |-> outcome, at |-> clock, by |-> by])
  /\ UNCHANGED <<clock, disk, memory, history>>

(* ... and later remembers its own. *)
Remember(t) ==
  /\ pc[t] = "decide"
  /\ active' = [r \in DOMAIN active \cup {work[t].request} |->
                  IF r = work[t].request THEN work[t] ELSE active[r]]
  /\ Goto(t, "record")
  /\ UNCHANGED <<clock, disk, consumed, history>>

(* The audit record's identifier does not name the approver. *)
SameRecord(d, e) == d.request = e.request /\ d.outcome = e.outcome /\ d.at = e.at

(* A decision returned without being recorded. *)
ReturnDecision(t) ==
  /\ pc[t] = "record"
  /\ returned' = returned \cup {work[t]}
  /\ Return(t)
  /\ UNCHANGED <<clock, disk, memory, revoked, executions, faults>>

RecordDecision(t) ==
  /\ pc[t] = "record"
  /\ \A d \in decisions : SameRecord(d, work[t]) => d = work[t]
  /\ decisions' = decisions \cup {work[t]}
  /\ returned' = returned \cup {work[t]}
  /\ Return(t)
  /\ UNCHANGED <<clock, requests, bindings, consumedFiles, memory,
                 revoked, executions, faults>>

RecordConflict(t) ==
  /\ pc[t] = "record"
  /\ \E d \in decisions : SameRecord(d, work[t]) /\ d # work[t]
  /\ Return(t)
  /\ UNCHANGED <<clock, disk, memory, history>>

(* The revocation is returned and changes nothing. *)
Revoke(d) ==
  /\ d.outcome = "approved"
  /\ revoked' = revoked \cup {d}
  /\ UNCHANGED <<clock, disk, memory, pc, work, returned, executions, faults>>

(* A binding made from any decision. *)
BindAny(d) ==
  /\ bindings' = bindings \cup {[decision |-> d]}
  /\ UNCHANGED <<clock, requests, decisions, consumedFiles, memory, pc, work, history>>

Bind(d) ==
  /\ d.outcome = "approved"
  /\ bindings' = bindings \cup {[decision |-> d]}
  /\ UNCHANGED <<clock, requests, decisions, consumedFiles, memory, pc, work, history>>

-----------------------------------------------------------------------------
(* Invocation with a binding.  The policy decision the boundary evaluates  *)
(* is identified by the intent and the time of the call; a binding that is *)
(* not accepted is refused and nothing changes.                            *)

MatchesDecision(i, b) == b.decision.request = [intent |-> i, at |-> clock]

CurrentlyValid(b) ==
  clock >= b.decision.at /\ clock < Expires(b.decision.request)

Accepts(i, b) ==
  /\ MatchesDecision(i, b)
  /\ CurrentlyValid(b)
  /\ b \notin consumed

(* Any binding would do, whatever it was given for and when. *)
InvokeUnmatched(t, i, b) ==
  /\ b \in bindings
  /\ b \notin consumed
  /\ Start(t, "consume", [intent |-> i, now |-> clock, binding |-> b])
  /\ UNCHANGED <<clock, disk, memory, history>>

Invoke(t, i, b) ==
  /\ b \in bindings
  /\ Accepts(i, b)
  /\ Start(t, "consume", [intent |-> i, now |-> clock, binding |-> b])
  /\ UNCHANGED <<clock, disk, memory, history>>

(* The file written over an existing one. *)
ConsumeAgain(t) ==
  /\ pc[t] = "consume"
  /\ consumedFiles' = consumedFiles \cup {work[t].binding}
  /\ Goto(t, "remember")
  /\ UNCHANGED <<clock, requests, decisions, bindings, memory, history>>

Consume(t) ==
  /\ pc[t] = "consume"
  /\ work[t].binding \notin consumedFiles
  /\ consumedFiles' = consumedFiles \cup {work[t].binding}
  /\ Goto(t, "remember")
  /\ UNCHANGED <<clock, requests, decisions, bindings, memory, history>>

ConsumeRefused(t) ==
  /\ pc[t] = "consume"
  /\ work[t].binding \in consumedFiles
  /\ Return(t)
  /\ UNCHANGED <<clock, disk, memory, history>>

RememberConsumed(t) ==
  /\ pc[t] = "remember"
  /\ consumed' = consumed \cup {work[t].binding}
  /\ Goto(t, "execute")
  /\ UNCHANGED <<clock, disk, active, history>>

Execute(t) ==
  /\ pc[t] = "execute"
  /\ executions' = Append(executions, work[t])
  /\ Return(t)
  /\ UNCHANGED <<clock, disk, memory, returned, revoked, faults>>

(* The profile is durable and no durable acceptor is configured: the call  *)
(* raises with the binding consumed.                                       *)
ExecuteUnavailable(t) ==
  /\ pc[t] = "execute"
  /\ Return(t)
  /\ UNCHANGED <<clock, disk, memory, history>>

-----------------------------------------------------------------------------
WriteFails(t) ==
  /\ pc[t] \in {"record", "consume"}
  /\ faults < FaultBound
  /\ faults' = faults + 1
  /\ Return(t)
  /\ UNCHANGED <<clock, disk, memory, returned, revoked, executions>>

(* After a restart the memory holds the recorded decisions, one of them    *)
(* where a request has several, and the consumed files.                    *)
Restored(memoryOf) ==
  /\ DOMAIN memoryOf = {d.request : d \in decisions}
  /\ \A r \in DOMAIN memoryOf : memoryOf[r].request = r

(* A restart with the consumed files only. *)
CrashForgetful ==
  /\ faults < FaultBound
  /\ faults' = faults + 1
  /\ active' = [r \in {} |-> NoDecision]
  /\ consumed' = consumedFiles
  /\ pc' = [t \in Threads |-> "idle"]
  /\ work' = [t \in Threads |-> NoWork]
  /\ UNCHANGED <<clock, disk, returned, revoked, executions>>

Crash ==
  /\ faults < FaultBound
  /\ faults' = faults + 1
  /\ \E f \in [{d.request : d \in decisions} -> decisions] : Restored(f) /\ active' = f
  /\ consumed' = consumedFiles
  /\ pc' = [t \in Threads |-> "idle"]
  /\ work' = [t \in Threads |-> NoWork]
  /\ UNCHANGED <<clock, disk, returned, revoked, executions>>

Approve(t) ==
  \/ \E r \in requests, o \in Outcomes, by \in Approvers : Decide(t, r, o, by)
  \/ Remember(t) \/ RecordDecision(t) \/ RecordConflict(t)

Attempt(t) ==
  \/ \E i \in Intents, b \in bindings : Invoke(t, i, b)
  \/ Consume(t) \/ ConsumeRefused(t) \/ RememberConsumed(t)
  \/ Execute(t) \/ ExecuteUnavailable(t)

Next ==
  \/ Tick
  \/ \E i \in Intents : CreateRequest(i)
  \/ \E d \in returned : Revoke(d) \/ Bind(d)
  \/ \E t \in Threads : Approve(t) \/ Attempt(t) \/ WriteFails(t)
  \/ Crash

Spec == Init /\ [][Next]_vars

-----------------------------------------------------------------------------
(* Records have the shape of their kind, and a thread's locals fit where   *)
(* it is.                                                                  *)
TypeOK ==
  /\ clock \in Nat
  /\ requests \subseteq Request
  /\ decisions \subseteq Decision
  /\ bindings \subseteq Binding /\ consumedFiles \subseteq Binding
  /\ consumed \subseteq Binding
  /\ \A r \in DOMAIN active : active[r] \in Decision
  /\ pc \in [Threads -> {"idle", "decide", "record", "consume", "remember", "execute"}]
  /\ DOMAIN work = Threads
  /\ \A t \in Threads :
       /\ pc[t] = "idle" => work[t] = NoWork
       /\ pc[t] \in {"decide", "record"} => work[t] \in Decision
       /\ pc[t] \in {"consume", "remember", "execute"} => work[t] \in Call
  /\ returned \subseteq Decision /\ revoked \subseteq Decision
  /\ executions \in Seq(Call)
  /\ faults \in Nat

(* A binding executes at most once, whichever threads present it at the    *)
(* same time and however often the process restarts: the consumption file  *)
(* decides, not the memory.                                                *)
ExecutedOnce ==
  \A m, n \in 1 .. Len(executions) :
    executions[m].binding = executions[n].binding => m = n

(* What executes was approved before, in time, under the very policy       *)
(* decision its invocation was evaluated with, and the decision and the    *)
(* binding are on record: the boundary reads the binding from the audit    *)
(* repository, where only recorded decisions lead to.                      *)
ExecutionHasEvidence ==
  \A n \in 1 .. Len(executions) : LET call == executions[n]  d == call.binding.decision IN
    /\ call.binding \in bindings /\ d \in decisions
    /\ d.outcome = "approved"
    /\ d.request = [intent |-> call.intent, at |-> call.now]
    /\ d.at <= call.now /\ call.now < Expires(d.request)

(* A request whose decision is recorded accepts no other one: what the     *)
(* memory knows of the recorded decisions survives every restart.          *)
RecordedStaysDecided == \A d \in decisions : d.request \in DOMAIN active

-----------------------------------------------------------------------------
(* What the documentation says and the code does not do.                   *)

(* Expected by the resource model of the work plan: a request has one      *)
(* approval decision.                                                      *)
OneDecisionPerRequest ==
  \A d, e \in decisions : d.request = e.request => d = e

(* Expected by the approval lifecycle: after a revocation no new attempt   *)
(* begins.  revoke() returns a record that nothing reads.                  *)
RevocationHolds ==
  [][\A t \in Threads :
       pc[t] = "idle" /\ pc'[t] = "consume"
         => work'[t].binding.decision \notin revoked]_vars

(* Expected by the approval lifecycle: an approved binding that is in time *)
(* and unused is accepted, since execution waits for it.                   *)
BindingUsable ==
  \A b \in bindings :
    CurrentlyValid(b) /\ b \notin consumed => Accepts(b.decision.request.intent, b)

=============================================================================
