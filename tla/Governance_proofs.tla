-------------------------- MODULE Governance_proofs --------------------------
(***************************************************************************)
(* Proofs about the evaluation of policies, for every set of effects,      *)
(* scopes and budgets, and about reconciliation, for every number of       *)
(* threads, attempts, provider operations, faults and stored records.      *)
(* The two components share no state and no result.                        *)
(***************************************************************************)
EXTENDS Policy, Reconciliation, TLAPS

-----------------------------------------------------------------------------
(* Policy evaluation.                                                      *)

(* What is known of a decision: it is the evaluation of what is shown.     *)
PolicyInv ==
  /\ bundle \in Bundle /\ request \in Request
  /\ decision \in {Evaluate(bundle, request), NotEvaluated}

LEMMA PolicyInvInit == PolicyInit => PolicyInv
  BY DEF PolicyInit, PolicyInv

LEMMA PolicyInvStep == PolicyInv /\ [PolicyNext]_policyVars => PolicyInv'
<1>. SUFFICES ASSUME PolicyInv, [PolicyNext]_policyVars PROVE PolicyInv'
  OBVIOUS
<1>1. CASE EvaluateFirst
  BY <1>1, Zenon DEF PolicyInv, EvaluateFirst
<1>2. CASE EvaluateTightened
  <2>1. bundle' \in Bundle
    BY <1>2, PolicyAssumption, SMT DEF PolicyInv, EvaluateTightened, Bundle, Limits
  <2>2. request' \in Request
    BY <1>2, SMT DEF PolicyInv, EvaluateTightened, Request
  <2>3. decision' = Evaluate(bundle', request')
    BY <1>2 DEF EvaluateTightened
  <2>. QED
    BY <2>1, <2>2, <2>3 DEF PolicyInv
<1>3. CASE UNCHANGED policyVars
  BY <1>3, Zenon DEF PolicyInv, policyVars
<1>. QED
  BY <1>1, <1>2, <1>3 DEF PolicyNext

(* The outcome of an evaluation means what the work plan says.             *)
LEMMA EvaluationMeans ==
  ASSUME NEW b \in Bundle, NEW q \in Request, NEW d, d = Evaluate(b, q)
  PROVE  /\ d.outcome = "allow" => d.authority = q.requested /\ d.budget = q.budget
         /\ d.outcome = "constrained_allow" =>
              d.authority # q.requested \/ d.budget < q.budget
         /\ d.outcome # "deny" =>
              /\ q.effects \cap b.denied = {}
              /\ q.required \subseteq q.caller
              /\ d.authority \subseteq q.caller \cap b.allowed
              /\ d.budget <= b.maximum
         /\ q.effects \cap b.approval # {} => d.outcome \in {"require_approval", "deny"}
<1>1. q.budget \in Int /\ b.maximum \in Int
  BY PolicyAssumption, SMT DEF Bundle, Request, Limits
<1>2. CASE Denies(b, q)
  BY <1>2, SMT DEF Evaluate
<1>3. CASE ~Denies(b, q)
  <2>1. d.outcome = OutcomeOf(b, q) /\ d.authority = q.requested \cap Usable(b, q)
        /\ d.budget = Lesser(q.budget, b.maximum)
    BY <1>3, SMT DEF Evaluate
  <2>2. q.effects \cap b.denied = {} /\ q.required \subseteq Usable(b, q)
    BY <1>3 DEF Denies
  <2>3. Usable(b, q) = q.caller \cap b.allowed
    BY DEF Usable
  <2>4. d.budget <= b.maximum /\ (q.budget <= b.maximum => d.budget = q.budget)
        /\ (q.budget > b.maximum => d.budget < q.budget)
    BY <1>1, <2>1, SMT DEF Lesser
  <2>5. d.outcome = "allow" => ~Attenuates(b, q)
    BY <2>1, SMT DEF OutcomeOf
  <2>6. d.outcome = "constrained_allow" => Attenuates(b, q)
    BY <2>1, SMT DEF OutcomeOf
  <2>7. q.effects \cap b.approval # {} => d.outcome = "require_approval"
    BY <2>1, SMT DEF OutcomeOf
  <2>8. Attenuates(b, q) <=> d.authority # q.requested \/ q.budget > b.maximum
    BY <2>1 DEF Attenuates
  <2>. QED
    BY <1>1, <2>1, <2>2, <2>3, <2>4, <2>5, <2>6, <2>7, <2>8, SMT
<1>. QED
  BY <1>2, <1>3

(* A tighter bundle or a caller with fewer scopes gets no more.            *)
LEMMA EvaluationMonotone ==
  ASSUME NEW b \in Bundle, NEW q \in Request, NEW c \in Bundle, NEW r \in Request,
         c.allowed \subseteq b.allowed, b.denied \subseteq c.denied,
         b.approval \subseteq c.approval, c.maximum <= b.maximum,
         r.caller \subseteq q.caller, r.effects = q.effects, r.requested = q.requested,
         r.required = q.required, r.budget = q.budget,
         NEW d, d = Evaluate(b, q), NEW e, e = Evaluate(c, r)
  PROVE  /\ Strictness(e.outcome) >= Strictness(d.outcome)
         /\ e.authority \subseteq d.authority
         /\ e.budget <= d.budget
<1>0. q.budget \in Nat /\ b.maximum \in Nat /\ c.maximum \in Nat
  BY PolicyAssumption, SMT DEF Bundle, Request, Limits
<1>s. /\ Strictness("allow") = 0 /\ Strictness("constrained_allow") = 1
      /\ Strictness("require_approval") = 2 /\ Strictness("deny") = 3
  BY Zenon DEF Strictness
<1>1. Usable(c, r) \subseteq Usable(b, q)
  BY SMT DEF Usable
<1>2. Denies(b, q) => Denies(c, r)
  BY <1>1, SMT DEF Denies
<1>3. Lesser(q.budget, c.maximum) <= Lesser(q.budget, b.maximum)
  BY <1>0, SMT DEF Lesser
<1>4. Lesser(q.budget, b.maximum) >= 0
  BY <1>0, SMT DEF Lesser
<1>5. Attenuates(b, q) => Attenuates(c, r)
  BY <1>0, <1>1, SMT DEF Attenuates
<1>6. OutcomeOf(b, q) \in {"allow", "constrained_allow", "require_approval"}
  BY SMT DEF OutcomeOf
<1>7. CASE Denies(c, r)
  <2>1. e.outcome = "deny" /\ e.authority = {} /\ e.budget = 0
    BY <1>7, SMT DEF Evaluate
  <2>2. d.outcome \in {"allow", "constrained_allow", "require_approval", "deny"}
        /\ (d.budget = 0 \/ d.budget = Lesser(q.budget, b.maximum))
    BY <1>6, SMT DEF Evaluate
  <2>3. d.budget >= 0
    BY <2>2, <1>4
  <2>. QED
    BY <2>1, <2>2, <2>3, <1>0, <1>3, <1>s, SMT DEF Lesser
<1>8. CASE ~Denies(c, r)
  <2>1. /\ d.outcome = OutcomeOf(b, q) /\ e.outcome = OutcomeOf(c, r)
        /\ d.authority = q.requested \cap Usable(b, q)
        /\ e.authority = r.requested \cap Usable(c, r)
        /\ d.budget = Lesser(q.budget, b.maximum) /\ e.budget = Lesser(r.budget, c.maximum)
    BY <1>8, <1>2, SMT DEF Evaluate
  <2>2. e.authority \subseteq d.authority
    BY <2>1, <1>1
  <2>3. e.budget <= d.budget
    BY <2>1, <1>3
  <2>4. OutcomeOf(b, q) = "require_approval" => OutcomeOf(c, r) = "require_approval"
    BY SMT DEF OutcomeOf
  <2>5. OutcomeOf(b, q) = "constrained_allow" =>
          OutcomeOf(c, r) \in {"constrained_allow", "require_approval"}
    BY <1>5, SMT DEF OutcomeOf
  <2>6. OutcomeOf(c, r) \in {"allow", "constrained_allow", "require_approval"}
    BY SMT DEF OutcomeOf
  <2>7. Strictness(e.outcome) >= Strictness(d.outcome)
    BY <2>1, <2>4, <2>5, <2>6, <1>6, <1>s, SMT
  <2>. QED
    BY <2>2, <2>3, <2>7
<1>. QED
  BY <1>7, <1>8

(* Every decision of every evaluation means what its outcome says.         *)
THEOREM OutcomesAlwaysMean == PolicySpec => []OutcomesMean
<1>1. PolicyInv => OutcomesMean
  <2>. SUFFICES ASSUME PolicyInv, decision # NotEvaluated PROVE OutcomesMean
    BY DEF OutcomesMean
  <2>. QED
    BY EvaluationMeans DEF PolicyInv, OutcomesMean
<1>. QED
  BY PolicyInvInit, PolicyInvStep, <1>1, PTL DEF PolicySpec

(* Tightening never grants anything, for every bundle and request.         *)
THEOREM TighteningNeverGrants == PolicySpec => TighterNeverGrants
<1>. DEFINE NoGrant ==
       decision # NotEvaluated =>
         /\ Strictness(decision'.outcome) >= Strictness(decision.outcome)
         /\ decision'.authority \subseteq decision.authority
         /\ decision'.budget <= decision.budget
<1>1. PolicyInv /\ PolicyInv' /\ [PolicyNext]_policyVars => [NoGrant]_policyVars
  <2>. SUFFICES ASSUME PolicyInv, PolicyInv', EvaluateTightened PROVE NoGrant
    BY DEF PolicyNext, EvaluateFirst
  <2>1. decision = Evaluate(bundle, request) /\ decision' = Evaluate(bundle', request')
    BY Zenon DEF PolicyInv, EvaluateTightened
  <2>2. /\ bundle \in Bundle /\ request \in Request
        /\ bundle' \in Bundle /\ request' \in Request
    BY DEF PolicyInv
  <2>3. /\ bundle'.allowed \subseteq bundle.allowed /\ bundle.denied \subseteq bundle'.denied
        /\ bundle.approval \subseteq bundle'.approval
        /\ bundle'.maximum \in 0 .. bundle.maximum
    BY SMT DEF EvaluateTightened
  <2>4. bundle'.maximum <= bundle.maximum
    BY <2>2, <2>3, PolicyAssumption, SMT DEF Bundle, Limits
  <2>5. /\ request'.caller \subseteq request.caller /\ request'.effects = request.effects
        /\ request'.requested = request.requested /\ request'.required = request.required
        /\ request'.budget = request.budget
    BY <2>2, SMT DEF EvaluateTightened, Request
  <2>. QED
    BY <2>1, <2>2, <2>3, <2>4, <2>5, EvaluationMonotone
<1>. QED
  BY <1>1, PolicyInvInit, PolicyInvStep, PTL DEF PolicySpec, TighterNeverGrants

-----------------------------------------------------------------------------
(* Reconciliation.                                                         *)


(* A call that is about to put a record has stored those that come before. *)
CallInv ==
  \A t \in Threads :
    /\ pc[t] \in {"evidence", "receipt"} => Stored("record", work[t])
    /\ pc[t] = "receipt" => work[t].outcome \in Settled /\ Stored("evidence", work[t])

IInv == TypeOK /\ CallInv /\ ReportedStored /\ ReceiptHasEvidence

LEMMA SameAsItself ==
  ASSUME NEW k, NEW r
  PROVE  SameContent(k, r, r)
  BY Zenon DEF SameContent, SameId

(* Init establishes the invariant. *)
LEMMA InitIInv == Init => IInv
<1>. SUFFICES ASSUME Init PROVE IInv
  OBVIOUS
<1>1. TypeOK
  BY SMT DEF Init, TypeOK, Kinds
<1>2. CallInv /\ ReportedStored /\ ReceiptHasEvidence
  BY SMT DEF Init, CallInv, ReportedStored, ReceiptHasEvidence, Kinds
<1>. QED
  BY <1>1, <1>2 DEF IInv

(* What every step of a call that stores or finds its record preserves.    *)
LEMMA ContinueTypeOK ==
  ASSUME TypeOK, NEW t \in Threads, pc[t] \in Kinds, Continue(t),
         files' \in [Kinds -> SUBSET Result], UNCHANGED <<clock, adapter, conflicts, faults>>
  PROVE  TypeOK'
<1>1. work[t] \in Result
  BY SMT DEF TypeOK, Kinds
<1>2. After(pc[t], work[t]) \in Kinds \cup {"idle"}
  BY SMT DEF After, Kinds
<1>3. pc' \in [Threads -> Kinds \cup {"idle"}]
  BY <1>2, SMT DEF TypeOK, Continue
<1>4. DOMAIN work' = Threads
  BY SMT DEF TypeOK, Continue
<1>5. \A u \in Threads : IF pc'[u] = "idle" THEN work'[u] = NoWork ELSE work'[u] \in Result
  BY <1>1, SMT DEF TypeOK, Continue
<1>6. reported' \subseteq Result
  BY <1>1, SMT DEF TypeOK, Continue
<1>. QED
  BY <1>3, <1>4, <1>5, <1>6, SMT DEF TypeOK

(* A step of a call that stored its record or found it stored: the others  *)
(* keep what they have, since files are only ever added.                   *)
LEMMA ContinueKeeps ==
  ASSUME IInv, NEW t \in Threads, NEW k \in Kinds, NEW own \in Result,
         k = pc[t], own = work[t], Continue(t),
         \A n \in Kinds : files[n] \subseteq files'[n],
         \E f \in files'[k] : SameContent(k, f, own)
  PROVE  CallInv' /\ ReportedStored'
<1>0. "record" \in Kinds /\ "evidence" \in Kinds /\ "receipt" \in Kinds
  BY SMT DEF Kinds
<1>1. /\ files["record"] \subseteq files'["record"]
      /\ files["evidence"] \subseteq files'["evidence"]
      /\ files["receipt"] \subseteq files'["receipt"]
  BY <1>0
<1>2. CallInv'
  <2>. SUFFICES ASSUME NEW u \in Threads
                PROVE  /\ pc'[u] \in {"evidence", "receipt"} =>
                            \E f \in files'["record"] : SameContent("record", f, work'[u])
                       /\ pc'[u] = "receipt" =>
                            /\ work'[u].outcome \in Settled
                            /\ \E f \in files'["evidence"] : SameContent("evidence", f, work'[u])
    BY DEF CallInv, Stored
  <2>1. CASE u = t
    BY <1>1, <2>1, SMT DEF IInv, TypeOK, CallInv, Stored, Continue, After, Kinds
  <2>2. CASE u # t
    BY <1>1, <2>2, SMT DEF IInv, TypeOK, CallInv, Stored, Continue
  <2>. QED
    BY <2>1, <2>2
<1>3. ReportedStored'
  <2>. SUFFICES ASSUME NEW r \in reported'
                PROVE  /\ \E f \in files'["record"] : SameContent("record", f, r)
                       /\ \E f \in files'["evidence"] : SameContent("evidence", f, r)
                       /\ r.outcome \in Settled =>
                            \E f \in files'["receipt"] : SameContent("receipt", f, r)
    BY DEF ReportedStored, Stored
  <2>1. CASE r \in reported
    BY <1>1, <2>1, SMT DEF IInv, ReportedStored, Stored
  <2>2. CASE r = own /\ After(k, own) = "idle"
    BY <1>1, <2>2, SMT DEF IInv, CallInv, Stored, After, Kinds
  <2>. QED
    BY <2>1, <2>2, SMT DEF Continue
<1>. QED
  BY <1>2, <1>3

(* Every step keeps the invariant. *)
LEMMA StepIInv == IInv /\ [Next]_vars => IInv'
<1>. SUFFICES ASSUME IInv, [Next]_vars PROVE IInv'
  OBVIOUS
<1>. USE DEF IInv
<1>1. CASE Tick
  <2>1. TypeOK'
    BY <1>1, SMT DEF TypeOK, Tick
  <2>2. CallInv' /\ ReportedStored' /\ ReceiptHasEvidence'
    BY <1>1, Zenon DEF Tick, CallInv, ReportedStored, ReceiptHasEvidence, Stored
  <2>. QED
    BY <2>1, <2>2
<1>2. ASSUME NEW t \in Threads, NEW a \in Attempts, NEW p \in Providers, Reconcile(t, a, p)
      PROVE  IInv'
  <2>1. TypeOK'
    BY <1>2, SMT DEF TypeOK, Reconcile, Result, Kinds
  <2>2. CallInv'
    BY <1>2, SMT DEF TypeOK, Reconcile, CallInv, Stored
  <2>3. ReportedStored' /\ ReceiptHasEvidence'
    BY <1>2, Zenon DEF Reconcile, ReportedStored, ReceiptHasEvidence, Stored
  <2>. QED
    BY <2>1, <2>2, <2>3
<1>3. ASSUME NEW t \in Threads, Put(t)
      PROVE  IInv'
  <2>. PICK k \in Kinds : k = pc[t]
    BY <1>3 DEF Put
  <2>. PICK own \in Result : own = work[t]
    BY <1>3, SMT DEF Put, TypeOK, Kinds
  <2>1. files' \in [Kinds -> SUBSET Result]
    BY <1>3, SMT DEF Put, With, TypeOK
  <2>2. TypeOK'
    BY <1>3, <2>1, ContinueTypeOK DEF Put
  <2>3. (\A n \in Kinds : files[n] \subseteq files'[n]) /\ own \in files'[k]
    BY <1>3, SMT DEF Put, With, TypeOK
  <2>4. \E f \in files'[k] : SameContent(k, f, own)
    BY <2>3, SameAsItself
  <2>5. CallInv' /\ ReportedStored'
    BY <1>3, <2>3, <2>4, ContinueKeeps DEF Put
  <2>6. ReceiptHasEvidence'
    <3>. SUFFICES ASSUME NEW r \in files'["receipt"]
                  PROVE  /\ r.outcome \in Settled
                         /\ \E f \in files'["record"] : SameContent("record", f, r)
                         /\ \E f \in files'["evidence"] : SameContent("evidence", f, r)
      BY DEF ReceiptHasEvidence, Stored
    <3>1. files["record"] \subseteq files'["record"] /\ files["evidence"] \subseteq files'["evidence"]
      BY <2>3, SMT DEF Kinds
    <3>2. CASE r \in files["receipt"]
      BY <3>1, <3>2, SMT DEF ReceiptHasEvidence, Stored
    <3>3. CASE r = own /\ k = "receipt"
      <4>1. own.outcome \in Settled /\ Stored("record", own) /\ Stored("evidence", own)
        BY <3>3, Zenon DEF CallInv
      <4>. QED
        BY <3>1, <3>3, <4>1, SMT DEF Stored
    <3>. QED
      BY <1>3, <3>2, <3>3, SMT DEF Put, With, TypeOK, Kinds
  <2>. QED
    BY <2>2, <2>5, <2>6
<1>4. ASSUME NEW t \in Threads, PutAgain(t)
      PROVE  IInv'
  <2>. PICK k \in Kinds : k = pc[t]
    BY <1>4 DEF PutAgain
  <2>. PICK own \in Result : own = work[t]
    BY <1>4, SMT DEF PutAgain, TypeOK, Kinds
  <2>1. TypeOK'
    <3>1. files' \in [Kinds -> SUBSET Result]
      BY <1>4, SMT DEF PutAgain, TypeOK
    <3>. QED
      BY <1>4, <3>1, ContinueTypeOK DEF PutAgain
  <2>2. \E f \in files'[k] : SameContent(k, f, own)
    BY <1>4, Zenon DEF PutAgain, Stored
  <2>3. CallInv' /\ ReportedStored'
    BY <1>4, <2>2, ContinueKeeps, Zenon DEF PutAgain
  <2>4. ReceiptHasEvidence'
    BY <1>4, Zenon DEF PutAgain, ReceiptHasEvidence, Stored
  <2>. QED
    BY <2>1, <2>3, <2>4
<1>5. ASSUME NEW t \in Threads, PutConflict(t) \/ PutRefused(t) \/ WriteFails(t)
      PROVE  IInv'
  <2>1. /\ pc[t] \in Kinds /\ Leave(t)
        /\ UNCHANGED <<clock, adapter, files, reported>>
        /\ conflicts' \in {conflicts, conflicts \cup {work[t]}}
        /\ faults' \in {faults, faults + 1}
    BY <1>5, Zenon DEF PutConflict, PutRefused, WriteFails
  <2>2. TypeOK'
    BY <2>1, SMT DEF TypeOK, Leave, Kinds
  <2>3. CallInv'
    BY <2>1, SMT DEF TypeOK, Leave, CallInv, Stored
  <2>4. ReportedStored' /\ ReceiptHasEvidence'
    BY <2>1, Zenon DEF ReportedStored, ReceiptHasEvidence, Stored
  <2>. QED
    BY <2>2, <2>3, <2>4
<1>6. CASE Crash
  <2>1. TypeOK'
    BY <1>6, SMT DEF TypeOK, Crash, Kinds
  <2>2. CallInv'
    BY <1>6, SMT DEF Crash, CallInv
  <2>3. ReportedStored' /\ ReceiptHasEvidence'
    BY <1>6, Zenon DEF Crash, ReportedStored, ReceiptHasEvidence, Stored
  <2>. QED
    BY <2>1, <2>2, <2>3
<1>7. CASE UNCHANGED vars
  <2>1. TypeOK'
    BY <1>7, SMT DEF TypeOK, vars
  <2>2. CallInv' /\ ReportedStored' /\ ReceiptHasEvidence'
    BY <1>7, Zenon DEF vars, CallInv, ReportedStored, ReceiptHasEvidence, Stored
  <2>. QED
    BY <2>1, <2>2
<1>. QED
  BY <1>1, <1>2, <1>3, <1>4, <1>5, <1>6, <1>7 DEF Next

(* Files and locals keep their shape. *)
THEOREM TypeCorrect == Spec => []TypeOK
<1>1. IInv => TypeOK
  BY DEF IInv
<1>. QED
  BY InitIInv, StepIInv, <1>1, PTL DEF Spec

(* What reconcile() reported stays on record, through every interleaving,  *)
(* failed write and restart.                                               *)
THEOREM ReportedAlwaysStored == Spec => []ReportedStored
<1>1. IInv => ReportedStored
  BY DEF IInv
<1>. QED
  BY InitIInv, StepIInv, <1>1, PTL DEF Spec

(* A stored receipt always has its record and its evidence.                *)
THEOREM ReceiptAlwaysHasEvidence == Spec => []ReceiptHasEvidence
<1>1. IInv => ReceiptHasEvidence
  BY DEF IInv
<1>. QED
  BY InitIInv, StepIInv, <1>1, PTL DEF Spec
(* No answer and no receipt is half told.                                  *)
THEOREM RecordsAlwaysComplete == Spec => []RecordsComplete
  BY ReportedAlwaysStored, ReceiptAlwaysHasEvidence, PTL DEF RecordsComplete
=============================================================================
