---------------------- MODULE ApplicationFactory_proofs ----------------------
(***************************************************************************)
(* Proofs about ApplicationFactory: a bootstrapped run is complete and was  *)
(* approved, and a handoff says what is on the branch.                      *)
(***************************************************************************)
EXTENDS ApplicationFactory, FiniteSetTheorems, WellFoundedInduction, TLAPS

-----------------------------------------------------------------------------
(* Helpers. *)

(* The next worktree or lane of a command is one of those it has to handle. *)
LEMMA FirstIn ==
  ASSUME NEW S \in SUBSET Nat, S # {}
  PROVE  First(S) \in S
<1> DEFINE R == {p \in Nat \X Nat : p[1] < p[2]}
<1>2. R = OpToRel(<, Nat)
  BY Zenon DEF OpToRel
<1>3. IsWellFoundedOn(R, Nat)
  BY <1>2, NatLessThanWellFounded, Zenon
<1> HIDE DEF R
<1>4. PICK x \in S : \A y \in S : ~(<<y, x>> \in R)
  BY <1>3, WFMin, Zenon
<1>5. ASSUME NEW y \in S
      PROVE  x <= y
  <2>1. <<y, x>> \in Nat \X Nat /\ <<y, x>>[1] = y /\ <<y, x>>[2] = x
    OBVIOUS
  <2>2. ~(y < x)
    BY <1>4, <2>1, Zenon DEF R
  <2> QED
    BY <2>2
<1> QED
  BY <1>5 DEF First

\* What a caller holds after a step, and that nobody else's changes.
LEMMA WorkEffect ==
  ASSUME TypeOK, NEW c \in Callers, NEW step, NEW rec, NEW reply, NEW S, NEW ready,
         Work(c, step, rec, reply, S, ready)
  PROVE  /\ pc'[c] = step /\ copy'[c] = rec /\ answer'[c] = reply /\ todo'[c] = S
         /\ offer'[c] = ready
         /\ \A d \in Callers \ {c} :
               /\ pc'[d] = pc[d] /\ copy'[d] = copy[d] /\ answer'[d] = answer[d]
               /\ todo'[d] = todo[d] /\ offer'[d] = offer[d]
  BY DEF Work, TypeOK

WorkOK ==
  /\ pc \in [Callers -> Steps]
  /\ copy \in [Callers -> Records]
  /\ answer \in [Callers -> Answers]
  /\ todo \in [Callers -> SUBSET ({0} \cup Lanes \cup Reviews)]
  /\ offer \in [Callers -> Handoffs]

LEMMA WorkTypes ==
  ASSUME TypeOK, NEW c \in Callers, NEW step \in Steps, NEW rec \in Records,
         NEW reply \in Answers, NEW S \in SUBSET ({0} \cup Lanes \cup Reviews),
         NEW ready \in Handoffs, Work(c, step, rec, reply, S, ready)
  PROVE  WorkOK'
  BY DEF Work, WorkOK, TypeOK

LEMMA Empties ==
  /\ NoRecord \in Records /\ NoAnswer \in Answers /\ NoHandoff \in Handoffs
  /\ NoReview \in Candidates
<1>1. NoRecord \in Records
  BY DEF NoRecord, Records
<1>2. NoAnswer \in Answers
  BY DEF NoAnswer, Answers
<1>3. NoHandoff \in Handoffs
  BY DEF NoHandoff, Handoffs
<1>4. NoReview \in Candidates
  BY DEF NoReview, Candidates
<1> QED
  BY <1>1, <1>2, <1>3, <1>4

LEMMA ReturnTypes ==
  ASSUME TypeOK, NEW c \in Callers, Return(c)
  PROVE  WorkOK'
<1>1. None \in Steps
  BY DEF Steps
<1> QED
  BY <1>1, Empties, WorkTypes DEF Return, Goto

LEMMA ProceedTypes ==
  ASSUME TypeOK, NEW c \in Callers, NEW step \in Steps,
         NEW S \in SUBSET ({0} \cup Lanes \cup Reviews), Proceed(c, step, S)
  PROVE  WorkOK'
<1>1. copy[c] \in Records /\ answer[c] \in Answers /\ offer[c] \in Handoffs
  BY DEF TypeOK
<1> QED
  BY <1>1, WorkTypes DEF Proceed, Goto

LEMMA BeginTypes ==
  ASSUME TypeOK, NEW c \in Callers, NEW step \in Steps, NEW rec \in Records,
         NEW reply \in Answers, NEW S \in SUBSET ({0} \cup Lanes \cup Reviews),
         Begin(c, step, rec, reply, S)
  PROVE  WorkOK' /\ overlap' \in 0 .. OverlapBound
<1>1. WorkOK'
  BY Empties, WorkTypes DEF Begin
<1>2. overlap' \in Nat /\ overlap' <= OverlapBound /\ OverlapBound \in Nat
  BY FactoryAssumption DEF Begin, TypeOK
<1> QED
  BY <1>1, <1>2

\* Records are kept or rebuilt from the fields of other records.
LEMMA RecordFields ==
  /\ \A r \in Records : /\ r.state \in {None, "pending", "blocked"}
                        /\ r.policy \in Policies \cup {None}
                        /\ r.bootstrap \in BOOLEAN
                        /\ r.superseded \in SUBSET Commits
  /\ \A s \in {None, "pending", "blocked"}, p \in Policies \cup {None}, b \in BOOLEAN,
        S \in SUBSET Commits :
        [state |-> s, policy |-> p, bootstrap |-> b, superseded |-> S] \in Records
<1>1. \A r \in Records : /\ r.state \in {None, "pending", "blocked"}
                         /\ r.policy \in Policies \cup {None}
                         /\ r.bootstrap \in BOOLEAN
                         /\ r.superseded \in SUBSET Commits
  BY Zenon DEF Records
<1>2. ASSUME NEW s \in {None, "pending", "blocked"}, NEW p \in Policies \cup {None},
             NEW b \in BOOLEAN, NEW S \in SUBSET Commits
      PROVE  [state |-> s, policy |-> p, bootstrap |-> b, superseded |-> S] \in Records
  BY Zenon DEF Records
<1> QED
  BY <1>1, <1>2

-----------------------------------------------------------------------------
(* The inductive invariant behind the handoff: what every step holds.       *)

\* One accepted, sound candidate of every lane.
OneOfEach(S) ==
  /\ \A l \in Lanes : \E k \in S : LaneOf[k] = l
  /\ \A k, x \in S : LaneOf[k] = LaneOf[x] => k = x
  /\ \A k \in S : /\ k \in Sound
                  /\ \E i \in Reviews : reviews[i] = [commit |-> k, decision |-> "accept"]

Integrated(S) == sealed /\ S \subseteq picks /\ OneOfEach(S)

HeldBy(c) ==
  /\ pc[c] = "approve" =>
       answer[c].id \in Approvals /\ answer[c].decision \in {"approve", "reject"}
  /\ pc[c] \in {"supersede", "review"} =>
       /\ answer[c].id \in Reviews /\ answer[c].commit \in Commits
       /\ answer[c].decision \in {"accept", "rework"}
       /\ answer[c].decision = "accept" => answer[c].commit \in Sound
  /\ pc[c] = "worktrees" => todo[c] \subseteq {0} \cup Lanes
  /\ pc[c] = "integrate" =>
       /\ todo[c] \subseteq Reviews
       /\ \A i \in todo[c] : reviews[i] # NoReview
  /\ pc[c] = "pick" =>
       /\ todo[c] \subseteq Lanes
       /\ OneOfEach(offer[c].refs)
       /\ \A k \in offer[c].refs : LaneOf[k] \notin todo[c] => k \in picks
  /\ pc[c] = "handoff" /\ offer[c].status \in {"success", "failed"} => Integrated(offer[c].refs)

Reviewed ==
  \A i \in Reviews : reviews[i] # NoReview =>
     /\ reviews[i].commit \in Commits
     /\ reviews[i].decision = "accept" => reviews[i].commit \in Sound

HeldInv ==
  /\ \A c \in Callers : HeldBy(c)
  /\ Reviewed
  /\ handoff.status \in {"success", "failed"} => Integrated(handoff.refs)

LEMMA AcceptedRecord ==
  ASSUME NEW r \in Candidates, r.decision = "accept"
  PROVE  r = [commit |-> r.commit, decision |-> "accept"]
  BY DEF Candidates

\* The candidate that a lane's turn picks.
LEMMA PickIn ==
  ASSUME TypeOK, NEW c \in Callers, HeldBy(c), Pick(c)
  PROVE  LET l == First(todo[c])
             k == CHOOSE x \in offer[c].refs : LaneOf[x] = l
         IN  /\ l \in todo[c] /\ l \in Lanes
             /\ k \in offer[c].refs /\ k \in Commits /\ LaneOf[k] = l
<1>1. todo[c] \in SUBSET Lanes /\ todo[c] # {} /\ OneOfEach(offer[c].refs)
  BY DEF Pick, At, HeldBy
<1>2. Lanes \subseteq Nat
  BY FactoryAssumption DEF Lanes
<1>3. First(todo[c]) \in todo[c]
  BY <1>1, <1>2, FirstIn
<1>4. \E x \in offer[c].refs : LaneOf[x] = First(todo[c])
  BY <1>1, <1>3 DEF OneOfEach
<1>5. offer[c].refs \subseteq Commits
  BY DEF TypeOK, Handoffs
<1> QED
  BY <1>1, <1>3, <1>4, <1>5

-----------------------------------------------------------------------------
(* Types. *)

LEMMA TypeInit == Init => TypeOK /\ HeldInv
<1> SUFFICES ASSUME Init
             PROVE  TypeOK /\ HeldInv
  OBVIOUS
<1>1. WorkOK
  BY Empties DEF Init, WorkOK, Steps
<1>2. HeldInv
  BY DEF Init, HeldInv, HeldBy, Reviewed, NoHandoff, None
<1>3. overlap \in 0 .. OverlapBound
  BY FactoryAssumption DEF Init
<1>4. /\ record \in Records /\ policyFile \in Policies \cup {None} /\ handoff \in Handoffs
      /\ reviews \in [Reviews -> Candidates]
  BY Empties DEF Init
<1>5. /\ unmet \in BOOLEAN
      /\ approvals \in [Approvals -> {None, "approve", "reject"}]
      /\ subjects \in [Approvals -> Policies \cup {None}]
      /\ results \in [Lanes -> Commits \cup {None}]
      /\ latest \in [Lanes -> Commits \cup {None}]
      /\ repository \in {"absent", "files", "committed"}
      /\ root \in BOOLEAN /\ worktrees \subseteq {0} \cup Lanes /\ agentPlan \in BOOLEAN
      /\ picks \subseteq Commits /\ sealed \in BOOLEAN /\ dirty \in BOOLEAN
  BY DEF Init
<1> QED
  BY <1>1, <1>2, <1>3, <1>4, <1>5 DEF TypeOK, WorkOK

LEMMA CommandTypes ==
  ASSUME TypeOK, HeldInv, NEW c \in Callers, Command(c)
  PROVE  TypeOK'
<1> USE DEF lifecycle, decisions, files, branch
<1>0. {"plan", "approve", "materialize", "integrate", "supersede", "review"} \subseteq Steps
  BY DEF Steps
<1>1. CASE Plan(c)
  <2>1. \A p \in Policies : Planned("pending", p) \in Records
    BY RecordFields, Zenon DEF Planned
  <2>2. Planned("blocked", None) \in Records
    BY RecordFields, Zenon DEF Planned
  <2>3. WorkOK' /\ overlap' \in 0 .. OverlapBound
    <3>1. ASSUME NEW p \in Policies, Begin(c, "plan", Planned("pending", p), NoAnswer, {})
          PROVE  WorkOK' /\ overlap' \in 0 .. OverlapBound
      BY <1>0, <2>1, <3>1, Empties, BeginTypes
    <3>2. CASE Begin(c, "plan", Planned("blocked", None), NoAnswer, {})
      BY <1>0, <2>2, <3>2, Empties, BeginTypes
    <3> QED
      BY <1>1, <3>1, <3>2 DEF Plan
  <2>4. policyFile' \in Policies \cup {None} /\ unmet' \in BOOLEAN
    BY <1>1 DEF Plan, TypeOK
  <2> QED
    BY <1>1, <2>3, <2>4 DEF Plan, TypeOK, WorkOK
<1>2. CASE Bootstrap(c) \/ Integrate(c)
  <2>1. record \in Records /\ Current \in SUBSET ({0} \cup Lanes \cup Reviews)
    BY DEF TypeOK, Current
  <2>2. WorkOK' /\ overlap' \in 0 .. OverlapBound
    BY <1>0, <1>2, <2>1, Empties, BeginTypes DEF Bootstrap, Integrate
  <2> QED
    BY <1>2, <2>2 DEF Bootstrap, Integrate, TypeOK, WorkOK
<1>3. ASSUME NEW i \in Approvals, NEW d \in {"approve", "reject"}, Approve(c, i, d)
      PROVE  TypeOK'
  <2>1. [id |-> i, commit |-> None, decision |-> d] \in Answers
    BY DEF Answers
  <2>2. WorkOK' /\ overlap' \in 0 .. OverlapBound
    BY <1>0, <1>3, <2>1, Empties, BeginTypes DEF Approve, TypeOK
  <2> QED
    BY <1>3, <2>2 DEF Approve, TypeOK, WorkOK
<1>4. ASSUME NEW i \in Reviews, NEW k \in Commits, NEW d \in {"accept", "rework"},
             Review(c, i, k, d)
      PROVE  TypeOK'
  <2> DEFINE sup == record.superseded \cup Superseding(LaneOf[k], k)
             step == IF sup = record.superseded THEN "review" ELSE "supersede"
             rec == [state |-> record.state, policy |-> record.policy,
                     bootstrap |-> record.bootstrap, superseded |-> sup]
  <2>1. [id |-> i, commit |-> k, decision |-> d] \in Answers
    BY DEF Answers
  <2>2. record \in Records
    BY DEF TypeOK
  <2>3. Superseding(LaneOf[k], k) \subseteq Commits
    <3>1. \A n \in Reviews : reviews[n] # NoReview => reviews[n].commit \in Commits
      BY DEF HeldInv, Reviewed
    <3> QED
      BY <3>1 DEF Superseding, ReviewsOf
  <2>4. rec \in Records
    <3> HIDE DEF sup
    <3>1. sup \in SUBSET Commits
      BY <2>2, <2>3, RecordFields DEF sup
    <3> QED
      BY <2>2, <3>1, RecordFields, Zenon
  <2>5. step \in Steps
    BY <1>0
  <2>6. Begin(c, step, rec, [id |-> i, commit |-> k, decision |-> d], {})
    BY <1>4, Zenon DEF Review
  <2> HIDE DEF step, rec
  <2>7. WorkOK' /\ overlap' \in 0 .. OverlapBound
    BY <2>1, <2>4, <2>5, <2>6, BeginTypes
  <2> QED
    BY <1>4, <2>7 DEF Review, TypeOK, WorkOK
<1> QED
  BY <1>1, <1>2, <1>3, <1>4 DEF Command

LEMMA StepTypes ==
  ASSUME TypeOK, HeldInv, NEW c \in Callers, CommandStep(c) \/ Crash(c)
  PROVE  TypeOK'
<1> USE DEF lifecycle, decisions, files, branch
<1>0. {"create", "base", "root", "worktrees", "bootstrapped", "review", "pick", "handoff"} \subseteq Steps
  BY DEF Steps
<1>9. /\ todo[c] \in SUBSET ({0} \cup Lanes \cup Reviews)
      /\ copy[c] \in Records /\ record \in Records /\ offer[c] \in Handoffs
      /\ answer[c] \in Answers
  BY DEF TypeOK
<1>1. CASE TestPlan(c) \/ WritePlan(c)
  <2>1. WorkOK'
    BY <1>0, <1>1, ReturnTypes, ProceedTypes DEF TestPlan, WritePlan
  <2>2. overlap' = overlap /\ record' \in Records
    BY <1>1, <1>9 DEF TestPlan, WritePlan, Return, Proceed, Goto
  <2> QED
    BY <1>1, <2>1, <2>2 DEF TestPlan, WritePlan, TypeOK, WorkOK
<1>2. CASE RecordApproval(c)
  <2>1. WorkOK'
    BY <1>2, ReturnTypes DEF RecordApproval
  <2>2. /\ approvals' \in [Approvals -> {None, "approve", "reject"}]
        /\ subjects' \in [Approvals -> Policies \cup {None}]
    <3>1. copy[c].policy \in Policies \cup {None}
      BY <1>9, RecordFields
    <3> QED
      BY <1>2, <3>1 DEF RecordApproval, At, HeldInv, HeldBy, TypeOK
  <2> QED
    BY <1>2, <2>1, <2>2 DEF RecordApproval, Return, Goto, TypeOK, WorkOK
<1>3. CASE Materialize(c) \/ InitializeBase(c) \/ MakeRoot(c) \/ BindAgents(c)
  <2>1. WorkOK'
    BY <1>0, <1>3, ReturnTypes, ProceedTypes DEF Materialize, InitializeBase, MakeRoot, BindAgents
  <2>2. overlap' = overlap
    BY <1>3 DEF Materialize, InitializeBase, MakeRoot, BindAgents, Return, Proceed, Goto
  <2> QED
    BY <1>3, <2>1, <2>2
    DEF Materialize, InitializeBase, MakeRoot, BindAgents, TypeOK, WorkOK
<1>4. CASE AddWorktree(c)
  <2>1. First(todo[c]) \in todo[c] /\ First(todo[c]) \in {0} \cup Lanes
    <3>1. todo[c] \in SUBSET ({0} \cup Lanes) /\ todo[c] # {}
      BY <1>4 DEF AddWorktree, At, HeldInv, HeldBy
    <3>2. {0} \cup Lanes \subseteq Nat
      BY FactoryAssumption DEF Lanes
    <3> QED
      BY <3>1, <3>2, FirstIn
  <2>2. WorkOK'
    BY <1>0, <1>4, <1>9, ReturnTypes, ProceedTypes DEF AddWorktree
  <2>3. overlap' = overlap
    BY <1>4 DEF AddWorktree, Return, Proceed, Goto
  <2> QED
    BY <1>4, <2>1, <2>2, <2>3 DEF AddWorktree, TypeOK, WorkOK
<1>5. CASE WriteBootstrap(c)
  <2>1. WorkOK'
    BY <1>5, ReturnTypes DEF WriteBootstrap
  <2>2. record' \in Records
    BY <1>5, <1>9, RecordFields, Zenon DEF WriteBootstrap
  <2> QED
    BY <1>5, <2>1, <2>2 DEF WriteBootstrap, Return, Goto, TypeOK, WorkOK
<1>6. CASE WriteSuperseded(c)
  <2>1. WorkOK'
    BY <1>0, <1>6, ProceedTypes DEF WriteSuperseded
  <2> QED
    BY <1>6, <1>9, <2>1 DEF WriteSuperseded, Proceed, Goto, TypeOK, WorkOK
<1>7. CASE RecordReview(c)
  <2>1. WorkOK'
    BY <1>7, ReturnTypes DEF RecordReview
  <2>2. /\ answer[c].id \in Reviews /\ answer[c].commit \in Commits
        /\ answer[c].decision \in {"accept", "rework"}
    BY <1>7 DEF RecordReview, At, HeldInv, HeldBy
  <2>3. [commit |-> answer[c].commit, decision |-> answer[c].decision] \in Candidates
    BY <2>2 DEF Candidates
  <2>4. reviews' \in [Reviews -> Candidates] /\ latest' \in [Lanes -> Commits \cup {None}]
    BY <1>7, <2>2, <2>3, FactoryAssumption DEF RecordReview, TypeOK
  <2> QED
    BY <1>7, <2>1, <2>4 DEF RecordReview, Return, Goto, TypeOK, WorkOK
<1>8. CASE CheckIntegration(c) \/ Seal(c)
  <2>1. ASSUME NEW s \in {None, "blocked", "success", "failed"}, NEW S \in SUBSET Commits
        PROVE  [status |-> s, refs |-> S] \in Handoffs
    BY DEF Handoffs
  <2>2. offer[c].refs \in SUBSET Commits
    BY <1>9 DEF Handoffs
  <2>3. CASE CheckIntegration(c)
    <3>1. CASE Goto(c, "pick", NoRecord, NoAnswer, Lanes,
                     [status |-> None, refs |-> {reviews[i].commit : i \in todo[c]}])
               /\ Applicable(todo[c], copy[c].superseded)
      <4>1. {reviews[i].commit : i \in todo[c]} \in SUBSET Commits
        BY <3>1, FactoryAssumption DEF Applicable
      <4>2. [status |-> None, refs |-> {reviews[i].commit : i \in todo[c]}] \in Handoffs
        BY <2>1, <4>1
      <4>3. WorkOK' /\ overlap' = overlap
        BY <1>0, <3>1, <4>2, Empties, WorkTypes DEF Goto
      <4> QED
        BY <2>3, <4>3 DEF CheckIntegration, TypeOK, WorkOK
    <3>2. CASE Goto(c, "handoff", NoRecord, NoAnswer, {}, [status |-> "blocked", refs |-> {}])
      <4>1. [status |-> "blocked", refs |-> {}] \in Handoffs
        BY <2>1
      <4>2. WorkOK' /\ overlap' = overlap
        BY <1>0, <3>2, <4>1, Empties, WorkTypes DEF Goto
      <4> QED
        BY <2>3, <4>2 DEF CheckIntegration, TypeOK, WorkOK
    <3>3. CASE Return(c)
      <4>1. WorkOK' /\ overlap' = overlap
        BY <3>3, ReturnTypes DEF Return, Goto
      <4> QED
        BY <2>3, <4>1 DEF CheckIntegration, TypeOK, WorkOK
    <3> QED
      BY <2>3, <3>1, <3>2, <3>3 DEF CheckIntegration
  <2>4. CASE Seal(c)
    <3>1. PICK s \in {"success", "failed"} :
            Goto(c, "handoff", NoRecord, NoAnswer, {}, [status |-> s, refs |-> offer[c].refs])
      BY <2>4 DEF Seal
    <3>2. [status |-> s, refs |-> offer[c].refs] \in Handoffs
      BY <2>1, <2>2
    <3>3. WorkOK' /\ overlap' = overlap
      BY <1>0, <3>1, <3>2, Empties, WorkTypes DEF Goto
    <3> QED
      BY <2>4, <3>3 DEF Seal, TypeOK, WorkOK
  <2> QED
    BY <1>8, <2>3, <2>4
<1>10. CASE Pick(c)
  <2>1. WorkOK'
    BY <1>0, <1>9, <1>10, ReturnTypes, ProceedTypes DEF Pick
  <2>2. overlap' = overlap
    BY <1>10 DEF Pick, Return, Proceed, Goto
  <2>3. picks' \subseteq Commits
    BY <1>10, PickIn DEF Pick, HeldInv, TypeOK
  <2>4. dirty' \in BOOLEAN
    BY <1>10 DEF Pick, TypeOK
  <2> QED
    BY <1>10, <2>1, <2>2, <2>3, <2>4 DEF Pick, TypeOK, WorkOK
<1>11. CASE RecordHandoff(c) \/ Crash(c)
  <2>1. WorkOK'
    BY <1>11, ReturnTypes DEF RecordHandoff, Crash
  <2> QED
    BY <1>9, <1>11, <2>1 DEF RecordHandoff, Crash, Return, Goto, TypeOK, WorkOK
<1> QED
  BY <1>1, <1>2, <1>3, <1>4, <1>5, <1>6, <1>7, <1>8, <1>10, <1>11 DEF CommandStep

LEMMA TypeStep == TypeOK /\ HeldInv /\ [Next]_vars => TypeOK'
<1> SUFFICES ASSUME TypeOK, HeldInv, [Next]_vars
             PROVE  TypeOK'
  OBVIOUS
<1>1. ASSUME NEW k \in Commits, Candidate(k)
      PROVE  TypeOK'
  BY <1>1, FactoryAssumption
  DEF Candidate, TypeOK, lifecycle, decisions, files, branch, job, history
<1>2. CASE UNCHANGED vars
  BY <1>2 DEF vars, lifecycle, decisions, files, branch, job, history, TypeOK
<1> QED
  BY <1>1, <1>2, CommandTypes, StepTypes DEF Next

-----------------------------------------------------------------------------
(* What is reviewed, picked and sealed stays so. *)

Grows ==
  /\ \A i \in Reviews : reviews[i] # NoReview => reviews'[i] = reviews[i]
  /\ picks \subseteq picks'
  /\ sealed => sealed'

LEMMA StepGrows == TypeOK /\ HeldInv /\ [Next]_vars => Grows
<1> SUFFICES ASSUME TypeOK, HeldInv, [Next]_vars
             PROVE  Grows
  OBVIOUS
<1> USE DEF lifecycle, decisions, files, branch
<1>1. ASSUME NEW c \in Callers, RecordReview(c)
      PROVE  Grows
  BY <1>1 DEF RecordReview, Grows, TypeOK
<1>2. ASSUME NEW c \in Callers, Pick(c) \/ Seal(c)
      PROVE  Grows
  <2>1. reviews' = reviews /\ picks \subseteq picks'
    BY <1>2 DEF Pick, Seal
  <2>2. sealed => sealed'
    <3>1. CASE Pick(c)
      BY <3>1 DEF Pick
    <3>2. CASE Seal(c)
      BY <3>2 DEF Seal
    <3> QED
      BY <1>2, <3>1, <3>2
  <2> QED
    BY <2>1, <2>2, Zenon DEF Grows
<1>3. CASE UNCHANGED <<reviews, picks, sealed>>
  BY <1>3 DEF Grows
<1> QED
  BY <1>1, <1>2, <1>3
  DEF Next, CommandStep, Command, vars, TestPlan, WritePlan, RecordApproval, Materialize,
      InitializeBase, MakeRoot, AddWorktree, BindAgents, WriteBootstrap, WriteSuperseded, CheckIntegration,
      RecordHandoff, Plan, Bootstrap, Integrate, Approve, Review, Crash, Candidate

LEMMA EachKept ==
  ASSUME Grows, NEW S, OneOfEach(S)
  PROVE  OneOfEach(S)'
<1>1. \A k : [commit |-> k, decision |-> "accept"] # NoReview
  BY DEF NoReview, None
<1> QED
  BY <1>1 DEF OneOfEach, Grows

LEMMA IntegratedKept ==
  ASSUME Grows, NEW S, Integrated(S)
  PROVE  Integrated(S)'
  BY EachKept DEF Integrated, Grows

\* A command that does not move keeps what it holds.
LEMMA HeldKept ==
  ASSUME HeldInv, Grows, NEW d \in Callers,
         pc'[d] = pc[d], answer'[d] = answer[d], todo'[d] = todo[d], offer'[d] = offer[d]
  PROVE  HeldBy(d)'
<1>1. HeldBy(d)
  BY DEF HeldInv
<1>2. pc[d] = "integrate" => \A i \in todo[d] : reviews'[i] = reviews[i]
  BY <1>1 DEF HeldBy, Grows
<1>3. pc[d] = "pick" => OneOfEach(offer[d].refs)' /\ picks \subseteq picks'
  <2>1. PICK S : S = offer[d].refs /\ S = offer'[d].refs
    OBVIOUS
  <2>2. pc[d] = "pick" => OneOfEach(S)'
    BY <1>1, <2>1, EachKept DEF HeldBy
  <2> QED
    BY <2>1, <2>2 DEF Grows, OneOfEach
<1>4. pc[d] = "handoff" /\ offer[d].status \in {"success", "failed"}
        => Integrated(offer[d].refs)'
  <2>1. PICK S : S = offer[d].refs /\ S = offer'[d].refs
    OBVIOUS
  <2>2. pc[d] = "handoff" /\ offer[d].status \in {"success", "failed"} => Integrated(S)'
    BY <1>1, <2>1, IntegratedKept DEF HeldBy
  <2> QED
    BY <2>1, <2>2 DEF Integrated, OneOfEach
<1> QED
  BY <1>1, <1>2, <1>3, <1>4 DEF HeldBy, OneOfEach, Integrated

LEMMA OthersHeld ==
  ASSUME TypeOK, HeldInv, Grows, NEW c \in Callers, NEW step, NEW rec, NEW reply, NEW S,
         NEW ready, Work(c, step, rec, reply, S, ready)
  PROVE  \A d \in Callers \ {c} : HeldBy(d)'
  BY WorkEffect, HeldKept

\* A command that returned, or that holds nothing special at its step.
LEMMA FreeHeld ==
  ASSUME NEW c \in Callers,
         pc'[c] \notin {"approve", "supersede", "review", "worktrees", "integrate", "pick",
                        "handoff"}
  PROVE  HeldBy(c)'
  BY DEF HeldBy

LEMMA HandoffKept ==
  ASSUME HeldInv, Grows, handoff' = handoff
  PROVE  (handoff.status \in {"success", "failed"} => Integrated(handoff.refs))'
  BY IntegratedKept DEF HeldInv, Integrated, OneOfEach

LEMMA HeldStep == TypeOK /\ HeldInv /\ [Next]_vars => HeldInv'
<1> SUFFICES ASSUME TypeOK, HeldInv, [Next]_vars
             PROVE  HeldInv'
  OBVIOUS
<1> USE DEF lifecycle, decisions, files, branch
<1>0. Grows
  BY StepGrows
\* Steps that touch neither the reviews nor the handoff.
<1>1. ASSUME NEW c \in Callers, NEW step, NEW rec, NEW reply, NEW S, NEW ready,
             Work(c, step, rec, reply, S, ready), HeldBy(c)', UNCHANGED <<reviews, handoff>>
      PROVE  HeldInv'
  <2>1. Reviewed'
    BY <1>1 DEF HeldInv, Reviewed
  <2> QED
    BY <1>0, <1>1, <2>1, OthersHeld, HandoffKept DEF HeldInv
<1>2. ASSUME NEW c \in Callers, NEW step, NEW rec, NEW reply, NEW S, NEW ready,
             Work(c, step, rec, reply, S, ready), UNCHANGED <<reviews, handoff>>,
             step \notin {"approve", "supersede", "review", "worktrees", "integrate", "pick",
                          "handoff"}
      PROVE  HeldInv'
  BY <1>1, <1>2, WorkEffect, FreeHeld
<1>3. ASSUME NEW c \in Callers,
             Plan(c) \/ Bootstrap(c) \/ TestPlan(c) \/ WritePlan(c) \/ RecordApproval(c)
               \/ Materialize(c) \/ InitializeBase(c) \/ BindAgents(c) \/ WriteBootstrap(c) \/ Crash(c)
      PROVE  HeldInv'
  <2>1. PICK step, rec, reply, S, ready :
          /\ Work(c, step, rec, reply, S, ready)
          /\ step \in {None, "plan", "create", "materialize", "base", "root", "bootstrapped"}
    BY <1>3 DEF Plan, Bootstrap, TestPlan, WritePlan, RecordApproval, Materialize,
                InitializeBase, BindAgents, WriteBootstrap, Crash, Begin, Return, Proceed, Goto
  <2>2. UNCHANGED <<reviews, handoff>>
    BY <1>3 DEF Plan, Bootstrap, TestPlan, WritePlan, RecordApproval, Materialize,
                InitializeBase, BindAgents, WriteBootstrap, Crash
  <2> QED
    BY <1>2, <2>1, <2>2 DEF None
<1>4. ASSUME NEW c \in Callers, MakeRoot(c) \/ AddWorktree(c)
      PROVE  HeldInv'
  <2>1. CASE Return(c)
    BY <1>2, <1>4, <2>1 DEF Return, Goto, MakeRoot, AddWorktree, None
  <2>2. ASSUME NEW S, Proceed(c, "worktrees", S), S \subseteq {0} \cup Lanes
        PROVE  HeldInv'
    <3>1. HeldBy(c)'
      <4>1. pc'[c] = "worktrees" /\ todo'[c] = S
        BY <2>2, WorkEffect DEF Proceed, Goto
      <4> QED
        BY <2>2, <4>1 DEF HeldBy
    <3> QED
      BY <1>1, <1>4, <2>2, <3>1 DEF Proceed, Goto, MakeRoot, AddWorktree
  <2>3. CASE MakeRoot(c)
    BY <2>2, <2>3 DEF MakeRoot
  <2>4. CASE AddWorktree(c)
    <3>1. todo[c] \subseteq {0} \cup Lanes
      BY <2>4 DEF AddWorktree, At, HeldInv, HeldBy
    <3> QED
      BY <2>1, <2>2, <2>4, <3>1 DEF AddWorktree
  <2> QED
    BY <1>4, <2>3, <2>4
<1>5. ASSUME NEW c \in Callers, NEW i \in Approvals, NEW d \in {"approve", "reject"},
             Approve(c, i, d)
      PROVE  HeldInv'
  <2>1. Work(c, "approve", record, [id |-> i, commit |-> None, decision |-> d], {}, NoHandoff)
    BY <1>5 DEF Approve, Begin
  <2>2. HeldBy(c)'
    BY <2>1, WorkEffect DEF HeldBy
  <2> QED
    BY <1>1, <1>5, <2>1, <2>2 DEF Approve
<1>6. ASSUME NEW c \in Callers, NEW i \in Reviews, NEW k \in Commits,
             NEW d \in {"accept", "rework"}, Review(c, i, k, d)
      PROVE  HeldInv'
  <2>1. PICK step, rec :
          /\ step \in {"supersede", "review"}
          /\ Work(c, step, rec, [id |-> i, commit |-> k, decision |-> d], {}, NoHandoff)
    BY <1>6 DEF Review, Begin
  <2>2. HeldBy(c)'
    BY <1>6, <2>1, WorkEffect DEF Review, HeldBy
  <2> QED
    BY <1>1, <1>6, <2>1, <2>2 DEF Review
<1>7. ASSUME NEW c \in Callers, WriteSuperseded(c)
      PROVE  HeldInv'
  <2>1. Work(c, "review", copy[c], answer[c], {}, offer[c])
    BY <1>7 DEF WriteSuperseded, Proceed, Goto
  <2>2. HeldBy(c)'
    BY <1>7, <2>1, WorkEffect DEF WriteSuperseded, At, HeldInv, HeldBy
  <2> QED
    BY <1>1, <1>7, <2>1, <2>2 DEF WriteSuperseded
<1>8. ASSUME NEW c \in Callers, RecordReview(c)
      PROVE  HeldInv'
  <2>1. Work(c, None, NoRecord, NoAnswer, {}, NoHandoff) /\ handoff' = handoff
    BY <1>8 DEF RecordReview, Return, Goto
  <2>2. HeldBy(c)'
    BY <2>1, WorkEffect, FreeHeld DEF None
  <2>3. /\ answer[c].id \in Reviews /\ answer[c].commit \in Commits
        /\ answer[c].decision = "accept" => answer[c].commit \in Sound
    BY <1>8 DEF RecordReview, At, HeldInv, HeldBy
  <2>4. Reviewed'
    <3>1. CASE UNCHANGED reviews
      BY <3>1 DEF HeldInv, Reviewed
    <3>2. CASE reviews' = [reviews EXCEPT ![answer[c].id] =
                             [commit |-> answer[c].commit, decision |-> answer[c].decision]]
      BY <2>3, <3>2 DEF HeldInv, Reviewed, TypeOK
    <3> QED
      BY <1>8, <3>1, <3>2 DEF RecordReview
  <2> QED
    BY <1>0, <2>1, <2>2, <2>4, OthersHeld, HandoffKept DEF HeldInv
<1>9. ASSUME NEW c \in Callers, Integrate(c)
      PROVE  HeldInv'
  <2>1. Work(c, "integrate", record, NoAnswer, Current, NoHandoff) /\ UNCHANGED reviews
    BY <1>9 DEF Integrate, Begin
  <2>2. /\ Current \subseteq Reviews
        /\ \A i \in Current : reviews[i] # NoReview
    BY DEF Current
  <2> HIDE DEF Current
  <2>3. HeldBy(c)'
    BY <2>1, <2>2, WorkEffect DEF HeldBy
  <2> QED
    BY <1>1, <1>9, <2>1, <2>3 DEF Integrate
<1>10. ASSUME NEW c \in Callers, CheckIntegration(c)
      PROVE  HeldInv'
  <2> DEFINE S == todo[c]
             refs == {reviews[i].commit : i \in S}
  <2>1. /\ S \subseteq Reviews /\ \A i \in S : reviews[i] # NoReview
    BY <1>10 DEF CheckIntegration, At, HeldInv, HeldBy
  <2>2. CASE /\ ~Ambiguous(S) /\ Applicable(S, copy[c].superseded)
             /\ Goto(c, "pick", NoRecord, NoAnswer, Lanes, [status |-> None, refs |-> refs])
    <3>1. \A i \in S : reviews[i].decision = "accept"
      BY <2>2 DEF Applicable, Rejected
    <3>2. \A i \in S : reviews[i] = [commit |-> reviews[i].commit, decision |-> "accept"]
      BY <2>1, <3>1, Zenon, AcceptedRecord DEF TypeOK
    <3>3. OneOfEach(refs)
      <4>1. \A l \in Lanes : \E k \in refs : LaneOf[k] = l
        BY <2>2 DEF Applicable
      <4>2. \A k, x \in refs : LaneOf[k] = LaneOf[x] => k = x
        BY <2>2 DEF Ambiguous
      <4>3. ASSUME NEW k \in refs
            PROVE  k \in Sound /\ \E i \in Reviews : reviews[i] = [commit |-> k, decision |-> "accept"]
        <5>1. PICK i \in S : k = reviews[i].commit
          OBVIOUS
        <5>2. k \in Sound
          BY <2>1, <3>1, <5>1 DEF HeldInv, Reviewed
        <5>3. reviews[i] = [commit |-> k, decision |-> "accept"]
          BY <3>2, <5>1
        <5> QED
          BY <2>1, <5>2, <5>3
      <4> QED
        BY <4>1, <4>2, <4>3 DEF OneOfEach
    <3>4. Work(c, "pick", NoRecord, NoAnswer, Lanes, [status |-> None, refs |-> refs])
      BY <2>2 DEF Goto
    <3>5. \A k \in refs : LaneOf[k] \in Lanes
      BY <2>2 DEF Applicable
    <3>6. HeldBy(c)'
      <4>1. /\ pc'[c] = "pick" /\ todo'[c] = Lanes /\ offer'[c].refs = refs
        BY <3>4, WorkEffect
      <4>2. OneOfEach(offer[c].refs)'
        BY <1>10, <3>3, <4>1 DEF OneOfEach, CheckIntegration
      <4> HIDE DEF refs
      <4> QED
        BY <3>5, <4>1, <4>2 DEF HeldBy
    <3> HIDE DEF refs
    <3> QED
      BY <1>1, <1>10, <3>4, <3>6 DEF CheckIntegration
  <2>3. CASE Goto(c, "handoff", NoRecord, NoAnswer, {}, [status |-> "blocked", refs |-> {}])
    <3>1. Work(c, "handoff", NoRecord, NoAnswer, {}, [status |-> "blocked", refs |-> {}])
      BY <2>3 DEF Goto
    <3>2. HeldBy(c)'
      BY <3>1, WorkEffect DEF HeldBy
    <3> QED
      BY <1>1, <1>10, <3>1, <3>2 DEF CheckIntegration
  <2>4. CASE Return(c)
    BY <1>2, <1>10, <2>4 DEF CheckIntegration, Return, Goto, None
  <2> QED
    BY <1>10, <2>2, <2>3, <2>4 DEF CheckIntegration
<1>11. ASSUME NEW c \in Callers, Pick(c)
      PROVE  HeldInv'
  <2> DEFINE l == First(todo[c])
             k == CHOOSE x \in offer[c].refs : LaneOf[x] = l
  <2>1. HeldBy(c) /\ pc[c] = "pick"
    BY <1>11 DEF HeldInv, Pick, At
  <2>2. l \in todo[c] /\ k \in offer[c].refs /\ LaneOf[k] = l
    BY <1>11, <2>1, PickIn
  <2>3. CASE Return(c)
    BY <1>2, <1>11, <2>3 DEF Return, Goto, Pick, None
  <2>4. CASE picks' = picks \cup {k} /\ Proceed(c, "pick", todo[c] \ {l})
    <3>1. Work(c, "pick", copy[c], answer[c], todo[c] \ {l}, offer[c])
      BY <2>4 DEF Proceed, Goto
    <3>2. OneOfEach(offer[c].refs) /\ todo[c] \subseteq Lanes
          /\ \A x \in offer[c].refs : LaneOf[x] \notin todo[c] => x \in picks
      BY <2>1 DEF HeldBy
    <3>3. OneOfEach(offer[c].refs)'
      <4>1. offer'[c] = offer[c] /\ UNCHANGED reviews
        BY <1>11, <3>1, WorkEffect DEF Pick
      <4> QED
        BY <3>2, <4>1 DEF OneOfEach
    <3>4. \A x \in offer[c].refs : LaneOf[x] \notin todo[c] \ {l} => x \in picks'
      BY <2>2, <2>4, <3>2 DEF OneOfEach
    <3>5. HeldBy(c)'
      <4> HIDE DEF l, k
      <4> QED
        BY <3>1, <3>2, <3>3, <3>4, WorkEffect DEF HeldBy
    <3> QED
      BY <1>1, <1>11, <3>1, <3>5 DEF Pick
  <2> QED
    BY <1>11, <2>3, <2>4 DEF Pick
<1>12. ASSUME NEW c \in Callers, Seal(c)
      PROVE  HeldInv'
  <2>1. PICK s \in {"success", "failed"} :
          Work(c, "handoff", NoRecord, NoAnswer, {}, [status |-> s, refs |-> offer[c].refs])
    BY <1>12 DEF Seal, Goto
  <2>2. OneOfEach(offer[c].refs) /\ offer[c].refs \subseteq picks
    <3>1. HeldBy(c) /\ pc[c] = "pick" /\ todo[c] = {}
      BY <1>12 DEF HeldInv, Seal, At
    <3> QED
      BY <3>1 DEF HeldBy
  <2>3. UNCHANGED <<reviews, handoff, picks>> /\ sealed'
    BY <1>12 DEF Seal
  <2>4. offer'[c].refs = offer[c].refs /\ pc'[c] = "handoff"
    BY <2>1, WorkEffect
  <2>5. Integrated(offer[c].refs)'
    BY <2>2, <2>3, <2>4 DEF Integrated, OneOfEach
  <2>6. HeldBy(c)'
    BY <2>4, <2>5 DEF HeldBy
  <2> QED
    BY <1>1, <2>1, <2>3, <2>6
<1>13. ASSUME NEW c \in Callers, RecordHandoff(c)
      PROVE  HeldInv'
  <2>1. Work(c, None, NoRecord, NoAnswer, {}, NoHandoff) /\ UNCHANGED <<reviews, picks, sealed>>
    BY <1>13 DEF RecordHandoff, Return, Goto
  <2>2. HeldBy(c)'
    BY <2>1, WorkEffect, FreeHeld DEF None
  <2>3. Reviewed'
    BY <2>1 DEF HeldInv, Reviewed
  <2>4. (handoff.status \in {"success", "failed"} => Integrated(handoff.refs))'
    <3>1. CASE handoff' = handoff
      BY <1>0, <3>1, HandoffKept
    <3>2. CASE handoff' = offer[c]
      BY <1>13, <2>1, <3>2
      DEF RecordHandoff, At, HeldInv, HeldBy, Integrated, OneOfEach
    <3> QED
      BY <1>13, <3>1, <3>2 DEF RecordHandoff
  <2> QED
    BY <1>0, <2>1, <2>2, <2>3, <2>4, OthersHeld DEF HeldInv
<1>14. ASSUME UNCHANGED <<pc, answer, todo, offer, reviews, handoff>>
      PROVE  HeldInv'
  <2>1. Reviewed'
    BY <1>14 DEF HeldInv, Reviewed
  <2> QED
    BY <1>0, <1>14, <2>1, HeldKept, HandoffKept DEF HeldInv
<1>15. CASE UNCHANGED vars \/ \E k \in Commits : Candidate(k)
  BY <1>14, <1>15 DEF vars, job, Candidate
<1> QED
  BY <1>3, <1>4, <1>5, <1>6, <1>7, <1>8, <1>9, <1>10, <1>11, <1>12, <1>13, <1>15
  DEF Next, CommandStep, Command

LEMMA HeldAlways == Spec => [](TypeOK /\ HeldInv)
  BY TypeInit, TypeStep, HeldStep, PTL DEF Spec

(* Every value the documents, the repository and the commands hold stays in *)
(* its set, for any number of processes, lanes, candidates and decisions.   *)
THEOREM TypeCorrect == Spec => []TypeOK
  BY HeldAlways, PTL

(* A handoff that says success or failed names one accepted, sound candidate *)
(* of every lane, and all of them are on the sealed branch.                  *)
THEOREM HandoffAlwaysTruthful == Spec => []HandoffTruthful
<1>1. TypeOK /\ HeldInv => HandoffTruthful
  <2> SUFFICES ASSUME TypeOK, HeldInv, handoff.status \in {"success", "failed"}
               PROVE  /\ sealed /\ handoff.refs \subseteq picks
                      /\ \A l \in Lanes :
                            Cardinality({k \in handoff.refs : LaneOf[k] = l}) = 1
                      /\ \A k \in handoff.refs :
                            /\ k \in Sound
                            /\ \E i \in Reviews :
                                  reviews[i] = [commit |-> k, decision |-> "accept"]
    BY DEF HandoffTruthful
  <2>1. Integrated(handoff.refs)
    BY DEF HeldInv
  <2>2. ASSUME NEW l \in Lanes
        PROVE  Cardinality({k \in handoff.refs : LaneOf[k] = l}) = 1
    <3>1. PICK k \in handoff.refs : LaneOf[k] = l
      BY <2>1 DEF Integrated, OneOfEach
    <3>2. {x \in handoff.refs : LaneOf[x] = l} = {k}
      BY <2>1, <3>1 DEF Integrated, OneOfEach
    <3> QED
      BY <3>2, FS_Singleton
  <2> QED
    BY <2>1, <2>2 DEF Integrated, OneOfEach
<1> QED
  BY <1>1, HeldAlways, PTL

-----------------------------------------------------------------------------
(* Bootstrap: the steps after the approval, and what each of them leaves.   *)

Bootstrapping == {"materialize", "base", "root", "worktrees", "bootstrapped"}

SomeoneApproved == \E i \in Approvals : approvals[i] = "approve"
PlanApproved(p) == \E i \in Approvals : approvals[i] = "approve" /\ subjects[i] = p
AllWorktrees == {0} \cup Lanes
Complete == repository = "committed" /\ worktrees = AllWorktrees /\ agentPlan

\* What a record that says the run is bootstrapped stands for.
Backed(r) == r.bootstrap => Complete /\ PlanApproved(r.policy)

BootOf(c) ==
  /\ pc[c] \in Bootstrapping => PlanApproved(copy[c].policy)
  /\ pc[c] \in {"root", "worktrees", "bootstrapped"} => repository = "committed"
  /\ pc[c] = "worktrees" => AllWorktrees \ todo[c] \subseteq worktrees
  /\ pc[c] = "bootstrapped" => Complete
  /\ Backed(copy[c])

BootInv ==
  /\ \A c \in Callers : BootOf(c)
  /\ root \/ worktrees # {} => SomeoneApproved
  /\ Backed(record)

\* Decisions, commits, worktrees and the agent plan are never taken back.
Lasting ==
  /\ \A i \in Approvals :
        approvals[i] = "approve" => approvals'[i] = "approve" /\ subjects'[i] = subjects[i]
  /\ repository = "committed" => repository' = "committed"
  /\ worktrees \subseteq worktrees' /\ worktrees' \subseteq AllWorktrees
  /\ agentPlan => agentPlan'

LEMMA StepLasts == TypeOK /\ HeldInv /\ [Next]_vars => Lasting
<1> SUFFICES ASSUME TypeOK, HeldInv, [Next]_vars
             PROVE  Lasting
  OBVIOUS
<1> USE DEF lifecycle, decisions, files
<1>1. worktrees \subseteq AllWorktrees
  BY DEF TypeOK, AllWorktrees
<1>2. ASSUME NEW c \in Callers, RecordApproval(c)
      PROVE  Lasting
  <2>1. UNCHANGED files
    BY <1>2 DEF RecordApproval
  <2>2. \A i \in Approvals :
           approvals[i] = "approve" => approvals'[i] = "approve" /\ subjects'[i] = subjects[i]
    BY <1>2 DEF RecordApproval, TypeOK, None
  <2> QED
    BY <1>1, <2>1, <2>2 DEF Lasting
<1>3. ASSUME NEW c \in Callers, Materialize(c) \/ InitializeBase(c) \/ BindAgents(c)
      PROVE  Lasting
  <2>1. UNCHANGED decisions /\ worktrees' = worktrees
    BY <1>3 DEF Materialize, InitializeBase, BindAgents
  <2>2. repository = "committed" => repository' = "committed"
    BY <1>3 DEF Materialize, InitializeBase, BindAgents
  <2>3. agentPlan => agentPlan'
    <3>1. CASE UNCHANGED agentPlan
      BY <3>1
    <3>2. CASE agentPlan' = TRUE
      BY <3>2
    <3> QED
      BY <1>3, <3>1, <3>2 DEF Materialize, InitializeBase, BindAgents
  <2> QED
    BY <1>1, <2>1, <2>2, <2>3 DEF Lasting
<1>4. ASSUME NEW c \in Callers, AddWorktree(c)
      PROVE  Lasting
  <2>1. worktrees' \subseteq AllWorktrees
    BY <1>4, StepTypes DEF CommandStep, TypeOK, AllWorktrees
  <2> QED
    BY <1>4, <2>1 DEF AddWorktree, Lasting
<1>5. CASE UNCHANGED <<decisions, repository, worktrees, agentPlan>>
  BY <1>1, <1>5 DEF Lasting
<1> QED
  BY <1>2, <1>3, <1>4, <1>5
  DEF Next, CommandStep, Command, vars, TestPlan, WritePlan, MakeRoot, WriteBootstrap,
      WriteSuperseded, RecordReview, CheckIntegration, Pick, Seal, RecordHandoff, Plan, Bootstrap, Integrate,
      Approve, Review, Crash, Candidate

LEMMA CompleteKept == Lasting /\ Complete => Complete'
  BY DEF Lasting, Complete, AllWorktrees

LEMMA ApprovalKept ==
  ASSUME Lasting
  PROVE  /\ SomeoneApproved => SomeoneApproved'
         /\ \A p : PlanApproved(p) => PlanApproved(p)'
  BY DEF Lasting, SomeoneApproved, PlanApproved

\* What stands behind a record stays behind every copy of it.
LEMMA BackedKept ==
  ASSUME Lasting, NEW r, Backed(r)
  PROVE  Backed(r)'
  BY CompleteKept, ApprovalKept DEF Backed

\* Two records of one plan, both bootstrapped or both not.
SameRun(r, s) == r.bootstrap = s.bootstrap /\ r.policy = s.policy

\* A command that does not move, or that moved to a step with no claim about the
\* repository, with a copy of a record of which the claim holds.
LEMMA BootKept ==
  ASSUME BootInv, Lasting, NEW d \in Callers,
         (pc'[d] = pc[d] /\ todo'[d] = todo[d] /\ copy'[d] = copy[d])
           \/ pc'[d] \notin Bootstrapping,
         \/ ~copy'[d].bootstrap
         \/ \E r \in {copy[d], record} : SameRun(copy'[d], r)
  PROVE  BootOf(d)'
<1>1. Backed(copy[d])'
  <2>1. Backed(copy[d]) /\ Backed(record)
    BY DEF BootInv, BootOf
  <2>2. CASE ~copy'[d].bootstrap
    BY <2>2 DEF Backed
  <2>3. ASSUME NEW r \in {copy[d], record}, SameRun(copy'[d], r)
        PROVE  Backed(copy[d])'
    <3>1. PICK p : p = copy'[d].policy
      OBVIOUS
    <3>2. r.bootstrap = copy'[d].bootstrap /\ r.policy = p
      BY <2>3, <3>1 DEF SameRun
    <3>3. copy'[d].bootstrap => Complete /\ PlanApproved(p)
      BY <2>1, <3>2 DEF Backed
    <3>4. copy'[d].bootstrap => Complete' /\ PlanApproved(p)'
      BY <3>3, CompleteKept, ApprovalKept
    <3> QED
      BY <3>1, <3>4 DEF Backed, PlanApproved
  <2> QED
    BY <2>2, <2>3
<1>2. CASE pc'[d] \notin Bootstrapping
  BY <1>1, <1>2 DEF BootOf, Bootstrapping
<1>3. CASE pc'[d] = pc[d] /\ todo'[d] = todo[d] /\ copy'[d] = copy[d]
  <2>1. pc[d] = "bootstrapped" => Complete'
    BY CompleteKept DEF BootInv, BootOf
  <2>2. pc[d] \in Bootstrapping => PlanApproved(copy[d].policy)'
    <3>1. PICK p : p = copy[d].policy /\ p = copy'[d].policy
      BY <1>3
    <3>2. pc[d] \in Bootstrapping => PlanApproved(p)'
      BY <3>1, ApprovalKept DEF BootInv, BootOf
    <3> QED
      BY <3>1, <3>2 DEF PlanApproved
  <2>3. /\ pc[d] \in {"root", "worktrees", "bootstrapped"} => repository' = "committed"
        /\ pc[d] = "worktrees" => AllWorktrees \ todo[d] \subseteq worktrees'
    BY DEF BootInv, BootOf, Lasting
  <2> QED
    BY <1>1, <1>3, <2>1, <2>2, <2>3 DEF BootOf, AllWorktrees
<1> QED
  BY <1>2, <1>3

LEMMA BootStep == TypeOK /\ HeldInv /\ BootInv /\ [Next]_vars => BootInv'
<1> SUFFICES ASSUME TypeOK, HeldInv, BootInv, [Next]_vars
             PROVE  BootInv'
  OBVIOUS
<1> USE DEF lifecycle, files
<1>0. Lasting
  BY StepLasts
\* A step of c that leaves its claims true, makes no worktree and marks no record.
<1>1. ASSUME NEW c \in Callers, NEW step, NEW rec, NEW reply, NEW S, NEW ready,
             Work(c, step, rec, reply, S, ready), BootOf(c)',
             root' \/ worktrees' # {} => root \/ worktrees # {} \/ SomeoneApproved,
             Backed(record')
      PROVE  BootInv'
  <2>1. \A d \in Callers \ {c} : BootOf(d)'
    BY <1>0, <1>1, WorkEffect, BootKept DEF SameRun
  <2>2. root' \/ worktrees' # {} => SomeoneApproved'
    BY <1>0, <1>1, ApprovalKept DEF BootInv
  <2>3. Backed(record)'
    <3>1. PICK r : r = record'
      OBVIOUS
    <3>2. Backed(r)'
      BY <1>0, <1>1, <3>1, BackedKept
    <3> QED
      BY <3>1, <3>2 DEF Backed, PlanApproved
  <2> QED
    BY <1>1, <2>1, <2>2, <2>3 DEF BootInv
\* A step of c to where it claims nothing of the repository.
<1>2. ASSUME NEW c \in Callers, NEW step, NEW rec, NEW reply, NEW S, NEW ready,
             Work(c, step, rec, reply, S, ready), step \notin Bootstrapping,
             ~rec.bootstrap \/ \E r \in {copy[c], record} : SameRun(rec, r),
             UNCHANGED <<root, worktrees>>,
             Backed(record')
      PROVE  BootInv'
  <2>1. BootOf(c)'
    BY <1>0, <1>2, WorkEffect, BootKept
  <2> QED
    BY <1>1, <1>2, <2>1
<1>3. ~NoRecord.bootstrap /\ \A s, p : ~Planned(s, p).bootstrap
  BY DEF NoRecord, Planned
<1>4. /\ Backed(record)
      /\ \A c \in Callers : Backed(copy[c])
  BY DEF BootInv, BootOf
<1>5. ASSUME NEW c \in Callers, Return(c), UNCHANGED <<root, worktrees>>,
             Backed(record')
      PROVE  BootInv'
  <2>1. Work(c, None, NoRecord, NoAnswer, {}, NoHandoff)
    BY <1>5 DEF Return, Goto
  <2> QED
    BY <1>2, <1>3, <1>5, <2>1 DEF None, Bootstrapping
<1>6. ASSUME NEW c \in Callers, Plan(c)
      PROVE  BootInv'
  <2>1. PICK s, p : Work(c, "plan", Planned(s, p), NoAnswer, {}, NoHandoff)
    BY <1>6 DEF Plan, Begin
  <2> QED
    BY <1>2, <1>3, <1>4, <1>6, <2>1 DEF Plan, Bootstrapping
<1>7. ASSUME NEW c \in Callers,
             WritePlan(c) \/ RecordApproval(c) \/ RecordReview(c) \/ RecordHandoff(c) \/ Crash(c)
      PROVE  BootInv'
  <2>1. record' = record \/ record' = copy[c]
    BY <1>7 DEF WritePlan, RecordApproval, RecordReview, RecordHandoff, Crash
  <2> QED
    BY <1>4, <1>5, <1>7, <2>1 DEF WritePlan, RecordApproval, RecordReview, RecordHandoff, Crash
<1>8. ASSUME NEW c \in Callers, NEW i \in Approvals, NEW d \in {"approve", "reject"},
             Approve(c, i, d)
      PROVE  BootInv'
  <2>1. Work(c, "approve", record, [id |-> i, commit |-> None, decision |-> d], {}, NoHandoff)
        /\ UNCHANGED <<record, root, worktrees>>
    BY <1>8 DEF Approve, Begin
  <2>2. SameRun(record, record) /\ "approve" \notin Bootstrapping
    BY DEF SameRun, Bootstrapping
  <2> QED
    BY <1>2, <1>4, <2>1, <2>2
<1>9. ASSUME NEW c \in Callers, Bootstrap(c)
      PROVE  BootInv'
  <2>1. Work(c, "materialize", record, NoAnswer, {}, NoHandoff)
        /\ UNCHANGED <<record, root, worktrees>>
    BY <1>9 DEF Bootstrap, Begin
  <2>2. PlanApproved(record.policy)
    BY <1>9 DEF Bootstrap, Approved, Decided, PlanApproved
  <2>3. BootOf(c)'
    <3>1. pc'[c] = "materialize" /\ copy'[c] = record
      BY <2>1, WorkEffect
    <3>2. PICK p : p = record.policy
      OBVIOUS
    <3>3. PlanApproved(p)' /\ ~record.bootstrap
      BY <1>0, <1>9, <2>2, <3>2, ApprovalKept DEF Bootstrap
    <3>4. PlanApproved(copy[c].policy)'
      BY <3>1, <3>2, <3>3 DEF PlanApproved
    <3> QED
      BY <3>1, <3>3, <3>4 DEF BootOf, Backed
  <2> QED
    BY <1>1, <1>4, <2>1, <2>3
<1>10. ASSUME NEW c \in Callers, NEW step \in Bootstrapping, NEW S, Proceed(c, step, S),
              pc[c] \in Bootstrapping, record' = record,
              step \in {"root", "worktrees", "bootstrapped"} => repository' = "committed",
              step = "worktrees" => AllWorktrees \ S \subseteq worktrees',
              step = "bootstrapped" => Complete'
       PROVE  BootInv'
  <2>1. Work(c, step, copy[c], answer[c], S, offer[c])
    BY <1>10 DEF Proceed, Goto
  <2>2. PlanApproved(copy[c].policy) /\ SomeoneApproved
    BY <1>10 DEF BootInv, BootOf, PlanApproved, SomeoneApproved
  <2>3. BootOf(c)'
    <3>1. pc'[c] = step /\ copy'[c] = copy[c] /\ todo'[c] = S
      BY <2>1, WorkEffect
    <3>2. PICK r : r = copy[c]
      OBVIOUS
    <3>3. PlanApproved(r.policy)' /\ Backed(r)'
      BY <1>0, <1>4, <2>2, <3>2, ApprovalKept, BackedKept
    <3>4. PlanApproved(copy[c].policy)' /\ Backed(copy[c])'
      BY <3>1, <3>2, <3>3 DEF PlanApproved, Backed
    <3> QED
      BY <1>10, <3>1, <3>4 DEF BootOf, AllWorktrees
  <2> QED
    BY <1>1, <1>4, <1>10, <2>1, <2>2, <2>3
<1>11. ASSUME NEW c \in Callers, Materialize(c)
       PROVE  BootInv'
  <2>1. pc[c] = "materialize" /\ record' = record /\ UNCHANGED <<root, worktrees>>
    BY <1>11 DEF Materialize, At
  <2> QED
    BY <1>4, <1>5, <1>10, <1>11, <2>1 DEF Materialize, Bootstrapping
<1>12. ASSUME NEW c \in Callers, InitializeBase(c) \/ MakeRoot(c) \/ BindAgents(c)
       PROVE  BootInv'
  <2>1. CASE InitializeBase(c)
    BY <1>10, <2>1 DEF InitializeBase, At, Bootstrapping
  <2>2. CASE MakeRoot(c)
    <3>1. repository = "committed"
      BY <2>2 DEF MakeRoot, At, BootInv, BootOf
    <3> QED
      BY <1>10, <2>2, <3>1 DEF MakeRoot, At, Bootstrapping, AllWorktrees
  <2>3. CASE BindAgents(c)
    <3>1. repository = "committed" /\ AllWorktrees \subseteq worktrees
      BY <2>3 DEF BindAgents, At, BootInv, BootOf
    <3>2. worktrees' = AllWorktrees /\ repository' = "committed" /\ agentPlan'
      BY <1>0, <2>3, <3>1 DEF BindAgents, Lasting
    <3>3. Complete'
      BY <3>2 DEF Complete, AllWorktrees
    <3> QED
      BY <1>10, <2>3, <3>2, <3>3 DEF BindAgents, At, Bootstrapping
  <2> QED
    BY <1>12, <2>1, <2>2, <2>3
<1>13. ASSUME NEW c \in Callers, AddWorktree(c)
       PROVE  BootInv'
  <2>1. pc[c] = "worktrees" /\ repository' = "committed" /\ record' = record /\ root' = root
    BY <1>13 DEF AddWorktree, At, BootInv, BootOf
  <2>2. AllWorktrees \ todo[c] \subseteq worktrees
    BY <2>1 DEF BootInv, BootOf
  <2>3. CASE Return(c) /\ UNCHANGED worktrees
    BY <1>4, <1>5, <2>1, <2>3
  <2>4. CASE /\ worktrees' = worktrees \cup {First(todo[c])}
             /\ Proceed(c, "worktrees", todo[c] \ {First(todo[c])})
    <3>1. AllWorktrees \ (todo[c] \ {First(todo[c])}) \subseteq worktrees'
      BY <2>2, <2>4
    <3> QED
      BY <1>10, <2>1, <2>4, <3>1 DEF Bootstrapping
  <2> QED
    BY <1>13, <2>3, <2>4 DEF AddWorktree
<1>14. ASSUME NEW c \in Callers, WriteBootstrap(c)
       PROVE  BootInv'
  <2>1. Complete /\ PlanApproved(copy[c].policy)
    BY <1>14 DEF WriteBootstrap, At, BootInv, BootOf, Bootstrapping
  <2>2. Backed(record')
    BY <1>14, <2>1 DEF WriteBootstrap, Backed
  <2> QED
    BY <1>5, <1>14, <2>2 DEF WriteBootstrap
<1>15. ASSUME NEW c \in Callers, NEW i \in Reviews, NEW k \in Commits,
              NEW d \in {"accept", "rework"}, Review(c, i, k, d)
       PROVE  BootInv'
  <2>1. PICK step, rec :
          /\ step \in {"supersede", "review"}
          /\ Work(c, step, rec, [id |-> i, commit |-> k, decision |-> d], {}, NoHandoff)
          /\ SameRun(rec, record)
    <3> DEFINE sup == record.superseded \cup Superseding(LaneOf[k], k)
               step == IF sup = record.superseded THEN "review" ELSE "supersede"
               rec == [state |-> record.state, policy |-> record.policy,
                       bootstrap |-> record.bootstrap, superseded |-> sup]
    <3>1. Work(c, step, rec, [id |-> i, commit |-> k, decision |-> d], {}, NoHandoff)
      BY <1>15, Zenon DEF Review, Begin
    <3>2. step \in {"supersede", "review"} /\ SameRun(rec, record)
      BY DEF SameRun
    <3> HIDE DEF step, rec
    <3> QED
      BY <3>1, <3>2
  <2> QED
    BY <1>2, <1>4, <1>15, <2>1 DEF Review, Bootstrapping
<1>16. ASSUME NEW c \in Callers, WriteSuperseded(c)
       PROVE  BootInv'
  <2>1. Work(c, "review", copy[c], answer[c], {}, offer[c])
    BY <1>16 DEF WriteSuperseded, Proceed, Goto
  <2>2. SameRun(copy[c], copy[c])
    BY DEF SameRun
  <2> QED
    BY <1>2, <1>4, <1>16, <2>1, <2>2 DEF WriteSuperseded, Bootstrapping
<1>17. ASSUME NEW c \in Callers,
              Integrate(c) \/ CheckIntegration(c) \/ Pick(c) \/ Seal(c)
       PROVE  BootInv'
  <2>1. UNCHANGED <<record, root, worktrees>>
    BY <1>17 DEF Integrate, CheckIntegration, Pick, Seal
  <2>2. PICK step, rec, reply, S, ready :
          /\ Work(c, step, rec, reply, S, ready)
          /\ step \in {None, "integrate", "pick", "handoff"}
          /\ rec \in {record, copy[c], NoRecord}
    BY <1>17 DEF Integrate, CheckIntegration, Pick, Seal, Begin, Return, Proceed, Goto
  <2>3. SameRun(record, record) /\ SameRun(copy[c], copy[c])
    BY DEF SameRun
  <2> QED
    BY <1>2, <1>3, <1>4, <2>1, <2>2, <2>3 DEF Bootstrapping, None
<1>18. ASSUME NEW c \in Callers, TestPlan(c)
       PROVE  BootInv'
  <2>1. UNCHANGED <<record, root, worktrees>>
    BY <1>18 DEF TestPlan
  <2>2. CASE Return(c)
    BY <1>4, <1>5, <2>1, <2>2
  <2>3. CASE Proceed(c, "create", {})
    <3>1. Work(c, "create", copy[c], answer[c], {}, offer[c])
      BY <2>3 DEF Proceed, Goto
    <3>2. SameRun(copy[c], copy[c]) /\ "create" \notin Bootstrapping
      BY DEF SameRun, Bootstrapping
    <3> QED
      BY <1>2, <1>4, <2>1, <3>1, <3>2
  <2> QED
    BY <1>18, <2>2, <2>3 DEF TestPlan
<1>19. CASE UNCHANGED vars \/ \E k \in Commits : Candidate(k)
  <2>1. UNCHANGED <<pc, copy, todo, record, root, worktrees>>
    BY <1>19 DEF vars, job, Candidate
  <2>2. \A d \in Callers : BootOf(d)'
    BY <1>0, <2>1, BootKept DEF SameRun
  <2>3. root' \/ worktrees' # {} => SomeoneApproved'
    BY <1>0, <2>1, ApprovalKept DEF BootInv
  <2>4. Backed(record)'
    <3>1. PICK r : r = record
      OBVIOUS
    <3>2. Backed(r)'
      BY <1>0, <1>4, <3>1, BackedKept
    <3> QED
      BY <2>1, <3>1, <3>2 DEF Backed, PlanApproved
  <2> QED
    BY <2>2, <2>3, <2>4 DEF BootInv
<1> QED
  BY <1>6, <1>7, <1>8, <1>9, <1>11, <1>12, <1>13, <1>14, <1>15, <1>16, <1>17, <1>18,
     <1>19 DEF Next, CommandStep, Command

(* Worktrees exist only after an approval, and a run recorded as bootstrapped *)
(* has its commit, every worktree, its agent plan and an approval of the very *)
(* plan it records, whatever was killed or planned anew.                      *)
THEOREM BootstrapAlwaysComplete == Spec => []BootstrapComplete
<1>1. Init => BootInv
  BY DEF Init, BootInv, BootOf, Backed, NoRecord, Bootstrapping, None
<1>2. BootInv => BootstrapComplete
  BY DEF BootInv, BootstrapComplete, Backed, SomeoneApproved, PlanApproved, Complete, AllWorktrees
<1> QED
  BY <1>1, <1>2, HeldAlways, BootStep, PTL DEF Spec

-----------------------------------------------------------------------------
(* Commands that do not overlap: what one of them read is still so when it  *)
(* writes, and what the others wrote before it was killed is accounted for. *)

\* Candidates of the lane that have a review, other than this one.
OtherReviewed(k) == {reviews[i].commit : i \in ReviewsOf(LaneOf[k])} \ {k}

\* The step of a command, by what its own copy of the record still agrees with.
Copying == {"create", "materialize", "base", "root", "worktrees", "bootstrapped", "review", "integrate"}

AloneOf(c) ==
  /\ pc[c] = "plan" /\ record = NoRecord => copy[c].superseded = record.superseded
  /\ pc[c] \in Copying => copy[c].superseded = record.superseded
  /\ pc[c] = "approve" => \A i \in Decided : i = answer[c].id
  /\ pc[c] = "supersede" => record.superseded \subseteq copy[c].superseded
  /\ pc[c] \in {"supersede", "review"} =>
       /\ \A n \in Reviews : reviews[n].commit = answer[c].commit => n = answer[c].id
       /\ OtherReviewed(answer[c].commit) \subseteq copy[c].superseded
  /\ pc[c] = "pick" =>
       /\ picks \subseteq offer[c].refs
       /\ \A l \in Lanes : latest[l] \in offer[c].refs

OneCommand == \A c, d \in Callers : pc[c] # None /\ pc[d] # None => c = d
OneDecision == \A i, k \in Decided : i = k
OneReview ==
  \A i, k \in Reviews :
     reviews[i].commit = reviews[k].commit /\ reviews[i].commit # None => i = k

\* Whatever was reviewed in a lane is the candidate reviewed last or superseded.
LatestOrSuperseded ==
  \A i \in Reviews :
     reviews[i] # NoReview =>
        \/ reviews[i].commit = latest[LaneOf[reviews[i].commit]]
        \/ reviews[i].commit \in record.superseded

OnePick == \A k, x \in picks : LaneOf[k] = LaneOf[x] => k = x

DecisionsInv == OneDecision /\ OneReview /\ LatestOrSuperseded /\ OnePick

SequentialInv ==
  overlap = 0 => OneCommand /\ DecisionsInv /\ \A c \in Callers : AloneOf(c)

LEMMA SequentialInit == Init => SequentialInv
  BY DEF Init, SequentialInv, OneCommand, DecisionsInv, OneDecision, OneReview,
         LatestOrSuperseded, OnePick, AloneOf, Decided, Copying, NoReview, None

\* One command moves and no other is running: its own claims are the only ones.
LEMMA OthersIdle ==
  ASSUME TypeOK, SequentialInv, overlap = 0, NEW c \in Callers,
         pc[c] # None \/ \A d \in Callers : pc[d] = None,
         NEW step, NEW rec, NEW reply, NEW S, NEW ready,
         Work(c, step, rec, reply, S, ready), AloneOf(c)', DecisionsInv'
  PROVE  SequentialInv'
<1>1. \A d \in Callers \ {c} : pc[d] = None /\ pc'[d] = None
  BY WorkEffect DEF SequentialInv, OneCommand
<1>2. \A d \in Callers \ {c} : AloneOf(d)'
  BY <1>1 DEF AloneOf, Copying, None
<1>3. OneCommand'
  BY <1>1 DEF OneCommand
<1> QED
  BY <1>2, <1>3 DEF SequentialInv

\* A step to nowhere claims nothing.
LEMMA NothingClaimed ==
  ASSUME NEW c \in Callers, pc'[c] \in {None, "handoff"}
  PROVE  AloneOf(c)'
  BY DEF AloneOf, Copying, None

LEMMA DecisionsKept ==
  ASSUME DecisionsInv, UNCHANGED <<decisions, reviews, latest, picks>>,
         record'.superseded = record.superseded
  PROVE  DecisionsInv'
  BY DEF DecisionsInv, OneDecision, OneReview, LatestOrSuperseded, OnePick, Decided, decisions

\* Where an integration begins to pick, the branch is untouched and what it picks is the
\* candidate reviewed last in every lane: another one would have been superseded.
LEMMA PicksLatest ==
  ASSUME TypeOK, HeldInv, SequentialInv, overlap = 0, NEW c \in Callers, pc[c] = "integrate",
         Applicable(todo[c], copy[c].superseded)
  PROVE  picks = {} /\ \A l \in Lanes : latest[l] \in {reviews[i].commit : i \in todo[c]}
<1>1. picks = {}
  BY DEF Applicable, HeadMoved
<1>2. /\ todo[c] \subseteq Reviews
      /\ \A i \in todo[c] : reviews[i] # NoReview
  BY DEF HeldInv, HeldBy
<1>3. copy[c].superseded = record.superseded /\ LatestOrSuperseded
  BY DEF SequentialInv, AloneOf, Copying, DecisionsInv
<1>4. ASSUME NEW l \in Lanes
      PROVE  latest[l] \in {reviews[i].commit : i \in todo[c]}
  <2>1. PICK i \in todo[c] : LaneOf[reviews[i].commit] = l
    BY DEF Applicable
  <2>2. reviews[i].commit \notin record.superseded
    BY <1>3, <2>1 DEF Applicable
  <2>3. reviews[i].commit = latest[l]
    BY <1>2, <1>3, <2>1, <2>2 DEF LatestOrSuperseded
  <2> QED
    BY <2>1, <2>3
<1> QED
  BY <1>1, <1>4

LEMMA SequentialStep == TypeOK /\ HeldInv /\ SequentialInv /\ [Next]_vars => SequentialInv'
<1> SUFFICES ASSUME TypeOK, HeldInv, SequentialInv, [Next]_vars, overlap' = 0
             PROVE  SequentialInv'
  BY DEF SequentialInv
<1> USE DEF lifecycle, decisions, files, branch
\* A command that begins when nobody is at work.
<1>1. ASSUME NEW c \in Callers, NEW step, NEW rec, NEW reply, NEW S,
             Begin(c, step, rec, reply, S)
      PROVE  /\ overlap = 0 /\ \A d \in Callers : pc[d] = None
             /\ DecisionsInv /\ Work(c, step, rec, reply, S, NoHandoff)
  <2>1. overlap \in Nat
    BY FactoryAssumption DEF TypeOK
  <2>2. overlap = 0 /\ \A d \in Callers : pc[d] = None
    <3>1. CASE \E d \in Callers : pc[d] # None
      BY <1>1, <2>1, <3>1 DEF Begin
    <3>2. CASE ~ \E d \in Callers : pc[d] # None
      BY <1>1, <2>1, <3>2 DEF Begin
    <3> QED
      BY <3>1, <3>2
  <2> QED
    BY <1>1, <2>2 DEF Begin, SequentialInv
\* A step of a command, alone.
<1>2. ASSUME NEW c \in Callers, NEW step, NEW rec, NEW reply, NEW S, NEW ready,
             Goto(c, step, rec, reply, S, ready)
      PROVE  overlap = 0 /\ DecisionsInv /\ AloneOf(c) /\ Work(c, step, rec, reply, S, ready)
  BY <1>2 DEF Goto, SequentialInv
<1>3. CASE UNCHANGED vars
  BY <1>3 DEF vars, job, history, SequentialInv, OneCommand, DecisionsInv, OneDecision, OneReview,
     LatestOrSuperseded, OnePick, AloneOf, Decided, OtherReviewed, ReviewsOf
<1>4. ASSUME NEW k \in Commits, Candidate(k)
      PROVE  SequentialInv'
  BY <1>4 DEF Candidate, job, history, SequentialInv, OneCommand, DecisionsInv, OneDecision,
     OneReview, LatestOrSuperseded, OnePick, AloneOf, Decided, OtherReviewed, ReviewsOf
<1>5. ASSUME NEW c \in Callers, Plan(c)
      PROVE  SequentialInv'
  <2>1. PICK s, p : Begin(c, "plan", Planned(s, p), NoAnswer, {})
    BY <1>5 DEF Plan
  <2>2. Planned(s, p).superseded = {} /\ NoRecord.superseded = {}
    BY DEF Planned, NoRecord
  <2>3. pc'[c] = "plan" /\ copy'[c] = Planned(s, p)
    BY <1>1, <2>1, WorkEffect
  <2>4. AloneOf(c)'
    BY <2>2, <2>3 DEF AloneOf, Copying
  <2>5. DecisionsInv'
    BY <1>1, <1>5, <2>1, DecisionsKept DEF Plan
  <2> QED
    BY <1>1, <2>1, <2>4, <2>5, OthersIdle
<1>6. ASSUME NEW c \in Callers, Bootstrap(c) \/ Integrate(c)
      PROVE  SequentialInv'
  <2>1. PICK step \in {"materialize", "integrate"}, S \in {{}, Current} :
          Begin(c, step, record, NoAnswer, S)
    BY <1>6 DEF Bootstrap, Integrate
  <2>2. UNCHANGED <<record, decisions, reviews, latest, picks>>
    BY <1>6 DEF Bootstrap, Integrate
  <2>3. pc'[c] \in {"materialize", "integrate"} /\ copy'[c] = record
    BY <1>1, <2>1, WorkEffect
  <2>4. AloneOf(c)'
    BY <2>2, <2>3 DEF AloneOf, Copying
  <2> QED
    BY <1>1, <2>1, <2>2, <2>4, DecisionsKept, OthersIdle
<1>7. ASSUME NEW c \in Callers, NEW i \in Approvals, NEW d \in {"approve", "reject"},
             Approve(c, i, d)
      PROVE  SequentialInv'
  <2>1. Begin(c, "approve", record, [id |-> i, commit |-> None, decision |-> d], {})
        /\ UNCHANGED <<record, decisions, reviews, latest, picks>>
    BY <1>7 DEF Approve
  <2>2. pc'[c] = "approve" /\ answer'[c].id = i
    BY <1>1, <2>1, WorkEffect
  <2>3. \A k \in Decided : k = i
    BY <1>1, <1>7, <2>1 DEF Approve, MayDecide, Decided, DecisionsInv, OneDecision, None
  <2>4. AloneOf(c)'
    BY <2>1, <2>2, <2>3 DEF AloneOf, Copying, Decided
  <2> QED
    BY <1>1, <2>1, <2>4, DecisionsKept, OthersIdle
<1>8. ASSUME NEW c \in Callers, NEW i \in Reviews, NEW k \in Commits,
             NEW d \in {"accept", "rework"}, Review(c, i, k, d)
      PROVE  SequentialInv'
  <2> DEFINE superseded == record.superseded \cup Superseding(LaneOf[k], k)
             rec == [state |-> record.state, policy |-> record.policy,
                     bootstrap |-> record.bootstrap, superseded |-> superseded]
  <2>1. PICK step \in {"review", "supersede"} :
          /\ Begin(c, step, rec, [id |-> i, commit |-> k, decision |-> d], {})
          /\ step = "review" => superseded = record.superseded
    BY <1>8 DEF Review
  <2>2. UNCHANGED <<record, decisions, reviews, latest, picks>>
    BY <1>8 DEF Review
  <2>3. /\ pc'[c] = step /\ copy'[c].superseded = superseded
        /\ answer'[c].id = i /\ answer'[c].commit = k
    BY <1>1, <2>1, WorkEffect
  <2>4. \A n \in Reviews : reviews[n].commit = k => n = i
    <3>1. OneReview /\ MayReview(i, k, d) /\ k # None
      BY <1>1, <1>8, <2>1, FactoryAssumption DEF Review, DecisionsInv
    <3> QED
      BY <3>1 DEF OneReview, MayReview
  <2>5. OtherReviewed(answer[c].commit)' = Superseding(LaneOf[k], k)
    BY <2>2, <2>3 DEF OtherReviewed, Superseding, ReviewsOf
  <2>6. OtherReviewed(answer[c].commit)' \subseteq copy'[c].superseded
    BY <2>3, <2>5
  <2>7. AloneOf(c)'
    BY <2>1, <2>2, <2>3, <2>4, <2>6 DEF AloneOf, Copying
  <2> QED
    BY <1>1, <2>1, <2>2, <2>7, DecisionsKept, OthersIdle
<1>9. ASSUME NEW c \in Callers, CommandStep(c) \/ Crash(c)
      PROVE  pc[c] # None
  BY <1>9 DEF CommandStep, Crash, TestPlan, WritePlan, RecordApproval, Materialize,
     InitializeBase, MakeRoot, AddWorktree, BindAgents, WriteBootstrap, WriteSuperseded, RecordReview, CheckIntegration, Pick,
     Seal, RecordHandoff, At, None
\* A command that ends, leaving the decisions in order.
<1>10. ASSUME NEW c \in Callers, Return(c), pc[c] # None, DecisionsInv'
       PROVE  SequentialInv'
  <2>1. Goto(c, None, NoRecord, NoAnswer, {}, NoHandoff)
    BY <1>10 DEF Return
  <2>2. AloneOf(c)'
    BY <1>2, <2>1, WorkEffect, NothingClaimed
  <2> QED
    BY <1>2, <1>10, <2>1, <2>2, OthersIdle
<1>11. ASSUME NEW c \in Callers, WritePlan(c) \/ WriteBootstrap(c)
       PROVE  SequentialInv'
  <2>1. Return(c) /\ pc[c] # None /\ UNCHANGED <<decisions, reviews, latest, picks>>
    BY <1>9, <1>11 DEF WritePlan, WriteBootstrap, CommandStep
  <2>2. AloneOf(c) /\ DecisionsInv
    BY <1>2, <2>1 DEF Return
  <2>3. record'.superseded = record.superseded
    BY <1>11, <2>2 DEF WritePlan, WriteBootstrap, At, AloneOf, Copying
  <2> QED
    BY <1>10, <2>1, <2>2, <2>3, DecisionsKept
<1>12. ASSUME NEW c \in Callers, RecordHandoff(c) \/ Crash(c)
       PROVE  SequentialInv'
  <2>1. Return(c) /\ pc[c] # None /\ UNCHANGED <<record, decisions, reviews, latest, picks>>
    BY <1>9, <1>12 DEF RecordHandoff, CommandStep, Crash
  <2> QED
    BY <1>2, <1>10, <2>1, DecisionsKept DEF Return
<1>13. ASSUME NEW c \in Callers, RecordApproval(c)
       PROVE  SequentialInv'
  <2>1. Return(c) /\ pc[c] = "approve" /\ pc[c] # None
        /\ UNCHANGED <<record, reviews, latest, picks>>
    BY <1>9, <1>13 DEF RecordApproval, At, CommandStep
  <2>2. AloneOf(c) /\ DecisionsInv
    BY <1>2, <2>1 DEF Return
  <2>3. \A i \in Approvals \ {answer[c].id} : approvals'[i] = approvals[i]
    BY <1>13 DEF RecordApproval, TypeOK
  <2>4. \A i \in Decided' : i = answer[c].id
    BY <2>1, <2>2, <2>3 DEF AloneOf, Decided
  <2>5. DecisionsInv'
    BY <2>1, <2>2, <2>4 DEF DecisionsInv, OneDecision, OneReview, LatestOrSuperseded, OnePick
  <2> QED
    BY <1>10, <2>1, <2>5
\* A step of a bootstrap.
<1>14. ASSUME NEW c \in Callers,
              \/ Materialize(c) \/ InitializeBase(c) \/ MakeRoot(c) \/ AddWorktree(c)
              \/ BindAgents(c)
       PROVE  SequentialInv'
  <2>1. pc[c] \in Copying /\ UNCHANGED <<record, decisions, reviews, latest, picks>>
    BY <1>14 DEF Materialize, InitializeBase, MakeRoot, AddWorktree, BindAgents, At, Copying
  <2>2. CASE Return(c)
    <3>1. DecisionsInv'
      BY <1>2, <2>1, <2>2, DecisionsKept DEF Return
    <3> QED
      BY <1>10, <2>1, <2>2, <3>1 DEF Copying, None
  <2>3. ASSUME NEW step \in {"base", "root", "worktrees", "bootstrapped"}, NEW S,
               Proceed(c, step, S)
        PROVE  SequentialInv'
    <3>1. /\ AloneOf(c) /\ DecisionsInv /\ overlap = 0
          /\ Work(c, step, copy[c], answer[c], S, offer[c])
      BY <1>2, <2>3 DEF Proceed
    <3>2. pc'[c] = step /\ copy'[c] = copy[c]
      BY <3>1, WorkEffect
    <3>3. AloneOf(c)'
      BY <2>1, <3>1, <3>2 DEF AloneOf, Copying
    <3>4. pc[c] # None
      BY <2>1 DEF Copying, None
    <3> QED
      BY <2>1, <3>1, <3>3, <3>4, DecisionsKept, OthersIdle
  <2>4. \/ Return(c)
        \/ \E step \in {"base", "root", "worktrees", "bootstrapped"} : \E S : Proceed(c, step, S)
    BY <1>14 DEF Materialize, InitializeBase, MakeRoot, AddWorktree, BindAgents
  <2> QED
    BY <2>2, <2>3, <2>4
<1>15. ASSUME NEW c \in Callers, WriteSuperseded(c)
       PROVE  SequentialInv'
  <2>1. Goto(c, "review", copy[c], answer[c], {}, offer[c]) /\ pc[c] = "supersede" /\ pc[c] # None
    BY <1>9, <1>15 DEF WriteSuperseded, CommandStep, Proceed, At
  <2>2. AloneOf(c) /\ DecisionsInv
    BY <1>2, <2>1
  <2>3. UNCHANGED <<decisions, reviews, latest, picks>> /\ record' = copy[c]
    BY <1>15 DEF WriteSuperseded
  <2>4. pc'[c] = "review" /\ copy'[c] = copy[c] /\ answer'[c] = answer[c]
    BY <1>2, <2>1, WorkEffect
  <2>5. record.superseded \subseteq copy[c].superseded
    BY <2>1, <2>2 DEF AloneOf
  <2>6. AloneOf(c)'
    BY <2>1, <2>2, <2>3, <2>4 DEF AloneOf, Copying, OtherReviewed, ReviewsOf
  <2>7. DecisionsInv'
    BY <2>2, <2>3, <2>5 DEF DecisionsInv, OneDecision, OneReview, LatestOrSuperseded, OnePick, Decided
  <2> QED
    BY <1>2, <2>1, <2>6, <2>7, OthersIdle
<1>16. ASSUME NEW c \in Callers, RecordReview(c)
       PROVE  SequentialInv'
  <2> DEFINE i == answer[c].id
             k == answer[c].commit
  <2>1. Return(c) /\ pc[c] = "review" /\ pc[c] # None /\ UNCHANGED <<record, decisions, picks>>
    BY <1>9, <1>16 DEF RecordReview, At, CommandStep
  <2>2. AloneOf(c) /\ DecisionsInv
    BY <1>2, <2>1 DEF Return
  <2>3. CASE UNCHANGED <<reviews, latest>>
    BY <1>10, <2>1, <2>2, <2>3, DecisionsKept
  <2>4. CASE ~UNCHANGED <<reviews, latest>>
    <3>1. /\ reviews' = [reviews EXCEPT ![i] = [commit |-> k, decision |-> answer[c].decision]]
          /\ latest' = [latest EXCEPT ![LaneOf[k]] = k]
      BY <1>16, <2>4 DEF RecordReview
    <3>2. i \in Reviews /\ k \in Commits /\ LaneOf[k] \in Lanes /\ k # None
      BY <2>1, FactoryAssumption DEF HeldInv, HeldBy
    <3>3. /\ reviews'[i].commit = k /\ latest'[LaneOf[k]] = k
          /\ \A n \in Reviews \ {i} : reviews'[n] = reviews[n]
          /\ \A l \in Lanes \ {LaneOf[k]} : latest'[l] = latest[l]
      BY <3>1, <3>2 DEF TypeOK
    <3>4. /\ \A n \in Reviews : reviews[n].commit = k => n = i
          /\ OtherReviewed(k) \subseteq record.superseded
      BY <2>1, <2>2 DEF AloneOf, Copying
    <3>5. OneReview'
      BY <2>2, <3>3, <3>4 DEF DecisionsInv, OneReview
    <3>6. LatestOrSuperseded'
      <4> SUFFICES ASSUME NEW n \in Reviews, reviews'[n] # NoReview
                   PROVE  \/ reviews'[n].commit = latest'[LaneOf[reviews'[n].commit]]
                          \/ reviews'[n].commit \in record'.superseded
        BY DEF LatestOrSuperseded
      <4>1. CASE n = i
        BY <3>3, <4>1
      <4>2. CASE n # i
        <5> DEFINE x == reviews[n].commit
        <5>1. reviews'[n] = reviews[n] /\ reviews[n] # NoReview /\ x # k
          BY <3>3, <3>4, <4>2
        <5>2. x \in Commits /\ LaneOf[x] \in Lanes
          BY <5>1, FactoryAssumption DEF HeldInv, Reviewed
        <5>3. CASE LaneOf[x] = LaneOf[k]
          <6>1. x \in OtherReviewed(k)
            BY <5>1, <5>3 DEF OtherReviewed, ReviewsOf
          <6> QED
            BY <2>1, <3>4, <5>1, <6>1
        <5>4. CASE LaneOf[x] # LaneOf[k]
          BY <2>1, <2>2, <3>3, <5>1, <5>2, <5>4 DEF DecisionsInv, LatestOrSuperseded
        <5> QED
          BY <5>3, <5>4
      <4> QED
        BY <4>1, <4>2
    <3>7. DecisionsInv'
      BY <2>1, <2>2, <3>5, <3>6 DEF DecisionsInv, OneDecision, OnePick, Decided
    <3> QED
      BY <1>10, <2>1, <3>7
  <2> QED
    BY <2>3, <2>4
<1>17. ASSUME NEW c \in Callers, CheckIntegration(c)
       PROVE  SequentialInv'
  <2>1. pc[c] = "integrate" /\ pc[c] # None
        /\ UNCHANGED <<record, decisions, reviews, latest, picks>>
    BY <1>9, <1>17 DEF CheckIntegration, CommandStep, At
  <2>2. PICK step, S, ready :
          /\ Goto(c, step, NoRecord, NoAnswer, S, ready)
          /\ \/ step \in {None, "handoff"}
             \/ /\ step = "pick" /\ ready.refs = {reviews[i].commit : i \in todo[c]}
                /\ Applicable(todo[c], copy[c].superseded)
    BY <1>17 DEF CheckIntegration, Return
  <2>3. pc'[c] = step /\ offer'[c] = ready /\ overlap = 0 /\ DecisionsInv
    BY <1>2, <2>2, WorkEffect
  <2>4. AloneOf(c)'
    <3>1. CASE step \in {None, "handoff"}
      BY <2>3, <3>1, NothingClaimed
    <3>2. CASE step = "pick"
      <4>1. /\ ready.refs = {reviews[i].commit : i \in todo[c]} /\ picks = {}
            /\ \A l \in Lanes : latest[l] \in {reviews[i].commit : i \in todo[c]}
        BY <2>1, <2>2, <2>3, <3>2, PicksLatest DEF None
      <4>2. /\ picks' \subseteq offer'[c].refs
            /\ \A l \in Lanes : latest'[l] \in offer'[c].refs
        BY <2>1, <2>3, <4>1
      <4> QED
        BY <2>3, <3>2, <4>2 DEF AloneOf, Copying
    <3> QED
      BY <2>2, <3>1, <3>2
  <2> QED
    BY <1>2, <2>1, <2>2, <2>3, <2>4, DecisionsKept, OthersIdle
<1>18. ASSUME NEW c \in Callers, Seal(c)
       PROVE  SequentialInv'
  <2>1. PICK ready : Goto(c, "handoff", NoRecord, NoAnswer, {}, ready)
    BY <1>18 DEF Seal
  <2>2. pc[c] # None /\ UNCHANGED <<record, decisions, reviews, latest, picks>>
    BY <1>9, <1>18 DEF Seal, CommandStep
  <2>3. AloneOf(c)'
    BY <1>2, <2>1, WorkEffect, NothingClaimed
  <2> QED
    BY <1>2, <2>1, <2>2, <2>3, DecisionsKept, OthersIdle
<1>19. ASSUME NEW c \in Callers, Pick(c)
       PROVE  SequentialInv'
  <2>1. pc[c] = "pick" /\ pc[c] # None /\ UNCHANGED <<record, decisions, reviews, latest>>
    BY <1>9, <1>19 DEF Pick, CommandStep, At
  <2>2. CASE Return(c) /\ UNCHANGED picks
    <3>1. DecisionsInv'
      BY <1>2, <2>1, <2>2, DecisionsKept DEF Return
    <3> QED
      BY <1>10, <2>1, <2>2, <3>1
  <2>3. CASE ~(Return(c) /\ UNCHANGED picks)
    <3>1. PICK l, k : /\ l = First(todo[c])
                      /\ k = CHOOSE x \in offer[c].refs : LaneOf[x] = l
      OBVIOUS
    <3>2. /\ picks' = picks \cup {k} /\ k \in offer[c].refs
          /\ Proceed(c, "pick", todo[c] \ {l})
      <4>1. HeldBy(c)
        BY DEF HeldInv
      <4>2. k \in offer[c].refs
        BY <1>19, <3>1, <4>1, PickIn
      <4> QED
        BY <1>19, <2>3, <3>1, <4>2 DEF Pick
    <3>3. /\ AloneOf(c) /\ DecisionsInv /\ overlap = 0
          /\ Work(c, "pick", copy[c], answer[c], todo[c] \ {l}, offer[c])
      BY <1>2, <3>2 DEF Proceed
    <3>4. pc'[c] = "pick" /\ offer'[c] = offer[c]
      BY <3>3, WorkEffect
    <3>5. AloneOf(c)'
      BY <2>1, <3>2, <3>3, <3>4 DEF AloneOf, Copying
    <3>6. OneOfEach(offer[c].refs) /\ picks' \subseteq offer[c].refs
      BY <2>1, <3>2, <3>3 DEF HeldInv, HeldBy, AloneOf
    <3>7. DecisionsInv'
      BY <2>1, <3>3, <3>6 DEF DecisionsInv, OneDecision, OneReview, LatestOrSuperseded, OnePick, Decided,
         OneOfEach
    <3> QED
      BY <2>1, <3>3, <3>5, <3>7, OthersIdle
  <2> QED
    BY <2>2, <2>3
<1>20. ASSUME NEW c \in Callers, TestPlan(c)
       PROVE  SequentialInv'
  <2>1. pc[c] = "plan" /\ pc[c] # None /\ UNCHANGED <<record, decisions, reviews, latest, picks>>
    BY <1>9, <1>20 DEF TestPlan, CommandStep, At
  <2>2. CASE Return(c)
    BY <1>2, <1>10, <2>1, <2>2, DecisionsKept DEF Return
  <2>3. CASE record = NoRecord /\ Proceed(c, "create", {})
    <3>1. /\ AloneOf(c) /\ DecisionsInv /\ overlap = 0
          /\ Work(c, "create", copy[c], answer[c], {}, offer[c])
      BY <1>2, <2>3 DEF Proceed
    <3>2. pc'[c] = "create" /\ copy'[c] = copy[c]
      BY <3>1, WorkEffect
    <3>3. AloneOf(c)'
      BY <2>1, <2>3, <3>1, <3>2 DEF AloneOf, Copying
    <3> QED
      BY <2>1, <3>1, <3>3, DecisionsKept, OthersIdle
  <2> QED
    BY <1>20, <2>2, <2>3 DEF TestPlan
<1> QED
  BY <1>3, <1>4, <1>5, <1>6, <1>7, <1>8, <1>11, <1>12, <1>13, <1>14, <1>15, <1>16, <1>17, <1>18,
     <1>19, <1>20 DEF Next, CommandStep, Command

LEMMA SequentialAlways == Spec => []SequentialInv
  BY SequentialInit, SequentialStep, HeldAlways, PTL DEF Spec

(* While commands do not overlap there is one approval decision, one review *)
(* of a candidate, and an integration picks in each lane the candidate that *)
(* was reviewed last, for any number of lanes, candidates and kills.        *)
THEOREM DecisionsSequential == Spec => []SequentialDecisions
<1>1. SequentialInv => SequentialDecisions
  <2> SUFFICES ASSUME SequentialInv, overlap = 0
               PROVE  /\ Cardinality(Decided) <= 1
                      /\ OneReview
                      /\ \A c \in Callers, l \in Lanes :
                            At(c, "pick") => latest[l] \in offer[c].refs
    BY DEF SequentialDecisions, OneReview
  <2>1. Cardinality(Decided) <= 1
    <3>1. CASE Decided = {}
      BY <3>1, FS_EmptySet
    <3>2. CASE Decided # {}
      <4>1. PICK i : Decided = {i}
        BY <3>2 DEF SequentialInv, DecisionsInv, OneDecision
      <4> QED
        BY <4>1, FS_Singleton
    <3> QED
      BY <3>1, <3>2
  <2> QED
    BY <2>1 DEF SequentialInv, DecisionsInv, AloneOf, At
<1> QED
  BY <1>1, SequentialAlways, PTL

(* While commands do not overlap no lane has two candidates on the branch,  *)
(* whichever integration was killed half-way or stopped by a conflict.      *)
THEOREM LanesPickedOnce == Spec => []OneCandidatePerLane
<1>1. SequentialInv => OneCandidatePerLane
  BY DEF SequentialInv, DecisionsInv, OnePick, OneCandidatePerLane
<1> QED
  BY <1>1, SequentialAlways, PTL
=============================================================================
