------------------------- MODULE ApplicationFactory -------------------------
(***************************************************************************)
(* One application-factory run: plan, approval, repository bootstrap,       *)
(* candidate review and integration, issued by command-line processes that  *)
(* share the planning record, the lifecycle document and the repository,    *)
(* and that may be killed between any two writes.                           *)
(*                                                                          *)
(* A plan is identified by its provider policy: whatever else an approval   *)
(* covers (profile, blueprint) is the same in every plan the model asks     *)
(* for.  Lanes are numbered in the order of the required tasks; worktree 0  *)
(* is the integration worktree.                                             *)
(***************************************************************************)
EXTENDS Integers, FiniteSets

CONSTANTS
    Callers,    \* command-line processes
    Policies,   \* provider policies a plan is asked for
    LaneCount,  \* lanes that must contribute a candidate
    Commits,    \* candidate commits
    LaneOf,     \* the lane a candidate belongs to
    Sound,      \* candidates the inspection finds nothing wrong with
    Based,      \* candidates that descend from the base with the reviewed paths
    Approvals,  \* ids of approval decisions
    Reviews,    \* ids of review decisions
    OverlapBound \* bound: commands started while another one runs

Lanes == 1 .. LaneCount
None == "none"

ASSUME FactoryAssumption ==
    /\ LaneCount \in Nat \ {0}
    /\ LaneOf \in [Commits -> Lanes]
    /\ Sound \subseteq Commits /\ Based \subseteq Commits
    /\ Approvals \subseteq Nat /\ OverlapBound \in Nat
    /\ None \notin Commits

NoReview == [commit |-> None, decision |-> None]
NoRecord == [state |-> None, policy |-> None, bootstrap |-> FALSE, superseded |-> {}]
NoHandoff == [status |-> None, refs |-> {}]

VARIABLES
    record,     \* plans/<run>.json
    policyFile, \* artifacts/<run>/provider-policy.json
    unmet,      \* lifecycle: an unmet requirement is recorded
    approvals,  \* lifecycle: the decision under each approval id
    subjects,   \* lifecycle: the plan each of them names
    reviews,    \* lifecycle: the candidate and decision under each review id
    handoff,    \* lifecycle: the final handoff
    results,    \* agent run store: the candidate of each lane
    repository, \* the application repository: absent, files or committed
    root,       \* the worktree directory of the run exists
    worktrees,  \* worktrees added to it
    agentPlan,  \* the agent run is bound to the integration worktree
    picks,      \* candidates cherry-picked onto the integration branch
    sealed,     \* an integration commit is on the branch
    dirty,      \* a cherry-pick stopped in the integration worktree
    pc,         \* the step each caller is at
    copy,       \* the planning record as its command read or compiled it
    answer,     \* the decision its command is about to store, under which id
    todo,       \* the worktrees, reviews or lanes its command still has to handle
    offer,      \* the handoff its command is preparing
    overlap,    \* history: commands that started while another one was running
    latest      \* history: the candidate reviewed last, per lane

decisions == <<approvals, subjects>>
lifecycle == <<unmet, decisions, reviews, handoff>>
files == <<repository, root, worktrees, agentPlan>>
branch == <<picks, sealed, dirty>>
history == <<overlap, latest>>
job == <<pc, copy, answer, todo, offer>>
vars == <<record, policyFile, lifecycle, results, files, branch, job, history>>

NoAnswer == [id |-> 0, commit |-> None, decision |-> None]

Init ==
    /\ record = NoRecord /\ policyFile = None
    /\ unmet = FALSE
    /\ approvals = [i \in Approvals |-> None] /\ subjects = approvals
    /\ reviews = [i \in Reviews |-> NoReview]
    /\ handoff = NoHandoff
    /\ results = [l \in Lanes |-> None]
    /\ repository = "absent" /\ root = FALSE /\ worktrees = {} /\ agentPlan = FALSE
    /\ picks = {} /\ sealed = FALSE /\ dirty = FALSE
    /\ pc = [c \in Callers |-> None]
    /\ copy = [c \in Callers |-> NoRecord]
    /\ answer = [c \in Callers |-> NoAnswer]
    /\ todo = [c \in Callers |-> {}]
    /\ offer = [c \in Callers |-> NoHandoff]
    /\ overlap = 0
    /\ latest = [l \in Lanes |-> None]

----------------------------------------------------------------------------
\* Where a command is, and everything it holds in memory.
Work(c, step, rec, reply, S, ready) ==
    /\ pc' = [pc EXCEPT ![c] = step]
    /\ copy' = [copy EXCEPT ![c] = rec]
    /\ answer' = [answer EXCEPT ![c] = reply]
    /\ todo' = [todo EXCEPT ![c] = S]
    /\ offer' = [offer EXCEPT ![c] = ready]

\* A command starts; overlap counts the ones that start while another one runs.
Begin(c, step, rec, reply, S) ==
    /\ pc[c] = None
    /\ Work(c, step, rec, reply, S, NoHandoff)
    /\ overlap' = overlap + (IF \E d \in Callers : pc[d] # None THEN 1 ELSE 0)
    /\ overlap' <= OverlapBound

Goto(c, step, rec, reply, S, ready) == Work(c, step, rec, reply, S, ready) /\ UNCHANGED overlap
Return(c) == Goto(c, None, NoRecord, NoAnswer, {}, NoHandoff)

At(c, step) == pc[c] = step

Decided == {i \in Approvals : approvals[i] # None}

\* _approval_state: of several decisions on the recorded plan the one with the smallest id
\* counts.
Approved ==
    LET Relevant == {i \in Decided : subjects[i] = record.policy} IN
    \E i \in Relevant : approvals[i] = "approve" /\ \A k \in Relevant : i <= k

----------------------------------------------------------------------------
(* Planning and approval.                                                  *)

Planned(state, p) == [state |-> state, policy |-> p, bootstrap |-> FALSE, superseded |-> {}]

\* plan: a plan that cannot be compiled records what is unmet first; another one saves
\* the agent plan (the same for every policy here) and overwrites the policy file.
Plan(c) ==
    /\ \/ \E p \in Policies :
             /\ Begin(c, "plan", Planned("pending", p), NoAnswer, {})
             /\ policyFile' = p
             /\ UNCHANGED unmet
       \/ /\ Begin(c, "plan", Planned("blocked", None), NoAnswer, {})
          /\ unmet' = TRUE
          /\ UNCHANGED policyFile
    /\ UNCHANGED <<record, decisions, reviews, handoff, results, files, branch, latest>>

Proceed(c, step, S) == Goto(c, step, copy[c], answer[c], S, offer[c])

\* _write_record(create=True) looks for the record: one that exists is kept, and a
\* different one raises.
TestPlan(c) ==
    /\ At(c, "plan")
    /\ \/ record # NoRecord /\ Return(c)
       \/ record = NoRecord /\ Proceed(c, "create", {})
    /\ UNCHANGED <<record, policyFile, lifecycle, results, files, branch, latest>>

\* Then it puts its own in place, also of one that was written meanwhile.
WritePlan(c) ==
    /\ At(c, "create")
    /\ record' = copy[c]
    /\ Return(c)
    /\ UNCHANGED <<policyFile, lifecycle, results, files, branch, latest>>

\* Mutant: an existing decision is not looked at.
Undecided(i, d) == TRUE

\* approve refuses when there are decisions and this is not one of them.
MayDecide(i, d) == Decided # {} => approvals[i] = d /\ subjects[i] = record.policy

\* approve takes a decision that names the plan recorded as pending.
Approve(c, i, d) ==
    /\ record.state = "pending"
    /\ MayDecide(i, d)
    /\ Begin(c, "approve", record, [id |-> i, commit |-> None, decision |-> d], {})
    /\ UNCHANGED <<record, policyFile, lifecycle, results, files, branch, latest>>

\* record_approval: immutable per decision id.
RecordApproval(c) ==
    /\ At(c, "approve")
    /\ \/ /\ approvals[answer[c].id] = None
          /\ approvals' = [approvals EXCEPT ![answer[c].id] = answer[c].decision]
          /\ subjects' = [subjects EXCEPT ![answer[c].id] = copy[c].policy]
       \/ /\ approvals[answer[c].id] # None
          /\ UNCHANGED decisions
    /\ Return(c)
    /\ UNCHANGED <<record, policyFile, unmet, reviews, handoff, results, files, branch,
                   latest>>

----------------------------------------------------------------------------
(* Bootstrap.                                                              *)

\* Mutant: bootstrap is not gated by the approval.
BootstrapUnapproved(c) ==
    /\ record.state = "pending" /\ ~record.bootstrap
    /\ repository = "absent"
    /\ Begin(c, "materialize", record, NoAnswer, {})
    /\ UNCHANGED <<record, policyFile, lifecycle, results, files, branch, latest>>

\* bootstrap needs the approval, no earlier bootstrap, and a repository without files.
Bootstrap(c) ==
    /\ Approved /\ ~record.bootstrap
    /\ repository = "absent"
    /\ Begin(c, "materialize", record, NoAnswer, {})
    /\ UNCHANGED <<record, policyFile, lifecycle, results, files, branch, latest>>

\* _materialize and _write_guidance; files placed meanwhile make the copy raise.
Materialize(c) ==
    /\ At(c, "materialize")
    /\ \/ /\ repository = "absent"
          /\ repository' = "files"
          /\ Proceed(c, "base", {})
       \/ /\ repository # "absent"
          /\ Return(c)
          /\ UNCHANGED repository
    /\ UNCHANGED <<record, policyFile, lifecycle, results, root, worktrees, agentPlan, branch,
                   latest>>

\* _initialize_base commits what was generated.
InitializeBase(c) ==
    /\ At(c, "base")
    /\ repository' = "committed"
    /\ Proceed(c, "root", {})
    /\ UNCHANGED <<record, policyFile, lifecycle, results, root, worktrees, agentPlan, branch,
                   latest>>

\* mkdir(exist_ok=False) of the worktree root, then one worktree add after the other.
MakeRoot(c) ==
    /\ At(c, "root") /\ ~root
    /\ root' = TRUE
    /\ Proceed(c, "worktrees", {0} \cup Lanes)
    /\ UNCHANGED <<record, policyFile, lifecycle, results, repository, worktrees, agentPlan,
                   branch, latest>>

First(S) == CHOOSE n \in S : \A m \in S : n <= m

\* A worktree add that fails stops the bootstrap without cleanup.
AddWorktree(c) ==
    /\ At(c, "worktrees") /\ todo[c] # {}
    /\ \/ /\ worktrees' = worktrees \cup {First(todo[c])}
          /\ Proceed(c, "worktrees", todo[c] \ {First(todo[c])})
       \/ Return(c) /\ UNCHANGED worktrees
    /\ UNCHANGED <<record, policyFile, lifecycle, results, repository, root, agentPlan, branch,
                   latest>>

\* The agent run is planned on the integration worktree.
BindAgents(c) ==
    /\ At(c, "worktrees") /\ todo[c] = {}
    /\ agentPlan' = TRUE
    /\ Proceed(c, "bootstrapped", {})
    /\ UNCHANGED <<record, policyFile, lifecycle, results, repository, root, worktrees, branch,
                   latest>>

\* Last, the record is rewritten from the copy the command started with.
WriteBootstrap(c) ==
    /\ At(c, "bootstrapped")
    /\ record' = [state |-> copy[c].state, policy |-> copy[c].policy, bootstrap |-> TRUE,
                  superseded |-> copy[c].superseded]
    /\ Return(c)
    /\ UNCHANGED <<policyFile, lifecycle, results, files, branch, latest>>

\* A worker reports a candidate for its lane, the first one or another one.
Candidate(k) ==
    /\ record.bootstrap
    /\ results' = [results EXCEPT ![LaneOf[k]] = k]
    /\ UNCHANGED <<record, policyFile, lifecycle, files, branch, job, history>>

----------------------------------------------------------------------------
(* Candidate review.                                                       *)

ReviewsOf(l) == {i \in Reviews : reviews[i] # NoReview /\ LaneOf[reviews[i].commit] = l}

\* Mutant: earlier candidates of the lane are not superseded.
NothingSuperseded(l, k) == {}

\* Every other candidate of the lane that has a review is superseded.
Superseding(l, k) == {reviews[i].commit : i \in ReviewsOf(l)} \ {k}

\* Mutant: a second decision on the same candidate is allowed.
MayReviewAgain(i, k, d) == TRUE

\* A candidate that has a review takes no other decision.
MayReview(i, k, d) ==
    (\E n \in Reviews : reviews[n].commit = k) => reviews[i] = [commit |-> k, decision |-> d]

\* review inspects the lane's current candidate; only a sound one can be accepted.  The
\* record is rewritten from the command's own copy when the superseded set grows.
Review(c, i, k, d) ==
    LET superseded == record.superseded \cup Superseding(LaneOf[k], k) IN
    /\ Approved /\ record.bootstrap
    /\ results[LaneOf[k]] = k
    /\ d = "accept" => k \in Sound
    /\ MayReview(i, k, d)
    /\ Begin(c, IF superseded = record.superseded THEN "review" ELSE "supersede",
             [state |-> record.state, policy |-> record.policy, bootstrap |-> record.bootstrap,
              superseded |-> superseded],
             [id |-> i, commit |-> k, decision |-> d], {})
    /\ UNCHANGED <<record, policyFile, lifecycle, results, files, branch, latest>>

WriteSuperseded(c) ==
    /\ At(c, "supersede")
    /\ record' = copy[c]
    /\ Proceed(c, "review", {})
    /\ UNCHANGED <<policyFile, lifecycle, results, files, branch, latest>>

\* record_review: immutable per decision id.
RecordReview(c) ==
    LET i == answer[c].id
        k == answer[c].commit
    IN
    /\ At(c, "review")
    /\ \/ /\ reviews[i] = NoReview
          /\ reviews' = [reviews EXCEPT ![i] = [commit |-> k, decision |-> answer[c].decision]]
          /\ latest' = [latest EXCEPT ![LaneOf[k]] = k]
       \/ /\ reviews[i] # NoReview
          /\ UNCHANGED <<reviews, latest>>
    /\ Return(c)
    /\ UNCHANGED <<record, policyFile, unmet, decisions, handoff, results, files, branch>>

----------------------------------------------------------------------------
(* Integration.                                                            *)

\* The reviews of the candidates that are current now.
Current == {i \in Reviews : reviews[i] # NoReview /\ results[LaneOf[reviews[i].commit]] = reviews[i].commit}

Integrate(c) ==
    /\ Approved /\ record.bootstrap
    /\ Begin(c, "integrate", record, NoAnswer, Current)
    /\ UNCHANGED <<record, policyFile, lifecycle, results, files, branch, latest>>

\* Mutant: the head of the branch is not compared with the approved base.
HeadIgnored == FALSE

\* The branch has left the base commit of the bootstrap.
HeadMoved == picks # {} \/ sealed

\* Two reviews of one task among them.
Ambiguous(S) == \E i, k \in S : i # k /\ LaneOf[reviews[i].commit] = LaneOf[reviews[k].commit]

\* Mutant: the decisions themselves are not looked at.
NoneRejected(S) == {}

\* Tasks whose decision is another one than to accept.
Rejected(S) == {LaneOf[reviews[i].commit] : i \in {n \in S : reviews[n].decision # "accept"}}

\* ApplicationIntegrationService applies the candidates or hands off that it is blocked: a
\* clean branch at the approved base, an accepting review of every required task, and none
\* of the candidates superseded or inapplicable.  The reason of a block is left out.
Applicable(S, superseded) ==
    /\ ~dirty /\ ~HeadMoved
    /\ {LaneOf[reviews[i].commit] : i \in S} = Lanes
    /\ Rejected(S) = {}
    /\ \A i \in S : reviews[i].commit \in Based \ superseded

\* Only on a clean branch at its base two reviews of one task raise.
CheckIntegration(c) ==
    /\ At(c, "integrate")
    /\ \/ /\ ~dirty /\ ~HeadMoved /\ Ambiguous(todo[c])
          /\ Return(c)
       \/ /\ ~Ambiguous(todo[c]) /\ Applicable(todo[c], copy[c].superseded)
          /\ Goto(c, "pick", NoRecord, NoAnswer, Lanes,
                  [status |-> None, refs |-> {reviews[i].commit : i \in todo[c]}])
       \/ /\ dirty \/ HeadMoved \/ ~Ambiguous(todo[c])
          /\ ~Applicable(todo[c], copy[c].superseded)
          /\ Goto(c, "handoff", NoRecord, NoAnswer, {}, [status |-> "blocked", refs |-> {}])
    /\ UNCHANGED <<record, policyFile, lifecycle, results, files, branch, latest>>

\* cherry_pick_exact: a pick that conflicts raises, and so does one already picked; the
\* picks before it stay on the branch.
Pick(c) ==
    LET l == First(todo[c])
        k == CHOOSE x \in offer[c].refs : LaneOf[x] = l
    IN
    /\ At(c, "pick") /\ todo[c] # {}
    /\ \/ /\ ~dirty /\ k \notin picks
          /\ picks' = picks \cup {k}
          /\ Proceed(c, "pick", todo[c] \ {l})
          /\ UNCHANGED dirty
       \/ /\ dirty' \in {dirty, TRUE}
          /\ Return(c)
          /\ UNCHANGED picks
    /\ UNCHANGED <<record, policyFile, lifecycle, results, files, sealed, latest>>

\* The verification decides the status; the integration commit is made either way.
Seal(c) ==
    /\ At(c, "pick") /\ todo[c] = {}
    /\ sealed' = TRUE
    /\ \E s \in {"success", "failed"} :
          Goto(c, "handoff", NoRecord, NoAnswer, {}, [status |-> s, refs |-> offer[c].refs])
    /\ UNCHANGED <<record, policyFile, lifecycle, results, files, picks, dirty, latest>>

\* record_handoff: the first handoff stays, another one raises.
RecordHandoff(c) ==
    /\ At(c, "handoff")
    /\ handoff' = IF handoff = NoHandoff THEN offer[c] ELSE handoff
    /\ Return(c)
    /\ UNCHANGED <<record, policyFile, unmet, decisions, reviews, results, files, branch,
                   latest>>

\* A command is killed, or raises for a reason of its own, between two of its steps.
Crash(c) ==
    /\ pc[c] # None
    /\ Return(c)
    /\ UNCHANGED <<record, policyFile, lifecycle, results, files, branch, latest>>

CommandStep(c) ==
    \/ TestPlan(c) \/ WritePlan(c) \/ RecordApproval(c)
    \/ Materialize(c) \/ InitializeBase(c) \/ MakeRoot(c) \/ AddWorktree(c) \/ BindAgents(c)
    \/ WriteBootstrap(c) \/ WriteSuperseded(c) \/ RecordReview(c)
    \/ CheckIntegration(c) \/ Pick(c) \/ Seal(c) \/ RecordHandoff(c)

Command(c) ==
    \/ Plan(c) \/ Bootstrap(c) \/ Integrate(c)
    \/ \E i \in Approvals, d \in {"approve", "reject"} : Approve(c, i, d)
    \/ \E i \in Reviews, k \in Commits, d \in {"accept", "rework"} : Review(c, i, k, d)

Next ==
    \/ \E c \in Callers : CommandStep(c) \/ Command(c) \/ Crash(c)
    \/ \E k \in Commits : Candidate(k)

Spec == Init /\ [][Next]_vars

----------------------------------------------------------------------------
(* Properties.                                                             *)

Records == [state : {None, "pending", "blocked"}, policy : Policies \cup {None},
            bootstrap : BOOLEAN, superseded : SUBSET Commits]
Candidates == [commit : Commits \cup {None},
               decision : {None, "approve", "reject", "accept", "rework"}]
Handoffs == [status : {None, "blocked", "success", "failed"}, refs : SUBSET Commits]
Steps == {None, "plan", "create", "approve", "materialize", "base", "root", "worktrees",
          "bootstrapped", "supersede", "review", "integrate", "pick", "handoff"}
Answers == [id : {0} \cup Approvals \cup Reviews, commit : Commits \cup {None},
            decision : {None, "approve", "reject", "accept", "rework"}]

\* Every value the run's documents, repository and commands can hold.
TypeOK ==
    /\ record \in Records /\ policyFile \in Policies \cup {None}
    /\ unmet \in BOOLEAN
    /\ approvals \in [Approvals -> {None, "approve", "reject"}]
    /\ subjects \in [Approvals -> Policies \cup {None}]
    /\ reviews \in [Reviews -> Candidates]
    /\ handoff \in Handoffs
    /\ results \in [Lanes -> Commits \cup {None}]
    /\ repository \in {"absent", "files", "committed"}
    /\ root \in BOOLEAN /\ worktrees \subseteq {0} \cup Lanes /\ agentPlan \in BOOLEAN
    /\ picks \subseteq Commits /\ sealed \in BOOLEAN /\ dirty \in BOOLEAN
    /\ pc \in [Callers -> Steps]
    /\ copy \in [Callers -> Records]
    /\ answer \in [Callers -> Answers]
    /\ todo \in [Callers -> SUBSET ({0} \cup Lanes \cup Reviews)]
    /\ offer \in [Callers -> Handoffs]
    /\ overlap \in 0 .. OverlapBound /\ latest \in [Lanes -> Commits \cup {None}]

\* A handoff that says the candidates were integrated names one accepted, sound candidate
\* of every required lane, and all of them are on the branch under an integration commit:
\* no interleaving, retry or half-done integration hands off anything else.
HandoffTruthful ==
    handoff.status \in {"success", "failed"} =>
        /\ sealed /\ handoff.refs \subseteq picks
        /\ \A l \in Lanes : Cardinality({k \in handoff.refs : LaneOf[k] = l}) = 1
        /\ \A k \in handoff.refs :
              k \in Sound /\ \E i \in Reviews : reviews[i] = [commit |-> k, decision |-> "accept"]

\* A worktree exists only after someone approved, and a run is recorded as bootstrapped
\* only when its base, every worktree and its agent plan are there and an approval names
\* the very plan it records, whatever was killed, run twice or planned anew before.
BootstrapComplete ==
    /\ (root \/ worktrees # {}) => \E i \in Approvals : approvals[i] = "approve"
    /\ record.bootstrap =>
          /\ repository = "committed"
          /\ worktrees = {0} \cup Lanes
          /\ agentPlan
          /\ \E i \in Approvals : approvals[i] = "approve" /\ subjects[i] = record.policy

\* While commands do not overlap, the run has one approval decision and a candidate one
\* review, and an integration picks the candidate that was reviewed last in each lane,
\* also after a killed review or a worker that went back to an earlier candidate.
SequentialDecisions ==
    overlap = 0 =>
        /\ Cardinality(Decided) <= 1
        /\ \A i, k \in Reviews :
              reviews[i].commit = reviews[k].commit /\ reviews[i].commit # None => i = k
        /\ \A c \in Callers, l \in Lanes :
              At(c, "pick") => latest[l] \in offer[c].refs

\* While commands do not overlap, no lane ever has two candidates on the branch: an
\* integration that failed or was killed half-way is never continued with another one.
OneCandidatePerLane ==
    overlap = 0 => \A k, x \in picks : LaneOf[k] = LaneOf[x] => k = x

\* "success means approved integrated application with no unresolved blockers"
\* (docs/workplans/parallel/wave-09/application-factory-lifecycle.md:10).
SuccessWithoutBlockers ==
    handoff.status = "success" => ~unmet

\* execute hands the policy file to the providers: once a run is bootstrapped it holds the
\* policy that the approved subject covers.
ExecutesApprovedPolicy ==
    record.bootstrap => policyFile = record.policy

\* "only latest accepted SHAs integrate" (docs/handoffs/wave-09/evaluation.md:35), also when
\* a review runs beside the integration.
OnlyLatestIntegrate ==
    \A c \in Callers, l \in Lanes : At(c, "pick") => latest[l] \in offer[c].refs

\* Once no command runs, the final handoff of a run whose candidates are integrated does
\* not say blocked.
HandoffReflectsBranch ==
    sealed /\ (\A c \in Callers : At(c, None)) => handoff.status # "blocked"
=============================================================================
