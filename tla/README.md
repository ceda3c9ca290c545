# ServiceFabric: TLA+ models and proofs

ServiceFabric is a local platform that accepts work as *durable operations*,
governs what may run (policies, approvals), records what an effect did, and
hosts the processes of applications.  This directory holds TLA+ models of that
core, the TLC runs that check them on small instances, and proofs checked by
TLAPS that carry the most important properties to every value of the constants.

Run anything from this directory:

    tlc -workers 2 -config OperationStore.cfg MCOperationStore
    tlapm OperationStore_proofs.tla

`PROJECT.json` lists the runs with the properties each checks, the source lines
every definition models (`map`), a plausible bug of the code for each property
under which TLC finds it violated (`mutants`), the disagreements between the
code and its documentation (`findings`), and the places of the code that are
hard to test (`hazards`).

## 1. The system: inventory

Everything below is Python.  Services are objects in one process, called by the
threads of a `ThreadingHTTPServer` or by a command; the durable state is JSON
files written with a temporary file, `fsync` and `rename`.  Controllers of
processes are called from separate commands that share files and file locks.

| Component (source) | State | Operations | Interacts with | Hard behaviour |
|---|---|---|---|---|
| Operation store (`servicefabric_operations/store.py`) | per operation `initial.json`, one file per event, a snapshot | publish, append_event, append_observation, get, replay, list | state machine, submission, cancellation | several files per step, crash between them, lock not held from the read to the append |
| State machine, cancellation (`state_machine.py`, `attempts.py`) | none of its own | transition, request, acknowledge | the store | chain digest read without the lock |
| Idempotency (`idempotency.py`) | one file per key | reserve, complete, expiry on reserve | submission | a key that expires under calls in progress |
| Submission, gateway (`governance_operations/service.py`, `local_gateway/service.py`) | approval request files | submit, gate, resolve a duplicate | the three above | four durable steps with no transaction |
| Approvals (`approval_service.py`, `approval_consumption.py`, `invocation_boundary.py`) | decisions in memory and on file, consumption files | decide, record, revoke, bind, invoke, consume, execute | policy, the record repository | check and record apart, single use across threads and restarts |
| Policy (`policy.py`) | versioned bundles | evaluate | approvals, invocation | missing limits, order of the outcomes |
| Reconciliation (`reconciliation.py`, `records.py`) | immutable record files | reconcile; put three records | approvals use the same repository | three writes, repeated at another time |
| Attempts, retry planner (`attempts.py`) | immutable attempt files | put, decide | nobody yet | - |
| Process controller (`servicefabric_process_runtime`) | a record and a lock per module, the process itself | start, status, stop, resources, logs | host, development supervisor, capability runtime | the lock is released while a start waits; callers are killed; processes end |
| Application host (`application_host/service.py`) | `application.json`, a lock, the artifact | install, build, start, status, resources, stop, invoke | the process controller, the artifact store | two records of one process, answers without the lock |
| Development supervisor (`application_dev_supervisor`, `development.py`) | plans and bindings in memory | prepare, start with rollback, restart, stop | process controller, resource bindings | a failed step in the middle of a rollback, two commands at once |
| Resource bindings (`local.py`) | one file of bindings | resolve, release | supervisor | read-modify-write without a lock |
| Agent runs (`agentic_run_store`, `agentic_orchestrator`, `langgraph_orchestration`) | a run record | ready tasks, attempts, approval, resume | provider execution | resumption of a run that was interrupted |
| Provider execution (`agent_provider_runtime`, `provider_execution.py`) | a provider process, a cursor file | execute, cancel, resume | agent runs | time-out, cancellation and answer race |
| Application factory (`application_factory.py`, `application_factory_state`) | a run with its stage and digests | plan, approve, bootstrap, execute, review, integrate | agent runs, review, integration | long protocol with stale inputs |
| Review, integration (`application_candidate_review`, `application_integration`) | worktree, evidence | review, integrate | factory | base moved between review and integration |
| Capability registry, runtime | files per revision | register, resolve, publish | process controller, gateways | concurrent registration |
| Workspace (`servicefabric_workspace`, `wave3.py` create, `generator.py`) | `workspace.yaml`, application directories, one registry file each, locks | initialize, create, create from a template, locate, list | the builder, the supervisor | two creations of which one takes no lock; staging, rename, record, rollback; kills |
| Artifacts, capsules | content-addressed files, sessions | put, open, close | host, builder | rename of a directory that is already there |

What makes them correct, per component, and where it is stated:

* **Store**: the history of an operation is never replaced, its digest chain is
  whole, it is a path of the state machine, what was reported survives, no
  version is won twice, replay equals snapshot (`OperationStore`).
* **Submission**: one key means one operation; duplicates are answered with
  the operation of their own intent, which exists; one caller gates it
  (`Submission`).
* **Approvals**: an approval is spent once; what runs was approved for its own
  intent, in time, by a recorded decision (`Approvals`).
* **Reconciliation**: what was reported is on record with its evidence
  (`Reconciliation`).
* **Policy**: outcomes mean what the work plan says; tightening a bundle or
  dropping scopes never grants (`Policy`).
* **Controller**: one process, never lost; a live process keeps its record
  (`ManagedProcess`).
* **Host**: its record and the controller's name the same process; "starting"
  and "running" are said truthfully (`ApplicationHost`).
* **Supervisor, bindings**: a failed start and a stop leave nothing of their
  own; processes get the application's bindings; one service loses no process
  (`DevSupervisor`).
* **Agent runs, provider execution**: no plan gets stuck, dependencies come
  first, limits hold, usage is billed for work that ended, an interrupt holds
  (`AgentRuns`).
* **Factory, review, integration**: a handoff says what is on the branch, a
  bootstrapped run is complete and approved, one decision per question, one
  candidate per lane (`ApplicationFactory`).
* **Workspace**: what a command answered stays true; errors leave nothing
  incomplete (`Workspace`).

The legacy platform (`1_proxy`, `2_backend_api`, `3_service_templates`,
`5_core_services`, `agents_sdk`, ...) is separate from these packages and is
left out, as are contracts (schemas), adapters, generators and presentation.

## 2. Modules

| Module | Models | Extends / composes |
|---|---|---|
| `OperationStates` | states, transitions and cancellation of an operation | - |
| `OperationLedger` | what an operation promises: an atomic versioned ledger | `OperationStates` |
| `OperationStore` | the store file by file, with its state machine | `OperationStates`; implements `OperationLedger` |
| `Submission` | keys, submission, gateway | `OperationStates`; implements `OperationLedger` |
| `Approvals` | decisions, bindings, consumption, the boundary | - |
| `Reconciliation` | reconciliation and the immutable repository | - |
| `Policy` | the evaluator | - |
| `ManagedProcess` | the process controller | - |
| `ApplicationHost` | the host over the controller | `ManagedProcess` (its actions are conjuncts) |
| `DevSupervisor` | the development supervisor, its plans and the resource bindings | uses a start and a stop of the controller as one step each |
| `AgentRuns` | planner, scheduler, run store, provider execution and runtime | - |
| `ApplicationFactory` | plan, approval, bootstrap, review, integration | uses the result a lane of an agent run ends with |
| `Workspace` | initialization, creation by both commands, the registry | - |

`MC<module>` gives constants and symmetry for TLC; `<module>_proofs` holds the
theorems.  Three proof modules serve two components each, which share no
variable: `Governance_proofs` (`Reconciliation` and `Policy`),
`Development_proofs` (`Workspace` and `DevSupervisor`) and
`ApplicationHost_proofs`, which has the controller's theorems beside the
host's that rest on them.  Where two such modules would have the same name for
their specification, one of them carries its own (`PolicySpec`,
`WorkspaceSpec`).  Operators whose comment names a bug (`PublishAgain`, `Leave...`,
`...Unlocked`) are not used by any specification: they are the mutated forms
that `PROJECT.json` puts in the place of a definition to see that a property
can fail.

`OperationStore` and `Submission` meet in `OperationLedger`: the first is shown
to implement it, seen through `get()`; the second uses operations only as that
ledger allows, and is shown to implement it as well.  So the submission model
can treat a publication and a transition as one step.

## 3. How the models correspond to the code

Conventions shared by the modules.

* One write of a file is one action, and a call that writes several files has
  one action per file.  That is how the durable records are written: a temporary
  file, fsync and rename, and readers ignore `.pending-` names.  Three writers do
  otherwise.  The provider cursor is written in place, and `AgentRuns` gives it
  the two steps that has (`Open`, `Write`) and the texts nobody can read.  The
  usage and event logs are appended to, a line at a time, which is one action.
  The factory's `_atomic_json` renames without fsync a temporary file whose name
  all its writers share: two overlapping writers of one record are modelled as
  one replacing the other's; that one of them fails to find the file, which is a
  write and then a `Crash`, is therefore covered, and a record made up of two
  texts, which would stop every later command, is not.
* Threads share one process ("local single-process coordination" in the work
  plan); `pc` says where a thread is and `work` holds the locals it will still
  use.  A `Crash` drops memory and calls and keeps files.  `WriteFails` is an
  error of one write; the call unwinds as the code does.
* Digests are the thing digested, reduced to what tells two of them apart.
  Identifiers computed from a digest of fields are those fields.
* A refused call that changes nothing is a step that returns, or no step where
  nothing later depends on it.

**OperationStore.** `initial`, `events`, `snapshot` are the files of an
operation, `lock` is the store's lock.  `Publish...` are the writes of
`publish_operation`.  `Transition`, `RequestCancellation`,
`AcknowledgeCancellation` read the snapshot with `get()`; `ReadFirstEvent` or
`ReadLastEvent` read the digest the new event is chained to; `AppendEvent`
takes the lock, checks version and limit and writes the event; `WriteSnapshot`
writes the snapshot and releases it; `Refuse` is each raise under the lock.
`Rebuilt`, `Applies`, `ReplayUpTo` are `replay()`, as a recursive function.
Times, actors and references are left out; `completed_at`, the result and the
reason are functions of what is kept.  `expected_version` is the version that
was read, checked again under the lock.

**Submission.** `keys` are the reservation files, with an epoch that counts
reservations; `ledger` are the operations.  `ReserveFirst`, `ReserveDuplicate`,
`ReserveConflict` are the branches of `reserve`; `Publish`, `Gate`,
`CreateApprovalRequest`, `Accept` are the steps of the gateway;
`Resolve` is the duplicate's read.  A key may have expired at any time, so
`Expire` is always possible for a reservation.  The gateway derives the
operation's id from the intent.  `OthersWrite` is any other client of the store.

**Approvals.** Each call reads the clock once; instants are as fine as the
callers' clock.  `Decide` and `RecordDecision` are the two halves of a
decision; `Bind`, `Invoke`, `Consume`, `Execute` follow the boundary.  The
identifier of a policy decision contains the time of its evaluation, as
`policy.py` computes it.  A restart restores memory as `factory.py` does.

**Reconciliation.** A file is represented by the result it was made from.
`Put`, `PutAgain`, `PutConflict`, `PutRefused` are the four ways of the
repository's `put`.  What a provider observes changes only at a restart.

**Policy.** `Evaluate` is `evaluate()`; the two actions show an evaluation and
a second one of a tighter bundle.  A missing budget is the top of the order
(`Unlimited`).  Tenant and resource references are copied through by the code
and left out.

**ManagedProcess.** A number stands for a process (its pid and start time);
`launched` gives the command line of each.  `Launch` and `RecordStarting` are
the first locked section of `start()`, apart because a caller may be killed in
between; `Ready`, `NotReady`, `Superseded` are the second.  `StopSignal`,
`StopDone`, `StopFails` are a stop, which keeps the lock while it waits.  A
status of a live process changes only its health, which is left out.

**ApplicationHost.** `app` is `application.json`, `record` the controller's
record.  Every call is a sequence of actions under `hostLock`, each with the
action of `ManagedProcess` it performs as a conjunct.  Each start has a new
port, so no two command lines are equal.  `StatusStarting` is the answer
given without the lock.  Package and source verification succeed; invocations
and their counter are left out.

**DevSupervisor.** A service is a `ResearchNotesDevelopmentService`: that of a
command (`CommandsOf` 1) ends with it, a kept one runs several.  `plans` is its
cache of plans: the bindings and the API port of the moment a plan was made up,
where the service stands for the ports, since no two services choose the same.
`job` is the command in progress with the modules it has started; `StartModule`,
`Rollback`, `StopModule`, `RestartStop`, `RestartStart` are the loops of the supervisor, one module
per step.  `resource` is the bindings file.  A start or a stop of the controller
is one step, as `ManagedProcess` shows what happens inside.  Services run their
commands side by side; `overlap` remembers that they did.

**AgentRuns.** `results` is the run store; a missing file is "none".
`ReadyTasks` is `ready_tasks` with its capacity, `FirstBatch` the first-fit split
by provider, `CycleFrom` the planner's search for cycles.  `read` is what a
command holds in memory.  `cursor` is the provider cursor: its text, whether it
holds an interrupt and whether it holds the policy.  Every read and every save
of it is a step of its own: `Execute` and `Resume` read it, `Open` and `Write`
put back what was made of it, `Enter` reads it again, and `Compile` and `Spend`
read the results and the usage once.  `Launch` starts the processes of the
batch, one thread each (`runs`), and only `Register` looks into the registry of
the service: a process it finds a duplicate of is live all the same, until
`DuplicateEnds`, with the runtime's lock held (`LockFree`).  `Finish` ends a
process, `Unregister` takes its key out, `Collect` goes on when all threads are
done, and `Record`, `Charge`, `Judge` handle one result after the other.
`Crash` kills a service with its threads; the files stay, and so do the processes
(`orphans`), which work on until `OrphanEnds`.  `behind` remembers who read the
cursor last before an interrupt was saved.

**ApplicationFactory.** `record` is the planning record, `approvals` with the
plans they name (`subjects`), `reviews`, `handoff`, `unmet` the lifecycle document, `results` the run store, `repository`,
`root`, `worktrees`, `picks`, `sealed`, `dirty` the repository and its
worktrees.  A command is a caller with a step (`pc`) and its locals: `copy` is the
record as it read it and later writes it back, `todo` the worktrees, reviews or
lanes its loop still has to visit, `offer` the handoff it prepares.  One action
per write, and one for a check that a write follows without a lock (`TestPlan`
before `WritePlan`); a caller may be killed between any two.  What an inspection compares
inside a candidate is one fact of it (`Sound`, `Based`).

**Workspace.** One application; `yaml`, `json`, `directories` are what `initialize`
makes, `target` is `applications/<id>` with who renamed it there, `entry` its
registry file with who wrote it (`Nobody` if there is none).  Both creations share the actions after their
own differences: locks (`Lock`), the second look of the generator (`Stageable`),
what is still to be written after the rename (`Complete`).  A rename succeeds onto
a missing or an empty directory, `rmtree` passes through an empty one, and
`ignore_errors=True` may leave what it should remove (`CleanFails`,
`RemoveFails`).

## 4. What is checked

Safety, steps, refinement and liveness, by TLC.  Each run takes less than five
minutes with two workers.

| Run | Shows |
|---|---|
| `operation_store` | two threads, one crash or failed write anywhere: history readable, legal, at most one event ahead of the snapshot and only by a fault, and reports survive (`HistorySound`); event files are never replaced and no version is reported twice (`AppendOnly`); acknowledgements answer requests; replay rebuilds the snapshot; the ledger is implemented; every call returns and no lock is kept |
| `submission` | gateway and direct caller under one key, two operations of one intent and a second intent, cancellations, expiry, a full store and a fault: one operation per reservation; an answer names an operation that exists, of the caller's own intent; one call wins it; it is never reset (`ImplementsLedger`) |
| `approvals` | two threads, two approvers, two restarts or failed writes: a binding executes once, what executes was approved for it, in time and on record, a recorded decision stays known |
| `reconciliation` | three attempts of two operations, a full repository, a fault: reports are stored, receipts have evidence |
| `policy` | all bundles and requests over two effects, two scopes, two budgets, and all tightenings |
| `managed_process` | three callers, one command line, two kills: one process, never lost, until a caller is killed; a live process always keeps its record; every call returns; no start stays in progress |
| `application_host` | three callers, four launches, two kills or failed callbacks: one process, named by both records, and a true unlocked answer until the first; "running" was ready and the records never name two live processes even after them |
| `agent_runs` | two callers of one service, three commands, three tasks, two graphs that are valid and three that are not, a kill: no plan gets stuck, dependencies come first, the limits of an executor hold, usage is billed for processes that ended, an interrupt is passed only after a resume or after the save of somebody who had read the cursor before it; every command returns, unless it waits for a process that never ends |
| `application_factory` | two processes, two policies, two lanes, two candidates of one lane, kills between all writes, one overlap: truthful handoffs and complete, approved bootstraps always; unique decisions and one candidate per lane without overlap |
| `dev_supervisor` | a kept service with three commands beside a command line with one, three modules, launches and kills that fail, processes that die: a start that fails takes back what it started, a stop that succeeds leaves nothing on record and no allocation, a command-line start injects the bindings, one service loses no process |
| `workspace` | three callers, any number of commands, all failures and kills: a created application stays registered and whole as its creator left it, an initialized workspace is whole; errors that are handled leave nothing incomplete |

`operation_store_torn_append` is expected to find a violation; it shows where
the code and its documentation disagree, as section 7 does for more of them.

### Bounds

Every bound is a constant named in its module.  `HistoryBound` 3
allows a transition, a cancellation and its acknowledgement after a publication
in any order, and `MaxEvents` 3 makes the event limit reachable;
`FaultBound` (1 or 2) allows a fault and a fault during the
recovery from it - a third one meets the same files again; `EpochBound` 2 lets a
key be reserved, expire and be reserved once more while calls of the first
epoch are in progress; `VersionBound` 1 lets other clients write between any
two steps; `MaxOperations` 1 or 2 makes the store full; one key is enough
where two callers must meet (the proofs speak of any number); `TimeBound` 1 gives a
deadline a before and an after (`Lifetime` 1) and two instants for one repeated
call; `MaxRecords` 4 stops a reconciliation between its records;
`LaunchBound` 4 or 5 allows every caller a launch and one a relaunch;
`CommandBound` 3 lets a second and a third command find what the first left
unfinished (in the agent runs 2 for the join, whose batches have two processes;
`Budget` 1 is used up by one result and exceeded by two, and one task,
`Asking`, may ask for a contract change), `CommandsOf` the same per service; `CrashBound` 1 kills a service once;
`OverlapBound` 1 lets one command start inside another - two suffice for each
lost update named in the hazards but the plan record replaced after its
approval, which needs two commands beside a plan that waits (`OverlapBound` 3 with
`Reviews = {r1}` and without symmetry shows it in about a minute, the theorem for
every bound).  `PerProvider` 1 with two providers and
`MaximumParallel` 2 make both limits bite on three tasks.  `Workspace` needs no
bound: its state is finite however many commands are run.  Two threads
suffice for every race between a check and a write in this code, since the
locks are global; three are used where two losers can meet.  Larger values are
what the proofs are for.

Symmetry is used for threads, callers and interchangeable names, and only in
runs without liveness properties; those of the store and the controller have
none.

### Fairness

`FairSpec` of the store: weak fairness of each thread's `Step`.  A thread that
is in a call is scheduled; a call waiting for the store's lock is not yet
enabled, and the lock is released by a thread that is.  Nobody has to call, a
fault need not happen.

`FairSpec` of the controller: strong fairness of each caller's `Resume`.  A
caller waiting for the module's file lock gets it when it becomes free again
and again (`flock` queues its waiters); the wait for health and the wait for
the end of a process are bounded by deadlines in the code, after which one of
the branches is taken.

`FairSpec` of the agent runs: weak fairness of each caller's `ThreadStep`, what
the threads of a command do by themselves.  That a provider process ends
(`ProcessEnds`) is not assumed: a duplicate is waited for without a time-out, and
with the runtime's lock held, and so is a process that was killed after its
time-out (`runtime.py:81` and `96`).  `CommandsReturn` therefore says that a command
returns or that from some time on it waits for a process it started, or for the
lock behind somebody's duplicate (`Waits`).  The lock disables a thread from time
to time, for which weak fairness is enough here: each hold ends with its
duplicate, and a behaviour has finitely many commands and so duplicates.  A plan
need never be executed.

The other specifications state no fairness; their properties are about safety.

`CHECK_DEADLOCK FALSE` is set, except for the factory and the workspace, because no client is obliged to call again: a
state in which all calls have returned and every bound is used up is an end.

## 5. What is proved

All theorems hold for arbitrary sets of threads, operations, keys, approvers or
callers and arbitrary bounds, under the named assumption on the constants that
each module states (distinctness of its null values, natural bounds).  Each
proof module has the shape: `Init => IInv`, `IInv /\ [Next]_vars => IInv'` with
one step per action, `IInv => Property`.

| Module | Theorems | Inductive invariant and why it is needed |
|---|---|---|
| `OperationStore_proofs` | `TypeCorrect`, `HistoryAlwaysSound` (with `HistoryAlwaysReadable`, `HistoryAlwaysLegal`, `TornByFaultOnly`, `AckedAlwaysDurable`), `AlwaysAppendOnly` and `NeverReportedTwice`, `AckAlwaysAnswersRequest`, `ReplayAlwaysFaithful`, `StoreImplementsLedger` | types; shape of the files; the chain; what a thread in the middle of a call knows (`CallInv`: a digest read without the lock is that of the event before the version it will check); reports and torn histories. The chain property alone is not inductive: the digest is read unlocked, and only its agreement with the version checked under the lock makes the append right. That an acknowledgement answers a request is a property of files, while the code looks at the snapshot: `CancelInv` adds that a snapshot with a pending cancellation has the request in its history with nothing but transitions after it (`PendingInv`), and that the same holds of the version a call in progress has read (`RequestInv`), also when a fault keeps the event and loses the snapshot. For replay, `ReplayInv` says that some finite sequence of operations is a replay of the events up to the snapshot and ends in it, but for the error of a transition that was not the last (`SameButError`), and that a call still based on the current version writes what its event makes of it (`Follows`); a step adds at most one operation to the sequence. Only outside the invariant does `ReplayUnique` show that such a sequence is the one the recursive `ReplayUpTo` computes, from a least event where the two would differ |
| `Submission_proofs` | `TypeCorrect`, `OneOperationAlways`, `AnswersAlwaysOwnOperation` (with `AnswersAlwaysOwnIntent`, `AnsweredAlwaysExists`), `OneWinnerAlways`, `RequestAlwaysFollowsGate`, `SubmissionImplementsLedger` | what a call between reserving and answering knows of its key's epoch (`KeyInv`, `CallInv`), and that a call about to publish has not published (`FreshInv`) |
| `Approvals_proofs` | `TypeCorrect`, `ExecutedAtMostOnce`, `ExecutionAlwaysHasEvidence`, `RecordedAlwaysDecided` | recorded decisions are known (`DecisionInv`), a call carries the evidence it was accepted on (`EvidenceInv`), an execution or a call about to execute owns the consumption file (`UseInv`) |
| `Governance_proofs`, reconciliation | `TypeCorrect`, `RecordsAlwaysComplete` (with `ReportedAlwaysStored`, `ReceiptAlwaysHasEvidence`) | files only grow, and a call in progress has already stored the records before the one it puts (`CallInv`) |
| `Governance_proofs`, policy | `OutcomesAlwaysMean`, `TighteningNeverGrants` | the decision shown is the evaluation of the bundle and request shown; the rest are lemmas about `Evaluate` |
| `ApplicationHost_proofs`, controller | `TypeCorrect`, `LiveAlwaysRecorded`, `AlwaysOneKnownProcess` (with `NothingOrphaned`, `AlwaysSingleProcess`) | a live process on record is starting or running (`RecordInv`); a launch found no live process on record and a stop works on the recorded one (`LockInv`). The last three assume that all starts agree on the command line (`OnePlan`) and speak of the time until a caller is killed; section 7 (`SingleProcess`, `StopLeavesNone`) shows that neither condition can be dropped |
| `ApplicationHost_proofs`, host | `HostTypeCorrect`, `NeverTwo`, `CalledRunningWasReady`, `BothRecordsAgree`, `StartingAlwaysTrue` | the controller's invariant, and where a call of the host is and what it holds (`CallInv`: at most one is past the lock, and the controller is where the host's call is). `AppInv`, `StartInv`, `AbsentInv` hold whatever is killed: a live process of `application.json` is the controller's, a launch found none there. `KnownInv` and `StartingInv` hold until the first fault: whatever runs is on record or about to be, and a record says "starting" only during a start. The host's starts never share a command line, so `OnePlan` is of no use here: that one process runs follows from the host stopping before it starts |
| `AgentRuns_proofs` | `TypeCorrect`, `DependenciesAlwaysFirst`, `BoundsAlwaysHold`, `UsageAlwaysTraceable`, `InterruptAlwaysHeld`, `NeverAlwaysStuck` | all but the last over `BatchInv`, what a caller's batch holds at each step. `DependInv`: a waiting batch was ready when it was compiled, and a success is never forgotten even if its result is cleared. `UsageInv`: the lines of a task and the callers that still have to bill it (`Unbilled`) together are at most the processes that ended - the property alone says nothing of a caller between the end and the line. `BoundInv`: a batch is within both limits, by a lemma on the cardinality of the first elements of a set of numbers (`RanksBelow`), so its live processes are, and what is running is registered once per service. `InterruptInv`: a whole cursor holds every interrupt that was saved and not lifted since, and a caller that runs its batch, or is about to save a cursor without interrupt for another reason than a resume, is among those that read the cursor before the interrupt (`behind`), or nothing is interrupted; a save in progress and an unreadable text are why the first part speaks of whole cursors only. `NeverAlwaysStuck` has a small invariant (`PlanInv`: a recorded plan passed the validation) and a lemma about graphs (`WaitingCycle`): if every unfinished task waited for an unfinished one, the validation's depth-first walk would close a cycle, because a walk that does not would visit more and more of finitely many tasks; so some task is free, and the first free one is within the capacity |
| `ApplicationFactory_proofs` | `TypeCorrect`, `HandoffAlwaysTruthful`, `BootstrapAlwaysComplete`, `DecisionsSequential`, `LanesPickedOnce` | `HeldInv`: what a command holds at each step of an integration - the offer names one accepted review per lane, and what is not yet picked is still to do - so that a handoff is written only of what is on the branch; accepted reviews and picks are never taken back (`Grows`). `BootInv`: a bootstrap at each step has made what is not still to do, and neither decisions nor worktrees are taken back (`Lasting`); the copy it works from names an approved plan, and so does every record or copy that says the run is bootstrapped (`Backed`), although a plan that was late may replace the record meanwhile. `SequentialInv`, of the time without overlap: the command in progress is the only one and its copy is the record on disk; one plan is decided, a candidate has one review, and a reviewed one is the latest of its lane or recorded as superseded (`LatestOrSuperseded`), and what is picked or about to be is one per lane |
| `Development_proofs`, workspace | `WorkspaceTypeCorrect`, `AnswersAlwaysKept`, `NothingLeftIncomplete` | `OwnInv`: from its rename to its record a directory is its promoter's, and nobody is registered - although one of the two commands that create takes no lock, because the rename of the second fails on a directory with something in it. `EntryInv`: who is registered has been told so. `LitterInv`: until a kill or an ignored error, everything incomplete has a caller that is still going to complete it or take it away |
| `Development_proofs`, supervisor | `SupervisorTypeCorrect`, `RollbackAlwaysComplete`, `StopAlwaysComplete`, `CommandLineAlwaysInjects`, `OneServiceNeverLoses` | `Sound` says what a command in progress has achieved: the live processes of a start are on record under the modules it has still to roll back, and a stop has left nothing above the module it is at. It holds of every command only while no other runs (`AloneInv`). `Procs`: a process has the plan its service made up and keeps, so a service that runs alone recognises what it launched (`OwnedWhenAlone`) and never launches over it. `PlansOK`: whoever launches holds bindings, and a service of one command has made up no plan without them |

The refinement theorems state the abstract specification itself: `StoreImplementsLedger`
and `SubmissionImplementsLedger` have `OperationLedger` under the mappings of the
modules as their conclusion.

## 6. What is only model-checked

* Liveness (`EveryCallReturns` twice, `StartupResolves`, `CommandsReturn`): the
  provers handle invariants and steps, not fairness.

Every safety property of a run that is expected to pass is a theorem.  Where one
is about a recursive function (`ReplayUpTo`, the walk of `CycleFrom`) the library's
induction theorems are of no use, since the provers cannot instantiate their
operator parameter; the proofs take the least element of the set of
counterexamples instead (`WFMin`), and show that the function exists by giving
it: the replay from the invariant, the walk as a least fixed point
(`VisitExists`).

## 7. Where the code and its documents disagree

| Property (module) | Configuration, and what to change | What happens |
|---|---|---|
| `CrashSafeAppend` (`OperationStore`) | run `operation_store_torn_append` | a fault between event file and snapshot leaves an operation that can take no further event |
| `CancelledReplays` (`OperationStore`) | `OperationStore.cfg` | a cancelled operation cannot be replayed |
| `CrashSafeListing` (`OperationStore`) | `OperationStoreTornAppend.cfg`, `Ops = {o1, o2}`, `MaxOperations = 2` | a crash inside publish makes `list_operations` raise |
| `EventRetention` (`OperationStore`) | `OperationStore.cfg`, `MaxEvents = 2` | observations are appended beyond the event limit |
| `DuplicatesResolve` (`Submission`) | `Submission.cfg` | a duplicate that arrives during the first call is refused |
| `ReservationHasOperation` (`Submission`) | `Submission.cfg` | a fault after the reservation binds the key to nothing |
| `AcceptanceHasRequest` (`Submission`) | `Submission.cfg` | a retry is told "accepted" though no approval request exists |
| `OneDecisionPerRequest` (`Approvals`) | `Approvals.cfg` | two approvers at once leave two decisions of one request |
| `RevocationHolds`, a property (`Approvals`) | `Approvals.cfg` | a revocation is neither stored nor read |
| `BindingUsable` (`Approvals`) | `Approvals.cfg`, `Lifetime = 2` | a valid binding is refused at any later instant |
| `StaysReconcilable` (`Reconciliation`) | `Reconciliation.cfg`, `FaultBound = 0`, `MaxRecords = 9` | asking again about an unknown effect raises |
| `SettledHasReceipt` (`Reconciliation`) | `Reconciliation.cfg`, `MaxRecords = 9` | a missing receipt cannot be added later |
| `SingleProcess` (`ManagedProcess`) | `ManagedProcess.cfg`, `Plans = {plan1, plan2}` | a start with another port leaves the first process running, unrecorded |
| `StopLeavesNone` (`ManagedProcess`) | `ManagedProcess.cfg` | a kill between launch and record leaves a process nobody stops |
| `StopFindsRecorded`, a property (`ApplicationHost`) | `ApplicationHost.cfg` | a stop copies a stale pid over the controller's record and loses the process |
| `InstallRepeatable` (`ApplicationHost`) | `ApplicationHost.cfg` | an interrupted first install can never be repeated |
| `StopLeavesNothing` (`DevSupervisor`) | `DevSupervisor.cfg` | the start of a second service replaces the record of a process the first launched; the stop that follows succeeds while that process runs |
| `ConsumerReachesApi` (`DevSupervisor`) | `DevSupervisor.cfg` | another service restarts the API at a new port: the web module keeps the old one |
| `BindingsInjected` (`DevSupervisor`) | `DevSupervisor.cfg` | a kept service that was asked for its status before it prepared launches processes without bindings |
| `ResourcesHeld` (`DevSupervisor`) | `DevSupervisor.cfg` | a prepare that fails while processes run releases the resources they use |
| `OneWorkerPerTask` (`AgentRuns`) | `AgentRuns.cfg` | two executors of one service have two live processes for one task: the second is started before it is refused; and a process outlives its killed service while another is started for its task |
| `InterruptStands`, a property (`AgentRuns`) | `AgentRuns.cfg` | an executor that read the cursor before an interrupt was saved writes it back without the interrupt, and runs on |
| `CursorReadable` (`AgentRuns`) | `AgentRuns.cfg` | a kill in the middle of a save leaves an empty cursor, which neither execute nor resume gets past |
| `SuccessWithoutBlockers` (`ApplicationFactory`) | `ApplicationFactory.cfg` | a run with a recorded unmet requirement is handed off as a success |
| `ExecutesApprovedPolicy` (`ApplicationFactory`) | `ApplicationFactory.cfg` | a plan that is refused has already replaced the policy file that execute gives to the providers |
| `OnlyLatestIntegrate` (`ApplicationFactory`) | `ApplicationFactory.cfg` | two reviews of one lane overlap: the candidate that is integrated is not the one reviewed last |
| `HandoffReflectsBranch` (`ApplicationFactory`) | `ApplicationFactory.cfg` | an integration that is asked for too early fixes the final handoff at "blocked", although a later one puts all candidates on the branch |
| `NeverLeftBehind` (`Workspace`) | `Workspace.cfg` | a kill before the registration leaves a directory that is not registered and that every later creation refuses |

The first is a run of the project, expected to find the violation, and
`PROJECT.json` quotes the line of the document; the others are stated in their
modules, most of them with that line, and refuted by TLC under the
configuration of the second column, with the property in the place of those it
lists.  `StartingIsTrue` without its premise `faults = 0` is refuted as well:
after a kill during a start, `status()` calls an application starting although
its process is gone.  A `workspace.yaml` that a kill left empty makes every later
`initialize` refuse, although it is documented as idempotent.

## 8. What is not modelled

* Schemas and validation of documents, digests' computation, JSON, HTTP and
  command line presentation: pure, tested by unit tests.
* Provider adapters, kits, distillation: translations of input to output without
  state.
* The attempt repository and the retry planner: no controller calls them yet;
  the repository's put is the one of `Reconciliation`.
* The capability registry and runtime and their gateways, the artifact store and
  the capsules: file-backed registries that are written under the patterns of
  `Workspace` and `Reconciliation`.  Of the artifact store a reader should know
  that a writer that loses the race of two puts gets `OSError` (directory not
  empty) from the rename, which `put_artifact` does not take for "already there".
* Wording, paths and inspections inside a candidate or an artifact; the commands
  that only read (status of a run, handoff, list, locate, logs).
* Some hazards of a single line, better covered by unit tests: `expires_at` is
  `now.replace(year=now.year + 1)` and raises on 29 February
  (`local_gateway/service.py:66`); a decision is remembered although recording
  it failed (`governance_operations/.../service.py:28`), which `Approvals` contains
  as a failed write; pid reuse between the check of a start time and the
  signal (`controller.py:358`).
* A clock that goes backwards, disks that lose a synced file.
* The legacy platform.

## 9. Plan

Done, most important behaviour first: `OperationStates`, `OperationLedger`,
`OperationStore`; `Submission`; `Approvals`; `Reconciliation`; `Policy`;
`ManagedProcess`; `ApplicationHost`; `AgentRuns`; `ApplicationFactory`;
`DevSupervisor`; `Workspace`; and proofs for all of them.

What would come next:

1. `DevSupervisor` over the actions of `ManagedProcess`, as the host is.
2. `CapabilityRegistry` and `Artifacts`: concurrent writers of files, immutability of
   what was registered, the race of two puts.
3. Capsules: sessions and their limits.
