----------------------------- MODULE AgentRuns -----------------------------
(***************************************************************************)
(* One agent run: the durable task results of FileRunStore, the scheduling  *)
(* decisions of ready_tasks and LangGraphOrchestrator, and the provider     *)
(* execution service that launches a batch of provider processes, waits for *)
(* all of them and records their results one by one.  Several callers (CLI  *)
(* processes, or threads that share one service) run commands on the run.   *)
(*                                                                          *)
(* Tasks are numbered in plan order and a provider is a model value.  A     *)
(* result is "failed" for failed, blocked and timed out, and "pending" for  *)
(* pending and running: the scheduler tells neither pair apart.  A cursor   *)
(* is its interrupt flag and whether it still holds the policy; the reason  *)
(* of an interrupt is left out.                                             *)
(***************************************************************************)
EXTENDS Integers, FiniteSets

CONSTANTS
    TaskCount,      \* tasks of the plan
    Callers,        \* threads or processes that issue commands
    ServiceOf,      \* the ProviderExecutionService a caller uses
    MaximumParallel,\* plan.maximum_parallel_tasks
    ProviderOf,     \* policy.provider_for_role, per task
    PerProvider,    \* policy.maximum_parallel_per_provider
    Budget,         \* policy.maximum_total_cost
    Checked,        \* tasks that declare verification commands
    Costs,          \* estimated_cost of a provider result
    Asking,         \* tasks whose provider may report contract_change_requested
    Reported,       \* statuses that agents record-result is given
    Graphs,         \* the task graphs a plan can be asked for
    CommandBound,   \* bound: commands issued in a behaviour, per task graph
    CrashBound      \* bound: services killed in a behaviour

Tasks == 1 .. TaskCount
Services == {ServiceOf[c] : c \in Callers}

ASSUME TaskAssumption ==
    /\ TaskCount \in Nat \ {0}
    /\ MaximumParallel \in Nat \ {0}
    /\ PerProvider \in Nat \ {0}
    /\ Budget \in Nat
    /\ Checked \subseteq Tasks
    /\ Costs \subseteq Nat
    /\ Asking \subseteq Tasks
    /\ Reported \subseteq {"success", "failed", "cancelled", "pending"}
    /\ Graphs \subseteq [Tasks -> SUBSET Tasks]
    /\ ProviderOf = [t \in Tasks |-> ProviderOf[t]]
    /\ ServiceOf = [c \in Callers |-> ServiceOf[c]]
    /\ CommandBound \in [Graphs -> Nat] /\ CrashBound \in Nat
    /\ IsFiniteSet(Callers)

\* What comes of a process: "late" is a success or a cancellation that it reported before
\* it ran into its timeout.
Outcomes == {"success", "failed", "cancelled", "late"}
Statuses == {"success", "failed", "cancelled", "pending"}
\* "launched" before the runtime has registered the process, "duplicate" when it
\* found the task registered and waits for the terminated process to end.
Live == {"launched", "running", "duplicate"}
Steps == {"idle", "open", "write", "retry", "clear", "enter", "compile", "spend", "wait",
          "record", "charge", "judge", "stop", "cancel", "verify"}

VARIABLES
    deps,       \* the plan: the dependencies of each task; {} before a plan is saved
    planned,    \* whether the run store holds the plan
    results,    \* FileRunStore: the durable result of each task, or "none"
    cursor,     \* provider-cursors/<run>.json: its text, interrupt and policy
    usage,      \* provider-usage/<run>.jsonl: lines per task
    spent,      \* the sum of estimated_cost over those lines
    changeAsked,\* tasks with a contract_change_requested event in the log
    pc,         \* the step each caller is at
    tasks,      \* the tasks each caller still has to handle
    read,       \* what each caller holds in memory
    runs,       \* the provider process of each caller for each task
    registry,   \* ProviderRuntime._processes of all services: caller and task
    orphans,    \* tasks with a process that outlived its service
    commands, crashes,
    succeeded,  \* history: tasks whose result has been "success"
    ended,      \* history: ends of registered processes, per task
    interrupted,\* history: an interrupt was saved and not lifted since
    behind      \* history: callers that last read the cursor before that save

caller == <<pc, tasks, read>>
history == <<succeeded, ended, interrupted, behind>>
vars == <<deps, planned, results, cursor, usage, spent, changeAsked, caller, runs, registry,
          orphans, commands, crashes, history>>

NoRuns == [t \in Tasks |-> "none"]
Kept(interrupt, policy) == [interrupt |-> interrupt, policy |-> policy]
Nothing == [save |-> Kept(FALSE, FALSE), for |-> "end", more |-> FALSE, spent |-> 0,
            results |-> NoRuns, targets |-> {}]
First(S) == CHOOSE t \in S : \A u \in S : t <= u

----------------------------------------------------------------------------
(* The plan.                                                               *)

\* Mutant: only cycles of two tasks are found.
CycleOfTwo(d) == {t \in Tasks : \E u \in d[t] : t \in d[u]}

\* The depth-first walk of _validate_tasks: a task met again while it is on the
\* path from the root closes a cycle.
CycleFrom(d) ==
    LET visit[path \in SUBSET Tasks] ==
            {t \in Tasks : t \in path \/ \E u \in d[t] : u \in visit[path \cup {t}]}
    IN  visit[{}]

\* compile_plan: no task depends on itself, and no walk finds a cycle.
ValidTasks(d) ==
    /\ \A t \in Tasks : t \notin d[t]
    /\ CycleFrom(d) = {}

\* Mutant: a dependency with any result counts as done.
ReadyWhenRecorded(res) ==
    {t \in Tasks : res[t] = "none" /\ \A d \in deps[t] : res[d] # "none"}

\* A recorded task is never ready; pending and running results reserve slots.
ReadyTasks(res) ==
    LET inFlight == {t \in Tasks : res[t] = "pending"}
        free == {t \in Tasks : /\ res[t] = "none"
                               /\ \A d \in deps[t] : res[d] = "success"}
    IN  {t \in free : Cardinality({u \in free : u < t})
                          < MaximumParallel - Cardinality(inFlight)}

\* _split_batch is first fit per provider, so the first batch holds the first
\* PerProvider requests of each provider.
FirstBatch(ready) ==
    {t \in ready : Cardinality({u \in ready : u < t /\ ProviderOf[u] = ProviderOf[t]})
                       < PerProvider}

----------------------------------------------------------------------------

Init ==
    /\ deps = [t \in Tasks |-> {}]
    /\ planned = FALSE
    /\ results = [t \in Tasks |-> "none"]
    /\ cursor = [text |-> "whole", interrupt |-> FALSE, policy |-> FALSE]
    /\ usage = [t \in Tasks |-> 0]
    /\ spent = 0
    /\ changeAsked = {}
    /\ pc = [c \in Callers |-> "idle"]
    /\ tasks = [c \in Callers |-> {}]
    /\ read = [c \in Callers |-> Nothing]
    /\ runs = [c \in Callers |-> NoRuns]
    /\ registry = {}
    /\ orphans = {}
    /\ commands = 0 /\ crashes = 0
    /\ succeeded = {}
    /\ ended = [t \in Tasks |-> 0]
    /\ interrupted = FALSE
    /\ behind = {}

\* AgenticApplicationService.plan: compile_plan validates the task graph, save_plan
\* creates the run; another plan for the same run is refused.
Plan ==
    /\ ~planned
    /\ \E d \in Graphs :
          /\ ValidTasks(d)
          /\ deps' = d
    /\ planned' = TRUE
    /\ UNCHANGED <<results, cursor, usage, spent, changeAsked, caller, runs, registry,
                   orphans, commands, crashes, history>>

\* FileRunStore.record_result adds or replaces one result under the run's lock.
StoreResult(t, status) ==
    /\ results' = [results EXCEPT ![t] = status]
    /\ succeeded' = IF status = "success" THEN succeeded \cup {t} ELSE succeeded
    /\ UNCHANGED <<ended, interrupted, behind>>

Goto(c, step, S, seen) ==
    /\ pc' = [pc EXCEPT ![c] = step]
    /\ tasks' = [tasks EXCEPT ![c] = S]
    /\ read' = [read EXCEPT ![c] = seen]

Return(c) == Goto(c, "idle", {}, Nothing)

Command(c) ==
    /\ planned
    /\ pc[c] = "idle"
    /\ commands < CommandBound[deps]
    /\ commands' = commands + 1

----------------------------------------------------------------------------
(* The cursor is read and written in place, without a lock.                *)

\* A cursor that is not whole is no JSON text: reading it raises.
ReadCursor(c) ==
    /\ cursor.text = "whole"
    /\ behind' = behind \ {c}
    /\ UNCHANGED <<succeeded, ended, interrupted>>

\* _save_cursor: what is saved, and what the caller does after it.
Save(c, value, for) ==
    Goto(c, "open", {}, [Nothing EXCEPT !.save = value, !.for = for])

Unreadable(text) == [text |-> text, interrupt |-> FALSE, policy |-> FALSE]

\* path.write_text empties the file ...
Open(c) ==
    /\ pc[c] = "open"
    /\ cursor' = Unreadable("empty")
    /\ Goto(c, "write", {}, read[c])
    /\ UNCHANGED <<deps, planned, results, usage, spent, changeAsked, runs, registry,
                   orphans, commands, crashes, history>>

\* What another writer put there since may be longer and leave its tail: a cursor
\* without policy is the shorter one, and one without an interrupt shorter still.
Longer(value) ==
    \/ cursor.text = "torn"
    \/ cursor.policy
    \/ cursor.interrupt /\ ~value.policy

\* ... and writes the text from its start.  An interrupt is lifted when resume saves,
\* or a caller that read the cursor before the interrupt was there.
Write(c) ==
    /\ pc[c] = "write"
    /\ LET value == read[c].save IN
       \/ /\ cursor' = [text |-> "whole", interrupt |-> value.interrupt,
                         policy |-> value.policy]
          /\ \/ /\ value.interrupt
                /\ interrupted' = TRUE
                /\ behind' = Callers
             \/ /\ ~value.interrupt
                /\ interrupted' = (interrupted /\ c \notin behind /\ read[c].for # "resume")
                /\ UNCHANGED behind
       \/ /\ Longer(value)
          /\ cursor' = Unreadable("torn")
          /\ UNCHANGED <<interrupted, behind>>
    /\ \/ read[c].for = "end" /\ Return(c)
       \/ read[c].for # "end" /\ Goto(c, "enter", {}, Nothing)
    /\ UNCHANGED <<deps, planned, results, usage, spent, changeAsked, runs, registry,
                   orphans, commands, crashes, succeeded, ended>>

----------------------------------------------------------------------------
(* The commands execute and resume, up to the batch.                       *)

\* execute adds the policy to the cursor it read.
Execute(c) ==
    /\ Command(c)
    /\ ReadCursor(c)
    /\ Save(c, Kept(cursor.interrupt, TRUE), "execute")
    /\ UNCHANGED <<deps, planned, results, cursor, usage, spent, changeAsked, runs, registry,
                   orphans, crashes>>

\* resume needs the persisted policy; its decision is to continue or to retry.
Resume(c) ==
    /\ Command(c)
    /\ ReadCursor(c)
    /\ cursor.policy
    /\ \/ Save(c, Kept(FALSE, TRUE), "resume")
       \/ Goto(c, "retry", {}, Nothing)
    /\ UNCHANGED <<deps, planned, results, cursor, usage, spent, changeAsked, runs, registry,
                   orphans, crashes>>

\* The named tasks, or without a name those with a result.
Retry(c) ==
    /\ pc[c] = "retry"
    /\ \E S \in {{t} : t \in Tasks} \cup {{t \in Tasks : results[t] # "none"}} :
          \/ S # {} /\ Goto(c, "clear", S, Nothing)
          \/ S = {} /\ Save(c, Kept(FALSE, TRUE), "resume")
    /\ UNCHANGED <<deps, planned, results, cursor, usage, spent, changeAsked, runs, registry,
                   orphans, commands, crashes, history>>

\* FileRunStore.clear_result, one task after the other.
Clear(c) ==
    /\ pc[c] = "clear"
    /\ \E t \in tasks[c] :
          /\ results' = [results EXCEPT ![t] = "none"]
          /\ \/ tasks[c] # {t} /\ Goto(c, "clear", tasks[c] \ {t}, Nothing)
             \/ tasks[c] = {t} /\ Save(c, Kept(FALSE, TRUE), "resume")
    /\ UNCHANGED <<deps, planned, cursor, usage, spent, changeAsked, runs, registry,
                   orphans, commands, crashes, history>>

\* Mutant: the interrupt in the cursor is not looked at.
InterruptIgnored == FALSE

\* An interrupted run returns at once.
InterruptSeen == cursor.interrupt

\* The head of _execute_with_policy reads the cursor again.
Enter(c) ==
    /\ pc[c] = "enter"
    /\ \/ /\ ReadCursor(c)
          /\ \/ InterruptSeen /\ Return(c)
             \/ ~InterruptSeen /\ Goto(c, "compile", {}, Nothing)
       \/ /\ cursor.text # "whole"
          /\ Return(c)
          /\ UNCHANGED history
    /\ UNCHANGED <<deps, planned, results, cursor, usage, spent, changeAsked, runs, registry,
                   orphans, commands, crashes>>

\* _interrupt saves a cursor that holds the reason and no policy.
Interrupted == Kept(TRUE, FALSE)

\* The results are read once for all batches; without a batch the run is over.
Compile(c) ==
    LET batch == FirstBatch(ReadyTasks(results)) IN
    /\ pc[c] = "compile"
    /\ \/ batch = {} /\ Save(c, Kept(FALSE, FALSE), "end")
       \/ batch # {} /\ Goto(c, "spend", batch,
                             [Nothing EXCEPT !.more = (batch # ReadyTasks(results))])
    /\ UNCHANGED <<deps, planned, results, cursor, usage, spent, changeAsked, runs, registry,
                   orphans, commands, crashes, history>>

\* The usage is read once, too.
Spend(c) ==
    /\ pc[c] = "spend"
    /\ \/ spent >= Budget /\ Save(c, Interrupted, "end")
       \/ spent < Budget /\ Goto(c, "wait", tasks[c], [read[c] EXCEPT !.spent = spent])
    /\ UNCHANGED <<deps, planned, results, cursor, usage, spent, changeAsked, runs, registry,
                   orphans, commands, crashes, history>>

----------------------------------------------------------------------------
(* The threads of a batch and their processes.                             *)

\* Tasks whose key is in the registry of service s.
Registered(s) == {t \in Tasks : \E c \in Callers : ServiceOf[c] = s /\ <<c, t>> \in registry}

\* The runtime's lock is held by a thread that waits for its duplicate to end.
LockFree(s) ==
    \A c \in Callers, t \in Tasks : ServiceOf[c] = s => runs[c][t] # "duplicate"

\* The process is started; a command that cannot be started raises.
Launch(c, t) ==
    /\ pc[c] = "wait"
    /\ t \in tasks[c]
    /\ runs[c][t] = "none"
    /\ \E launch \in {"launched", "error"} : runs' = [runs EXCEPT ![c][t] = launch]
    /\ UNCHANGED <<deps, planned, results, cursor, usage, spent, changeAsked, caller, registry,
                   orphans, commands, crashes, history>>

\* Mutant: the key is not looked for.
RegisterAnyway(c, t) ==
    /\ runs[c][t] = "launched"
    /\ LockFree(ServiceOf[c])
    /\ runs' = [runs EXCEPT ![c][t] = "running"]
    /\ registry' = registry \cup {<<c, t>>}
    /\ UNCHANGED <<deps, planned, results, cursor, usage, spent, changeAsked, caller,
                   orphans, commands, crashes, history>>

\* Then it is registered; one whose key is taken is terminated and waited for with the
\* lock held.
Register(c, t) ==
    /\ runs[c][t] = "launched"
    /\ LockFree(ServiceOf[c])
    /\ \/ /\ t \notin Registered(ServiceOf[c])
          /\ runs' = [runs EXCEPT ![c][t] = "running"]
          /\ registry' = registry \cup {<<c, t>>}
       \/ /\ t \in Registered(ServiceOf[c])
          /\ runs' = [runs EXCEPT ![c][t] = "duplicate"]
          /\ UNCHANGED registry
    /\ UNCHANGED <<deps, planned, results, cursor, usage, spent, changeAsked, caller,
                   orphans, commands, crashes, history>>

\* The call of a duplicate raises when the process has ended.
DuplicateEnds(c, t) ==
    /\ runs[c][t] = "duplicate"
    /\ runs' = [runs EXCEPT ![c][t] = "error"]
    /\ UNCHANGED <<deps, planned, results, cursor, usage, spent, changeAsked, caller, registry,
                   orphans, commands, crashes, history>>

\* A process ends by itself, by its timeout or after a terminate; its events are in
\* the log before its result is recovered, and what it wrote may be unreadable.
Finish(c, t) ==
    /\ runs[c][t] = "running"
    /\ \E o \in Outcomes \cup {"error"} : runs' = [runs EXCEPT ![c][t] = o]
    /\ changeAsked' \in {changeAsked, changeAsked \cup ({t} \cap Asking)}
    /\ ended' = [ended EXCEPT ![t] = @ + 1]
    /\ UNCHANGED <<deps, planned, results, cursor, usage, spent, caller, registry, orphans,
                   commands, crashes, succeeded, interrupted, behind>>

\* Mutant: a thread that raised is waited for.
DoneWithoutError == Outcomes

\* What a thread of the batch can leave.
Done == Outcomes \cup {"error"}

\* The thread takes its key out of the registry.
Unregister(c, t) ==
    /\ runs[c][t] \in Outcomes \cup {"error"}
    /\ <<c, t>> \in registry
    /\ LockFree(ServiceOf[c])
    /\ registry' = registry \ {<<c, t>>}
    /\ UNCHANGED <<deps, planned, results, cursor, usage, spent, changeAsked, caller, runs,
                   orphans, commands, crashes, history>>

\* _dispatch returns when every thread of the batch is done, and raises what one raised.
Collect(c) ==
    /\ pc[c] = "wait"
    /\ \A t \in tasks[c] : runs[c][t] \in Done /\ <<c, t>> \notin registry
    /\ \/ /\ \E t \in tasks[c] : runs[c][t] = "error"
          /\ Return(c)
          /\ runs' = [runs EXCEPT ![c] = NoRuns]
       \/ /\ \A t \in tasks[c] : runs[c][t] # "error"
          /\ Goto(c, "record", tasks[c], read[c])
          /\ UNCHANGED runs
    /\ UNCHANGED <<deps, planned, results, cursor, usage, spent, changeAsked, registry,
                   orphans, commands, crashes, history>>

----------------------------------------------------------------------------
(* The results of a batch, one after the other.                            *)

\* The first result not yet recorded becomes the task's durable result: a late one as it
\* was reported.
Record(c) ==
    /\ pc[c] = "record"
    /\ LET t == First(tasks[c]) IN
       \E status \in IF runs[c][t] = "late" THEN {"success", "cancelled"} ELSE {runs[c][t]} :
          StoreResult(t, status)
    /\ Goto(c, "charge", tasks[c], read[c])
    /\ UNCHANGED <<deps, planned, cursor, usage, spent, changeAsked, runs, registry, orphans,
                   commands, crashes>>

\* Mutant: a line for every task of the batch that is left.
LineForEach(c, t) == [u \in Tasks |-> usage[u] + (IF u \in tasks[c] THEN 1 ELSE 0)]

\* _append_usage.
UsageLine(c, t) == [usage EXCEPT ![t] = @ + 1]

\* Its usage line is appended.
Charge(c) ==
    /\ pc[c] = "charge"
    /\ \E cost \in Costs :
          /\ spent' = spent + cost
          /\ Goto(c, "judge", tasks[c], [read[c] EXCEPT !.spent = @ + cost])
    /\ usage' = UsageLine(c, First(tasks[c]))
    /\ UNCHANGED <<deps, planned, results, cursor, changeAsked, runs, registry, orphans,
                   commands, crashes, history>>

\* A contract change anywhere in the task's log or an unsuccessful result interrupts,
\* and the results after it are dropped; so do the budget and a batch that is left.
Judge(c) ==
    LET t == First(tasks[c])
        rest == tasks[c] \ {t}
        bad == t \in changeAsked \/ runs[c][t] \notin {"success", "cancelled"}
        stop == read[c].spent > Budget \/ read[c].more
    IN
    /\ pc[c] = "judge"
    /\ \/ /\ ~bad /\ rest # {}
          /\ Goto(c, "record", rest, read[c])
          /\ UNCHANGED runs
       \/ /\ bad \/ (rest = {} /\ stop)
          /\ Save(c, Interrupted, "end")
          /\ runs' = [runs EXCEPT ![c] = NoRuns]
       \/ /\ ~bad /\ rest = {} /\ ~stop
          /\ Save(c, Kept(FALSE, FALSE), "end")
          /\ runs' = [runs EXCEPT ![c] = NoRuns]
    /\ UNCHANGED <<deps, planned, results, cursor, usage, spent, changeAsked, registry,
                   orphans, commands, crashes, history>>

----------------------------------------------------------------------------
(* The other commands.                                                     *)

\* cancel handles the named task, or without a name every task.
Cancel(c) ==
    /\ Command(c)
    /\ \E S \in {{t} : t \in Tasks} \cup {Tasks} :
          Goto(c, "stop", S, [Nothing EXCEPT !.targets = S])
    /\ UNCHANGED <<deps, planned, results, cursor, usage, spent, changeAsked, runs, registry,
                   orphans, crashes, history>>

\* It asks its own runtime for the process of each target and terminates it.  When and
\* how a terminated process ends is up to it, as for every other.
Signal(c) ==
    /\ pc[c] = "stop"
    /\ LockFree(ServiceOf[c])
    /\ LET rest == tasks[c] \ {First(tasks[c])} IN
       \/ rest # {} /\ Goto(c, "stop", rest, read[c])
       \/ rest = {} /\ Goto(c, "cancel", read[c].targets, Nothing)
    /\ UNCHANGED <<deps, planned, results, cursor, usage, spent, changeAsked, runs, registry,
                   orphans, commands, crashes, history>>

\* Then every target gets a cancelled result, whatever its result was.
RecordCancelled(c) ==
    /\ pc[c] = "cancel"
    /\ LET t == First(tasks[c])
           rest == tasks[c] \ {t}
       IN  /\ StoreResult(t, "cancelled")
           /\ \/ rest = {} /\ Return(c)
              \/ rest # {} /\ Goto(c, "cancel", rest, Nothing)
    /\ UNCHANGED <<deps, planned, cursor, usage, spent, changeAsked, runs, registry, orphans,
                   commands, crashes>>

\* verify reads the results once and then runs the commands of each task.
Verify(c) ==
    /\ Command(c)
    /\ Checked # {}
    /\ Goto(c, "verify", Checked, [Nothing EXCEPT !.results = results])
    /\ UNCHANGED <<deps, planned, results, cursor, usage, spent, changeAsked, runs, registry,
                   orphans, crashes, history>>

\* A task that verified keeps the status that was read; one without a result is pending.
RecordVerified(c) ==
    /\ pc[c] = "verify"
    /\ LET t == First(tasks[c])
           rest == tasks[c] \ {t}
           kept == IF read[c].results[t] = "none" THEN "pending" ELSE read[c].results[t]
       IN  /\ \E status \in {kept, "failed"} : StoreResult(t, status)
           /\ \/ rest = {} /\ Return(c)
              \/ rest # {} /\ Goto(c, "verify", rest, read[c])
    /\ UNCHANGED <<deps, planned, cursor, usage, spent, changeAsked, runs, registry, orphans,
                   commands, crashes>>

\* agents record-result: a worker's own report replaces the result.
RecordResult(c, t, status) ==
    /\ Command(c)
    /\ StoreResult(t, status)
    /\ UNCHANGED <<deps, planned, cursor, usage, spent, changeAsked, caller, runs, registry,
                   orphans, crashes>>

----------------------------------------------------------------------------
\* A service is killed: its callers and what they hold in memory are gone, the
\* processes they started go on.
Crash(s) ==
    LET gone == {c \in Callers : ServiceOf[c] = s} IN
    /\ crashes < CrashBound
    /\ \E c \in gone : pc[c] # "idle"
    /\ crashes' = crashes + 1
    /\ pc' = [c \in Callers |-> IF c \in gone THEN "idle" ELSE pc[c]]
    /\ tasks' = [c \in Callers |-> IF c \in gone THEN {} ELSE tasks[c]]
    /\ read' = [c \in Callers |-> IF c \in gone THEN Nothing ELSE read[c]]
    /\ runs' = [c \in Callers |-> IF c \in gone THEN NoRuns ELSE runs[c]]
    /\ registry' = {r \in registry : r[1] \notin gone}
    /\ orphans' = orphans \cup {t \in Tasks : \E c \in gone : runs[c][t] \in Live}
    /\ UNCHANGED <<deps, planned, results, cursor, usage, spent, changeAsked, commands, history>>

\* Nobody waits for such a process.
OrphanEnds(t) ==
    /\ t \in orphans
    /\ orphans' = orphans \ {t}
    /\ UNCHANGED <<deps, planned, results, cursor, usage, spent, changeAsked, caller, runs,
                   registry, commands, crashes, history>>

\* What the threads of a command do by themselves.
ThreadStep(c) ==
    \/ Open(c) \/ Write(c) \/ Retry(c) \/ Clear(c) \/ Enter(c) \/ Compile(c) \/ Spend(c)
    \/ Collect(c) \/ Record(c) \/ Charge(c) \/ Judge(c)
    \/ Signal(c) \/ RecordCancelled(c) \/ RecordVerified(c)
    \/ \E t \in Tasks : Launch(c, t) \/ Register(c, t) \/ Unregister(c, t)

\* The end of a provider process.
ProcessEnds(c) == \E t \in Tasks : Finish(c, t) \/ DuplicateEnds(c, t)

Issue(c) ==
    \/ Execute(c) \/ Resume(c) \/ Cancel(c) \/ Verify(c)
    \/ \E t \in Tasks, status \in Reported : RecordResult(c, t, status)

Next ==
    \/ Plan
    \/ \E c \in Callers : ThreadStep(c) \/ ProcessEnds(c) \/ Issue(c)
    \/ \E s \in Services : Crash(s)
    \/ \E t \in Tasks : OrphanEnds(t)

Spec == Init /\ [][Next]_vars

\* The threads of a command go on.  That a process ends is not assumed: the wait for a
\* duplicate and the one after a kill have no timeout.
Fairness == \A c \in Callers : WF_vars(ThreadStep(c))
FairSpec == Spec /\ Fairness

----------------------------------------------------------------------------
(* Properties.                                                             *)

Values == [interrupt : BOOLEAN, policy : BOOLEAN]
Memory == [save : Values, for : {"execute", "resume", "end"}, more : BOOLEAN, spent : Nat,
           results : [Tasks -> Statuses \cup {"none"}], targets : SUBSET Tasks]
Cursors == [text : {"whole", "empty", "torn"}, interrupt : BOOLEAN, policy : BOOLEAN]
Processes == Live \cup Outcomes \cup {"none", "error"}

\* Every value the run, its files and its callers can hold.
TypeOK ==
    /\ deps \in [Tasks -> SUBSET Tasks]
    /\ planned \in BOOLEAN
    /\ results \in [Tasks -> Statuses \cup {"none"}]
    /\ cursor \in Cursors
    /\ usage \in [Tasks -> Nat]
    /\ spent \in Nat
    /\ changeAsked \subseteq Tasks
    /\ pc \in [Callers -> Steps]
    /\ tasks \in [Callers -> SUBSET Tasks]
    /\ read \in [Callers -> Memory]
    /\ runs \in [Callers -> [Tasks -> Processes]]
    /\ registry \subseteq Callers \X Tasks
    /\ orphans \subseteq Tasks
    /\ commands \in Nat /\ crashes \in Nat
    /\ succeeded \subseteq Tasks
    /\ ended \in [Tasks -> Nat]
    /\ interrupted \in BOOLEAN
    /\ behind \subseteq Callers

\* While nothing failed, is blocked or is in flight, an unfinished run has a ready task:
\* plan validation and ready_tasks together never leave a run where all tasks wait.
NeverStuck ==
    (/\ planned
     /\ \A t \in Tasks : results[t] \in {"none", "success"}
     /\ \E t \in Tasks : results[t] = "none")
    => ReadyTasks(results) # {}

\* A provider process works on a task only after each dependency of the task had a
\* successful result, whatever cancels, retries and verifications came between: also a
\* duplicate that will be refused, and one that outlived its service.
DependenciesFirst ==
    \A t \in Tasks :
        (t \in orphans \/ \E c \in Callers : runs[c][t] \in Live) => deps[t] \subseteq succeeded

\* The live processes of one executor stay within the plan's parallelism and the policy's
\* limit for every provider, its duplicates included, and of the processes that two
\* executors of one runtime start for a task at most one is waited for to do its work.
ExecutorBounds ==
    \A c \in Callers :
        LET live == {t \in Tasks : runs[c][t] \in Live} IN
        /\ Cardinality(live) <= MaximumParallel
        /\ \A t \in live :
              /\ Cardinality({u \in live : ProviderOf[u] = ProviderOf[t]}) <= PerProvider
              /\ \A d \in Callers \ {c} :
                    ServiceOf[c] = ServiceOf[d] =>
                        ~(runs[c][t] = "running" /\ runs[d][t] = "running")

\* Usage is billed for work that was done: a task never has more usage lines than
\* registered processes of it that ended, whatever was retried, dropped or killed.
UsageTraceable ==
    \A t \in Tasks : usage[t] <= ended[t]

\* An executor goes past a saved interrupt only after a resume that found a policy, or a
\* caller that had read the cursor before the interrupt was in it, saved over it.
InterruptHeld ==
    [][\A c \in Callers : pc[c] = "enter" /\ pc'[c] = "compile" => ~interrupted]_vars

\* A command of c waits for a process that it started to end, or for the lock that a
\* thread of its service holds while it waits for a duplicate.
Waits(c) ==
    \/ \E t \in Tasks : runs[c][t] \in {"running", "duplicate"}
    \/ ~LockFree(ServiceOf[c])

\* Every command that was started returns, unless from some time on it waits for a
\* process that does not end.
CommandsReturn ==
    \A c \in Callers : <>[]Waits(c) \/ ((pc[c] # "idle") ~> (pc[c] = "idle"))

(* Claims the code does not keep.                                          *)

\* Claim: no two live processes work on one task.  A duplicate works until it is
\* terminated, and a process outlives its service.
OneWorkerPerTask ==
    \A t \in Tasks : \A c \in Callers : runs[c][t] \in Live =>
        /\ t \notin orphans
        /\ \A d \in Callers \ {c} : runs[d][t] \notin Live

\* Claim: only resume lifts an interrupt.  The save of an executor that read the cursor
\* before the interrupt was in it erases it.
InterruptStands ==
    [][interrupted /\ ~interrupted' =>
          \E c \in Callers : pc[c] = "write" /\ read[c].for = "resume"]_vars

\* Claim: the cursor can be read whenever no command runs.  A kill between the two steps
\* of a save leaves it empty, two saves at once leave it torn, and then neither execute
\* nor resume gets past it.
CursorReadable ==
    (\A c \in Callers : pc[c] = "idle") => cursor.text = "whole"
=============================================================================
