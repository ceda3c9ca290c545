--------------------------- MODULE DevSupervisor ---------------------------
(***************************************************************************)
(* The development supervisor of one application: resources are resolved,   *)
(* modules prepared, and processes started in assembly order, rolled back   *)
(* on a failure and stopped in reverse.  A command of the command line has  *)
(* a service of its own, which ends with it; a service that is kept runs    *)
(* several commands.  All share the process records and the bindings file.  *)
(*                                                                          *)
(* Modules are numbered in startup order.  A plan is what a service makes   *)
(* up once per module: its ports (a service never has two for a module, so  *)
(* the service stands for them), the bindings it injects, and the service   *)
(* whose API port it injects.  A start of the process controller is one     *)
(* step here; ManagedProcess has what happens inside.                       *)
(***************************************************************************)
EXTENDS Integers, Sequences, FiniteSets

CONSTANTS
    Services,     \* services, the command line's and kept ones
    CommandsOf,   \* commands a service runs at most
    ModuleCount,
    Executable,   \* modules with a process; the others are only prepared
    Consumer,     \* modules that are given the port of the module before them
    Volatile,     \* the resource is a loopback allocation, not a database
    LaunchBound   \* bound: processes launched in a behaviour

Modules == 1 .. ModuleCount
None == "none"

ASSUME SupervisorAssumption ==
    /\ ModuleCount \in Nat \ {0}
    /\ Executable \subseteq Modules /\ Consumer \subseteq Executable
    /\ CommandsOf \in [Services -> Nat]
    /\ Volatile \in BOOLEAN /\ LaunchBound \in Nat
    /\ None \notin Services

NoPlan == [by |-> None, bindings |-> 0, api |-> None]

VARIABLES
    prepared,   \* per service: prepare has succeeded
    bindings,   \* per service: the bindings it holds, 0 for none
    plans,      \* per service: the plans made up so far
    resource,   \* resolved-bindings.json: the allocation and whether it is active
    record,     \* the process record of each module: its state and process
    launched,   \* the module and plan of each process launched so far
    alive,      \* processes that run
    job,        \* what each service is doing
    commands,   \* commands each service has run
    overlap     \* history: two commands have run at the same time

vars == <<prepared, bindings, plans, resource, record, launched, alive, job, commands, overlap>>

Idle == [step |-> None, at |-> 0, started |-> {}, failed |-> FALSE, then |-> None,
         pids |-> {}, ended |-> None]

Init ==
    /\ prepared = [s \in Services |-> FALSE]
    /\ bindings = [s \in Services |-> 0]
    /\ plans = [s \in Services |-> [m \in Modules |-> NoPlan]]
    /\ resource = [grant |-> 0, active |-> FALSE]
    /\ record = [m \in Modules |-> [state |-> "stopped", pid |-> 0]]
    /\ launched = <<>> /\ alive = {}
    /\ job = [s \in Services |-> Idle]
    /\ commands = [s \in Services |-> 0]
    /\ overlap = FALSE

----------------------------------------------------------------------------
At(s, step) == job[s].step = step

Goto(s, j) == job' = [job EXCEPT ![s] = j]

\* A command returned or raised; ended says how.
End(s, how) == Goto(s, [Idle EXCEPT !.ended = how, !.pids = job[s].pids])

Command(s, j) ==
    /\ At(s, None) /\ commands[s] < CommandsOf[s]
    /\ commands' = [commands EXCEPT ![s] = @ + 1]
    /\ overlap' = (overlap \/ \E t \in Services : ~At(t, None))
    /\ job' = [t \in Services |-> IF t = s THEN j ELSE [job[t] EXCEPT !.ended = None]]

\* _create_plan for the modules of S: a plan is made up once, with the bindings of that
\* moment and the port of an API plan made up before it.
Planned(s, S, held) ==
    [m \in Modules |->
        IF m \notin S \cap Executable \/ plans[s][m] # NoPlan THEN plans[s][m]
        ELSE [by |-> s, bindings |-> held,
              api |-> IF m \in Consumer /\ (m - 1 \in S \/ plans[s][m - 1] # NoPlan)
                      THEN s ELSE None]]

\* ManagedProcessController.status of every module: a dead process is recorded as failed.
Observed ==
    [m \in Modules |-> IF record[m].pid # 0 /\ record[m].pid \notin alive
                       THEN [state |-> "failed", pid |-> 0] ELSE record[m]]

\* ApplicationLocalBindings.release: only a loopback allocation is given up.
Release ==
    /\ resource' = [resource EXCEPT !.active = @ /\ ~Volatile]

----------------------------------------------------------------------------
(* prepare                                                                 *)

\* Mutant: start and restart rely on a prepare that may not have happened.
PreparedFirst(s) == TRUE

Ready(s) == prepared[s]

\* The first command that needs them resolves the resources: an allocation that is
\* active is used again, a new one has a number of its own.
Resolve(s) ==
    LET grant == IF resource.active THEN resource.grant ELSE resource.grant + 1 IN
    /\ At(s, "prepare")
    /\ resource' = [grant |-> grant, active |-> TRUE]
    /\ bindings' = [bindings EXCEPT ![s] = grant]
    /\ Goto(s, [job[s] EXCEPT !.step = "modules"])
    /\ UNCHANGED <<prepared, plans, record, launched, alive, commands, overlap>>

\* The modules are prepared, and the status that ends prepare makes up every plan; or
\* one of them fails and the resources are released.
PrepareModules(s) ==
    /\ At(s, "modules")
    /\ \/ /\ prepared' = [prepared EXCEPT ![s] = TRUE]
          /\ plans' = [plans EXCEPT ![s] = Planned(s, Modules, bindings[s])]
          /\ record' = Observed
          /\ IF job[s].then = None THEN End(s, "prepared")
             ELSE Goto(s, [job[s] EXCEPT !.step = job[s].then])
          /\ UNCHANGED <<bindings, resource>>
       \/ /\ prepared' = [prepared EXCEPT ![s] = FALSE]
          /\ bindings' = [bindings EXCEPT ![s] = 0]
          /\ Release
          /\ End(s, "failed")
          /\ UNCHANGED <<plans, record>>
    /\ UNCHANGED <<launched, alive, commands, overlap>>

Prepare(s) ==
    /\ Command(s, [Idle EXCEPT !.step = "prepare"])
    /\ UNCHANGED <<prepared, bindings, plans, resource, record, launched, alive>>

----------------------------------------------------------------------------
(* start                                                                   *)

Start(s) ==
    /\ Command(s, [Idle EXCEPT !.step = IF Ready(s) THEN "start" ELSE "prepare",
                     !.then = "start", !.at = 1])
    /\ UNCHANGED <<prepared, bindings, plans, resource, record, launched, alive>>

\* Mutant: a process on record is never taken over.
NeverOwned(m, plan) == FALSE

\* The record is of a live process with the command line of this plan.
Owned(m, plan) ==
    /\ record[m].pid \in alive
    /\ launched[record[m].pid].plan = plan

\* ManagedProcessController.start of module m: the process on record is taken if it is
\* this plan's; otherwise the record is given up and a new process launched.
Launch(m, plan) ==
    \/ /\ Owned(m, plan)
       /\ UNCHANGED <<record, launched, alive>>
    \/ /\ ~Owned(m, plan) /\ Len(launched) < LaunchBound
       /\ launched' = Append(launched, [module |-> m, plan |-> plan])
       /\ alive' = alive \cup {Len(launched')}
       /\ record' = [record EXCEPT ![m] = [state |-> "running", pid |-> Len(launched')]]

\* The launch or the health check fails, and what was launched is killed; a record that
\* named no process is kept when nothing was launched.
LaunchFails(m, plan) ==
    /\ ~Owned(m, plan)
    /\ \E state \in {"failed"} \cup ({record[m].state} \ {"running"}) :
          record' = [record EXCEPT ![m] = [state |-> state, pid |-> 0]]
    /\ UNCHANGED <<launched, alive>>

\* The next module in startup order; one without a process is only recorded as ready.
StartModule(s) ==
    LET m == job[s].at
        made == Planned(s, {m}, bindings[s])
    IN
    /\ At(s, "start") /\ m \in Modules
    /\ plans' = [plans EXCEPT ![s] = made]
    /\ \/ /\ m \notin Executable
          /\ Goto(s, [job[s] EXCEPT !.at = m + 1])
          /\ UNCHANGED <<record, launched, alive>>
       \/ /\ m \in Executable
          /\ Launch(m, made[m])
          /\ Goto(s, [job[s] EXCEPT !.at = m + 1, !.started = @ \cup {m},
                        !.pids = @ \cup {record'[m].pid}])
       \/ /\ m \in Executable
          /\ LaunchFails(m, made[m])
          /\ Goto(s, [job[s] EXCEPT !.step = "rollback"])
    /\ UNCHANGED <<prepared, bindings, resource, commands, overlap>>

Started(s) ==
    /\ At(s, "start") /\ job[s].at \notin Modules
    /\ record' = Observed
    /\ End(s, "started")
    /\ UNCHANGED <<prepared, bindings, plans, resource, launched, alive, commands, overlap>>

\* ManagedProcessController.stop of module m: the live process on record is terminated; of
\* a dead one only the record is left.
Terminate(m) ==
    /\ alive' = alive \ {record[m].pid}
    /\ record' = [record EXCEPT ![m] = [state |-> IF @.pid # 0 /\ @.pid \notin alive
                                                 THEN "failed" ELSE "stopped", pid |-> 0]]

\* A process survives SIGKILL for two seconds: stop raises.
Unstoppable(m) ==
    /\ record[m].pid \in alive
    /\ UNCHANGED <<alive, record>>

Last(S) == CHOOSE m \in S : \A n \in S : n <= m

\* Mutant: the last one that started is left out.
AllButLast(S) == {m \in S : \E n \in S : m < n}

RollbackOf(S) == S

\* What this start started is stopped in reverse, then the resources are released; a stop
\* that raises leaves the rest as it is.
Rollback(s) ==
    LET todo == RollbackOf(job[s].started) IN
    /\ At(s, "rollback")
    /\ \/ /\ todo = {}
          /\ Release
          /\ bindings' = [bindings EXCEPT ![s] = 0]
          /\ prepared' = [prepared EXCEPT ![s] = FALSE]
          /\ End(s, "rolled back")
          /\ UNCHANGED <<alive, record>>
       \/ /\ todo # {}
          /\ Terminate(Last(todo))
          /\ Goto(s, [job[s] EXCEPT !.started = @ \ {Last(todo)}])
          /\ UNCHANGED <<resource, bindings, prepared>>
       \/ /\ todo # {}
          /\ Unstoppable(Last(todo))
          /\ End(s, "failed")
          /\ UNCHANGED <<resource, bindings, prepared>>
    /\ UNCHANGED <<plans, launched, commands, overlap>>

----------------------------------------------------------------------------
(* restart, stop, status                                                   *)

Restart(s, m) ==
    /\ m \in Executable
    /\ Command(s, [Idle EXCEPT !.step = IF Ready(s) THEN "restart" ELSE "prepare",
                     !.then = "restart", !.at = m])
    /\ UNCHANGED <<prepared, bindings, plans, resource, record, launched, alive>>

RestartStop(s) ==
    /\ At(s, "restart")
    /\ plans' = [plans EXCEPT ![s] = Planned(s, {job[s].at}, bindings[s])]
    /\ \/ Terminate(job[s].at) /\ Goto(s, [job[s] EXCEPT !.step = "relaunch"])
       \/ Unstoppable(job[s].at) /\ End(s, "failed")
    /\ UNCHANGED <<prepared, bindings, resource, launched, commands, overlap>>

\* A launch that fails is not rolled back.
RestartStart(s) ==
    LET m == job[s].at IN
    /\ At(s, "relaunch")
    /\ \/ Launch(m, plans[s][m]) /\ End(s, "restarted")
       \/ LaunchFails(m, plans[s][m]) /\ End(s, "failed")
    /\ UNCHANGED <<prepared, bindings, plans, resource, commands, overlap>>

Stop(s) ==
    /\ Command(s, [Idle EXCEPT !.step = "stop", !.at = ModuleCount])
    /\ UNCHANGED <<prepared, bindings, plans, resource, record, launched, alive>>

\* Modules are stopped in reverse order; one that cannot be stopped is remembered.
StopModule(s) ==
    LET m == job[s].at IN
    /\ At(s, "stop") /\ m \in Modules
    /\ plans' = [plans EXCEPT ![s] = Planned(s, {m}, bindings[s])]
    /\ \/ /\ m \in Executable
          /\ Terminate(m)
          /\ Goto(s, [job[s] EXCEPT !.at = m - 1])
       \/ /\ m \in Executable
          /\ Unstoppable(m)
          /\ Goto(s, [job[s] EXCEPT !.at = m - 1, !.failed = TRUE])
       \/ /\ m \notin Executable
          /\ Goto(s, [job[s] EXCEPT !.at = m - 1])
          /\ UNCHANGED <<alive, record>>
    /\ UNCHANGED <<prepared, bindings, resource, launched, commands, overlap>>

\* Mutant: a module that could not be stopped is not reported.
Unreported(s) == FALSE

StopFailed(s) == job[s].failed

\* Resources are released only when every module was stopped.
Stopped(s) ==
    /\ At(s, "stop") /\ job[s].at \notin Modules
    /\ \/ /\ StopFailed(s)
          /\ End(s, "failed")
          /\ UNCHANGED <<resource, bindings, prepared, record>>
       \/ /\ ~StopFailed(s)
          /\ Release
          /\ bindings' = [bindings EXCEPT ![s] = 0]
          /\ prepared' = [prepared EXCEPT ![s] = FALSE]
          /\ record' = Observed
          /\ End(s, "stopped")
    /\ UNCHANGED <<plans, launched, alive, commands, overlap>>

Status(s) ==
    /\ Command(s, Idle)
    /\ plans' = [plans EXCEPT ![s] = Planned(s, Modules, bindings[s])]
    /\ record' = Observed
    /\ UNCHANGED <<prepared, bindings, resource, launched, alive>>

\* A process ends by itself.
Die(p) ==
    /\ p \in alive
    /\ alive' = alive \ {p}
    /\ UNCHANGED <<prepared, bindings, plans, resource, record, launched, job, commands, overlap>>

ServiceStep(s) ==
    \/ Resolve(s) \/ PrepareModules(s) \/ StartModule(s) \/ Started(s) \/ Rollback(s)
    \/ RestartStop(s) \/ RestartStart(s) \/ StopModule(s) \/ Stopped(s)

Issue(s) ==
    \/ Prepare(s) \/ Start(s) \/ Stop(s) \/ Status(s)
    \/ \E m \in Modules : Restart(s, m)

Next ==
    \/ \E s \in Services : ServiceStep(s) \/ Issue(s)
    \/ \E p \in alive : Die(p)

Spec == Init /\ [][Next]_vars

----------------------------------------------------------------------------
(* Properties.                                                             *)

\* Every value the services, the files and the processes can have.
TypeOK ==
    LET plan == [by : Services \cup {None}, bindings : Nat, api : Services \cup {None}] IN
    /\ prepared \in [Services -> BOOLEAN] /\ bindings \in [Services -> Nat]
    /\ plans \in [Services -> [Modules -> plan]]
    /\ resource \in [grant : Nat, active : BOOLEAN]
    /\ record \in [Modules -> [state : {"running", "stopped", "failed"}, pid : 0 .. Len(launched)]]
    /\ launched \in Seq([module : Modules, plan : plan])
    /\ alive \subseteq 1 .. Len(launched)
    /\ commands \in [Services -> Nat] /\ overlap \in BOOLEAN
    /\ \A s \in Services :
          /\ job[s].at \in 0 .. ModuleCount + 1
          /\ job[s].started \subseteq Modules /\ job[s].pids \subseteq 1 .. Len(launched)

\* "started modules were rolled back": while commands do not overlap, a start that fails
\* leaves none of the processes it started or took over.
RollbackComplete ==
    \A s \in Services :
        ~overlap /\ job[s].ended = "rolled back" => job[s].pids \cap alive = {}

\* While commands do not overlap, a stop that reports success leaves no live process on
\* record and no loopback allocation, also when a process could not be killed.
StopComplete ==
    \A s \in Services :
        ~overlap /\ job[s].ended = "stopped" =>
            /\ \A m \in Modules : record[m].pid \notin alive
            /\ Volatile => ~resource.active

\* A service that serves one command, as those of the command line do, launches no process
\* without the bindings of the application, in whatever order the commands come.
CommandLineInjects ==
    \A p \in 1 .. Len(launched) :
        CommandsOf[launched[p].plan.by] = 1 => launched[p].plan.bindings # 0

\* As long as one service runs all commands, each live process is on record: repeated
\* starts, restarts, failures and rollbacks lose none.
OneServiceLosesNone ==
    (\A s, t \in Services : commands[s] > 0 /\ commands[t] > 0 => s = t)
    => \A p \in alive : record[launched[p].module].pid = p

\* "ordered stop with no stale process records, locks, ports"
\* (docs/workplans/parallel/wave-02/verification.md:9): without overlapping commands nothing
\* runs after a stop.
StopLeavesNothing ==
    \A s \in Services : ~overlap /\ job[s].ended = "stopped" => alive = {}

\* A live consumer on record was given the port of the API process on record.
ConsumerReachesApi ==
    \A m \in Consumer :
        (record[m].pid \in alive /\ record[m - 1].pid \in alive)
        => launched[record[m].pid].plan.api = launched[record[m - 1].pid].plan.by

\* No process is launched without the bindings of the application.
BindingsInjected ==
    \A p \in 1 .. Len(launched) : launched[p].plan.bindings # 0

\* While a process of the application is on record, its resources are not released.
ResourcesHeld ==
    (\E m \in Modules : record[m].pid \in alive) /\ ~overlap => resource.active
=============================================================================
