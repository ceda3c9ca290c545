--------------------------- MODULE ApplicationHost ---------------------------
(***************************************************************************)
(* The local application host: it installs, builds, starts, observes and   *)
(* stops one application.  It runs its process through the controller of   *)
(* ManagedProcess, whose actions are conjuncts of the host's, and keeps a  *)
(* record of its own beside the controller's: application.json.  One file  *)
(* lock guards all of the host's calls, and is held while a start waits.   *)
(*                                                                         *)
(* Every start has a new port, so no two command lines are the same, and   *)
(* nothing but the host starts or stops this module: what a start in       *)
(* progress finds changed (ManagedProcess!Superseded) cannot happen here.  *)
(***************************************************************************)
EXTENDS ManagedProcess

CONSTANT NoApp       \* there is no application.json

AppStates == States \cup {"installed", "built"}
App == [state: AppStates, pid: Nat, artifact: BOOLEAN]

ASSUME HostAssumption == Plans = 1 .. LaunchBound /\ NoApp \notin App

VARIABLES
  directory,         \* the application's directory exists
  app,               \* application.json
  hostLock,          \* the application's lock: its holder
  at,                \* where each caller is in a call of the host
  answer,            \* what its last install or status reported
  ready              \* the processes that have been seen ready

hostVars == <<vars, directory, app, hostLock, at, answer, ready>>

HostInit ==
  /\ Init
  /\ directory = FALSE /\ app = NoApp
  /\ hostLock = Free
  /\ at = [c \in Callers |-> "idle"]
  /\ answer = [c \in Callers |-> "none"]
  /\ ready = {}

(* A call begins with the lock. *)
Begin(c) ==
  /\ at[c] = "idle" /\ hostLock = Free

Hold(c, label) ==
  /\ hostLock' = c
  /\ at' = [at EXCEPT ![c] = label]

To(c, from, label) ==
  /\ at[c] = from
  /\ at' = [at EXCEPT ![c] = label]
  /\ UNCHANGED hostLock

(* An early exit that keeps the lock. *)
LeaveLocked(c) ==
  /\ UNCHANGED hostLock
  /\ at' = [at EXCEPT ![c] = "idle"]

Leave(c) ==
  /\ hostLock' = Free
  /\ at' = [at EXCEPT ![c] = "idle"]

Answers(c, value) == answer' = [answer EXCEPT ![c] = value]

Writes(state, pid) == app' = [app EXCEPT !.state = state, !.pid = pid]

-----------------------------------------------------------------------------
(* install() and build() *)

InstallNew(c) ==
  /\ Begin(c) /\ ~directory
  /\ directory' = TRUE
  /\ Hold(c, "copying")
  /\ UNCHANGED <<vars, app, answer, ready>>

InstallWritten(c) ==
  /\ at[c] = "copying"
  /\ app' = [state |-> "installed", pid |-> None, artifact |-> FALSE]
  /\ Leave(c)
  /\ Answers(c, "installed")
  /\ UNCHANGED <<vars, directory, ready>>

(* The directory is there already: its record is read and written back.    *)
InstallAgain(c) ==
  /\ Begin(c) /\ directory
  /\ Answers(c, IF app = NoApp THEN "not installed" ELSE "installed")
  /\ UNCHANGED <<vars, directory, app, hostLock, at, ready>>

(* The process that application.json names runs. *)
Runs == app.state \in Starts /\ app.pid \in alive

(* A build that forgets to ask. *)
BuildAnytime(c) ==
  /\ Begin(c) /\ app # NoApp
  /\ app' = [app EXCEPT !.state = "built", !.artifact = TRUE]
  /\ UNCHANGED <<vars, directory, hostLock, at, answer, ready>>

Build(c) ==
  /\ Begin(c) /\ app # NoApp
  /\ ~Runs
  /\ app' = [app EXCEPT !.state = "built", !.artifact = TRUE]
  /\ UNCHANGED <<vars, directory, hostLock, at, answer, ready>>

-----------------------------------------------------------------------------
(* start() *)

(* A start that believes in a process only when application.json calls it  *)
(* running.                                                                *)
CanStartUnlessRunning ==
  app # NoApp /\ app.artifact /\ ~(app.state = "running" /\ app.pid \in alive)

CanStart == app # NoApp /\ app.artifact /\ ~Runs

NewPort == Len(launched) + 1

StartLaunch(c) ==
  /\ Begin(c) /\ CanStart
  /\ Launch(c, NewPort)
  /\ Hold(c, "launching")
  /\ UNCHANGED <<directory, app, answer, ready>>

StartLaunchFails(c) ==
  /\ Begin(c) /\ CanStart
  /\ LaunchFails(c, NewPort)
  /\ Hold(c, "raised")
  /\ UNCHANGED <<directory, app, answer, ready>>

StartRecorded(c) ==
  /\ To(c, "launching", "recorded")
  /\ RecordStarting(c)
  /\ UNCHANGED <<directory, app, answer, ready>>

(* A callback that does not wait for readiness. *)
OnStartRunning(c) ==
  /\ To(c, "recorded", "waiting")
  /\ Writes("running", work[c])
  /\ UNCHANGED <<vars, directory, answer, ready>>

(* The callback of the controller: the application is starting.            *)
OnStart(c) ==
  /\ To(c, "recorded", "waiting")
  /\ Writes("starting", work[c])
  /\ UNCHANGED <<vars, directory, answer, ready>>

(* The callback's error is swallowed. *)
OnStartFails(c) ==
  /\ To(c, "recorded", "waiting")
  /\ faults < FaultBound /\ faults' = faults + 1
  /\ UNCHANGED <<record, launched, alive, lock, pc, work>>
  /\ UNCHANGED <<directory, app, answer, ready>>

StartReady(c) ==
  /\ To(c, "waiting", "started")
  /\ Ready(c)
  /\ ready' = ready \cup {work[c]}
  /\ UNCHANGED <<directory, app, answer>>

StartNotReady(c) ==
  /\ To(c, "waiting", "raised")
  /\ NotReady(c)
  /\ UNCHANGED <<directory, app, answer, ready>>

StartWritten(c) ==
  /\ at[c] = "started"
  /\ Writes(State, Pid)
  /\ Leave(c)
  /\ UNCHANGED <<vars, directory, answer, ready>>

(* A failed start that leaves application.json to the next status().       *)
StartRaisedUnwritten(c) ==
  /\ at[c] = "raised"
  /\ Leave(c)
  /\ UNCHANGED <<vars, directory, app, answer, ready>>

StartRaised(c) ==
  /\ at[c] = "raised"
  /\ Writes("failed", None)
  /\ Leave(c)
  /\ UNCHANGED <<vars, directory, answer, ready>>

-----------------------------------------------------------------------------
(* The controller's record gets the process of application.json.           *)
Sync == record' = IF record = NoRecord THEN NoRecord ELSE [record EXCEPT !.pid = app.pid]

(* status() of an application that is starting does not take the lock.     *)
StatusStarting(c) ==
  /\ at[c] = "idle"
  /\ app # NoApp /\ app.state = "starting"
  /\ Answers(c, "starting")
  /\ UNCHANGED <<vars, directory, app, hostLock, at, ready>>

StatusSync(c) ==
  /\ Begin(c) /\ app # NoApp /\ app.state # "starting"
  /\ Sync
  /\ Hold(c, "observing")
  /\ UNCHANGED <<launched, alive, lock, pc, work, faults>>
  /\ UNCHANGED <<directory, app, answer, ready>>

(* status() of the controller. *)
StatusObserve(c) ==
  /\ To(c, "observing", "observed")
  /\ IF Pid # None /\ Pid \notin alive THEN StatusDead(c) ELSE UNCHANGED vars
  /\ UNCHANGED <<directory, app, answer, ready>>

(* What application.json becomes. *)
Observed ==
  IF State = "stopped" /\ app.state \in {"built", "installed", "failed"}
  THEN app.state ELSE State

StatusWritten(c) ==
  /\ at[c] = "observed"
  /\ Writes(Observed, Pid)
  /\ Answers(c, Observed)
  /\ Leave(c)
  /\ UNCHANGED <<vars, directory, ready>>

(* resources() samples the process and rewrites what it found.             *)
Resources(c) ==
  /\ Begin(c) /\ app # NoApp
  /\ Sync
  /\ UNCHANGED <<launched, alive, lock, pc, work, faults>>
  /\ UNCHANGED <<directory, app, hostLock, at, answer, ready>>

-----------------------------------------------------------------------------
(* stop() *)

StopSync(c) ==
  /\ Begin(c) /\ app # NoApp
  /\ Sync
  /\ Hold(c, "stopping")
  /\ UNCHANGED <<launched, alive, lock, pc, work, faults>>
  /\ UNCHANGED <<directory, app, answer, ready>>

(* stop() of the controller, up to its signal. *)
StopCall(c) ==
  /\ To(c, "stopping", IF Pid \in alive THEN "signalled" ELSE "stopped")
  /\ CASE Pid \in alive -> StopSignal(c)
       [] Pid \notin alive /\ record # NoRecord -> StopDead(c)
       [] record = NoRecord -> UNCHANGED vars
  /\ UNCHANGED <<directory, app, answer, ready>>

StopAwaited(c) ==
  /\ To(c, "signalled", "stopped")
  /\ StopDone(c)
  /\ UNCHANGED <<directory, app, answer, ready>>

(* A failed stop that is recorded like any other. *)
StopGivenUpWritten(c) ==
  /\ at[c] = "signalled"
  /\ StopFails(c)
  /\ Writes("stopped", None)
  /\ Leave(c)
  /\ UNCHANGED <<directory, answer, ready>>

StopGivenUp(c) ==
  /\ at[c] = "signalled"
  /\ StopFails(c)
  /\ Leave(c)
  /\ UNCHANGED <<directory, app, answer, ready>>

StopWritten(c) ==
  /\ at[c] = "stopped"
  /\ Writes(State, None)
  /\ Leave(c)
  /\ UNCHANGED <<vars, directory, answer, ready>>

-----------------------------------------------------------------------------
HostExit(p) ==
  /\ Exit(p)
  /\ UNCHANGED <<directory, app, hostLock, at, answer, ready>>

(* The caller is killed inside a call; both of its locks are released.     *)
HostKilled(c) ==
  /\ at[c] # "idle"
  /\ faults < FaultBound /\ faults' = faults + 1
  /\ lock' = IF lock = c THEN Free ELSE lock
  /\ Return(c)
  /\ Leave(c)
  /\ UNCHANGED <<record, launched, alive, directory, app, answer, ready>>

HostNext ==
  \/ \E c \in Callers :
       \/ InstallNew(c) \/ InstallWritten(c) \/ InstallAgain(c) \/ Build(c)
       \/ StartLaunch(c) \/ StartLaunchFails(c) \/ StartRecorded(c)
       \/ OnStart(c) \/ OnStartFails(c)
       \/ StartReady(c) \/ StartNotReady(c) \/ StartWritten(c) \/ StartRaised(c)
       \/ StatusStarting(c) \/ StatusSync(c) \/ StatusObserve(c) \/ StatusWritten(c)
       \/ Resources(c)
       \/ StopSync(c) \/ StopCall(c) \/ StopAwaited(c) \/ StopGivenUp(c) \/ StopWritten(c)
       \/ HostKilled(c)
  \/ \E p \in alive : HostExit(p)

HostSpec == HostInit /\ [][HostNext]_hostVars

-----------------------------------------------------------------------------
(* Records of the host, and its lock held exactly by a call in progress.   *)
HostTypeOK ==
  /\ TypeOK
  /\ directory \in BOOLEAN
  /\ app \in App \cup {NoApp}
  /\ app # NoApp => directory /\ app.pid <= Len(launched)
  /\ hostLock \in Callers \cup {Free}
  /\ \A c \in Callers : hostLock = c <=> at[c] # "idle"
  /\ \A c \in Callers : pc[c] # "idle" => at[c] # "idle"
  /\ ready \subseteq 1 .. Len(launched)

(* Between calls, and until a caller is killed, whatever runs is the one   *)
(* process that both records name.  The controller alone does not promise  *)
(* this of starts with different ports: it takes the host's own check.     *)
RecordsAgree ==
  faults = 0 /\ hostLock = Free => \A p \in alive : Pid = p /\ app.pid = p

(* Until a caller is killed, status() says "starting" only during a start  *)
(* or of a process that runs: the answer given without the lock is never   *)
(* about a process that is gone.                                           *)
StartingIsTrue ==
  [][\A c \in Callers :
       StatusStarting(c) /\ faults = 0 => hostLock # Free \/ app.pid \in alive]_hostVars

(* A live process is called running only when it has been seen ready,      *)
(* whichever caller is killed and whatever the two records held.           *)
RunningWasReady ==
  /\ app # NoApp /\ app.state = "running" /\ app.pid \in alive => app.pid \in ready
  /\ State = "running" /\ Pid \in alive => Pid \in ready

(* A killed caller never leaves the host's records naming different live   *)
(* processes.                                                              *)
NeverTwoLive ==
  app # NoApp /\ app.pid \in alive /\ Pid \in alive => app.pid = Pid

-----------------------------------------------------------------------------
(* What the documentation says and the code does not do.                   *)

(* Expected by the hosting baseline: a stop goes after the process that    *)
(* the controller has on record.                                           *)
StopFindsRecorded ==
  [][\A c \in Callers : StopSync(c) /\ Pid \in alive => Pid' = Pid]_hostVars

(* Expected by the hosting baseline: install is idempotent.                *)
InstallRepeatable == \A c \in Callers : answer[c] # "not installed"
=============================================================================
