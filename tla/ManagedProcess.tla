--------------------------- MODULE ManagedProcess ---------------------------
(***************************************************************************)
(* The controller of one module's process: any number of callers (threads, *)
(* or commands run from a shell) start it, stop it and ask for its status. *)
(* They share a record file and a file lock; the process itself lives on   *)
(* its own and outlives its caller.                                        *)
(*                                                                         *)
(* start() launches and records the process under the lock, waits for its  *)
(* health without the lock, and takes the lock again to record the result. *)
(* A process is known by its pid and start time, so a number stands for    *)
(* it; a command line is compared only when a start finds one recorded.    *)
(***************************************************************************)
EXTENDS Naturals, Sequences, FiniteSets

CONSTANTS
  Callers,
  Plans,         \* command lines: executable, arguments and port
  NoRecord,      \* there is no record file
  Free,          \* nobody has the lock
  LaunchBound,   \* model bound: processes launched in a behaviour
  FaultBound     \* model bound: callers killed in a behaviour

None == 0        \* no pid
States == {"starting", "running", "stopped", "failed"}
Record == [state: States, pid: Nat]

ASSUME ManagedProcessAssumption ==
  /\ NoRecord \notin Record
  /\ Free \notin Callers
  /\ LaunchBound \in Nat /\ FaultBound \in Nat

VARIABLES
  record,        \* the module's record file
  launched,      \* the plan of each process launched so far
  alive,         \* processes that run
  lock,          \* the file lock: its holder
  pc, work,      \* where each caller is, and the process it works on
  faults

vars == <<record, launched, alive, lock, pc, work, faults>>

Init ==
  /\ record = NoRecord
  /\ launched = <<>> /\ alive = {}
  /\ lock = Free
  /\ pc = [c \in Callers |-> "idle"]
  /\ work = [c \in Callers |-> None]
  /\ faults = 0

Pid == IF record = NoRecord THEN None ELSE record.pid
State == IF record = NoRecord THEN "stopped" ELSE record.state

(* An operation that begins, or begins again, with taking the lock.        *)
CanLock(c) == lock = Free

Goto(c, label, pid) ==
  /\ pc' = [pc EXCEPT ![c] = label]
  /\ work' = [work EXCEPT ![c] = pid]

Return(c) == Goto(c, "idle", None)

Records(state, pid) == record' = [state |-> state, pid |-> pid]

-----------------------------------------------------------------------------
(* start() *)

Starts == {"starting", "running"}

(* The recorded process has been seen ready. *)
RunningAs(plan) ==
  /\ State = "running" /\ Pid \in alive
  /\ launched[Pid] = plan

Owned(plan) ==
  /\ State \in Starts /\ Pid \in alive
  /\ launched[Pid] = plan

(* The record that start() leaves when it finds a process not its own.     *)
Disowned == record' = IF State \in Starts THEN [state |-> "failed", pid |-> None] ELSE record

(* A launch that trusts a process only once it is ready. *)
LaunchUnlessRunning(c, plan) ==
  /\ pc[c] = "idle" /\ CanLock(c)
  /\ ~RunningAs(plan)
  /\ Len(launched) < LaunchBound
  /\ Disowned
  /\ launched' = Append(launched, plan)
  /\ alive' = alive \cup {Len(launched')}
  /\ lock' = c
  /\ Goto(c, "launched", Len(launched'))
  /\ UNCHANGED faults

Launch(c, plan) ==
  /\ pc[c] = "idle" /\ CanLock(c)
  /\ ~Owned(plan)
  /\ Len(launched) < LaunchBound
  /\ Disowned
  /\ launched' = Append(launched, plan)
  /\ alive' = alive \cup {Len(launched')}
  /\ lock' = c
  /\ Goto(c, "launched", Len(launched'))
  /\ UNCHANGED faults

(* The program cannot be run, or has ended before anyone looked.           *)
LaunchFails(c, plan) ==
  /\ pc[c] = "idle" /\ CanLock(c)
  /\ ~Owned(plan)
  /\ Disowned
  /\ UNCHANGED <<launched, alive, lock, pc, work, faults>>

RecordStarting(c) ==
  /\ pc[c] = "launched"
  /\ Records("starting", work[c])
  /\ lock' = Free
  /\ Goto(c, "polling", work[c])
  /\ UNCHANGED <<launched, alive, faults>>

(* The record is still the one this start made. *)
StillStarting(c) == State = "starting" /\ Pid = work[c]

Ready(c) ==
  /\ pc[c] = "polling" /\ CanLock(c)
  /\ StillStarting(c)
  /\ Records("running", work[c])
  /\ Return(c)
  /\ UNCHANGED <<launched, alive, lock, faults>>

(* Not ready in time: a process that is left running. *)
NotReadyLeft(c) ==
  /\ pc[c] = "polling" /\ CanLock(c)
  /\ StillStarting(c)
  /\ Records("failed", None)
  /\ Return(c)
  /\ UNCHANGED <<launched, alive, lock, faults>>

(* Not ready in time: the process is killed and its record left as it is. *)
NotReadyUnrecorded(c) ==
  /\ pc[c] = "polling" /\ CanLock(c)
  /\ StillStarting(c)
  /\ alive' = alive \ {work[c]}
  /\ Return(c)
  /\ UNCHANGED <<record, launched, lock, faults>>

NotReady(c) ==
  /\ pc[c] = "polling" /\ CanLock(c)
  /\ StillStarting(c)
  /\ alive' = alive \ {work[c]}
  /\ Records("failed", None)
  /\ Return(c)
  /\ UNCHANGED <<launched, lock, faults>>

Superseded(c) ==
  /\ pc[c] = "polling" /\ CanLock(c)
  /\ ~StillStarting(c)
  /\ Return(c)
  /\ UNCHANGED <<record, launched, alive, lock, faults>>

-----------------------------------------------------------------------------
(* status() of a process that has ended. *)
StatusDead(c) ==
  /\ pc[c] = "idle" /\ CanLock(c)
  /\ Pid # None /\ Pid \notin alive
  /\ Records("failed", None)
  /\ UNCHANGED <<launched, alive, lock, pc, work, faults>>

(* stop() of a process that has ended, or of none.                         *)
StopDead(c) ==
  /\ pc[c] = "idle" /\ CanLock(c)
  /\ record # NoRecord
  /\ Pid \notin alive
  /\ Records(IF Pid # None /\ State \in Starts THEN "failed" ELSE "stopped", None)
  /\ UNCHANGED <<launched, alive, lock, pc, work, faults>>

(* The process is signalled, and waited for with the lock held.            *)
StopSignal(c) ==
  /\ pc[c] = "idle" /\ CanLock(c)
  /\ Pid \in alive
  /\ lock' = c
  /\ Goto(c, "stopping", Pid)
  /\ UNCHANGED <<record, launched, alive, faults>>

StopDone(c) ==
  /\ pc[c] = "stopping"
  /\ work[c] \notin alive
  /\ Records("stopped", None)
  /\ lock' = Free
  /\ Return(c)
  /\ UNCHANGED <<launched, alive, faults>>

(* A failed stop that keeps the lock. *)
StopFailsLocked(c) ==
  /\ pc[c] = "stopping"
  /\ work[c] \in alive
  /\ Return(c)
  /\ UNCHANGED <<record, launched, alive, lock, faults>>

(* The process outlasts even SIGKILL: stop() raises.                       *)
StopFails(c) ==
  /\ pc[c] = "stopping"
  /\ work[c] \in alive
  /\ lock' = Free
  /\ Return(c)
  /\ UNCHANGED <<record, launched, alive, faults>>

-----------------------------------------------------------------------------
Exit(p) ==
  /\ p \in alive
  /\ alive' = alive \ {p}
  /\ UNCHANGED <<record, launched, lock, pc, work, faults>>

(* A caller is killed; the operating system releases its lock.             *)
Killed(c) ==
  /\ pc[c] # "idle"
  /\ faults < FaultBound
  /\ faults' = faults + 1
  /\ lock' = IF lock = c THEN Free ELSE lock
  /\ Return(c)
  /\ UNCHANGED <<record, launched, alive>>

Resume(c) ==
  \/ RecordStarting(c)
  \/ Ready(c) \/ NotReady(c) \/ Superseded(c)
  \/ StopDone(c) \/ StopFails(c)

Next ==
  \/ \E c \in Callers :
       \/ \E plan \in Plans : Launch(c, plan) \/ LaunchFails(c, plan)
       \/ StatusDead(c) \/ StopDead(c) \/ StopSignal(c)
       \/ Resume(c) \/ Killed(c)
  \/ \E p \in alive : Exit(p)

Spec == Init /\ [][Next]_vars

(* A caller inside a call goes on; one that waits for the lock gets it     *)
(* when it is free again and again.                                        *)
FairSpec == Spec /\ \A c \in Callers : SF_vars(Resume(c))

-----------------------------------------------------------------------------
(* Records name launched processes, and the lock is held exactly by the    *)
(* caller that is between launching and recording or between signalling    *)
(* and the end of its wait.                                                *)
TypeOK ==
  /\ record \in Record \cup {NoRecord}
  /\ launched \in Seq(Plans)
  /\ alive \subseteq 1 .. Len(launched)
  /\ Pid \in 0 .. Len(launched)
  /\ lock \in Callers \cup {Free}
  /\ pc \in [Callers -> {"idle", "launched", "polling", "stopping"}]
  /\ work \in [Callers -> 0 .. Len(launched)]
  /\ \A c \in Callers : lock = c <=> pc[c] \in {"launched", "stopping"}
  /\ faults \in Nat

(* The process is never lost: whatever runs is on record, or its caller is *)
(* about to record it.  With one command line, and until a caller is       *)
(* killed, no interleaving of starts, stops, status calls and exits leaves *)
(* an orphan.                                                              *)
NoOrphan ==
  faults = 0 =>
    \A p \in alive : p = Pid \/ \E c \in Callers : pc[c] = "launched" /\ work[c] = p

(* Multiple starts resolve to one process, as the hosting baseline expects *)
(* of start(): a launch happens only when nothing recorded runs any more.  *)
(* With one command line no interleaving of callers breaks it until one is *)
(* killed; it fails when two starts of the module differ in their port.    *)
SingleProcess == faults = 0 => Cardinality(alive) <= 1

(* Until a caller is killed, at most one process runs and it is known.     *)
OneKnownProcess == SingleProcess /\ NoOrphan

(* No step forgets a process that goes on running: a start that ends late, *)
(* a status call or a second start never takes the record of a live        *)
(* process for its own.  Holds also when callers are killed.               *)
LiveStaysRecorded ==
  [][\A p \in alive \cap alive' : Pid = p => Pid' = p]_vars

(* Every call that got past its beginning returns, and holds no lock.      *)
EveryCallReturns == \A c \in Callers : pc[c] # "idle" ~> pc[c] = "idle"

(* Unless a caller is killed, a start does not stay "starting" for ever.   *)
StartupResolves ==
  State = "starting" /\ faults = 0 ~> State # "starting" \/ faults # 0

-----------------------------------------------------------------------------
(* What the documentation says and the code does not do.                   *)

(* Expected by the hosting baseline: when the record says that the module  *)
(* is stopped, no process of it runs.                                      *)
StopLeavesNone == lock = Free /\ State = "stopped" => alive = {}
=============================================================================
