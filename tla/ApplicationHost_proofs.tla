----------------------- MODULE ApplicationHost_proofs -----------------------
(***************************************************************************)
(* Theorems about ManagedProcess, the controller of one process, and about *)
(* ApplicationHost, which runs its process through it.                     *)
(*                                                                         *)
(* Of the controller: types for any number of callers, launches and kills; *)
(* the record's hold on live processes when starts agree on their command  *)
(* line; no orphan when no caller is killed.  These cite nothing about the *)
(* host.  Of the host, whose starts never agree: the two records and the   *)
(* process.                                                                *)
(***************************************************************************)
EXTENDS ApplicationHost, SequenceTheorems, FiniteSetTheorems, TLAPS

(* A live recorded process is one that is starting or running.             *)
RecordInv == Pid \in alive => State \in Starts

(* A stop works on the recorded process; a launch found no live one there. *)
LockInv ==
  \A c \in Callers :
    /\ pc[c] = "launched" => Pid \notin alive /\ work[c] # None
    /\ pc[c] = "stopping" => Pid = work[c]

(* Starts agree on their command line: a live recorded process is owned.   *)
OnePlan == \A p, q \in Plans : p = q

IInv == TypeOK /\ RecordInv /\ LockInv

LEMMA InitInv == Init => IInv
  BY ManagedProcessAssumption, EmptySeq
     DEF Init, IInv, TypeOK, RecordInv, LockInv, Pid, State, None, vars

(* What an append does to a typed sequence.                                *)
LEMMA Appended ==
  ASSUME NEW S, NEW s \in Seq(S), NEW x \in S
  PROVE  /\ Append(s, x) \in Seq(S)
         /\ Len(Append(s, x)) = Len(s) + 1
         /\ Len(s) \in Nat
         /\ \A i \in 1 .. Len(s) : Append(s, x)[i] = s[i]
         /\ Append(s, x)[Len(s) + 1] = x
  OBVIOUS

LEMMA StepInv == IInv /\ [Next]_vars => IInv'
<1> SUFFICES ASSUME IInv, [Next]_vars PROVE IInv'
  OBVIOUS
<1> USE ManagedProcessAssumption DEF IInv, None
<1> USE DEF Records, Return, Goto, CanLock, Pid, State, Starts, Record, States
<1>1. CASE UNCHANGED vars
  BY <1>1 DEF vars, TypeOK, RecordInv, LockInv
<1>2. ASSUME NEW c \in Callers, NEW plan \in Plans, Launch(c, plan) PROVE IInv'
  <2> DEFINE n == Len(launched) + 1
  <2>1. /\ launched' \in Seq(Plans) /\ Len(launched') = n
        /\ Len(launched) \in Nat /\ n \in Nat /\ n # 0
    BY <1>2, Appended DEF Launch, TypeOK
  <2>2. \/ record' \in Record \cup {NoRecord} /\ Pid' = 0
        \/ record' = record /\ State \notin Starts
    BY <1>2 DEF Launch, Disowned, TypeOK
  <2>3. alive' \subseteq 1 .. n
    <3>1. alive' = alive \cup {n} BY <1>2, <2>1 DEF Launch
    <3>2. alive \subseteq 1 .. Len(launched) BY DEF TypeOK
    <3>3. 1 .. Len(launched) \subseteq 1 .. n /\ n \in 1 .. n BY <2>1
    <3> HIDE DEF n
    <3> QED BY <3>1, <3>2, <3>3
  <2>4. record' \in Record \cup {NoRecord} /\ Pid' \in 0 .. n /\ Pid' \notin alive'
    <3>1. alive' = alive \cup {n} /\ Pid \in 0 .. Len(launched)
      BY <1>2, <2>1 DEF Launch, TypeOK
    <3>2. CASE record' \in Record \cup {NoRecord} /\ Pid' = 0
      BY <2>1, <2>3, <3>2
    <3>3. CASE record' = record /\ State \notin Starts
      <4>1. Pid \notin alive /\ Pid' = Pid /\ record \in Record \cup {NoRecord}
        BY <3>3 DEF RecordInv, TypeOK
      <4> HIDE DEF Pid
      <4> QED BY <2>1, <3>1, <3>3, <4>1
    <3> QED BY <2>2, <3>2, <3>3
  <2>5. /\ lock' = c /\ work' = [work EXCEPT ![c] = n] /\ faults' = faults
        /\ pc' = [pc EXCEPT ![c] = "launched"] /\ lock = Free
    BY <1>2, <2>1 DEF Launch
  <2>6. \A d \in Callers : pc[d] \notin {"launched", "stopping"}
    BY <2>5 DEF TypeOK
  <2>7. TypeOK'
    <3>1. \A d \in Callers : work[d] \in 0 .. n
      BY <2>1 DEF TypeOK
    <3> QED BY <2>1, <2>3, <2>4, <2>5, <2>6, <3>1 DEF TypeOK
  <2>8. RecordInv' BY <2>4 DEF RecordInv
  <2>9. LockInv' BY <2>1, <2>4, <2>5, <2>6 DEF LockInv, TypeOK
  <2> QED BY <2>7, <2>8, <2>9
<1>3. ASSUME NEW c \in Callers, NEW plan \in Plans, LaunchFails(c, plan) PROVE IInv'
  <2>1. \A d \in Callers : pc[d] \notin {"launched", "stopping"}
    BY <1>3 DEF LaunchFails, TypeOK
  <2> QED BY <1>3, <2>1 DEF LaunchFails, Disowned, TypeOK, RecordInv, LockInv
<1>4. ASSUME NEW c \in Callers, RecordStarting(c) PROVE IInv'
  <2>1. \A d \in Callers \ {c} : pc[d] \notin {"launched", "stopping"}
    BY <1>4 DEF RecordStarting, TypeOK
  <2> QED BY <1>4, <2>1 DEF RecordStarting, TypeOK, RecordInv, LockInv
<1>5. ASSUME NEW c \in Callers, Ready(c) PROVE IInv'
  <2>1. \A d \in Callers : pc[d] \notin {"launched", "stopping"}
    BY <1>5 DEF Ready, TypeOK
  <2> QED BY <1>5, <2>1 DEF Ready, StillStarting, TypeOK, RecordInv, LockInv
<1>6. ASSUME NEW c \in Callers, NotReady(c) PROVE IInv'
  <2>1. \A d \in Callers : pc[d] \notin {"launched", "stopping"}
    BY <1>6 DEF NotReady, TypeOK
  <2>2. /\ record' = [state |-> "failed", pid |-> 0] /\ lock' = lock
        /\ launched' = launched /\ alive' \subseteq alive /\ faults' = faults
        /\ pc' = [pc EXCEPT ![c] = "idle"] /\ work' = [work EXCEPT ![c] = 0]
    BY <1>6 DEF NotReady
  <2>3. record' \in Record /\ Pid' = 0
    BY <2>2
  <2>4. TypeOK' BY <2>1, <2>2, <2>3 DEF TypeOK
  <2> QED BY <2>1, <2>2, <2>3, <2>4 DEF TypeOK, RecordInv, LockInv
<1>7. ASSUME NEW c \in Callers, Superseded(c) PROVE IInv'
  BY <1>7 DEF Superseded, TypeOK, RecordInv, LockInv
<1>8. ASSUME NEW c \in Callers, StatusDead(c) PROVE IInv'
  <2>1. \A d \in Callers : pc[d] \notin {"launched", "stopping"}
    BY <1>8 DEF StatusDead, TypeOK
  <2> QED BY <1>8, <2>1 DEF StatusDead, TypeOK, RecordInv, LockInv
<1>9. ASSUME NEW c \in Callers, StopDead(c) PROVE IInv'
  <2>1. \A d \in Callers : pc[d] \notin {"launched", "stopping"}
    BY <1>9 DEF StopDead, TypeOK
  <2> QED BY <1>9, <2>1 DEF StopDead, TypeOK, RecordInv, LockInv
<1>10. ASSUME NEW c \in Callers, StopSignal(c) PROVE IInv'
  BY <1>10 DEF StopSignal, TypeOK, RecordInv, LockInv
<1>11. ASSUME NEW c \in Callers, StopDone(c) PROVE IInv'
  <2>1. \A d \in Callers \ {c} : pc[d] \notin {"launched", "stopping"}
    BY <1>11 DEF StopDone, TypeOK
  <2> QED BY <1>11, <2>1 DEF StopDone, TypeOK, RecordInv, LockInv
<1>12. ASSUME NEW c \in Callers, StopFails(c) PROVE IInv'
  BY <1>12 DEF StopFails, TypeOK, RecordInv, LockInv
<1>13. ASSUME NEW c \in Callers, Killed(c) PROVE IInv'
  BY <1>13 DEF Killed, TypeOK, RecordInv, LockInv
<1>14. ASSUME NEW p \in alive, Exit(p) PROVE IInv'
  BY <1>14 DEF Exit, TypeOK, RecordInv, LockInv
<1> QED
  BY <1>1, <1>2, <1>3, <1>4, <1>5, <1>6, <1>7, <1>8, <1>9, <1>10, <1>11,
     <1>12, <1>13, <1>14 DEF Next, Resume

THEOREM Inductive == Spec => []IInv
  BY InitInv, StepInv, PTL DEF Spec

(* Records name launched processes and the lock is held exactly while a    *)
(* process is launched but unrecorded, or signalled but awaited, for every *)
(* number of callers, command lines, launches and kills.                   *)
THEOREM TypeCorrect == Spec => []TypeOK
<1>1. IInv => TypeOK BY DEF IInv
<1> QED BY <1>1, Inductive, PTL

-----------------------------------------------------------------------------
(* A step under the invariant that keeps a recorded process alive keeps    *)
(* its record.                                                             *)
LEMMA StepKeepsRecord ==
  ASSUME OnePlan, IInv, [Next]_vars, NEW p \in alive \cap alive', Pid = p
  PROVE  Pid' = p
<1> USE ManagedProcessAssumption DEF IInv, None
<1> USE DEF Records, Return, Goto, CanLock, Pid, State, Starts, Record, States
<1>0. p # 0 /\ State \in Starts /\ p \in alive /\ p \in alive' /\ p \in 1 .. Len(launched)
  BY DEF TypeOK, RecordInv
<1>1. CASE UNCHANGED vars
  BY <1>1 DEF vars
<1>2. \A plan \in Plans : Owned(plan)
  <2>1. launched[Pid] \in Plans BY <1>0, ElementOfSeq DEF TypeOK
  <2> QED BY <1>0, <2>1 DEF Owned, OnePlan
<1>3. \A c \in Callers, plan \in Plans : ~Launch(c, plan) /\ ~LaunchFails(c, plan)
  BY <1>2 DEF Launch, LaunchFails
<1>4. ASSUME NEW c \in Callers, RecordStarting(c) PROVE Pid' = p
  BY <1>0, <1>4 DEF RecordStarting, LockInv
<1>5. ASSUME NEW c \in Callers, Ready(c) PROVE Pid' = p
  <2>1. record' = [state |-> "running", pid |-> p] /\ p \in Nat
    BY <1>0, <1>5 DEF Ready, StillStarting, TypeOK
  <2>2. record' # NoRecord BY <2>1
  <2> QED BY <2>1, <2>2
<1>6. ASSUME NEW c \in Callers, NotReady(c) PROVE Pid' = p
  BY <1>6 DEF NotReady, StillStarting
<1>7. ASSUME NEW c \in Callers, Superseded(c) \/ StopSignal(c) \/ StopFails(c) \/ Killed(c)
      PROVE Pid' = p
  BY <1>7 DEF Superseded, StopSignal, StopFails, Killed
<1>8. ASSUME NEW c \in Callers, StatusDead(c) \/ StopDead(c) PROVE Pid' = p
  BY <1>0, <1>8 DEF StatusDead, StopDead
<1>9. ASSUME NEW c \in Callers, StopDone(c) PROVE Pid' = p
  BY <1>0, <1>9 DEF StopDone, LockInv
<1>10. ASSUME NEW q \in alive, Exit(q) PROVE Pid' = p
  BY <1>10 DEF Exit
<1> QED
  BY <1>1, <1>3, <1>4, <1>5, <1>6, <1>7, <1>8, <1>9, <1>10 DEF Next, Resume

(* When the starts of a module agree on its command line, no step of any   *)
(* caller, and no kill, takes the record of a process that goes on         *)
(* running.                                                                *)
THEOREM LiveAlwaysRecorded == ASSUME OnePlan PROVE Spec => LiveStaysRecorded
<1>1. IInv /\ [Next]_vars
        => [\A p \in alive \cap alive' : Pid = p => Pid' = p]_vars
  BY StepKeepsRecord
<1> QED BY <1>1, Inductive, PTL DEF Spec, LiveStaysRecorded

-----------------------------------------------------------------------------
(* The launched process that is not on record is that of a caller, and the *)
(* process of a caller that has launched is the only unrecorded one.       *)
LEMMA StepNoOrphan ==
  ASSUME OnePlan, IInv, NoOrphan, [Next]_vars
  PROVE  NoOrphan'
<1> USE ManagedProcessAssumption DEF IInv, None
<1> SUFFICES ASSUME faults' = 0, NEW p \in alive'
             PROVE  p = Pid' \/ \E c \in Callers : pc'[c] = "launched" /\ work'[c] = p
  BY DEF NoOrphan
<1>0. faults = 0 /\ \A c \in Callers : ~Killed(c)
  BY DEF TypeOK, Next, Resume, vars, Launch, LaunchFails, RecordStarting, Ready, NotReady, Superseded,
     StatusDead, StopDead, StopSignal, StopDone, StopFails, Killed, Exit
<1>1. CASE UNCHANGED vars
  BY <1>0, <1>1 DEF vars, NoOrphan, Pid
<1>2. ASSUME NEW c \in Callers, NEW plan \in Plans, Launch(c, plan)
      PROVE \E d \in Callers : pc'[d] = "launched" /\ work'[d] = p
  <2>1. \A d \in Callers : pc[d] # "launched"
    BY <1>2 DEF Launch, CanLock, TypeOK
  <2>2. \A q \in alive : q = Pid
    BY <1>0, <2>1 DEF NoOrphan
  <2>3. alive = {}
    <3>1. ASSUME NEW q \in alive PROVE FALSE
      <4>1. q = Pid /\ Pid # 0 /\ Pid \in 1 .. Len(launched) BY <2>2 DEF TypeOK
      <4>2. launched[Pid] \in Plans BY <4>1, ElementOfSeq DEF TypeOK
      <4>3. Owned(plan) BY <3>1, <4>1, <4>2 DEF Owned, OnePlan, RecordInv
      <4> QED BY <1>2, <4>3 DEF Launch
    <3> QED BY <3>1
  <2>4. p = Len(launched') BY <1>2, <2>3 DEF Launch
  <2> QED BY <1>2, <2>4 DEF Launch, Goto, TypeOK
<1>3. CASE p \notin alive
  BY <1>0, <1>2, <1>3 DEF Next, Resume, vars, LaunchFails, RecordStarting, Ready, NotReady, Superseded,
     StatusDead, StopDead, StopSignal, StopDone, StopFails, Killed, Exit
<1>4. CASE p \in alive
  <2>1. CASE Pid = p
    BY <1>4, <2>1, StepKeepsRecord
  <2>2. CASE Pid # p
    <3>1. PICK c \in Callers : pc[c] = "launched" /\ work[c] = p
      BY <1>0, <1>4, <2>2 DEF NoOrphan
    <3>2. lock = c /\ \A d \in Callers \ {c} : pc[d] \notin {"launched", "stopping"}
      BY <3>1 DEF TypeOK
    <3>3. lock # Free BY <3>2 DEF TypeOK
    <3>4. CASE RecordStarting(c)
      <4>1. record' = [state |-> "starting", pid |-> p] /\ p \in Nat
        BY <3>1, <3>4 DEF RecordStarting, Records, TypeOK
      <4>2. record' \in Record
        BY <4>1 DEF Record, States
      <4> QED BY <4>1, <4>2 DEF Pid
    <3>5. CASE ~RecordStarting(c)
      <4>1. pc'[c] = pc[c] /\ work'[c] = work[c]
        BY <1>0, <3>1, <3>2, <3>3, <3>5 DEF Next, Resume, vars, Launch, LaunchFails, CanLock, RecordStarting,
           Ready, NotReady, Superseded, StatusDead, StopDead, StopSignal, StopDone, StopFails,
           Killed, Exit, TypeOK
      <4> QED BY <3>1, <4>1
    <3> QED BY <3>4, <3>5
  <2> QED BY <2>1, <2>2
<1> QED BY <1>3, <1>4

(* When the starts of a module agree on its command line, then until a     *)
(* caller is killed every process that runs is on record or about to be    *)
(* recorded by the start that launched it.                                 *)
THEOREM NothingOrphaned ==
  ASSUME OnePlan PROVE Spec => []NoOrphan
<1>1. Init => NoOrphan BY DEF Init, NoOrphan
<1>2. IInv /\ NoOrphan /\ [Next]_vars => NoOrphan' BY StepNoOrphan
<1> QED BY <1>1, <1>2, Inductive, PTL DEF Spec

(* Under the same conditions there is one process at most, however the     *)
(* callers interleave: a launch happens when nothing recorded runs.        *)
THEOREM AlwaysSingleProcess ==
  ASSUME OnePlan PROVE Spec => []SingleProcess
<1>1. IInv /\ NoOrphan => SingleProcess
  <2> SUFFICES ASSUME IInv, NoOrphan, faults = 0 PROVE \E x : alive \subseteq {x}
    <3>1. ASSUME NEW x, alive \subseteq {x} PROVE Cardinality(alive) <= 1
      <4>1. IsFiniteSet({x}) /\ Cardinality({x}) = 1 BY FS_Singleton
      <4>2. Cardinality(alive) <= Cardinality({x}) BY <3>1, <4>1, FS_Subset
      <4> QED BY <4>1, <4>2
    <3> QED BY <3>1 DEF SingleProcess
  <2>1. CASE \E c \in Callers : pc[c] = "launched"
    <3>1. PICK c \in Callers : pc[c] = "launched" BY <2>1
    <3>2. \A d \in Callers : pc[d] = "launched" => d = c
      BY <3>1 DEF IInv, TypeOK
    <3>3. Pid \notin alive BY <3>1 DEF IInv, LockInv, TypeOK, None
    <3>4. alive \subseteq {work[c]} BY <3>2, <3>3 DEF NoOrphan
    <3> QED BY <3>4
  <2>2. CASE ~ \E c \in Callers : pc[c] = "launched"
    <3>1. alive \subseteq {Pid} BY <2>2 DEF NoOrphan
    <3> QED BY <3>1
  <2> QED BY <2>1, <2>2
<1> QED BY <1>1, Inductive, NothingOrphaned, PTL

(* Both together.                                                          *)
THEOREM AlwaysOneKnownProcess ==
  ASSUME OnePlan PROVE Spec => []OneKnownProcess
BY NothingOrphaned, AlwaysSingleProcess, PTL DEF OneKnownProcess

-----------------------------------------------------------------------------
(* The host.  A call of it is at one of these, and its controller's call   *)
(* is where the host's is.                                                 *)
Labels == {"idle", "copying", "launching", "recorded", "waiting", "started", "raised",
           "observing", "observed", "stopping", "signalled", "stopped"}

CallInv ==
  /\ at \in [Callers -> Labels]
  /\ \A c \in Callers :
       /\ pc[c] = "launched" <=> at[c] = "launching"
       /\ pc[c] = "polling" <=> at[c] \in {"recorded", "waiting"}
       /\ pc[c] = "stopping" <=> at[c] = "signalled"
       /\ at[c] = "copying" => directory /\ app = NoApp
       /\ at[c] \notin {"idle", "copying"} => app # NoApp

(* A live process of application.json is the controller's, and called by   *)
(* it one that is starting or running.                                     *)
AppInv ==
  app # NoApp /\ app.pid \in alive => app.pid = Pid /\ app.state \in Starts

(* A launch follows the finding that no process of application.json runs,  *)
(* and what a start waits for is what the controller has on record.        *)
StartInv ==
  \A c \in Callers :
    /\ at[c] = "launching" => app.pid \notin alive
    /\ at[c] \in {"recorded", "waiting"} => State = "starting" /\ Pid = work[c] /\ Pid # None

(* Nothing runs of an application that is not installed. *)
AbsentInv == app = NoApp => alive = {} /\ Pid = None

HostInv ==
  IInv /\ HostTypeOK /\ CallInv /\ AppInv /\ StartInv /\ AbsentInv /\ RunningWasReady

LEMMA InitHost == HostInit => HostInv
<1> SUFFICES ASSUME HostInit PROVE HostInv
  OBVIOUS
<1>1. IInv BY InitInv DEF HostInit
<1> QED
  BY <1>1, ManagedProcessAssumption
     DEF HostInit, HostInv, IInv, HostTypeOK, CallInv, AppInv, StartInv, AbsentInv,
         RunningWasReady, Init, Labels, Pid, State, None

(* What is written to application.json is a record of the host. *)
LEMMA WritesApp ==
  ASSUME app \in App, NEW state \in AppStates, NEW pid \in Nat, Writes(state, pid)
  PROVE  /\ app' \in App /\ app' # NoApp
         /\ app'.state = state /\ app'.pid = pid
<1>1. app' = [state |-> state, pid |-> pid, artifact |-> app.artifact]
  BY Zenon DEF Writes, App
<1>2. app.artifact \in BOOLEAN
  BY DEF App
<1> QED
  BY <1>1, <1>2, HostAssumption DEF App

LEMMA InstalledApp ==
  ASSUME NEW c \in Callers, InstallWritten(c)
  PROVE  /\ app' \in App /\ app' # NoApp
         /\ app'.state = "installed" /\ app'.pid = None
<1>1. app' = [state |-> "installed", pid |-> 0, artifact |-> FALSE]
  BY DEF InstallWritten, None
<1>2. "installed" \in AppStates /\ 0 \in Nat /\ FALSE \in BOOLEAN
  BY DEF AppStates
<1>3. app' \in App
  BY <1>1, <1>2, Zenon DEF App
<1> QED
  BY <1>1, <1>3, HostAssumption DEF None

LEMMA BuildApp ==
  ASSUME app \in App, app' = [app EXCEPT !.state = "built", !.artifact = TRUE]
  PROVE  /\ app' \in App /\ app' # NoApp
         /\ app'.state = "built" /\ app'.pid = app.pid
<1>1. app' = [state |-> "built", pid |-> app.pid, artifact |-> TRUE]
  BY Zenon DEF App
<1>2. app.pid \in Nat
  BY DEF App
<1> QED
  BY <1>1, <1>2, HostAssumption DEF App, AppStates

(* A record gets the process of application.json and keeps its state.      *)
LEMMA SyncRecord ==
  ASSUME record \in Record \cup {NoRecord}, app \in App, Sync
  PROVE  /\ record' \in Record \cup {NoRecord}
         /\ State' = State
         /\ Pid' = app.pid \/ (Pid' = None /\ Pid = None)
<1>1. CASE record = NoRecord
  BY <1>1 DEF Sync, State, Pid
<1>2. CASE record \in Record
  <2>1. record' = [state |-> record.state, pid |-> app.pid]
    BY <1>2, ManagedProcessAssumption, Zenon DEF Sync, Record
  <2>2. record.state \in States /\ app.pid \in Nat
    BY <1>2 DEF Record, App
  <2>3. record' \in Record
    BY <2>1, <2>2 DEF Record
  <2>4. record' # NoRecord /\ record # NoRecord
    BY <1>2, <2>3, ManagedProcessAssumption
  <2> QED
    BY <2>1, <2>3, <2>4 DEF State, Pid
<1> QED
  BY <1>1, <1>2

(* A call begins when nobody is in a call, and then nobody else is.        *)
LEMMA Beginning ==
  ASSUME HostInv, NEW c \in Callers, Begin(c)
  PROVE  \A d \in Callers : at[d] = "idle" /\ pc[d] = "idle"
BY ManagedProcessAssumption DEF HostInv, HostTypeOK, TypeOK, CallInv, Begin

LEMMA Holding ==
  ASSUME HostInv, NEW c \in Callers, at[c] # "idle"
  PROVE  hostLock = c /\ \A d \in Callers \ {c} : at[d] = "idle" /\ pc[d] = "idle"
BY DEF HostInv, HostTypeOK, TypeOK, CallInv

(* What the host does to the controller's record alone keeps the           *)
(* controller's invariant when nobody is in a call of the controller.      *)
LEMMA RecordKeepsIInv ==
  ASSUME IInv, lock = Free, UNCHANGED <<launched, alive, lock, pc, work, faults>>,
         record' \in Record \cup {NoRecord},
         Pid' \in 0 .. Len(launched), Pid' \in alive => State' \in Starts
  PROVE  IInv'
<1>1. \A c \in Callers : pc[c] \notin {"launched", "stopping"}
  BY ManagedProcessAssumption DEF IInv, TypeOK
<1> QED
  BY <1>1 DEF IInv, TypeOK, RecordInv, LockInv

LEMMA SyncKeepsIInv ==
  ASSUME HostInv, app # NoApp, lock = Free, Sync,
         UNCHANGED <<launched, alive, lock, pc, work, faults>>
  PROVE  IInv'
<1>1. /\ app \in App /\ record \in Record \cup {NoRecord}
      /\ app.pid \in 0 .. Len(launched)
  BY DEF HostInv, HostTypeOK, App, IInv, TypeOK
<1>2. /\ record' \in Record \cup {NoRecord} /\ State' = State
      /\ Pid' = app.pid \/ (Pid' = None /\ Pid = None)
  BY <1>1, SyncRecord
<1>3. Pid' \in 0 .. Len(launched)
  BY <1>1, <1>2 DEF HostInv, IInv, TypeOK
<1>4. Pid' \in alive => State' \in Starts
  BY <1>2 DEF HostInv, IInv, TypeOK, RecordInv, AppInv, None
<1> QED
  BY <1>2, <1>3, <1>4, RecordKeepsIInv DEF HostInv

LEMMA FailsKeepsIInv ==
  ASSUME IInv, NEW c \in Callers, NEW plan, LaunchFails(c, plan)
  PROVE  IInv'
<1>1. /\ record' = record \/ record' = [state |-> "failed", pid |-> None]
      /\ lock = Free /\ UNCHANGED <<launched, alive, lock, pc, work, faults>>
  BY DEF LaunchFails, Disowned, CanLock
<1>2. /\ record' \in Record \cup {NoRecord}
      /\ Pid' \in {None, Pid} /\ (Pid' = None \/ State' = State)
  BY <1>1, ManagedProcessAssumption DEF IInv, TypeOK, Record, States, Pid, State, None
<1> QED
  BY <1>1, <1>2, RecordKeepsIInv DEF IInv, TypeOK, RecordInv, None

(* A caller that is killed, or an error that is swallowed, is one fault.   *)
LEMMA FaultKeepsIInv ==
  ASSUME IInv, faults' = faults + 1, UNCHANGED <<record, launched, alive, lock, pc, work>>
  PROVE  IInv'
BY DEF IInv, TypeOK, RecordInv, LockInv, Pid, State

LEMMA StepController == HostInv /\ [HostNext]_hostVars => IInv'
<1> SUFFICES ASSUME HostInv, [HostNext]_hostVars PROVE IInv'
  OBVIOUS
<1> USE DEF HostInv
<1>1. [Next]_vars => IInv'
  BY StepInv
<1>2. CASE UNCHANGED hostVars
  BY <1>1, <1>2 DEF hostVars
<1>3. ASSUME NEW c \in Callers,
             \/ InstallNew(c) \/ InstallWritten(c) \/ InstallAgain(c) \/ Build(c)
             \/ OnStart(c) \/ StartWritten(c) \/ StartRaised(c)
             \/ StatusStarting(c) \/ StatusWritten(c) \/ StopWritten(c)
      PROVE  IInv'
  <2>1. UNCHANGED vars
    BY <1>3 DEF InstallNew, InstallWritten, InstallAgain, Build, OnStart, StartWritten,
       StartRaised, StatusStarting, StatusWritten, StopWritten
  <2> QED BY <1>1, <2>1
<1>4. ASSUME NEW c \in Callers,
             \/ StartRecorded(c) \/ StartReady(c) \/ StartNotReady(c)
             \/ StatusObserve(c) \/ StopCall(c) \/ StopAwaited(c) \/ StopGivenUp(c)
      PROVE  IInv'
  <2>1. [Next]_vars
    BY <1>4 DEF StartRecorded, StartReady, StartNotReady, StatusObserve, StopCall,
       StopAwaited, StopGivenUp, Next, Resume
  <2> QED BY <1>1, <2>1
<1>5. ASSUME NEW c \in Callers, StartLaunch(c) PROVE IInv'
  <2>1. Len(launched) \in Nat
    BY DEF IInv, TypeOK
  <2>2. Launch(c, NewPort) /\ Len(launched) < LaunchBound
    BY <1>5 DEF StartLaunch, Launch
  <2>3. NewPort \in Plans
    BY <2>1, <2>2, HostAssumption, ManagedProcessAssumption DEF NewPort
  <2> QED BY <1>1, <2>2, <2>3 DEF Next
<1>6. ASSUME NEW c \in Callers, StartLaunchFails(c) PROVE IInv'
  BY <1>6, FailsKeepsIInv DEF StartLaunchFails
<1>7. ASSUME NEW c \in Callers, OnStartFails(c) PROVE IInv'
  BY <1>7, FaultKeepsIInv DEF OnStartFails
<1>8. ASSUME NEW c \in Callers, StatusSync(c) \/ Resources(c) \/ StopSync(c) PROVE IInv'
  <2>1. lock = Free
    BY <1>8, Beginning DEF StatusSync, Resources, StopSync, IInv, TypeOK
  <2> QED BY <1>8, <2>1, SyncKeepsIInv DEF StatusSync, Resources, StopSync
<1>9. ASSUME NEW c \in Callers, HostKilled(c) PROVE IInv'
  BY <1>9, ManagedProcessAssumption
     DEF HostKilled, Return, Goto, IInv, TypeOK, RecordInv, LockInv, Pid, State, None
<1>10. ASSUME NEW p \in alive, HostExit(p) PROVE IInv'
  BY <1>1, <1>10 DEF HostExit, Next
<1> QED
  BY <1>2, <1>3, <1>4, <1>5, <1>6, <1>7, <1>8, <1>9, <1>10 DEF HostNext

(* Positions of the controller's call for those of the host's. *)
Match(label, inner) ==
  /\ inner = "launched" <=> label = "launching"
  /\ inner = "polling" <=> label \in {"recorded", "waiting"}
  /\ inner = "stopping" <=> label = "signalled"
  /\ inner # "idle" => label # "idle"

CallsOK ==
  /\ CallInv
  /\ hostLock \in Callers \cup {Free}
  /\ \A c \in Callers : hostLock = c <=> at[c] # "idle"
  /\ \A c \in Callers : pc[c] # "idle" => at[c] # "idle"

(* A step of one call: it begins, goes on or ends, and its lock with it.   *)
LEMMA CallMoves ==
  ASSUME HostInv, NEW c \in Callers, at[c] # "idle" \/ hostLock = Free,
         NEW label \in Labels, NEW inner,
         at' = [at EXCEPT ![c] = label], pc' = [pc EXCEPT ![c] = inner],
         Match(label, inner),
         hostLock' = IF label = "idle" THEN Free ELSE c,
         label = "copying" => directory' /\ app' = NoApp,
         label \notin {"idle", "copying"} => app' # NoApp
  PROVE  CallsOK'
<1>1. \A d \in Callers \ {c} : at[d] = "idle" /\ pc[d] = "idle" /\ hostLock # d
  <2>1. CASE at[c] # "idle"
    BY <2>1, Holding
  <2>2. CASE hostLock = Free
    BY <2>2, ManagedProcessAssumption DEF HostInv, HostTypeOK
  <2> QED BY <2>1, <2>2
<1>2. at' \in [Callers -> Labels]
  BY DEF HostInv, CallInv
<1>3. pc \in [Callers -> {"idle", "launched", "polling", "stopping"}]
  BY DEF HostInv, HostTypeOK, TypeOK
<1>4. /\ at'[c] = label /\ pc'[c] = inner
      /\ \A d \in Callers \ {c} : at'[d] = "idle" /\ pc'[d] = "idle"
  BY <1>1, <1>3 DEF HostInv, CallInv
<1> HIDE DEF HostInv
<1> QED
  BY <1>2, <1>4, ManagedProcessAssumption DEF CallsOK, CallInv, Match

LEMMA CallStays ==
  ASSUME HostInv, UNCHANGED <<at, pc, hostLock, directory>>,
         UNCHANGED app \/ (app # NoApp /\ app' # NoApp)
  PROVE  CallsOK'
BY DEF HostInv, HostTypeOK, CallInv, CallsOK

(* What the files say, apart from the calls. *)
FilesOK ==
  /\ directory \in BOOLEAN
  /\ app \in App \cup {NoApp}
  /\ app # NoApp => directory /\ app.pid <= Len(launched)
  /\ ready \subseteq 1 .. Len(launched)

LEMMA FilesStay ==
  ASSUME HostInv, UNCHANGED <<directory, app, launched, ready>>
  PROVE  FilesOK'
BY DEF HostInv, HostTypeOK, FilesOK

(* Where a call of the host is, its controller's call is.                  *)
LEMMA StepCalls == HostInv /\ [HostNext]_hostVars => CallsOK'
<1> SUFFICES ASSUME HostInv, [HostNext]_hostVars PROVE CallsOK'
  OBVIOUS
<1>0. \A c \in Callers : pc = [pc EXCEPT ![c] = pc[c]]
  BY DEF HostInv, HostTypeOK, TypeOK
<1>1. \A c \in Callers :
        /\ Match(at[c], pc[c])
        /\ at[c] = "copying" => directory /\ app = NoApp
        /\ at[c] \notin {"idle", "copying"} => app # NoApp
  BY DEF HostInv, HostTypeOK, CallInv, Match
<1>25. ASSUME NEW c \in Callers, at[c] \in {"copying", "started", "raised", "observed", "stopped"}
       PROVE  pc[c] = "idle"
  BY <1>25 DEF HostInv, HostTypeOK, TypeOK, CallInv
<1>2. \A state, pid : app # NoApp /\ state \in AppStates /\ pid \in Nat /\ Writes(state, pid)
                       => app' # NoApp
  BY WritesApp DEF HostInv, HostTypeOK
<1>3. /\ State \in AppStates /\ Pid \in Nat /\ (app # NoApp => Observed \in AppStates)
      /\ \A c \in Callers : work[c] \in Nat
  BY DEF HostInv, HostTypeOK, TypeOK, State, Pid, None, Record, AppStates, States, Observed, App
<1>4. CASE UNCHANGED hostVars
  BY <1>4, CallStays DEF hostVars, vars
<1>5. ASSUME NEW c \in Callers,
             \/ InstallAgain(c) \/ StatusStarting(c) \/ Resources(c)
      PROVE  CallsOK'
  BY <1>5, CallStays DEF InstallAgain, StatusStarting, Resources, vars
<1>6. ASSUME NEW c \in Callers, Build(c) PROVE CallsOK'
  BY <1>6, CallStays, BuildApp DEF Build, vars, HostInv, HostTypeOK
<1>7. ASSUME NEW p \in alive, HostExit(p) PROVE CallsOK'
  BY <1>7, CallStays DEF HostExit, Exit
<1>8. ASSUME NEW c \in Callers, InstallNew(c) PROVE CallsOK'
  <2>1. at[c] = "idle" /\ pc[c] = "idle" /\ app = NoApp
    BY <1>8, Beginning DEF InstallNew, HostInv, HostTypeOK
  <2> QED BY <1>0, <1>8, <2>1, CallMoves DEF InstallNew, Begin, Hold, vars, Match, Labels
<1>9. ASSUME NEW c \in Callers, InstallWritten(c) PROVE CallsOK'
  BY <1>0, <1>1, <1>9, <1>25, CallMoves DEF InstallWritten, Leave, vars, Match, Labels
<1>10. ASSUME NEW c \in Callers, StartLaunch(c) PROVE CallsOK'
  BY <1>1, <1>10, CallMoves DEF StartLaunch, Launch, Goto, Begin, CanStart, Hold, Match, Labels
<1>11. ASSUME NEW c \in Callers, StartLaunchFails(c) PROVE CallsOK'
  BY <1>0, <1>1, <1>11, CallMoves
     DEF StartLaunchFails, LaunchFails, Begin, CanStart, Hold, Match, Labels
<1>12. ASSUME NEW c \in Callers, StatusSync(c) PROVE CallsOK'
  BY <1>0, <1>1, <1>12, CallMoves DEF StatusSync, Begin, Hold, Match, Labels
<1>13. ASSUME NEW c \in Callers, StopSync(c) PROVE CallsOK'
  BY <1>0, <1>1, <1>13, CallMoves DEF StopSync, Begin, Hold, Match, Labels
<1>14. ASSUME NEW c \in Callers, at[c] # "idle" PROVE hostLock = c
  BY <1>14, Holding
<1>15. ASSUME NEW c \in Callers, StartRecorded(c) PROVE CallsOK'
  BY <1>1, <1>14, <1>15, CallMoves DEF StartRecorded, RecordStarting, Goto, To, Match, Labels
<1>16. ASSUME NEW c \in Callers, OnStart(c) PROVE CallsOK'
  <2>1. app' # NoApp
    BY <1>1, <1>2, <1>3, <1>16 DEF OnStart, To, AppStates, States
  <2> QED BY <1>0, <1>1, <1>14, <1>16, <2>1, CallMoves DEF OnStart, To, vars, Match, Labels
<1>17. ASSUME NEW c \in Callers, OnStartFails(c) PROVE CallsOK'
  BY <1>0, <1>1, <1>14, <1>17, CallMoves DEF OnStartFails, To, vars, Match, Labels
<1>18. ASSUME NEW c \in Callers, StartReady(c) PROVE CallsOK'
  BY <1>1, <1>14, <1>18, CallMoves DEF StartReady, Ready, Return, Goto, To, Match, Labels
<1>19. ASSUME NEW c \in Callers, StartNotReady(c) PROVE CallsOK'
  BY <1>1, <1>14, <1>19, CallMoves DEF StartNotReady, NotReady, Return, Goto, To, Match, Labels
<1>20. ASSUME NEW c \in Callers,
              StartWritten(c) \/ StartRaised(c) \/ StatusWritten(c) \/ StopWritten(c)
       PROVE  CallsOK'
  <2>1. /\ at[c] \in {"started", "raised", "observed", "stopped"} /\ UNCHANGED vars
        /\ at' = [at EXCEPT ![c] = "idle"] /\ hostLock' = Free
    BY <1>20 DEF StartWritten, StartRaised, StatusWritten, StopWritten, Leave
  <2> QED BY <1>0, <1>1, <1>25, <2>1, CallMoves DEF vars, Match, Labels
<1>21. ASSUME NEW c \in Callers, StatusObserve(c) PROVE CallsOK'
  BY <1>0, <1>1, <1>14, <1>21, CallMoves DEF StatusObserve, StatusDead, To, vars, Match, Labels
<1>22. ASSUME NEW c \in Callers, StopCall(c) PROVE CallsOK'
  <2>1. CASE Pid \in alive
    <3>1. /\ at[c] = "stopping" /\ at' = [at EXCEPT ![c] = "signalled"] /\ hostLock' = hostLock
          /\ pc' = [pc EXCEPT ![c] = "stopping"] /\ app' = app
      <4>1. record # NoRecord
        BY <2>1 DEF Pid, None, HostInv, IInv, TypeOK
      <4>2. StopSignal(c) BY <1>22, <2>1, <4>1 DEF StopCall
      <4> QED BY <1>22, <2>1, <4>2 DEF StopCall, StopSignal, Goto, To
    <3> QED BY <1>1, <1>14, <3>1, CallMoves DEF Match, Labels
  <2>2. CASE Pid \notin alive
    BY <1>0, <1>1, <1>14, <1>22, <2>2, CallMoves DEF StopCall, StopDead, To, vars, Match, Labels
  <2> QED BY <2>1, <2>2
<1>23. ASSUME NEW c \in Callers, StopAwaited(c) PROVE CallsOK'
  BY <1>1, <1>14, <1>23, CallMoves DEF StopAwaited, StopDone, Return, Goto, To, Match, Labels
<1>24. ASSUME NEW c \in Callers, StopGivenUp(c) \/ HostKilled(c) PROVE CallsOK'
  <2>1. /\ at[c] # "idle" /\ hostLock' = Free
        /\ at' = [at EXCEPT ![c] = "idle"] /\ pc' = [pc EXCEPT ![c] = "idle"]
    BY <1>24 DEF StopGivenUp, StopFails, HostKilled, Return, Goto, Leave
  <2> QED BY <2>1, CallMoves DEF Match, Labels
<1> QED
  BY <1>4, <1>5, <1>6, <1>7, <1>8, <1>9, <1>10, <1>11, <1>12, <1>13, <1>15, <1>16, <1>17, <1>18,
     <1>19, <1>20, <1>21, <1>22, <1>23, <1>24 DEF HostNext

(* What each write leaves in application.json.                             *)
LEMMA Written ==
  ASSUME HostInv, NEW c \in Callers
  PROVE  /\ at[c] \notin {"idle", "copying"} => app \in App
         /\ OnStart(c) => /\ app' \in App /\ app' # NoApp
                          /\ app'.state = "starting" /\ app'.pid = work[c]
         /\ StartWritten(c) => /\ app' \in App /\ app' # NoApp
                               /\ app'.state = State /\ app'.pid = Pid
         /\ StartRaised(c) => /\ app' \in App /\ app' # NoApp
                              /\ app'.state = "failed" /\ app'.pid = None
         /\ StatusWritten(c) => /\ app' \in App /\ app' # NoApp
                                /\ app'.state = Observed /\ app'.pid = Pid
         /\ StopWritten(c) => /\ app' \in App /\ app' # NoApp
                              /\ app'.state = State /\ app'.pid = None
<1>1. at[c] \notin {"idle", "copying"} => app \in App
  BY DEF HostInv, HostTypeOK, CallInv
<1>2. /\ State \in AppStates /\ Pid \in Nat /\ work[c] \in Nat /\ None \in Nat
      /\ "starting" \in AppStates /\ "failed" \in AppStates
  BY DEF HostInv, HostTypeOK, TypeOK, State, Pid, None, Record, AppStates, States
<1>3. app \in App => Observed \in AppStates
  BY <1>2 DEF Observed, App
<1>4. ASSUME OnStart(c)
      PROVE  app' \in App /\ app' # NoApp /\ app'.state = "starting" /\ app'.pid = work[c]
  BY <1>1, <1>2, <1>4, WritesApp DEF OnStart, To
<1>5. ASSUME StartWritten(c)
      PROVE  app' \in App /\ app' # NoApp /\ app'.state = State /\ app'.pid = Pid
  BY <1>1, <1>2, <1>5, WritesApp DEF StartWritten
<1>6. ASSUME StartRaised(c)
      PROVE  app' \in App /\ app' # NoApp /\ app'.state = "failed" /\ app'.pid = None
  BY <1>1, <1>2, <1>6, WritesApp DEF StartRaised
<1>7. ASSUME StatusWritten(c)
      PROVE  app' \in App /\ app' # NoApp /\ app'.state = Observed /\ app'.pid = Pid
  BY <1>1, <1>2, <1>3, <1>7, WritesApp DEF StatusWritten
<1>8. ASSUME StopWritten(c)
      PROVE  app' \in App /\ app' # NoApp /\ app'.state = State /\ app'.pid = None
  BY <1>1, <1>2, <1>8, WritesApp DEF StopWritten
<1> QED
  BY <1>1, <1>4, <1>5, <1>6, <1>7, <1>8

(* A launch takes a number no record and no ready process has.             *)
LEMMA Launched ==
  ASSUME HostInv, NEW c \in Callers, StartLaunch(c)
  PROVE  /\ Len(launched) \in Nat /\ Len(launched') = Len(launched) + 1
         /\ alive' = alive \cup {Len(launched) + 1}
         /\ work'[c] = Len(launched) + 1
<1>1. launched \in Seq(Plans) /\ Len(launched) \in Nat /\ Len(launched) < LaunchBound
  BY DEF StartLaunch, Launch, HostInv, HostTypeOK, TypeOK
<1>2. NewPort \in Plans
  BY <1>1, HostAssumption, ManagedProcessAssumption DEF NewPort
<1>3. Len(launched') = Len(launched) + 1
  BY <1>1, <1>2, Appended DEF StartLaunch, Launch
<1> QED
  BY <1>1, <1>3 DEF StartLaunch, Launch, Goto, HostInv, HostTypeOK, TypeOK

LEMMA StepFiles == HostInv /\ [HostNext]_hostVars => FilesOK'
<1> SUFFICES ASSUME HostInv, [HostNext]_hostVars PROVE FilesOK'
  OBVIOUS
<1>0. /\ Len(launched) \in Nat /\ Pid \in 0 .. Len(launched)
      /\ \A c \in Callers : work[c] \in 0 .. Len(launched)
  BY DEF HostInv, HostTypeOK, TypeOK
<1>1. FilesOK /\ \A c \in Callers : at[c] # "idle" => directory
  BY DEF HostInv, HostTypeOK, CallInv, FilesOK
<1>2. CASE UNCHANGED hostVars
  BY <1>2, FilesStay DEF hostVars, vars
<1>3. ASSUME NEW c \in Callers,
             \/ InstallAgain(c) \/ StartLaunchFails(c) \/ StartRecorded(c) \/ OnStartFails(c)
             \/ StartNotReady(c) \/ StatusStarting(c) \/ StatusSync(c) \/ StatusObserve(c)
             \/ Resources(c) \/ StopSync(c) \/ StopCall(c) \/ StopAwaited(c) \/ StopGivenUp(c)
             \/ HostKilled(c)
      PROVE  FilesOK'
  <2>1. CASE StopCall(c) \/ StatusObserve(c)
    <3>1. UNCHANGED launched
      BY <2>1 DEF StopCall, StatusObserve, StopSignal, StopDead, StatusDead, vars
    <3> QED BY <2>1, <3>1, FilesStay DEF StopCall, StatusObserve
  <2>2. CASE ~(StopCall(c) \/ StatusObserve(c))
    BY <1>3, <2>2, FilesStay DEF InstallAgain, StartLaunchFails, LaunchFails, StartRecorded, RecordStarting,
     OnStartFails, StartNotReady, NotReady, StatusStarting, StatusSync, Resources, StopSync,
     StopAwaited, StopDone, StopGivenUp, StopFails, HostKilled, vars
  <2> QED BY <2>1, <2>2
<1>4. ASSUME NEW p \in alive, HostExit(p) PROVE FilesOK'
  BY <1>4, FilesStay DEF HostExit, Exit
<1>5. ASSUME NEW c \in Callers, InstallNew(c) PROVE FilesOK'
  BY <1>1, <1>5 DEF InstallNew, FilesOK, vars
<1>6. ASSUME NEW c \in Callers, InstallWritten(c) PROVE FilesOK'
  BY <1>0, <1>1, <1>6, InstalledApp DEF InstallWritten, FilesOK, vars, None
<1>7. ASSUME NEW c \in Callers, Build(c) PROVE FilesOK'
  BY <1>1, <1>7, BuildApp DEF Build, FilesOK, vars
<1>8. ASSUME NEW c \in Callers, StartLaunch(c) PROVE FilesOK'
  <2>1. UNCHANGED <<directory, app, ready>>
    BY <1>8 DEF StartLaunch
  <2>2. app # NoApp => app.pid \in Nat
    BY <1>1 DEF FilesOK, App
  <2> QED BY <1>1, <1>8, <2>1, <2>2, Launched DEF FilesOK
<1>9. ASSUME NEW c \in Callers,
             \/ OnStart(c) \/ StartWritten(c) \/ StartRaised(c)
             \/ StatusWritten(c) \/ StopWritten(c)
      PROVE  FilesOK'
  <2>1. UNCHANGED <<vars, directory, ready>> /\ directory
    BY <1>1, <1>9 DEF OnStart, StartWritten, StartRaised, StatusWritten, StopWritten, To
  <2>2. app' \in App /\ app'.pid \in {None, Pid, work[c]}
    BY <1>9, Written
  <2> QED BY <1>0, <1>1, <2>1, <2>2 DEF FilesOK, vars, None
<1>10. ASSUME NEW c \in Callers, StartReady(c) PROVE FilesOK'
  <2>1. work[c] \in 1 .. Len(launched)
    BY <1>0, <1>10 DEF StartReady, To, HostInv, StartInv, None
  <2> QED BY <1>1, <1>10, <2>1 DEF StartReady, Ready, FilesOK
<1> QED
  BY <1>2, <1>3, <1>4, <1>5, <1>6, <1>7, <1>8, <1>9, <1>10 DEF HostNext

-----------------------------------------------------------------------------
(* The two records and the processes. *)
RecordsInv == AppInv /\ StartInv /\ AbsentInv /\ RunningWasReady

(* Taking over the process of application.json changes no live record.     *)
LEMMA SyncEffect ==
  ASSUME HostInv, app # NoApp, Sync
  PROVE  /\ State' = State
         /\ Pid' \in alive \/ app.pid \in alive => Pid' = Pid /\ app.pid = Pid
<1>1. app \in App /\ record \in Record \cup {NoRecord} /\ None \notin alive
  BY DEF HostInv, HostTypeOK, TypeOK, None
<1> QED
  BY <1>1, SyncRecord DEF HostInv, AppInv

(* A start that is not the recorded one leaves no live process on record.  *)
LEMMA DisownEffect ==
  ASSUME HostInv, Disowned
  PROVE  Pid' \in 0 .. Len(launched) /\ Pid' \notin alive /\ State' # "starting"
                                    /\ State' # "running"
<1>1. CASE State \in Starts
  <2>1. record' = [state |-> "failed", pid |-> 0]
    BY <1>1 DEF Disowned, None
  <2>2. record' # NoRecord
    BY <2>1, ManagedProcessAssumption DEF Record, States
  <2> QED BY <2>1, <2>2 DEF Pid, State, HostInv, HostTypeOK, TypeOK
<1>2. CASE State \notin Starts
  BY <1>2 DEF Disowned, Pid, State, Starts, HostInv, IInv, RecordInv, TypeOK
<1> QED
  BY <1>1, <1>2

LEMMA StepRecords == HostInv /\ [HostNext]_hostVars => RecordsInv'
<1> SUFFICES ASSUME HostInv, [HostNext]_hostVars PROVE RecordsInv'
  OBVIOUS
<1>0. /\ None \notin alive /\ alive \subseteq 1 .. Len(launched) /\ Len(launched) \in Nat
      /\ Pid \in 0 .. Len(launched) /\ (app # NoApp => app \in App /\ app.pid \in 0 .. Len(launched))
      /\ ready \subseteq 1 .. Len(launched)
      /\ \A c \in Callers : work[c] \in 0 .. Len(launched)
      /\ at \in [Callers -> Labels] /\ work \in [Callers -> 0 .. Len(launched)]
      /\ (record = NoRecord => Pid = None /\ State = "stopped")
      /\ (record # NoRecord => Pid = record.pid /\ State = record.state)
  BY DEF HostInv, HostTypeOK, CallInv, TypeOK, None, App, Pid, State
<1>1. RecordsInv /\ (Pid \in alive => State \in Starts) /\ CallInv
  BY DEF HostInv, IInv, RecordInv, RecordsInv
<1>2. \A c \in Callers : at[c] # "idle" =>
        hostLock = c /\ \A d \in Callers \ {c} : at[d] = "idle"
  BY Holding
<1>3. \A state, pid : Records(state, pid) /\ state \in States /\ pid \in Nat
                       => State' = state /\ Pid' = pid
  BY ManagedProcessAssumption DEF Records, Record, State, Pid
<1> USE DEF RecordsInv, AppInv, StartInv, AbsentInv, RunningWasReady
<1>4. CASE UNCHANGED hostVars
  BY <1>1, <1>4 DEF hostVars, vars, Pid, State
<1>5. ASSUME NEW c \in Callers,
             InstallNew(c) \/ InstallAgain(c) \/ StatusStarting(c)
      PROVE  RecordsInv'
  BY <1>0, <1>1, <1>5 DEF InstallNew, InstallAgain, StatusStarting, Begin, Hold, vars, Pid, State
<1>6. ASSUME NEW c \in Callers, InstallWritten(c) PROVE RecordsInv'
  BY <1>0, <1>1, <1>2, <1>6, InstalledApp DEF InstallWritten, Leave, vars, Pid, State
<1>7. ASSUME NEW c \in Callers, Build(c) PROVE RecordsInv'
  BY <1>0, <1>1, <1>7, BuildApp, Beginning DEF Build, Runs, vars, Pid, State
<1>8. ASSUME NEW c \in Callers, StartLaunch(c) PROVE RecordsInv'
  <2>1. /\ app # NoApp /\ ~Runs /\ UNCHANGED <<app, ready>>
        /\ at[c] = "idle" /\ at' = [at EXCEPT ![c] = "launching"] /\ Disowned
    BY <1>8 DEF StartLaunch, Begin, CanStart, Hold, Launch
  <2>2. app.pid \notin alive
    BY <1>1, <2>1 DEF Runs
  <2>3. Pid' \notin alive' /\ app'.pid \notin alive'
    BY <1>0, <1>8, <2>1, <2>2, DisownEffect, Launched
  <2>4. \A d \in Callers \ {c} : at'[d] = "idle"
    BY <1>0, <1>8, <2>1, Beginning DEF StartLaunch
  <2> QED BY <1>0, <2>1, <2>3, <2>4
<1>9. ASSUME NEW c \in Callers, StartLaunchFails(c) PROVE RecordsInv'
  <2>1. /\ app # NoApp /\ ~Runs /\ UNCHANGED <<app, ready, alive>> /\ Disowned
        /\ at' = [at EXCEPT ![c] = "raised"]
    BY <1>9 DEF StartLaunchFails, LaunchFails, CanStart, Hold
  <2>2. app.pid \notin alive /\ Pid' \notin alive
    BY <1>1, <2>1, DisownEffect DEF Runs
  <2>3. \A d \in Callers : at[d] = "idle"
    BY <1>9, Beginning DEF StartLaunchFails
  <2> QED BY <1>0, <2>1, <2>2, <2>3
<1>10. ASSUME NEW c \in Callers, StartRecorded(c) PROVE RecordsInv'
  <2>1. /\ UNCHANGED <<app, ready, alive>> /\ at[c] = "launching"
        /\ at' = [at EXCEPT ![c] = "recorded"] /\ work'[c] = work[c]
        /\ State' = "starting" /\ Pid' = work[c] /\ work[c] # None
    <3>1. work[c] # None
      BY <1>10 DEF StartRecorded, RecordStarting, HostInv, IInv, LockInv
    <3> QED BY <1>0, <1>3, <1>10, <3>1 DEF StartRecorded, RecordStarting, Goto, To, States
  <2>2. app # NoApp /\ app.pid \notin alive
    BY <1>1, <2>1 DEF CallInv
  <2>3. at'[c] = "recorded" /\ \A d \in Callers \ {c} : at'[d] = "idle"
    BY <1>0, <1>2, <2>1
  <2> QED BY <2>1, <2>2, <2>3
<1>11. ASSUME NEW c \in Callers, OnStart(c) PROVE RecordsInv'
  <2>1. /\ UNCHANGED vars /\ ready' = ready /\ at[c] = "recorded"
        /\ at' = [at EXCEPT ![c] = "waiting"]
        /\ app' # NoApp /\ app'.state = "starting" /\ app'.pid = work[c]
    BY <1>11, Written DEF OnStart, To
  <2>2. UNCHANGED <<alive, work, Pid, State>>
    BY <2>1 DEF vars, Pid, State
  <2> QED BY <1>0, <1>1, <1>2, <2>1, <2>2 DEF Starts
<1>12. ASSUME NEW c \in Callers, OnStartFails(c) PROVE RecordsInv'
  BY <1>0, <1>1, <1>2, <1>12 DEF OnStartFails, To, Pid, State
<1>13. ASSUME NEW c \in Callers, StartReady(c) PROVE RecordsInv'
  <2>1. /\ UNCHANGED <<app, alive>> /\ at[c] = "waiting" /\ at' = [at EXCEPT ![c] = "started"]
        /\ State' = "running" /\ Pid' = Pid /\ ready' = ready \cup {Pid}
    BY <1>0, <1>1, <1>3, <1>13 DEF StartReady, Ready, To, States
  <2> QED BY <1>0, <1>1, <1>2, <2>1
<1>14. ASSUME NEW c \in Callers, StartNotReady(c) PROVE RecordsInv'
  <2>1. /\ UNCHANGED <<app, ready>> /\ at[c] = "waiting" /\ at' = [at EXCEPT ![c] = "raised"]
        /\ Pid' = None /\ alive' = alive \ {Pid}
    BY <1>0, <1>1, <1>3, <1>14 DEF StartNotReady, NotReady, To, States, None
  <2>2. Pid' \notin alive' /\ (app # NoApp => app.pid \notin alive')
    BY <1>0, <1>1, <2>1
  <2>3. \A d \in Callers : at'[d] \in {"idle", "raised"}
    BY <1>0, <1>2, <2>1
  <2>4. app # NoApp
    BY <1>1, <2>1 DEF CallInv
  <2> QED BY <2>1, <2>2, <2>3, <2>4
<1>15. ASSUME NEW c \in Callers,
              StartWritten(c) \/ StartRaised(c) \/ StatusWritten(c) \/ StopWritten(c)
       PROVE  RecordsInv'
  <2>1. /\ UNCHANGED vars /\ ready' = ready /\ at' = [at EXCEPT ![c] = "idle"]
        /\ at[c] # "idle"
        /\ app' # NoApp
        /\ app'.pid = None \/ (app'.pid = Pid /\ app'.state \in {State, Observed})
    BY <1>15, Written DEF StartWritten, StartRaised, StatusWritten, StopWritten, Leave
  <2>2. UNCHANGED <<alive, work, Pid, State>>
    BY <2>1 DEF vars, Pid, State
  <2>3. State \in Starts => Observed = State
    BY DEF Observed, Starts
  <2> QED BY <1>0, <1>1, <1>2, <2>1, <2>2, <2>3
<1>16. ASSUME NEW c \in Callers, StatusSync(c) \/ StopSync(c) \/ Resources(c)
       PROVE  RecordsInv'
  <2>1. /\ UNCHANGED <<app, ready, alive, work>> /\ app # NoApp /\ Sync
        /\ \A d \in Callers : at'[d] \in {"idle", "observing", "stopping"}
    BY <1>0, <1>16, Beginning DEF StatusSync, StopSync, Resources, Hold
  <2> QED BY <1>0, <1>1, <2>1, SyncEffect
<1>17. ASSUME NEW c \in Callers,
              StatusObserve(c) \/ StopCall(c) \/ StopAwaited(c) \/ StopGivenUp(c)
       PROVE  RecordsInv'
  <2>1. /\ UNCHANGED <<app, ready, alive>> /\ at[c] \notin {"idle", "copying"}
        /\ \A d \in Callers : at'[d] \in {"idle", "observed", "signalled", "stopped"}
    <3>1. StopCall(c) \/ StatusObserve(c) => UNCHANGED alive
      BY DEF StopCall, StatusObserve, StopSignal, StopDead, StatusDead, vars
    <3>2. at[c] \notin {"idle", "copying"}
      BY <1>17 DEF StatusObserve, StopCall, StopAwaited, StopGivenUp, To
    <3>3. \E label \in {"idle", "observed", "signalled", "stopped"} : at' = [at EXCEPT ![c] = label]
      BY <1>17 DEF StatusObserve, StopCall, StopAwaited, StopGivenUp, To, Leave
    <3>4. \A d \in Callers : at'[d] \in {"idle", "observed", "signalled", "stopped"}
      BY <1>0, <1>2, <3>2, <3>3
    <3> QED
      BY <1>17, <3>1, <3>2, <3>4
         DEF StatusObserve, StopCall, StopAwaited, StopDone, StopGivenUp, StopFails
  <2>2. \/ UNCHANGED record
        \/ Pid \notin alive /\ Pid' \notin alive
    <3>1. CASE StatusObserve(c)
      BY <1>0, <1>3, <3>1 DEF StatusObserve, StatusDead, vars, States, None
    <3>2. CASE StopCall(c)
      <4>1. \/ UNCHANGED record
            \/ Pid \notin alive /\ StopDead(c)
        BY <1>0, <3>2 DEF StopCall, StopSignal, vars
      <4>2. StopDead(c) => Pid' = None
        BY <1>3 DEF StopDead, States, None
      <4> QED BY <1>0, <4>1, <4>2
    <3>3. CASE StopAwaited(c)
      <4>1. Pid = work[c] /\ work[c] \notin alive /\ Pid' = None
        BY <1>3, <3>3 DEF StopAwaited, StopDone, States, None, HostInv, IInv, LockInv
      <4> QED BY <1>0, <4>1
    <3>4. CASE StopGivenUp(c)
      BY <3>4 DEF StopGivenUp, StopFails
    <3> QED BY <1>17, <3>1, <3>2, <3>3, <3>4
  <2>3. UNCHANGED record => UNCHANGED <<Pid, State>>
    BY DEF Pid, State
  <2>4. app # NoApp
    BY <1>1, <2>1 DEF CallInv
  <2> QED BY <1>0, <1>1, <2>1, <2>2, <2>3, <2>4
<1>18. ASSUME NEW c \in Callers, HostKilled(c) PROVE RecordsInv'
  BY <1>0, <1>1, <1>2, <1>18 DEF HostKilled, Leave, Pid, State
<1>19. ASSUME NEW p \in alive, HostExit(p) PROVE RecordsInv'
  BY <1>0, <1>1, <1>19 DEF HostExit, Exit, Pid, State
<1> QED
  BY <1>4, <1>5, <1>6, <1>7, <1>8, <1>9, <1>10, <1>11, <1>12, <1>13, <1>14, <1>15, <1>16, <1>17,
     <1>18, <1>19 DEF HostNext

LEMMA HostInductive == HostInv /\ [HostNext]_hostVars => HostInv'
<1> SUFFICES ASSUME HostInv, [HostNext]_hostVars PROVE HostInv'
  OBVIOUS
<1>1. IInv' /\ CallsOK' /\ FilesOK' /\ RecordsInv'
  BY StepController, StepCalls, StepFiles, StepRecords
<1>2. HostTypeOK'
  BY <1>1 DEF IInv, CallsOK, FilesOK, HostTypeOK
<1> QED
  BY <1>1, <1>2 DEF HostInv, CallsOK, RecordsInv

LEMMA HostAlways == HostSpec => []HostInv
  BY InitHost, HostInductive, PTL DEF HostSpec

(* The host's records name launched processes, its lock is held exactly    *)
(* by a call in progress, and its controller's state stays well formed     *)
(* although the host writes pids into the controller's record.             *)
THEOREM HostTypeCorrect == HostSpec => []HostTypeOK
<1>1. HostInv => HostTypeOK BY DEF HostInv
<1> QED BY <1>1, HostAlways, PTL

(* Whichever caller is killed, application.json and the controller's       *)
(* record never name two processes that both run.                          *)
THEOREM NeverTwo == HostSpec => []NeverTwoLive
<1>1. HostInv => NeverTwoLive BY DEF HostInv, AppInv, NeverTwoLive
<1> QED BY <1>1, HostAlways, PTL

(* Whichever caller is killed, neither record calls a live process running *)
(* that nobody has seen ready.                                             *)
THEOREM CalledRunningWasReady == HostSpec => []RunningWasReady
<1>1. HostInv => RunningWasReady BY DEF HostInv
<1> QED BY <1>1, HostAlways, PTL

-----------------------------------------------------------------------------
(* Until a caller is killed: whatever runs is on record or about to be;    *)
(* a call that found it ended, or ended it, left none on record; and       *)
(* outside of a start both records name it.                                *)
KnownInv ==
  faults = 0 =>
    /\ \A p \in alive : p = Pid \/ \E c \in Callers : at[c] = "launching" /\ work[c] = p
    /\ \A c \in Callers : at[c] \in {"raised", "stopped"} => Pid \notin alive
    /\ app # NoApp /\ Pid \in alive
         => app.pid = Pid \/ \E c \in Callers : at[c] \in {"recorded", "started"}

(* Until then, a record says "starting" only while a start is in progress. *)
StartingInv ==
  faults = 0 =>
    /\ State = "starting" => \E c \in Callers : at[c] \in {"recorded", "waiting"}
    /\ app # NoApp /\ app.state = "starting"
         => \E c \in Callers : at[c] \in {"waiting", "started", "raised"}

LEMMA InitKnown == HostInit => KnownInv /\ StartingInv
BY ManagedProcessAssumption DEF HostInit, Init, KnownInv, StartingInv, State

(* Outside of every call of a host nobody has killed, what runs is what    *)
(* both records name, and neither says that it is starting.                *)
LEMMA Quiet ==
  ASSUME HostInv, KnownInv, StartingInv, faults = 0, NEW c \in Callers, Begin(c)
  PROVE  /\ \A d \in Callers : at[d] = "idle"
         /\ \A p \in alive : p = Pid
         /\ app # NoApp /\ Pid \in alive => app.pid = Pid
         /\ State # "starting" /\ (app # NoApp => app.state # "starting")
BY Beginning DEF KnownInv, StartingInv

(* A start that launches, or fails to, finds nothing running.              *)
LEMMA NothingRuns ==
  ASSUME HostInv, KnownInv, StartingInv, faults = 0, NEW c \in Callers, Begin(c), CanStart
  PROVE  alive = {}
<1>1. app # NoApp /\ ~Runs
  BY DEF CanStart
<1>2. app.pid \notin alive
  BY <1>1 DEF HostInv, AppInv, Runs
<1> QED
  BY <1>1, <1>2, Quiet

(* Only a kill or a swallowed error is a fault. *)
LEMMA NoFault ==
  ASSUME HostInv, [HostNext]_hostVars, faults' = 0
  PROVE  /\ faults = 0
         /\ \A c \in Callers : ~HostKilled(c) /\ ~OnStartFails(c)
<1>1. faults \in Nat
  BY DEF HostInv, HostTypeOK, TypeOK
<1>2. ASSUME NEW c \in Callers PROVE ~HostKilled(c) /\ ~OnStartFails(c)
  BY <1>1 DEF HostKilled, OnStartFails
<1>3. ASSUME NEW c \in Callers,
             StatusObserve(c) \/ StopCall(c)
      PROVE  UNCHANGED faults
  BY <1>3 DEF StatusObserve, StatusDead, StopCall, StopSignal, StopDead, vars
<1>4. UNCHANGED faults
  BY <1>2, <1>3
     DEF HostNext, hostVars, vars, InstallNew, InstallWritten, InstallAgain, Build, StartLaunch, Launch,
         StartLaunchFails, LaunchFails, StartRecorded, RecordStarting, OnStart, StartReady, Ready,
         StartNotReady, NotReady, StartWritten, StartRaised, StatusStarting, StatusSync, StatusWritten,
         Resources, StopSync, StopAwaited, StopDone, StopGivenUp, StopFails, StopWritten, HostExit, Exit
<1> QED
  BY <1>2, <1>4

LEMMA StepKnown ==
  ASSUME HostInv, KnownInv, StartingInv, [HostNext]_hostVars, faults' = 0
  PROVE  KnownInv' /\ StartingInv'
<1>0. /\ None \notin alive /\ alive \subseteq 1 .. Len(launched) /\ Len(launched) \in Nat
      /\ at \in [Callers -> Labels]
  BY DEF HostInv, HostTypeOK, CallInv, TypeOK, None
<1>1. faults = 0 /\ \A c \in Callers : ~HostKilled(c) /\ ~OnStartFails(c)
  BY NoFault
<1>2. \A c \in Callers : at[c] # "idle" =>
        hostLock = c /\ \A d \in Callers \ {c} : at[d] = "idle"
  BY Holding
<1>3. \A state, pid : Records(state, pid) /\ state \in States /\ pid \in Nat
                       => State' = state /\ Pid' = pid
  BY ManagedProcessAssumption DEF Records, Record, State, Pid
<1>4. UNCHANGED vars => UNCHANGED <<alive, work, Pid, State>>
  BY DEF vars, Pid, State
<1>5. UNCHANGED record => UNCHANGED <<Pid, State>>
  BY DEF Pid, State
<1> USE DEF KnownInv, StartingInv
<1>6. CASE UNCHANGED hostVars
  BY <1>1, <1>4, <1>6 DEF hostVars, vars
<1>7. ASSUME NEW c \in Callers,
             InstallNew(c) \/ InstallAgain(c) \/ StatusStarting(c)
      PROVE  KnownInv' /\ StartingInv'
  <2>1. CASE InstallNew(c)
    <3>1. /\ UNCHANGED <<alive, work, Pid, State, app>> /\ Begin(c)
          /\ \A d \in Callers : at'[d] \in {"idle", "copying"}
      BY <1>0, <1>4, <2>1, Beginning DEF InstallNew, Hold
    <3> QED BY <1>1, <3>1, Quiet
  <2>2. CASE InstallAgain(c) \/ StatusStarting(c)
    <3>1. UNCHANGED <<alive, work, Pid, State, app, at>>
      BY <1>4, <2>2 DEF InstallAgain, StatusStarting
    <3> QED BY <1>1, <3>1
  <2> QED BY <1>7, <2>1, <2>2
<1>8. ASSUME NEW c \in Callers, InstallWritten(c) PROVE KnownInv' /\ StartingInv'
  <2>1. at[c] = "copying" /\ app = NoApp /\ UNCHANGED <<alive, work, Pid, State>>
    BY <1>4, <1>8 DEF InstallWritten, HostInv, CallInv
  <2>2. alive = {} /\ State # "starting"
    BY <1>1, <1>2, <2>1 DEF HostInv, AbsentInv
  <2>3. app'.state # "starting"
    BY <1>8, InstalledApp
  <2> QED BY <1>1, <2>1, <2>2, <2>3
<1>9. ASSUME NEW c \in Callers, Build(c) PROVE KnownInv' /\ StartingInv'
  <2>1. app # NoApp /\ app'.pid = app.pid /\ app'.state = "built"
    BY <1>9, BuildApp DEF Build, HostInv, HostTypeOK
  <2> QED BY <1>1, <1>4, <1>9, <2>1, Quiet DEF Build
<1>10. ASSUME NEW c \in Callers, StartLaunch(c) PROVE KnownInv' /\ StartingInv'
  <2>1. alive = {} /\ alive' = {work'[c]}
    BY <1>1, <1>10, NothingRuns, Launched DEF StartLaunch
  <2>2. Disowned /\ app' = app /\ at' = [at EXCEPT ![c] = "launching"]
    BY <1>10 DEF StartLaunch, Launch, Hold
  <2>3. Pid' \in 0 .. Len(launched) /\ State' # "starting"
    BY <2>2, DisownEffect
  <2>4. Pid' \notin alive'
    BY <1>0, <1>10, <2>1, <2>3, Launched
  <2> QED BY <1>0, <1>1, <1>10, <2>1, <2>2, <2>3, <2>4, Quiet DEF StartLaunch
<1>11. ASSUME NEW c \in Callers, StartLaunchFails(c) PROVE KnownInv' /\ StartingInv'
  <2>1. alive = {} /\ alive' = {}
    BY <1>1, <1>11, NothingRuns DEF StartLaunchFails, LaunchFails
  <2>2. Disowned /\ app' = app /\ at' = [at EXCEPT ![c] = "raised"]
    BY <1>11 DEF StartLaunchFails, LaunchFails, Hold
  <2>3. State' # "starting"
    BY <2>2, DisownEffect
  <2> QED BY <1>0, <1>1, <1>11, <2>1, <2>2, <2>3, Quiet DEF StartLaunchFails
<1>12. ASSUME NEW c \in Callers, StartRecorded(c) PROVE KnownInv' /\ StartingInv'
  <2>1. /\ UNCHANGED <<app, alive>> /\ at[c] = "launching"
        /\ at' = [at EXCEPT ![c] = "recorded"]
    BY <1>12 DEF StartRecorded, RecordStarting, To
  <2>2. Pid' = work[c]
    BY <1>3, <1>12 DEF StartRecorded, RecordStarting, States, HostInv, HostTypeOK, TypeOK
  <2>3. Pid \notin alive
    BY <1>12 DEF StartRecorded, RecordStarting, HostInv, IInv, LockInv
  <2>4. \A p \in alive : p = work[c]
    BY <1>1, <1>2, <2>1, <2>3
  <2>5. app # NoApp => app.state # "starting"
    BY <1>1, <1>2, <2>1
  <2>6. at'[c] = "recorded" /\ \A d \in Callers \ {c} : at'[d] = "idle"
    BY <1>0, <1>2, <2>1
  <2> QED BY <2>1, <2>2, <2>4, <2>5, <2>6
<1>13. ASSUME NEW c \in Callers, OnStart(c) PROVE KnownInv' /\ StartingInv'
  <2>1. /\ UNCHANGED <<alive, work, Pid, State>> /\ at[c] = "recorded"
        /\ at' = [at EXCEPT ![c] = "waiting"]
    BY <1>4, <1>13 DEF OnStart, To
  <2>2. app'.pid = work[c] /\ work[c] = Pid
    BY <1>13, <2>1, Written DEF HostInv, StartInv
  <2>3. at'[c] = "waiting" /\ \A d \in Callers \ {c} : at'[d] = "idle" /\ at[d] = "idle"
    BY <1>0, <1>2, <2>1
  <2>4. \A p \in alive : p = Pid
    BY <1>1, <2>1, <2>3
  <2> QED BY <2>1, <2>2, <2>3, <2>4
<1>14. ASSUME NEW c \in Callers, StartReady(c) \/ StartNotReady(c)
       PROVE  KnownInv' /\ StartingInv'
  <2>1. at[c] = "waiting" /\ UNCHANGED app
    BY <1>14 DEF StartReady, StartNotReady, To
  <2>2. \A d \in Callers \ {c} : at[d] = "idle"
    BY <1>2, <2>1
  <2>3. \A p \in alive : p = Pid
    BY <1>1, <2>1, <2>2
  <2>4. Pid = work[c]
    BY <2>1 DEF HostInv, StartInv
  <2>5. CASE StartReady(c)
    <3>1. State' = "running" /\ Pid' = Pid /\ alive' = alive
      BY <1>3, <2>4, <2>5 DEF StartReady, Ready, States, HostInv, HostTypeOK, TypeOK
    <3>2. at'[c] = "started" /\ \A d \in Callers \ {c} : at'[d] = "idle"
      BY <1>0, <2>2, <2>5 DEF StartReady, To
    <3> QED BY <2>1, <2>3, <3>1, <3>2
  <2>6. CASE StartNotReady(c)
    <3>1. State' = "failed" /\ alive' = alive \ {Pid}
      BY <1>3, <2>4, <2>6 DEF StartNotReady, NotReady, States, None
    <3>2. at'[c] = "raised" /\ \A d \in Callers \ {c} : at'[d] = "idle"
      BY <1>0, <2>2, <2>6 DEF StartNotReady, To
    <3>3. alive' = {}
      BY <2>3, <3>1
    <3> QED BY <2>1, <3>1, <3>2, <3>3
  <2> QED BY <1>14, <2>5, <2>6
<1>15. ASSUME NEW c \in Callers,
              StartWritten(c) \/ StartRaised(c) \/ StatusWritten(c) \/ StopWritten(c)
       PROVE  KnownInv' /\ StartingInv'
  <2>1. /\ UNCHANGED <<alive, work, Pid, State>> /\ at' = [at EXCEPT ![c] = "idle"]
        /\ at[c] \in {"started", "raised", "observed", "stopped"}
    BY <1>4, <1>15 DEF StartWritten, StartRaised, StatusWritten, StopWritten, Leave
  <2>2. \A d \in Callers : at'[d] = "idle" /\ (d # c => at[d] = "idle")
    BY <1>0, <1>2, <2>1
  <2>3. State # "starting" /\ \A p \in alive : p = Pid
    BY <1>1, <2>1, <2>2
  <2>4. app'.pid = Pid \/ Pid \notin alive
    BY <1>1, <1>15, Written DEF StartRaised, StopWritten
  <2>5. Observed # "starting"
    BY <2>3 DEF Observed
  <2>6. app'.state # "starting"
    BY <1>15, <2>3, <2>5, Written
  <2> QED BY <2>1, <2>2, <2>3, <2>4, <2>6
<1>16. ASSUME NEW c \in Callers, StatusSync(c) \/ StopSync(c) \/ Resources(c)
       PROVE  KnownInv' /\ StartingInv'
  <2>1. /\ UNCHANGED <<app, alive, work>> /\ app # NoApp /\ Sync /\ Begin(c)
        /\ \A d \in Callers : at'[d] \in {"idle", "observing", "stopping"}
    BY <1>0, <1>16, Beginning DEF StatusSync, StopSync, Resources, Hold
  <2>2. State' = State /\ State # "starting" /\ app.state # "starting"
    BY <1>1, <2>1, SyncEffect, Quiet
  <2>3. \A p \in alive : p = Pid /\ app.pid = p
    BY <1>1, <2>1, Quiet
  <2>4. \A p \in alive : p = Pid'
    BY <2>1, <2>3, SyncEffect
  <2> QED BY <2>1, <2>2, <2>3, <2>4
<1>17. ASSUME NEW c \in Callers,
              StatusObserve(c) \/ StopCall(c) \/ StopAwaited(c) \/ StopGivenUp(c)
       PROVE  KnownInv' /\ StartingInv'
  <2>1. /\ UNCHANGED <<app, alive>> /\ at[c] \in {"observing", "stopping", "signalled"}
    <3>1. StopCall(c) \/ StatusObserve(c) => UNCHANGED alive
      BY DEF StopCall, StatusObserve, StopSignal, StopDead, StatusDead, vars
    <3> QED
      BY <1>17, <3>1
         DEF StatusObserve, StopCall, StopAwaited, StopDone, StopGivenUp, StopFails, To
  <2>2. \A d \in Callers \ {c} : at[d] = "idle"
    BY <1>2, <2>1
  <2>3. /\ \A p \in alive : p = Pid
        /\ State # "starting" /\ (app # NoApp => app.state # "starting")
        /\ app # NoApp /\ Pid \in alive => app.pid = Pid
    BY <1>1, <2>1, <2>2
  <2>4. \/ UNCHANGED record
        \/ Pid \notin alive /\ State' # "starting"
    <3>1. CASE StatusObserve(c)
      BY <1>3, <3>1 DEF StatusObserve, StatusDead, vars, States, None
    <3>2. CASE StopCall(c)
      <4>1. \/ UNCHANGED record
            \/ Pid \notin alive /\ StopDead(c)
        BY <3>2 DEF StopCall, StopSignal, vars
      <4>2. StopDead(c) => State' # "starting"
        BY <1>3 DEF StopDead, States, None
      <4> QED BY <4>1, <4>2
    <3>3. CASE StopAwaited(c)
      BY <1>3, <3>3 DEF StopAwaited, StopDone, States, None, HostInv, IInv, LockInv
    <3>4. CASE StopGivenUp(c)
      BY <3>4 DEF StopGivenUp, StopFails
    <3> QED BY <1>17, <3>1, <3>2, <3>3, <3>4
  <2>5. /\ \A d \in Callers : at'[d] \in {"idle", "observed", "signalled", "stopped"}
        /\ (\E d \in Callers : at'[d] = "stopped") => alive = {}
    <3>1. StopCall(c) /\ Pid \in alive => at' = [at EXCEPT ![c] = "signalled"]
      BY DEF StopCall, To
    <3>2. StopCall(c) /\ Pid \notin alive => at' = [at EXCEPT ![c] = "stopped"] /\ alive = {}
      BY <2>3 DEF StopCall, To
    <3>3. StopAwaited(c) => at' = [at EXCEPT ![c] = "stopped"] /\ alive = {}
      BY <2>3 DEF StopAwaited, StopDone, To, HostInv, IInv, LockInv
    <3>4. StatusObserve(c) => at' = [at EXCEPT ![c] = "observed"]
      BY DEF StatusObserve, To
    <3>5. StopGivenUp(c) => at' = [at EXCEPT ![c] = "idle"]
      BY DEF StopGivenUp, Leave
    <3> QED BY <1>0, <1>17, <2>2, <3>1, <3>2, <3>3, <3>4, <3>5
  <2>6. alive # {} => UNCHANGED <<Pid, State>>
    BY <1>5, <2>3, <2>4
  <2>7. State' # "starting"
    BY <1>5, <2>3, <2>4
  <2> QED BY <2>1, <2>3, <2>5, <2>6, <2>7
<1>18. ASSUME NEW p \in alive, HostExit(p) PROVE KnownInv' /\ StartingInv'
  BY <1>1, <1>5, <1>18 DEF HostExit, Exit
<1> QED
  BY <1>1, <1>6, <1>7, <1>8, <1>9, <1>10, <1>11, <1>12, <1>13, <1>14, <1>15, <1>16, <1>17, <1>18
     DEF HostNext

LEMMA StepKnownInv ==
  HostInv /\ KnownInv /\ StartingInv /\ [HostNext]_hostVars => KnownInv' /\ StartingInv'
BY StepKnown DEF KnownInv, StartingInv

LEMMA KnownAlways == HostSpec => [](KnownInv /\ StartingInv)
BY InitKnown, StepKnownInv, HostAlways, PTL DEF HostSpec

(* Until a caller is killed, whatever runs between calls is the one        *)
(* process that the controller's record and application.json both name,    *)
(* for every number of callers and launches, although no two starts of     *)
(* the host have the same command line.                                    *)
THEOREM BothRecordsAgree == HostSpec => []RecordsAgree
<1>1. HostInv /\ KnownInv => RecordsAgree
  <2> SUFFICES ASSUME HostInv, KnownInv, faults = 0, hostLock = Free, NEW p \in alive
               PROVE  Pid = p /\ app.pid = p
    BY DEF RecordsAgree
  <2>1. \A c \in Callers : at[c] = "idle"
    BY ManagedProcessAssumption DEF HostInv, HostTypeOK
  <2>2. p = Pid
    BY <2>1 DEF KnownInv
  <2>3. app # NoApp
    BY DEF HostInv, AbsentInv
  <2> QED BY <2>1, <2>2, <2>3 DEF KnownInv
<1> QED BY <1>1, HostAlways, KnownAlways, PTL

(* The "starting" that status() answers without the host's lock is, until  *)
(* a caller is killed, that of a start in progress or of a live process.   *)
THEOREM StartingAlwaysTrue == HostSpec => StartingIsTrue
<1>1. HostInv /\ StartingInv /\ [HostNext]_hostVars
        => [\A c \in Callers :
              StatusStarting(c) /\ faults = 0 => hostLock # Free \/ app.pid \in alive]_hostVars
  <2> SUFFICES ASSUME HostInv, StartingInv, faults = 0, NEW c \in Callers, StatusStarting(c)
               PROVE  hostLock # Free
    OBVIOUS
  <2>1. PICK d \in Callers : at[d] # "idle"
    BY DEF StatusStarting, StartingInv
  <2> QED BY <2>1, Holding, ManagedProcessAssumption
<1> QED BY <1>1, HostAlways, KnownAlways, PTL DEF HostSpec, StartingIsTrue
=============================================================================
