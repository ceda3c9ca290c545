-------------------------- MODULE AgentRuns_proofs --------------------------
(***************************************************************************)
(* Proofs about AgentRuns: dependencies come first, executors stay within   *)
(* their bounds, usage is billed for processes that ended, an interrupt     *)
(* that nobody lifted stops every executor, and a plan is never stuck.      *)
(***************************************************************************)
EXTENDS AgentRuns, FiniteSetTheorems, FunctionTheorems, WellFoundedInduction, TLAPS

-----------------------------------------------------------------------------
(* Memory, cursors and positions.                                          *)

LEMMA KeptTypes ==
  /\ \A i \in BOOLEAN, p \in BOOLEAN : Kept(i, p) \in Values
  /\ Interrupted \in Values
  BY DEF Kept, Values, Interrupted

LEMMA NothingType == Nothing \in Memory
<1>1. Kept(FALSE, FALSE) \in Values
  BY KeptTypes
<1> QED
  BY <1>1 DEF Nothing, NoRuns, Memory

(* A record of memory with one of its fields replaced is one again. *)
LEMMA MemoryTypes ==
  ASSUME NEW m \in Memory
  PROVE  /\ \A b \in BOOLEAN : [m EXCEPT !.more = b] \in Memory
         /\ \A n \in Nat : [m EXCEPT !.spent = n] \in Memory
         /\ \A res \in [Tasks -> Statuses \cup {"none"}] : [m EXCEPT !.results = res] \in Memory
         /\ \A S \in SUBSET Tasks : [m EXCEPT !.targets = S] \in Memory
         /\ \A v \in Values, f \in {"execute", "resume", "end"} :
               [m EXCEPT !.save = v, !.for = f] \in Memory
         /\ m.spent \in Nat /\ m.targets \in SUBSET Tasks /\ m.save \in Values
         /\ m.results \in [Tasks -> Statuses \cup {"none"}]
  BY DEF Memory

LEMMA UnreadableTypes ==
  /\ Unreadable("empty") \in Cursors /\ Unreadable("torn") \in Cursors
  /\ \A v \in Values : [text |-> "whole", interrupt |-> v.interrupt, policy |-> v.policy]
                          \in Cursors
  BY DEF Unreadable, Cursors, Values

LEMMA TypeInit == Init => TypeOK
<1> SUFFICES ASSUME Init
             PROVE  TypeOK
  OBVIOUS
<1>1. runs \in [Callers -> [Tasks -> Processes]]
  BY DEF Init, NoRuns, Processes
<1>2. cursor \in Cursors
  BY DEF Init, Cursors
<1> QED
  BY <1>1, <1>2, NothingType DEF Init, TypeOK, Steps

(* A set of tasks has a least one: the next task of a batch is one of it. *)
LEMMA LeastTask ==
  ASSUME NEW S \in SUBSET Tasks, S # {}
  PROVE  \E x \in S : \A y \in S : x <= y
<1> DEFINE R == {p \in Nat \X Nat : p[1] < p[2]}
<1>1. S \subseteq Nat
  BY TaskAssumption DEF Tasks
<1>2. R = OpToRel(<, Nat)
  BY Zenon DEF OpToRel
<1>3. IsWellFoundedOn(R, Nat)
  BY <1>2, NatLessThanWellFounded, Zenon
<1> HIDE DEF R
<1>4. PICK x \in S : \A y \in S : ~(<<y, x>> \in R)
  BY <1>1, <1>3, WFMin, Zenon
<1>5. ASSUME NEW y \in S
      PROVE  x <= y
  <2>1. <<y, x>> \in Nat \X Nat /\ <<y, x>>[1] = y /\ <<y, x>>[2] = x
    BY <1>1
  <2>2. ~(y < x)
    BY <1>4, <2>1, Zenon DEF R
  <2> QED
    BY <1>1, <2>2
<1> QED
  BY <1>5

LEMMA FirstIn ==
  ASSUME NEW S \in SUBSET Tasks, S # {}
  PROVE  First(S) \in S
  BY LeastTask DEF First

(* A step of a caller gives it a position, a batch and a memory. *)
Placed == pc \in [Callers -> Steps] /\ tasks \in [Callers -> SUBSET Tasks] /\ read \in [Callers -> Memory]

LEMMA GotoTypes ==
  ASSUME TypeOK, NEW c \in Callers, NEW step \in Steps, NEW S \in SUBSET Tasks,
         NEW seen \in Memory, Goto(c, step, S, seen)
  PROVE  Placed'
  BY DEF Goto, TypeOK, Placed

LEMMA ReturnTypes ==
  ASSUME TypeOK, NEW c \in Callers, Return(c)
  PROVE  Placed'
<1>1. "idle" \in Steps
  BY DEF Steps
<1> QED
  BY <1>1, NothingType, GotoTypes DEF Return

LEMMA SaveTypes ==
  ASSUME TypeOK, NEW c \in Callers, NEW v \in Values, NEW f \in {"execute", "resume", "end"},
         Save(c, v, f)
  PROVE  Placed'
<1>1. "open" \in Steps
  BY DEF Steps
<1>2. [Nothing EXCEPT !.save = v, !.for = f] \in Memory
  BY NothingType, MemoryTypes
<1> QED
  BY <1>1, <1>2, GotoTypes DEF Save

LEMMA GotoEffect ==
  ASSUME TypeOK, NEW c \in Callers, NEW step, NEW S, NEW seen, Goto(c, step, S, seen)
  PROVE  /\ pc'[c] = step /\ tasks'[c] = S /\ read'[c] = seen
         /\ \A d \in Callers \ {c} : pc'[d] = pc[d] /\ tasks'[d] = tasks[d] /\ read'[d] = read[d]
  BY DEF Goto, TypeOK

LEMMA SaveEffect ==
  ASSUME TypeOK, NEW c \in Callers, NEW v, NEW f, Save(c, v, f)
  PROVE  /\ pc'[c] = "open" /\ tasks'[c] = {} /\ read'[c].save = v /\ read'[c].for = f
         /\ \A d \in Callers \ {c} : pc'[d] = pc[d] /\ tasks'[d] = tasks[d] /\ read'[d] = read[d]
<1> DEFINE seen == [Nothing EXCEPT !.save = v, !.for = f]
<1>1. seen.save = v /\ seen.for = f
  BY DEF Nothing
<1>2. Goto(c, "open", {}, seen)
  BY DEF Save
<1> HIDE DEF seen
<1> QED
  BY <1>1, <1>2, GotoEffect

-----------------------------------------------------------------------------
(* Batches: who waits, records or charges has tasks, a live process belongs *)
(* to a batch that is waited for, only such a caller has processes, and a   *)
(* running process is registered.                                           *)

Dispatching == {"wait", "record", "charge", "judge"}
Recording == {"record", "charge", "judge"}

BatchOf(c) ==
  /\ pc[c] \in Dispatching \cup {"clear", "spend", "stop", "cancel", "verify"} => tasks[c] # {}
  /\ pc[c] = "stop" => read[c].targets # {}
  /\ pc[c] \in Recording => \A t \in tasks[c] : runs[c][t] \in Outcomes
  /\ pc[c] \notin Dispatching => \A t \in Tasks : runs[c][t] = "none"
  /\ \A t \in Tasks : runs[c][t] \in Live => pc[c] = "wait" /\ t \in tasks[c]
  /\ \A t \in Tasks : <<c, t>> \in registry =>
        /\ pc[c] = "wait" /\ t \in tasks[c]
        /\ runs[c][t] \in {"running", "error"} \cup Outcomes
  /\ \A t \in Tasks : runs[c][t] = "running" => <<c, t>> \in registry

BatchInv ==
  /\ \A c \in Callers : BatchOf(c)
  /\ ~planned => \A c \in Callers : pc[c] = "idle"

-----------------------------------------------------------------------------
(* Types. *)

LEMMA CommandTypes ==
  ASSUME TypeOK, NEW c \in Callers, Issue(c)
  PROVE  TypeOK'
<1> USE DEF Command, ReadCursor, history
<1>0. {"retry", "stop", "verify"} \subseteq Steps
  BY DEF Steps
<1>6. cursor.interrupt \in BOOLEAN /\ results \in [Tasks -> Statuses \cup {"none"}]
  BY DEF TypeOK, Cursors
<1>1. CASE Execute(c)
  <2>1. Placed'
    BY <1>1, <1>6, KeptTypes, SaveTypes DEF Execute
  <2> QED
    BY <1>1, <2>1 DEF Execute, TypeOK, Placed
<1>2. CASE Resume(c)
  <2>1. Placed'
    BY <1>0, <1>2, KeptTypes, SaveTypes, GotoTypes, NothingType DEF Resume
  <2> QED
    BY <1>2, <2>1 DEF Resume, TypeOK, Placed
<1>3. CASE Cancel(c)
  <2>1. PICK S \in SUBSET Tasks : Goto(c, "stop", S, [Nothing EXCEPT !.targets = S])
    BY <1>3 DEF Cancel
  <2>2. Placed'
    BY <1>0, <2>1, GotoTypes, NothingType, MemoryTypes
  <2> QED
    BY <1>3, <2>2 DEF Cancel, TypeOK, Placed
<1>4. CASE Verify(c)
  <2>1. Checked \in SUBSET Tasks /\ [Nothing EXCEPT !.results = results] \in Memory
    BY <1>6, TaskAssumption, NothingType, MemoryTypes
  <2>2. Placed'
    BY <1>0, <1>4, <2>1, GotoTypes DEF Verify
  <2> QED
    BY <1>4, <2>2 DEF Verify, TypeOK, Placed
<1>5. ASSUME NEW t \in Tasks, NEW status \in Reported, RecordResult(c, t, status)
      PROVE  TypeOK'
  BY <1>5, TaskAssumption DEF RecordResult, StoreResult, Statuses, TypeOK, caller
<1> QED
  BY <1>1, <1>2, <1>3, <1>4, <1>5 DEF Issue

(* The steps that read and write the cursor and lead to a batch. *)
LEMMA CursorTypes ==
  ASSUME TypeOK, BatchInv, NEW c \in Callers,
         Open(c) \/ Write(c) \/ Retry(c) \/ Clear(c) \/ Enter(c) \/ Compile(c) \/ Spend(c)
  PROVE  TypeOK'
<1> USE DEF history
<1>0. {"write", "enter", "clear", "compile", "spend", "wait"} \subseteq Steps
  BY DEF Steps
<1>9. read[c] \in Memory /\ tasks[c] \in SUBSET Tasks /\ {} \in SUBSET Tasks
  BY DEF TypeOK
<1>1. CASE Open(c)
  <2>1. Placed'
    BY <1>0, <1>1, <1>9, GotoTypes DEF Open
  <2> QED
    BY <1>1, <2>1, UnreadableTypes DEF Open, TypeOK, Placed
<1>2. CASE Write(c)
  <2>1. Placed'
    BY <1>0, <1>2, <1>9, NothingType, GotoTypes, ReturnTypes DEF Write
  <2>2. cursor' \in Cursors
    BY <1>2, <1>9, MemoryTypes, UnreadableTypes DEF Write
  <2>3. interrupted' \in BOOLEAN /\ behind' \subseteq Callers
    BY <1>2 DEF Write, TypeOK
  <2> QED
    BY <1>2, <2>1, <2>2, <2>3 DEF Write, TypeOK, Placed
<1>3. CASE Retry(c)
  <2>1. PICK S \in SUBSET Tasks :
          \/ Goto(c, "clear", S, Nothing)
          \/ Save(c, Kept(FALSE, TRUE), "resume")
    BY <1>3 DEF Retry
  <2>2. Placed'
    BY <1>0, <2>1, KeptTypes, NothingType, GotoTypes, SaveTypes
  <2> QED
    BY <1>3, <2>2 DEF Retry, TypeOK, Placed
<1>4. CASE Clear(c)
  <2>1. PICK t \in tasks[c] :
          /\ results' = [results EXCEPT ![t] = "none"]
          /\ \/ Goto(c, "clear", tasks[c] \ {t}, Nothing)
             \/ Save(c, Kept(FALSE, TRUE), "resume")
    BY <1>4 DEF Clear
  <2>2. Placed'
    BY <1>0, <1>9, <2>1, KeptTypes, NothingType, GotoTypes, SaveTypes
  <2>3. results' \in [Tasks -> Statuses \cup {"none"}]
    BY <2>1 DEF TypeOK
  <2> QED
    BY <1>4, <2>2, <2>3 DEF Clear, TypeOK, Placed
<1>5. CASE Enter(c)
  <2>1. Placed'
    BY <1>0, <1>5, <1>9, NothingType, GotoTypes, ReturnTypes DEF Enter
  <2> QED
    BY <1>5, <2>1 DEF Enter, ReadCursor, TypeOK, Placed
<1>6. CASE Compile(c)
  <2>1. FirstBatch(ReadyTasks(results)) \in SUBSET Tasks
    BY DEF FirstBatch, ReadyTasks
  <2>2. \A b \in BOOLEAN : [Nothing EXCEPT !.more = b] \in Memory
    BY NothingType, MemoryTypes
  <2>3. Placed'
    BY <1>0, <1>6, <2>1, <2>2, KeptTypes, GotoTypes, SaveTypes DEF Compile
  <2> QED
    BY <1>6, <2>3 DEF Compile, TypeOK, Placed
<1>7. CASE Spend(c)
  <2>1. [read[c] EXCEPT !.spent = spent] \in Memory
    BY <1>9, MemoryTypes DEF TypeOK
  <2>2. Placed'
    BY <1>0, <1>7, <1>9, <2>1, KeptTypes, GotoTypes, SaveTypes DEF Spend
  <2> QED
    BY <1>7, <2>2 DEF Spend, TypeOK, Placed
<1> QED
  BY <1>1, <1>2, <1>3, <1>4, <1>5, <1>6, <1>7

(* The steps of the threads of a batch and of their processes. *)
LEMMA ThreadTypes ==
  ASSUME TypeOK, BatchInv, NEW c \in Callers, NEW t \in Tasks,
         Launch(c, t) \/ Register(c, t) \/ Unregister(c, t) \/ Finish(c, t) \/ DuplicateEnds(c, t)
  PROVE  TypeOK'
<1> USE DEF history, caller
<1>1. CASE Launch(c, t) \/ DuplicateEnds(c, t)
  <2>1. PICK x \in {"launched", "error"} : runs' = [runs EXCEPT ![c][t] = x]
    BY <1>1 DEF Launch, DuplicateEnds
  <2>2. runs' \in [Callers -> [Tasks -> Processes]]
    BY <2>1 DEF TypeOK, Processes, Live
  <2> QED
    BY <1>1, <2>2 DEF Launch, DuplicateEnds, TypeOK
<1>2. CASE Register(c, t)
  <2>1. PICK x \in {"running", "duplicate"} : runs' = [runs EXCEPT ![c][t] = x]
    BY <1>2 DEF Register
  <2>2. runs' \in [Callers -> [Tasks -> Processes]]
    BY <2>1 DEF TypeOK, Processes, Live
  <2>3. registry' \subseteq Callers \X Tasks
    BY <1>2 DEF Register, TypeOK
  <2> QED
    BY <1>2, <2>2, <2>3 DEF Register, TypeOK
<1>3. CASE Unregister(c, t)
  BY <1>3 DEF Unregister, TypeOK
<1>4. CASE Finish(c, t)
  <2>1. PICK x \in Outcomes \cup {"error"} : runs' = [runs EXCEPT ![c][t] = x]
    BY <1>4 DEF Finish
  <2>2. runs' \in [Callers -> [Tasks -> Processes]]
    BY <2>1 DEF TypeOK, Processes
  <2>3. changeAsked' \subseteq Tasks
    BY <1>4 DEF Finish, TypeOK
  <2>4. ended' \in [Tasks -> Nat]
    BY <1>4 DEF Finish, TypeOK
  <2> QED
    BY <1>4, <2>2, <2>3, <2>4 DEF Finish, TypeOK
<1> QED
  BY <1>1, <1>2, <1>3, <1>4

LEMMA StoreTypes ==
  ASSUME TypeOK, NEW t \in Tasks, NEW status \in Statuses, StoreResult(t, status)
  PROVE  /\ results' \in [Tasks -> Statuses \cup {"none"}]
         /\ succeeded' \subseteq Tasks
         /\ UNCHANGED <<ended, interrupted, behind>>
  BY DEF StoreResult, TypeOK

(* The steps that handle the results of a batch, and of the other commands. *)
LEMMA ResultTypes ==
  ASSUME TypeOK, BatchInv, NEW c \in Callers,
         Collect(c) \/ Record(c) \/ Charge(c) \/ Judge(c)
            \/ Signal(c) \/ RecordCancelled(c) \/ RecordVerified(c)
  PROVE  TypeOK'
<1> USE DEF history
<1>0. {"record", "charge", "judge", "stop", "cancel", "verify"} \subseteq Steps
  BY DEF Steps
<1>9. /\ read[c] \in Memory /\ tasks[c] \in SUBSET Tasks
      /\ tasks[c] # {} => First(tasks[c]) \in tasks[c]
  BY FirstIn DEF TypeOK
<1>1. CASE Collect(c)
  <2>1. runs' \in [Callers -> [Tasks -> Processes]]
    BY <1>1 DEF Collect, TypeOK, NoRuns, Processes
  <2>2. Placed'
    BY <1>0, <1>1, <1>9, GotoTypes, ReturnTypes DEF Collect
  <2> QED
    BY <1>1, <2>1, <2>2 DEF Collect, TypeOK, Placed
<1>2. CASE Record(c)
  <2>1. First(tasks[c]) \in tasks[c] /\ runs[c][First(tasks[c])] \in Outcomes
    BY <1>2, <1>9 DEF Record, BatchInv, BatchOf, Dispatching, Recording
  <2>2. PICK status \in Statuses : StoreResult(First(tasks[c]), status)
    BY <1>2, <2>1 DEF Record, Outcomes, Statuses
  <2>3. Placed'
    BY <1>0, <1>2, <1>9, GotoTypes DEF Record
  <2> QED
    BY <1>2, <1>9, <2>1, <2>2, <2>3, StoreTypes DEF Record, TypeOK, Placed
<1>3. CASE Charge(c)
  <2>1. PICK cost \in Costs :
          /\ spent' = spent + cost
          /\ Goto(c, "judge", tasks[c], [read[c] EXCEPT !.spent = @ + cost])
    BY <1>3 DEF Charge
  <2>2. cost \in Nat
    BY TaskAssumption
  <2>3. [read[c] EXCEPT !.spent = @ + cost] \in Memory
    <3>1. read[c].spent \in Nat
      BY <1>9, MemoryTypes
    <3>2. read[c].spent + cost \in Nat
      BY <2>2, <3>1
    <3> QED
      BY <1>9, <3>2, MemoryTypes
  <2>4. Placed'
    BY <1>0, <1>9, <2>1, <2>3, GotoTypes
  <2>5. spent' \in Nat
    BY <2>1, <2>2 DEF TypeOK
  <2>6. usage' \in [Tasks -> Nat]
    <3>1. First(tasks[c]) \in Tasks
      BY <1>3, <1>9 DEF Charge, BatchInv, BatchOf, Dispatching
    <3>2. PICK t \in Tasks : usage' = [usage EXCEPT ![t] = @ + 1]
      BY <1>3, <3>1 DEF Charge, UsageLine
    <3> QED
      BY <3>2 DEF TypeOK
  <2> QED
    BY <1>3, <2>4, <2>5, <2>6 DEF Charge, TypeOK, Placed
<1>4. CASE Judge(c)
  <2>1. runs' \in [Callers -> [Tasks -> Processes]]
    <3>1. runs' = runs \/ runs' = [runs EXCEPT ![c] = NoRuns]
      BY <1>4 DEF Judge
    <3> QED
      BY <3>1 DEF TypeOK, NoRuns, Processes
  <2>2. Placed'
    BY <1>0, <1>4, <1>9, KeptTypes, GotoTypes, SaveTypes DEF Judge
  <2> QED
    BY <1>4, <2>1, <2>2 DEF Judge, TypeOK, Placed
<1>5. CASE Signal(c)
  <2>1. Placed'
    BY <1>0, <1>5, <1>9, NothingType, MemoryTypes, GotoTypes DEF Signal
  <2> QED
    BY <1>5, <2>1 DEF Signal, TypeOK, Placed
<1>6. CASE RecordCancelled(c) \/ RecordVerified(c)
  <2>1. First(tasks[c]) \in tasks[c]
    BY <1>6, <1>9 DEF RecordCancelled, RecordVerified, BatchInv, BatchOf
  <2>2. \A t \in Tasks : read[c].results[t] \in Statuses \cup {"none"}
    BY <1>9, MemoryTypes
  <2>3. PICK status \in Statuses : StoreResult(First(tasks[c]), status)
    BY <1>6, <1>9, <2>1, <2>2 DEF RecordCancelled, RecordVerified, Statuses
  <2>4. Placed'
    BY <1>0, <1>6, <1>9, NothingType, GotoTypes, ReturnTypes DEF RecordCancelled, RecordVerified
  <2> QED
    BY <1>6, <1>9, <2>1, <2>3, <2>4, StoreTypes DEF RecordCancelled, RecordVerified, TypeOK, Placed
<1> QED
  BY <1>1, <1>2, <1>3, <1>4, <1>5, <1>6

LEMMA TypeStep == TypeOK /\ BatchInv /\ [Next]_vars => TypeOK'
<1> SUFFICES ASSUME TypeOK, BatchInv, [Next]_vars
             PROVE  TypeOK'
  OBVIOUS
<1> USE DEF history
<1>1. CASE Plan
  BY <1>1, TaskAssumption DEF Plan, TypeOK, caller
<1>2. ASSUME NEW s \in Services, Crash(s)
      PROVE  TypeOK'
  <2>1. runs' \in [Callers -> [Tasks -> Processes]]
    BY <1>2 DEF Crash, TypeOK, NoRuns, Processes
  <2>2. pc' \in [Callers -> Steps] /\ tasks' \in [Callers -> SUBSET Tasks]
    BY <1>2 DEF Crash, TypeOK, Steps
  <2>3. read' \in [Callers -> Memory]
    BY <1>2, NothingType DEF Crash, TypeOK
  <2>4. registry' \subseteq Callers \X Tasks /\ orphans' \subseteq Tasks
    BY <1>2 DEF Crash, TypeOK
  <2> QED
    BY <1>2, <2>1, <2>2, <2>3, <2>4 DEF Crash, TypeOK
<1>3. CASE UNCHANGED vars
  BY <1>3 DEF vars, caller, TypeOK
<1>4. ASSUME NEW t \in Tasks, OrphanEnds(t)
      PROVE  TypeOK'
  BY <1>4 DEF OrphanEnds, TypeOK, caller
<1>5. ASSUME NEW c \in Callers, ThreadStep(c) \/ ProcessEnds(c)
      PROVE  TypeOK'
  BY <1>5, CursorTypes, ThreadTypes, ResultTypes DEF ThreadStep, ProcessEnds
<1> QED
  BY <1>1, <1>2, <1>3, <1>4, <1>5, CommandTypes DEF Next
-----------------------------------------------------------------------------
(* Every step keeps the batches. *)

\* What a step of c does not touch of the other callers.
Apart(c) ==
  \A d \in Callers \ {c} :
     /\ pc'[d] = pc[d] /\ tasks'[d] = tasks[d] /\ read'[d] = read[d] /\ runs'[d] = runs[d]
     /\ \A t \in Tasks : <<d, t>> \in registry' <=> <<d, t>> \in registry

LEMMA ApartKeeps ==
  ASSUME BatchInv, NEW c \in Callers, NEW d \in Callers \ {c}, Apart(c)
  PROVE  BatchOf(d)'
  BY DEF BatchInv, BatchOf, Apart

\* A step to another place that starts no process: no batch, or the batch that was there.
LEMMA MovedBatch ==
  ASSUME TypeOK, BatchInv, NEW c \in Callers, NEW step, NEW S, NEW seen,
         Goto(c, step, S, seen), UNCHANGED registry,
         step \in {"clear", "spend", "stop", "cancel", "verify"} => S # {},
         step = "stop" => seen.targets # {},
         \/ runs' = runs /\ pc[c] \notin Dispatching
         \/ runs' = [runs EXCEPT ![c] = NoRuns] /\ \A t \in Tasks : <<c, t>> \notin registry,
         step \notin Dispatching
  PROVE  Apart(c) /\ BatchOf(c)'
<1>1. Apart(c)
  BY GotoEffect DEF Apart, TypeOK
<1>2. pc'[c] = step /\ tasks'[c] = S /\ read'[c] = seen
  BY GotoEffect
<1>3. \A t \in Tasks : runs'[c][t] = "none" /\ <<c, t>> \notin registry'
  BY DEF BatchInv, BatchOf, Dispatching, NoRuns, TypeOK
<1>4. "none" \notin Live \cup {"running"}
  BY DEF Live
<1> QED
  BY <1>1, <1>2, <1>3, <1>4 DEF BatchOf, Dispatching, Recording

LEMMA SavedBatch ==
  ASSUME TypeOK, BatchInv, NEW c \in Callers, NEW v, NEW f, Save(c, v, f), UNCHANGED registry,
         \/ runs' = runs /\ pc[c] \notin Dispatching
         \/ runs' = [runs EXCEPT ![c] = NoRuns] /\ \A t \in Tasks : <<c, t>> \notin registry
  PROVE  Apart(c) /\ BatchOf(c)'
<1>1. /\ "open" \notin {"clear", "spend", "stop", "cancel", "verify"}
      /\ "open" # "stop" /\ "open" \notin Dispatching
  BY DEF Dispatching
<1> QED
  BY <1>1, MovedBatch DEF Save

\* The batch of a caller that records is not in the registry any more.
LEMMA RecordingBatch ==
  ASSUME TypeOK, BatchInv, NEW c \in Callers, NEW step \in Recording, NEW S, NEW seen,
         S # {}, S \subseteq tasks[c], Goto(c, step, S, seen), UNCHANGED <<runs, registry>>,
         \A t \in S : runs[c][t] \in Outcomes,
         \A t \in Tasks : <<c, t>> \notin registry /\ runs[c][t] \notin Live
  PROVE  Apart(c) /\ BatchOf(c)'
<1>1. Apart(c)
  BY GotoEffect DEF Apart
<1>2. pc'[c] = step /\ tasks'[c] = S /\ read'[c] = seen
  BY GotoEffect
<1> QED
  BY <1>1, <1>2 DEF BatchOf, Dispatching, Recording, Live

\* What the batches say of a caller that records.
LEMMA RecordingFacts ==
  ASSUME TypeOK, BatchInv, NEW c \in Callers, pc[c] \in Recording
  PROVE  /\ First(tasks[c]) \in tasks[c]
         /\ \A t \in tasks[c] : runs[c][t] \in Outcomes
         /\ \A t \in Tasks : <<c, t>> \notin registry /\ runs[c][t] \notin Live
<1>1. tasks[c] \in SUBSET Tasks /\ tasks[c] # {}
  BY DEF TypeOK, BatchInv, BatchOf, Dispatching, Recording
<1> QED
  BY <1>1, FirstIn DEF BatchInv, BatchOf, Recording

LEMMA CursorBatches ==
  ASSUME TypeOK, BatchInv, NEW c \in Callers,
         Open(c) \/ Write(c) \/ Retry(c) \/ Clear(c) \/ Enter(c) \/ Compile(c) \/ Spend(c)
  PROVE  Apart(c) /\ BatchOf(c)'
<1>0. {"open", "write", "retry", "clear", "enter", "compile", "spend", "idle"} \cap Dispatching = {}
  BY DEF Dispatching
<1>1. CASE Open(c) \/ Write(c) \/ Enter(c)
  <2>1. PICK step \in {"idle", "write", "enter", "compile"} : \E seen : Goto(c, step, {}, seen)
    BY <1>1 DEF Open, Write, Enter, Return
  <2>2. UNCHANGED <<runs, registry>> /\ pc[c] \notin Dispatching
    BY <1>0, <1>1 DEF Open, Write, Enter
  <2> QED
    BY <1>0, <2>1, <2>2, MovedBatch
<1>2. CASE Retry(c) \/ Clear(c)
  <2>1. UNCHANGED <<runs, registry>> /\ pc[c] \notin Dispatching
    BY <1>0, <1>2 DEF Retry, Clear
  <2>2. \/ \E S : S # {} /\ Goto(c, "clear", S, Nothing)
        \/ Save(c, Kept(FALSE, TRUE), "resume")
    <3>1. CASE Retry(c)
      BY <3>1 DEF Retry
    <3>2. CASE Clear(c)
      <4>1. PICK t \in tasks[c] :
              \/ tasks[c] # {t} /\ Goto(c, "clear", tasks[c] \ {t}, Nothing)
              \/ Save(c, Kept(FALSE, TRUE), "resume")
        BY <3>2 DEF Clear
      <4>2. tasks[c] # {t} => tasks[c] \ {t} # {}
        OBVIOUS
      <4> QED
        BY <4>1, <4>2
    <3> QED
      BY <1>2, <3>1, <3>2
  <2> QED
    BY <1>0, <2>1, <2>2, MovedBatch, SavedBatch
<1>3. CASE Compile(c)
  <2>1. UNCHANGED <<runs, registry>> /\ pc[c] \notin Dispatching
    BY <1>0, <1>3 DEF Compile
  <2>2. \/ Save(c, Kept(FALSE, FALSE), "end")
        \/ \E S, seen : S # {} /\ Goto(c, "spend", S, seen)
    BY <1>3 DEF Compile
  <2> QED
    BY <1>0, <2>1, <2>2, MovedBatch, SavedBatch
<1>4. CASE Spend(c)
  <2>1. UNCHANGED <<runs, registry>> /\ pc[c] = "spend" /\ pc[c] \notin Dispatching
    BY <1>0, <1>4 DEF Spend
  <2>2. CASE Save(c, Interrupted, "end")
    BY <2>1, <2>2, SavedBatch
  <2>3. ASSUME NEW seen, Goto(c, "wait", tasks[c], seen)
        PROVE  Apart(c) /\ BatchOf(c)'
    <3>1. Apart(c)
      BY <2>1, <2>3, GotoEffect DEF Apart
    <3>2. \A t \in Tasks : runs[c][t] = "none" /\ <<c, t>> \notin registry
      BY <2>1 DEF BatchInv, BatchOf, Dispatching
    <3>3. BatchOf(c)'
      BY <2>1, <2>3, <3>2, GotoEffect DEF BatchInv, BatchOf, Dispatching, Recording, Live
    <3> QED
      BY <3>1, <3>3
  <2> QED
    BY <1>4, <2>2, <2>3 DEF Spend
<1> QED
  BY <1>1, <1>2, <1>3, <1>4

LEMMA ThreadBatches ==
  ASSUME TypeOK, BatchInv, NEW c \in Callers, NEW t \in Tasks,
         Launch(c, t) \/ Register(c, t) \/ Unregister(c, t) \/ Finish(c, t) \/ DuplicateEnds(c, t)
  PROVE  Apart(c) /\ BatchOf(c)' /\ pc[c] = "wait" /\ t \in tasks[c]
<1> USE DEF caller
<1>0. /\ UNCHANGED <<pc, tasks, read>>
      /\ pc[c] = "wait" /\ t \in tasks[c]
  BY DEF Launch, Register, Unregister, Finish, DuplicateEnds, BatchInv, BatchOf, Live
<1>1. CASE Launch(c, t) \/ DuplicateEnds(c, t)
  <2>1. PICK x \in {"launched", "error"} : runs' = [runs EXCEPT ![c][t] = x]
    BY <1>1 DEF Launch, DuplicateEnds
  <2>2. UNCHANGED registry /\ <<c, t>> \notin registry
    BY <1>1 DEF Launch, DuplicateEnds, BatchInv, BatchOf, Outcomes
  <2>3. Apart(c)
    BY <1>0, <2>1, <2>2 DEF Apart, TypeOK
  <2>4. BatchOf(c)'
    <3>1. runs'[c][t] = x /\ \A u \in Tasks \ {t} : runs'[c][u] = runs[c][u]
      BY <2>1 DEF TypeOK
    <3> QED
      BY <1>0, <2>2, <3>1 DEF BatchInv, BatchOf, Dispatching, Recording, Live
  <2> QED
    BY <1>0, <2>3, <2>4
<1>2. CASE Register(c, t)
  <2>1. PICK x \in {"running", "duplicate"} :
          /\ runs' = [runs EXCEPT ![c][t] = x]
          /\ x = "running" => registry' = registry \cup {<<c, t>>}
          /\ x = "duplicate" => registry' = registry
    BY <1>2 DEF Register
  <2>2. <<c, t>> \notin registry
    BY <1>2 DEF Register, BatchInv, BatchOf, Outcomes
  <2>3. Apart(c)
    BY <1>0, <2>1 DEF Apart, TypeOK
  <2>4. BatchOf(c)'
    <3>1. runs'[c][t] = x /\ \A u \in Tasks \ {t} : runs'[c][u] = runs[c][u]
      BY <2>1 DEF TypeOK
    <3>2. /\ x = "running" => <<c, t>> \in registry'
          /\ x = "duplicate" => <<c, t>> \notin registry'
          /\ \A u \in Tasks \ {t} : <<c, u>> \in registry' <=> <<c, u>> \in registry
      BY <2>1, <2>2
    <3> QED
      BY <1>0, <3>1, <3>2 DEF BatchInv, BatchOf, Dispatching, Recording, Live
  <2> QED
    BY <1>0, <2>3, <2>4
<1>3. CASE Unregister(c, t)
  <2>1. /\ UNCHANGED runs /\ registry' = registry \ {<<c, t>>}
        /\ runs[c][t] # "running"
    BY <1>3 DEF Unregister, Outcomes
  <2>2. Apart(c)
    BY <1>0, <2>1 DEF Apart
  <2>3. BatchOf(c)'
    BY <1>0, <2>1 DEF BatchInv, BatchOf
  <2> QED
    BY <1>0, <2>2, <2>3
<1>4. CASE Finish(c, t)
  <2>1. PICK x \in Outcomes \cup {"error"} : runs' = [runs EXCEPT ![c][t] = x]
    BY <1>4 DEF Finish
  <2>2. UNCHANGED registry
    BY <1>4 DEF Finish
  <2>3. Apart(c)
    BY <1>0, <2>1, <2>2 DEF Apart, TypeOK
  <2>4. BatchOf(c)'
    BY <1>0, <2>1, <2>2 DEF BatchInv, BatchOf, TypeOK, Dispatching, Recording, Live, Outcomes
  <2> QED
    BY <1>0, <2>3, <2>4
<1> QED
  BY <1>1, <1>2, <1>3, <1>4

LEMMA ResultBatches ==
  ASSUME TypeOK, BatchInv, NEW c \in Callers,
         Collect(c) \/ Record(c) \/ Charge(c) \/ Judge(c)
            \/ Signal(c) \/ RecordCancelled(c) \/ RecordVerified(c)
  PROVE  Apart(c) /\ BatchOf(c)'
<1>0. {"idle", "open", "stop", "cancel", "verify"} \cap Dispatching = {}
  BY DEF Dispatching
<1>1. CASE Collect(c)
  <2>1. \A t \in Tasks : <<c, t>> \notin registry
    BY <1>1 DEF Collect, BatchInv, BatchOf
  <2>2. CASE Return(c) /\ runs' = [runs EXCEPT ![c] = NoRuns]
    BY <1>0, <1>1, <2>1, <2>2, MovedBatch DEF Collect, Return
  <2>3. CASE /\ Goto(c, "record", tasks[c], read[c]) /\ runs' = runs
             /\ \A t \in tasks[c] : runs[c][t] # "error"
    <3>1. \A t \in tasks[c] : runs[c][t] \in Outcomes
      BY <1>1, <2>3 DEF Collect, Done
    <3>2. \A t \in Tasks : runs[c][t] \notin Live
      BY <3>1 DEF BatchInv, BatchOf, Outcomes, Live
    <3>3. tasks[c] # {} /\ "record" \in Recording
      BY <1>1 DEF Collect, BatchInv, BatchOf, Dispatching, Recording
    <3> QED
      BY <1>1, <2>1, <2>3, <3>1, <3>2, <3>3, RecordingBatch DEF Collect
  <2> QED
    BY <1>1, <2>2, <2>3 DEF Collect
<1>2. CASE Record(c) \/ Charge(c)
  <2>1. pc[c] \in Recording /\ {"charge", "judge"} \subseteq Recording
    BY <1>2 DEF Record, Charge, Recording
  <2>2. \E step \in {"charge", "judge"} : \E seen : Goto(c, step, tasks[c], seen)
    BY <1>2 DEF Record, Charge
  <2>3. UNCHANGED <<runs, registry>>
    BY <1>2 DEF Record, Charge
  <2>4. tasks[c] # {}
    BY <2>1, RecordingFacts
  <2> QED
    BY <2>1, <2>2, <2>3, <2>4, RecordingFacts, RecordingBatch
<1>3. CASE Judge(c)
  <2>1. pc[c] \in Recording /\ "record" \in Recording
    BY <1>3 DEF Judge, Recording
  <2>2. \/ /\ tasks[c] \ {First(tasks[c])} # {} /\ runs' = runs
           /\ Goto(c, "record", tasks[c] \ {First(tasks[c])}, read[c])
        \/ /\ runs' = [runs EXCEPT ![c] = NoRuns]
           /\ \E v : Save(c, v, "end")
    BY <1>3 DEF Judge
  <2>3. UNCHANGED registry
    BY <1>3 DEF Judge
  <2>4. CASE /\ tasks[c] \ {First(tasks[c])} # {} /\ runs' = runs
             /\ Goto(c, "record", tasks[c] \ {First(tasks[c])}, read[c])
    BY <2>1, <2>3, <2>4, RecordingFacts, RecordingBatch
  <2>5. ASSUME NEW v, Save(c, v, "end"), runs' = [runs EXCEPT ![c] = NoRuns]
        PROVE  Apart(c) /\ BatchOf(c)'
    BY <2>1, <2>3, <2>5, RecordingFacts, SavedBatch
  <2> QED
    BY <2>2, <2>4, <2>5
<1>4. CASE Signal(c) \/ RecordCancelled(c) \/ RecordVerified(c)
  <2>1. UNCHANGED <<runs, registry>> /\ pc[c] \notin Dispatching
    BY <1>0, <1>4 DEF Signal, RecordCancelled, RecordVerified
  <2>2. PICK S, seen : \E step \in {"idle", "stop", "cancel", "verify"} :
          /\ Goto(c, step, S, seen)
          /\ step # "idle" => S # {}
          /\ step = "stop" => seen = read[c] /\ pc[c] = "stop"
    BY <1>4 DEF Signal, RecordCancelled, RecordVerified, Return, BatchInv, BatchOf
  <2>3. pc[c] = "stop" => read[c].targets # {}
    BY DEF BatchInv, BatchOf
  <2> QED
    BY <1>0, <2>1, <2>2, <2>3, MovedBatch
<1> QED
  BY <1>1, <1>2, <1>3, <1>4

LEMMA CommandBatches ==
  ASSUME TypeOK, BatchInv, NEW c \in Callers, Issue(c)
  PROVE  Apart(c) /\ BatchOf(c)' /\ planned
<1> USE DEF caller, Command
<1>0. "idle" \notin Dispatching /\ {"retry", "stop", "verify"} \cap Dispatching = {} /\ Tasks # {}
  BY TaskAssumption DEF Dispatching, Tasks
<1>1. UNCHANGED <<runs, registry>> /\ planned /\ pc[c] = "idle"
  BY DEF Issue, Execute, Resume, Cancel, Verify, RecordResult
<1>2. CASE Execute(c) \/ Resume(c)
  <2>1. (\E v, f : Save(c, v, f)) \/ Goto(c, "retry", {}, Nothing)
    BY <1>2 DEF Execute, Resume
  <2> QED
    BY <1>0, <1>1, <2>1, MovedBatch, SavedBatch
<1>3. CASE Cancel(c)
  <2>1. PICK S : S # {} /\ Goto(c, "stop", S, [Nothing EXCEPT !.targets = S])
    BY <1>0, <1>3 DEF Cancel
  <2>2. [Nothing EXCEPT !.targets = S].targets = S
    BY DEF Nothing
  <2> QED
    BY <1>0, <1>1, <2>1, <2>2, MovedBatch
<1>4. CASE Verify(c)
  BY <1>0, <1>1, <1>4, MovedBatch DEF Verify
<1>5. ASSUME NEW t \in Tasks, NEW status \in Reported, RecordResult(c, t, status)
      PROVE  Apart(c) /\ BatchOf(c)'
  BY <1>1, <1>5 DEF RecordResult, BatchInv, BatchOf, Apart
<1> QED
  BY <1>1, <1>2, <1>3, <1>4, <1>5 DEF Issue

LEMMA CallerBatches ==
  ASSUME TypeOK, BatchInv, NEW c \in Callers, ThreadStep(c) \/ ProcessEnds(c)
  PROVE  Apart(c) /\ BatchOf(c)' /\ planned
<1>1. Apart(c) /\ BatchOf(c)'
  BY CursorBatches, ThreadBatches, ResultBatches DEF ThreadStep, ProcessEnds
<1>2. pc[c] # "idle"
  <2>1. ASSUME NEW t \in Tasks,
               Launch(c, t) \/ Register(c, t) \/ Unregister(c, t) \/ Finish(c, t) \/ DuplicateEnds(c, t)
        PROVE  pc[c] = "wait"
    BY <2>1, ThreadBatches
  <2> QED
    BY <2>1 DEF ThreadStep, ProcessEnds, Open, Write, Retry, Clear, Enter, Compile, Spend, Collect,
        Record, Charge, Judge, Signal, RecordCancelled, RecordVerified
<1>3. planned
  BY <1>2 DEF BatchInv, TypeOK
<1> QED
  BY <1>1, <1>3

\* No step takes the plan back.
LEMMA PlanKept ==
  ASSUME [Next]_vars
  PROVE  /\ planned => planned' /\ deps' = deps
         /\ UNCHANGED <<planned, deps>> \/ Plan
<1>1. ASSUME NEW c \in Callers, ThreadStep(c) \/ ProcessEnds(c)
      PROVE  UNCHANGED <<planned, deps>>
  BY <1>1 DEF ThreadStep, ProcessEnds, Open, Write, Retry, Clear, Enter, Compile, Spend, Collect,
       Record, Charge, Judge, Signal, RecordCancelled, RecordVerified, Launch, Register, Unregister,
       Finish, DuplicateEnds
<1>2. ASSUME NEW c \in Callers, Issue(c)
      PROVE  UNCHANGED <<planned, deps>>
  BY <1>2 DEF Issue, Execute, Resume, Cancel, Verify, RecordResult
<1>3. ASSUME NEW s \in Services, Crash(s)
      PROVE  UNCHANGED <<planned, deps>>
  BY <1>3 DEF Crash
<1>4. ASSUME NEW t \in Tasks, OrphanEnds(t)
      PROVE  UNCHANGED <<planned, deps>>
  BY <1>4 DEF OrphanEnds
<1>5. CASE UNCHANGED vars
  BY <1>5 DEF vars
<1>6. CASE Plan
  BY <1>6 DEF Plan
<1> QED
  BY <1>1, <1>2, <1>3, <1>4, <1>5, <1>6 DEF Next

LEMMA BatchStep == TypeOK /\ BatchInv /\ [Next]_vars => BatchInv'
<1> SUFFICES ASSUME TypeOK, BatchInv, [Next]_vars
             PROVE  BatchInv'
  OBVIOUS
<1>1. ASSUME NEW c \in Callers, ThreadStep(c) \/ ProcessEnds(c) \/ Issue(c)
      PROVE  BatchInv'
  <2>1. Apart(c) /\ BatchOf(c)' /\ planned
    BY <1>1, CallerBatches, CommandBatches
  <2>2. \A d \in Callers : BatchOf(d)'
    BY <2>1, ApartKeeps
  <2> QED
    BY <2>1, <2>2, PlanKept DEF BatchInv
<1>2. CASE Plan \/ UNCHANGED vars \/ \E t \in Tasks : OrphanEnds(t)
  <2>1. UNCHANGED <<pc, tasks, read, runs, registry>> /\ (planned => planned')
    BY <1>2 DEF Plan, vars, OrphanEnds, caller
  <2> QED
    BY <2>1 DEF BatchInv, BatchOf
<1>3. ASSUME NEW s \in Services, Crash(s)
      PROVE  BatchInv'
  <2>1. UNCHANGED planned
    BY <1>3 DEF Crash
  <2>2. ASSUME NEW d \in Callers
        PROVE  BatchOf(d)' /\ (pc'[d] = "idle" \/ pc'[d] = pc[d])
    <3>1. CASE ServiceOf[d] = s
      <4>1. /\ pc'[d] = "idle" /\ runs'[d] = NoRuns
            /\ \A t \in Tasks : <<d, t>> \notin registry'
        BY <1>3, <3>1 DEF Crash
      <4> QED
        BY <4>1 DEF BatchOf, NoRuns, Dispatching, Recording, Live
    <3>2. CASE ServiceOf[d] # s
      <4>1. /\ pc'[d] = pc[d] /\ tasks'[d] = tasks[d] /\ read'[d] = read[d] /\ runs'[d] = runs[d]
            /\ \A t \in Tasks : <<d, t>> \in registry' <=> <<d, t>> \in registry
        BY <1>3, <3>2 DEF Crash
      <4> QED
        BY <4>1 DEF BatchInv, BatchOf
    <3> QED
      BY <3>1, <3>2
  <2> QED
    BY <2>1, <2>2 DEF BatchInv
<1> QED
  BY <1>1, <1>2, <1>3 DEF Next

LEMMA BatchInit == Init => BatchInv
  BY DEF Init, BatchInv, BatchOf, NoRuns, Dispatching, Recording, Live

LEMMA BatchesCorrect == Spec => [](TypeOK /\ BatchInv)
<1>1. Init => TypeOK /\ BatchInv
  BY TypeInit, BatchInit
<1>2. TypeOK /\ BatchInv /\ [Next]_vars => (TypeOK /\ BatchInv)'
  BY TypeStep, BatchStep
<1> QED
  BY <1>1, <1>2, PTL DEF Spec

(* Every value stays in its set: results, batches and processes of any plan, *)
(* with any number of callers and services.                                 *)
THEOREM TypeCorrect == Spec => []TypeOK
  BY BatchesCorrect, PTL

-----------------------------------------------------------------------------
(* Dependencies. *)

\* Only Compile gives a caller a batch.
LEMMA BatchOrigin ==
  ASSUME TypeOK, NEW c \in Callers, ThreadStep(c) \/ ProcessEnds(c) \/ Issue(c), ~Compile(c),
         pc'[c] \in {"spend", "wait"}
  PROVE  pc[c] \in {"spend", "wait"} /\ tasks'[c] = tasks[c]
<1> USE DEF caller
<1>1. ASSUME NEW step, NEW S, NEW seen, Goto(c, step, S, seen), step \notin {"spend", "wait"}
      PROVE  FALSE
  BY <1>1, GotoEffect
<1>2. ASSUME NEW v, NEW f, Save(c, v, f)
      PROVE  FALSE
  BY <1>2, SaveEffect
<1>3. CASE Open(c) \/ Write(c) \/ Enter(c)
  <2>1. \E step \in {"idle", "write", "enter", "compile"} : \E S, seen : Goto(c, step, S, seen)
    BY <1>3 DEF Open, Write, Enter, Return
  <2> QED
    BY <1>1, <2>1
<1>4. CASE Retry(c) \/ Clear(c)
  <2>1. (\E v, f : Save(c, v, f)) \/ \E S, seen : Goto(c, "clear", S, seen)
    BY <1>4 DEF Retry, Clear
  <2> QED
    BY <1>1, <1>2, <2>1
<1>5. CASE Spend(c)
  <2>1. (\E v, f : Save(c, v, f)) \/ \E seen : Goto(c, "wait", tasks[c], seen)
    BY <1>5 DEF Spend
  <2> QED
    BY <1>2, <1>5, <2>1, GotoEffect DEF Spend
<1>6. CASE Collect(c) \/ Record(c) \/ Charge(c)
  <2>1. \E step \in {"idle", "record", "charge", "judge"} : \E S, seen : Goto(c, step, S, seen)
    BY <1>6 DEF Collect, Record, Charge, Return
  <2> QED
    BY <1>1, <2>1
<1>7. CASE Judge(c)
  <2>1. (\E v, f : Save(c, v, f)) \/ \E S, seen : Goto(c, "record", S, seen)
    BY <1>7 DEF Judge
  <2> QED
    BY <1>1, <1>2, <2>1
<1>8. CASE Signal(c) \/ RecordCancelled(c) \/ RecordVerified(c)
  <2>1. \E step \in {"idle", "stop", "cancel", "verify"} : \E S, seen : Goto(c, step, S, seen)
    BY <1>8 DEF Signal, RecordCancelled, RecordVerified, Return
  <2> QED
    BY <1>1, <2>1
<1>9. ASSUME NEW t \in Tasks,
             Launch(c, t) \/ Register(c, t) \/ Unregister(c, t) \/ Finish(c, t) \/ DuplicateEnds(c, t)
      PROVE  UNCHANGED <<pc, tasks>>
  BY <1>9 DEF Launch, Register, Unregister, Finish, DuplicateEnds
<1>10. CASE Execute(c) \/ Resume(c)
  <2>1. (\E v, f : Save(c, v, f)) \/ \E S, seen : Goto(c, "retry", S, seen)
    BY <1>10 DEF Execute, Resume
  <2> QED
    BY <1>1, <1>2, <2>1
<1>11. CASE Cancel(c) \/ Verify(c)
  <2>1. \E step \in {"stop", "verify"} : \E S, seen : Goto(c, step, S, seen)
    BY <1>11 DEF Cancel, Verify
  <2> QED
    BY <1>1, <2>1
<1>12. ASSUME NEW t \in Tasks, NEW status \in Reported, RecordResult(c, t, status)
       PROVE  UNCHANGED <<pc, tasks>>
  BY <1>12 DEF RecordResult
<1> QED
  BY <1>3, <1>4, <1>5, <1>6, <1>7, <1>8, <1>9, <1>10, <1>11, <1>12 DEF ThreadStep, ProcessEnds, Issue

\* A compiled batch, and a process that outlived its service, had its dependencies.
DependInv ==
  /\ \A t \in Tasks : results[t] = "success" => t \in succeeded
  /\ \A c \in Callers : pc[c] \in {"spend", "wait"} => \A t \in tasks[c] : deps[t] \subseteq succeeded
  /\ \A t \in orphans : deps[t] \subseteq succeeded
  /\ ~planned => orphans = {}

\* A step that keeps every success on record and compiles no batch.
LEMMA DependKept ==
  ASSUME DependInv, TypeOK, deps' = deps, planned => planned',
         succeeded \subseteq succeeded',
         \A t \in Tasks : results'[t] = "success" => t \in succeeded',
         \A c \in Callers : pc'[c] \in {"spend", "wait"} =>
            pc[c] \in {"spend", "wait"} /\ tasks'[c] = tasks[c],
         orphans' \subseteq orphans
  PROVE  DependInv'
<1>1. \A c \in Callers : tasks[c] \subseteq Tasks
  BY DEF TypeOK
<1> QED
  BY <1>1 DEF DependInv

LEMMA StoreKeeps ==
  ASSUME TypeOK, DependInv, NEW t, NEW status, StoreResult(t, status)
  PROVE  /\ succeeded \subseteq succeeded'
         /\ \A u \in Tasks : results'[u] = "success" => u \in succeeded'
  BY DEF StoreResult, DependInv, TypeOK

\* No step of a caller forgets a success.
LEMMA SuccessKept ==
  ASSUME TypeOK, DependInv, NEW c \in Callers, ThreadStep(c) \/ ProcessEnds(c) \/ Issue(c)
  PROVE  /\ succeeded \subseteq succeeded'
         /\ \A u \in Tasks : results'[u] = "success" => u \in succeeded'
         /\ UNCHANGED orphans
<1> USE DEF caller, history, ReadCursor
<1>1. CASE \E t, status : StoreResult(t, status)
  <2>1. UNCHANGED orphans
    BY DEF ThreadStep, ProcessEnds, Open, Write, Retry, Clear, Enter, Compile, Spend, Collect,
       Record, Charge, Judge, Signal, RecordCancelled, RecordVerified, Launch, Register, Unregister,
       Finish, DuplicateEnds, Issue, Execute, Resume, Cancel, Verify, RecordResult
  <2> QED
    BY <1>1, <2>1, StoreKeeps
<1>2. CASE Clear(c)
  <2>1. UNCHANGED <<succeeded, orphans>> /\ \E t : results' = [results EXCEPT ![t] = "none"]
    BY <1>2 DEF Clear
  <2> QED
    BY <2>1 DEF DependInv, TypeOK
<1>3. CASE UNCHANGED <<results, succeeded, orphans>>
  BY <1>3 DEF DependInv
<1>4. ASSUME NEW t \in Tasks,
             Launch(c, t) \/ Register(c, t) \/ Unregister(c, t) \/ Finish(c, t) \/ DuplicateEnds(c, t)
      PROVE  UNCHANGED <<results, succeeded, orphans>>
  BY <1>4 DEF Launch, Register, Unregister, Finish, DuplicateEnds
<1>5. CASE Open(c) \/ Write(c) \/ Retry(c) \/ Enter(c) \/ Compile(c) \/ Spend(c) \/ Collect(c)
             \/ Charge(c) \/ Judge(c) \/ Signal(c)
  BY <1>3, <1>5 DEF Open, Write, Retry, Enter, Compile, Spend, Collect, Charge, Judge, Signal
<1>6. CASE Record(c) \/ RecordCancelled(c) \/ RecordVerified(c)
  BY <1>1, <1>6 DEF Record, RecordCancelled, RecordVerified
<1>7. CASE Issue(c)
  <2>1. ASSUME NEW t \in Tasks, NEW status \in Reported, RecordResult(c, t, status)
        PROVE  \E u, x : StoreResult(u, x)
    BY <2>1 DEF RecordResult
  <2>2. CASE Execute(c) \/ Resume(c) \/ Cancel(c) \/ Verify(c)
    BY <2>2, <1>3 DEF Execute, Resume, Cancel, Verify
  <2> QED
    BY <1>1, <1>7, <2>1, <2>2 DEF Issue
<1> QED
  BY <1>2, <1>3, <1>4, <1>5, <1>6, <1>7 DEF ThreadStep, ProcessEnds

LEMMA DependStep == TypeOK /\ BatchInv /\ DependInv /\ [Next]_vars => DependInv'
<1> SUFFICES ASSUME TypeOK, BatchInv, DependInv, [Next]_vars
             PROVE  DependInv'
  OBVIOUS
<1>1. ASSUME NEW c \in Callers, Compile(c)
      PROVE  DependInv'
  <2>1. UNCHANGED <<results, succeeded, deps, orphans, planned>>
    BY <1>1 DEF Compile, history
  <2>2. \A t \in FirstBatch(ReadyTasks(results)) : deps[t] \subseteq succeeded
    BY DEF FirstBatch, ReadyTasks, DependInv, TypeOK
  <2>3. pc'[c] \in {"spend", "wait"} => tasks'[c] = FirstBatch(ReadyTasks(results))
    BY <1>1, GotoEffect, SaveEffect DEF Compile
  <2>4. \A d \in Callers \ {c} : pc'[d] = pc[d] /\ tasks'[d] = tasks[d]
    BY <1>1, CallerBatches DEF ThreadStep, Apart
  <2> QED
    BY <2>1, <2>2, <2>3, <2>4 DEF DependInv
<1>2. ASSUME NEW c \in Callers, ThreadStep(c) \/ ProcessEnds(c) \/ Issue(c), ~Compile(c)
      PROVE  DependInv'
  <2>1. pc'[c] \in {"spend", "wait"} => pc[c] \in {"spend", "wait"} /\ tasks'[c] = tasks[c]
    BY <1>2, BatchOrigin
  <2>2. planned /\ \A d \in Callers \ {c} : pc'[d] = pc[d] /\ tasks'[d] = tasks[d]
    BY <1>2, CallerBatches, CommandBatches DEF Apart
  <2>3. /\ succeeded \subseteq succeeded'
        /\ \A u \in Tasks : results'[u] = "success" => u \in succeeded'
        /\ UNCHANGED orphans
    BY <1>2, SuccessKept
  <2>4. planned' /\ deps' = deps
    BY <2>2, PlanKept
  <2> QED
    BY <2>1, <2>2, <2>3, <2>4, DependKept
<1>3. CASE Plan
  <2>1. UNCHANGED <<pc, orphans, results, succeeded>>
    BY <1>3 DEF Plan, caller, history
  <2> QED
    BY <1>3, <2>1 DEF Plan, DependInv, BatchInv
<1>4. CASE UNCHANGED vars \/ \E t \in Tasks : OrphanEnds(t)
  <2>1. /\ UNCHANGED <<pc, tasks, deps, planned, results, succeeded>>
        /\ orphans' \subseteq orphans
    BY <1>4 DEF vars, OrphanEnds, caller, history
  <2> QED
    BY <2>1, DependKept DEF DependInv
<1>5. ASSUME NEW s \in Services, Crash(s)
      PROVE  DependInv'
  <2>1. UNCHANGED <<deps, planned, results, succeeded>>
    BY <1>5 DEF Crash, history
  <2>2. /\ planned
        /\ \A d \in Callers : pc'[d] \in {"spend", "wait"} => pc'[d] = pc[d] /\ tasks'[d] = tasks[d]
        /\ \A t \in orphans' : t \in orphans \/ \E d \in Callers : runs[d][t] \in Live
    BY <1>5 DEF Crash, BatchInv, TypeOK
  <2>3. \A d \in Callers, t \in Tasks : runs[d][t] \in Live => deps[t] \subseteq succeeded
    BY DEF BatchInv, BatchOf, DependInv
  <2>4. orphans' \subseteq Tasks
    BY <1>5 DEF Crash, TypeOK
  <2> QED
    BY <2>1, <2>2, <2>3, <2>4 DEF DependInv
<1> QED
  BY <1>1, <1>2, <1>3, <1>4, <1>5 DEF Next

(* A provider process works on a task only after each dependency of the     *)
(* task succeeded, whatever cancels, retries and kills came between.        *)
THEOREM DependenciesAlwaysFirst == Spec => []DependenciesFirst
<1>1. Init => DependInv
  BY DEF Init, DependInv
<1>2. TypeOK /\ BatchInv /\ DependInv => DependenciesFirst
  BY DEF BatchInv, BatchOf, DependInv, DependenciesFirst
<1> QED
  BY <1>1, <1>2, BatchesCorrect, DependStep, PTL DEF Spec

-----------------------------------------------------------------------------
(* Interrupts: a saved interrupt stays on disk, or makes the cursor          *)
(* unreadable, until a caller writes that may; and everyone past the head of *)
(* _execute_with_policy entered while none was there, or is behind.          *)

\* The steps of an executor that found no interrupt.
Entered == {"compile", "spend", "wait", "record", "charge", "judge"}

\* c may save a cursor without interrupt, or goes on as if there was none.
Clean(c) ==
  \/ pc[c] \in Entered
  \/ pc[c] \in {"open", "write"} /\ ~read[c].save.interrupt /\ read[c].for # "resume"

InterruptInv ==
  /\ interrupted /\ cursor.text = "whole" => cursor.interrupt
  /\ \A c \in Callers : Clean(c) => c \in behind \/ ~interrupted

\* A step of c that leaves the cursor and its history alone and only goes on from clean.
LEMMA InterruptKept ==
  ASSUME TypeOK, InterruptInv, UNCHANGED <<cursor, interrupted, behind>>,
         \A c \in Callers : Clean(c)' => Clean(c)
  PROVE  InterruptInv'
  BY DEF InterruptInv

\* What a step of c leaves of the others.
LEMMA CleanApart ==
  ASSUME NEW c \in Callers, Apart(c)
  PROVE  \A d \in Callers \ {c} : Clean(d)' <=> Clean(d)
  BY DEF Apart, Clean

LEMMA SaveClean ==
  ASSUME TypeOK, NEW c \in Callers, NEW i, NEW p, NEW f, Save(c, Kept(i, p), f)
  PROVE  Clean(c)' <=> ~i /\ f # "resume"
<1>1. Kept(i, p).interrupt = i
  BY DEF Kept
<1> QED
  BY <1>1, SaveEffect DEF Clean, Entered

LEMMA GotoClean ==
  ASSUME TypeOK, NEW c \in Callers, NEW step, NEW S, NEW seen, Goto(c, step, S, seen),
         step \notin {"open", "write"}
  PROVE  Clean(c)' <=> step \in Entered
  BY GotoEffect DEF Clean, Entered

\* The steps that neither read nor write the cursor keep it.
LEMMA InterruptApart ==
  ASSUME TypeOK, BatchInv, InterruptInv, NEW c \in Callers,
         ThreadStep(c) \/ ProcessEnds(c) \/ Issue(c),
         ~(Open(c) \/ Write(c) \/ Enter(c) \/ Execute(c) \/ Resume(c))
  PROVE  InterruptInv' /\ ~(pc[c] = "enter" /\ pc'[c] = "compile")
<1> USE DEF caller, history
<1>1. UNCHANGED <<cursor, interrupted, behind>>
  <2>1. ASSUME NEW t \in Tasks,
               Launch(c, t) \/ Register(c, t) \/ Unregister(c, t) \/ Finish(c, t) \/ DuplicateEnds(c, t)
        PROVE  UNCHANGED <<cursor, interrupted, behind>>
    BY <2>1 DEF Launch, Register, Unregister, Finish, DuplicateEnds
  <2>2. ASSUME NEW t \in Tasks, NEW status \in Reported, RecordResult(c, t, status)
        PROVE  UNCHANGED <<cursor, interrupted, behind>>
    BY <2>2 DEF RecordResult, StoreResult
  <2>3. CASE \/ Retry(c) \/ Clear(c) \/ Compile(c) \/ Spend(c) \/ Collect(c) \/ Record(c) \/ Charge(c)
             \/ Judge(c) \/ Signal(c) \/ RecordCancelled(c) \/ RecordVerified(c)
             \/ Cancel(c) \/ Verify(c)
    BY <2>3 DEF Retry, Clear, Compile, Spend, Collect, Record, Charge, Judge, Signal,
                RecordCancelled, RecordVerified, Cancel, Verify, StoreResult
  <2> QED
    BY <2>1, <2>2, <2>3 DEF ThreadStep, ProcessEnds, Issue
<1>2. Clean(c)' => Clean(c)
  <2>1. ASSUME NEW t \in Tasks,
               Launch(c, t) \/ Register(c, t) \/ Unregister(c, t) \/ Finish(c, t) \/ DuplicateEnds(c, t)
        PROVE  Clean(c)' => Clean(c)
    BY <2>1 DEF Launch, Register, Unregister, Finish, DuplicateEnds, Clean
  <2>2. ASSUME NEW t \in Tasks, NEW status \in Reported, RecordResult(c, t, status)
        PROVE  Clean(c)' => Clean(c)
    BY <2>2 DEF RecordResult, Clean
  <2>3. CASE Compile(c) \/ Spend(c) \/ Collect(c) \/ Record(c) \/ Charge(c) \/ Judge(c)
    BY <2>3 DEF Compile, Spend, Collect, Record, Charge, Judge, Clean, Entered
  <2>4. CASE Retry(c) \/ Clear(c)
    <3>1. CASE Save(c, Kept(FALSE, TRUE), "resume")
      BY <3>1, SaveClean
    <3>2. ASSUME NEW S, NEW seen, Goto(c, "clear", S, seen)
          PROVE  ~Clean(c)'
      BY <3>2, GotoClean DEF Entered
    <3> QED
      BY <2>4, <3>1, <3>2 DEF Retry, Clear
  <2>5. CASE Signal(c) \/ RecordCancelled(c) \/ RecordVerified(c) \/ Cancel(c) \/ Verify(c)
    <3>1. \E step \in {"idle", "stop", "cancel", "verify"} : \E S, seen : Goto(c, step, S, seen)
      BY <2>5 DEF Signal, RecordCancelled, RecordVerified, Cancel, Verify, Return
    <3> QED
      BY <3>1, GotoClean DEF Entered
  <2> QED
    BY <2>1, <2>2, <2>3, <2>4, <2>5 DEF ThreadStep, ProcessEnds, Issue
<1>3. \A d \in Callers : Clean(d)' => Clean(d)
  BY <1>2, CallerBatches, CommandBatches, CleanApart
<1>4. pc[c] # "enter" \/ UNCHANGED pc
  BY DEF ThreadStep, ProcessEnds, Retry, Clear, Compile, Spend, Collect, Record, Charge, Judge,
       Signal, RecordCancelled, RecordVerified, Launch, Register, Unregister, Finish, DuplicateEnds,
       Issue, Command, Cancel, Verify, RecordResult
<1> QED
  BY <1>1, <1>3, <1>4, InterruptKept

LEMMA InterruptStep ==
  TypeOK /\ BatchInv /\ InterruptInv /\ [Next]_vars =>
     /\ InterruptInv'
     /\ \A c \in Callers : pc[c] = "enter" /\ pc'[c] = "compile" => ~interrupted
<1> SUFFICES ASSUME TypeOK, BatchInv, InterruptInv, [Next]_vars
             PROVE  /\ InterruptInv'
                    /\ \A c \in Callers : pc[c] = "enter" /\ pc'[c] = "compile" => ~interrupted
  OBVIOUS
<1> DEFINE Held == \A c \in Callers : pc[c] = "enter" /\ pc'[c] = "compile" => ~interrupted
<1>0. ASSUME NEW c \in Callers, Apart(c), ~(pc[c] = "enter" /\ pc'[c] = "compile")
      PROVE  Held
  BY <1>0 DEF Apart
<1>1. ASSUME NEW c \in Callers, Open(c)
      PROVE  InterruptInv' /\ Held
  <2>1. /\ UNCHANGED <<interrupted, behind>> /\ cursor'.text = "empty"
        /\ pc[c] = "open" /\ pc'[c] = "write" /\ read'[c] = read[c]
    BY <1>1, GotoEffect DEF Open, history, Unreadable
  <2>2. Clean(c)' => Clean(c)
    BY <2>1 DEF Clean, Entered
  <2>3. Apart(c)
    BY <1>1, CursorBatches
  <2> QED
    BY <1>0, <2>1, <2>2, <2>3, CleanApart DEF InterruptInv
<1>2. ASSUME NEW c \in Callers, Write(c)
      PROVE  InterruptInv' /\ Held
  <2>1. Apart(c)
    BY <1>2, CursorBatches
  <2>2. pc[c] = "write" /\ pc'[c] \in {"idle", "enter"}
    BY <1>2, GotoEffect DEF Write, Return
  <2>3. ~Clean(c)'
    BY <2>2 DEF Clean, Entered
  <2>4. CASE read[c].save.interrupt /\ behind' = Callers /\ cursor'.interrupt
    BY <1>0, <2>1, <2>2, <2>4 DEF InterruptInv
  <2>5. CASE /\ ~read[c].save.interrupt /\ behind' = behind
             /\ interrupted' = (interrupted /\ c \notin behind /\ read[c].for # "resume")
    <3>1. ~interrupted'
      BY <2>2, <2>5 DEF InterruptInv, Clean
    <3> QED
      BY <1>0, <2>1, <2>2, <3>1 DEF InterruptInv
  <2>6. CASE cursor'.text = "torn" /\ UNCHANGED <<interrupted, behind>>
    BY <1>0, <2>1, <2>2, <2>3, <2>6, CleanApart DEF InterruptInv
  <2> QED
    BY <1>2, <2>4, <2>5, <2>6 DEF Write, Unreadable
<1>3. ASSUME NEW c \in Callers, Enter(c)
      PROVE  InterruptInv' /\ Held
  <2>1. Apart(c) /\ UNCHANGED cursor
    BY <1>3, CursorBatches DEF Enter
  <2>2. CASE /\ cursor.text = "whole" /\ behind' = behind \ {c} /\ interrupted' = interrupted
             /\ ~cursor.interrupt
    <3>1. ~interrupted
      BY <2>2 DEF InterruptInv
    <3> QED
      BY <2>1, <2>2, <3>1 DEF InterruptInv
  <2>3. CASE pc'[c] = "idle" /\ behind \ {c} \subseteq behind' /\ interrupted' = interrupted
    <3>1. ~Clean(c)'
      BY <2>3 DEF Clean, Entered
    <3>2. InterruptInv'
      BY <2>1, <2>3, <3>1, CleanApart DEF InterruptInv
    <3> QED
      BY <1>0, <2>1, <2>3, <3>2
  <2>4. \/ /\ cursor.text = "whole" /\ behind' = behind \ {c} /\ interrupted' = interrupted
           /\ ~cursor.interrupt
        \/ pc'[c] = "idle" /\ behind \ {c} \subseteq behind' /\ interrupted' = interrupted
    BY <1>3, GotoEffect DEF Enter, ReadCursor, InterruptSeen, Return, history
  <2> QED
    BY <2>2, <2>3, <2>4
<1>4. ASSUME NEW c \in Callers, Execute(c) \/ Resume(c)
      PROVE  InterruptInv' /\ Held
  <2>1. Apart(c)
    BY <1>4, CommandBatches DEF Issue
  <2>2. /\ UNCHANGED <<cursor, interrupted>> /\ cursor.text = "whole" /\ behind' = behind \ {c}
        /\ pc[c] = "idle"
    BY <1>4 DEF Execute, Resume, ReadCursor, Command
  <2>3. Clean(c)' => ~cursor.interrupt
    <3>1. CASE Save(c, Kept(cursor.interrupt, TRUE), "execute")
      BY <3>1, SaveClean
    <3>2. CASE Save(c, Kept(FALSE, TRUE), "resume")
      BY <3>2, SaveClean
    <3>3. CASE Goto(c, "retry", {}, Nothing)
      BY <3>3, GotoClean DEF Entered
    <3> QED
      BY <1>4, <3>1, <3>2, <3>3 DEF Execute, Resume
  <2>4. InterruptInv'
    BY <2>1, <2>2, <2>3, CleanApart DEF InterruptInv
  <2> QED
    BY <1>0, <2>1, <2>2, <2>4
<1>5. ASSUME NEW c \in Callers, ThreadStep(c) \/ ProcessEnds(c) \/ Issue(c),
             ~(Open(c) \/ Write(c) \/ Enter(c) \/ Execute(c) \/ Resume(c))
      PROVE  InterruptInv' /\ Held
  BY <1>0, <1>5, InterruptApart, CallerBatches, CommandBatches
<1>6. CASE Plan \/ UNCHANGED vars \/ \E t \in Tasks : OrphanEnds(t)
  <2>1. UNCHANGED <<pc, read, cursor, interrupted, behind>>
    BY <1>6 DEF Plan, vars, OrphanEnds, caller, history
  <2> QED
    BY <2>1, InterruptKept DEF Clean
<1>7. ASSUME NEW s \in Services, Crash(s)
      PROVE  InterruptInv' /\ Held
  <2>1. /\ UNCHANGED <<cursor, interrupted, behind>>
        /\ \A d \in Callers : pc'[d] = "idle" \/ (pc'[d] = pc[d] /\ read'[d] = read[d])
    BY <1>7 DEF Crash, history
  <2>2. \A d \in Callers : Clean(d)' => Clean(d)
    BY <2>1 DEF Clean, Entered
  <2> QED
    BY <2>1, <2>2, InterruptKept
<1> QED
  BY <1>1, <1>2, <1>3, <1>4, <1>5, <1>6, <1>7 DEF Next

(* An executor goes past a saved interrupt only after a resume that found a  *)
(* policy, or a caller that had read the cursor before, saved over it.       *)
THEOREM InterruptAlwaysHeld == Spec => InterruptHeld
<1>1. Init => InterruptInv
  BY DEF Init, InterruptInv, Clean, Entered
<1>2. TypeOK /\ BatchInv /\ InterruptInv /\ [Next]_vars => InterruptInv'
  BY InterruptStep
<1>3. TypeOK /\ BatchInv /\ InterruptInv /\ [Next]_vars
        => [\A c \in Callers : pc[c] = "enter" /\ pc'[c] = "compile" => ~interrupted]_vars
  BY InterruptStep
<1> QED
  BY <1>1, <1>2, <1>3, BatchesCorrect, PTL DEF Spec, InterruptHeld

-----------------------------------------------------------------------------
(* Usage: a process that ended and is not billed yet can be billed once. *)

\* The tasks of a batch whose usage line is still to come.
Left(c) == IF pc[c] = "judge" THEN tasks[c] \ {First(tasks[c])} ELSE tasks[c]

Unbilled(t) == {c \in Callers : pc[c] \in Dispatching /\ t \in Left(c) /\ runs[c][t] \in Outcomes}

UsageInv == \A t \in Tasks : usage[t] + Cardinality(Unbilled(t)) <= ended[t]

LEMMA UnbilledFinite ==
  /\ \A t : IsFiniteSet(Unbilled(t)) /\ Cardinality(Unbilled(t)) \in Nat
  /\ \A t : IsFiniteSet(Unbilled(t)') /\ Cardinality(Unbilled(t)') \in Nat
<1>1. \A S \in SUBSET Callers : IsFiniteSet(S) /\ Cardinality(S) \in Nat
  BY TaskAssumption, FS_Subset, FS_CardinalityType
<1>2. \A t : Unbilled(t) \in SUBSET Callers /\ Unbilled(t)' \in SUBSET Callers
  BY DEF Unbilled
<1> QED
  BY <1>1, <1>2

\* Where no process ends and no usage line is written, the bound is kept.
LEMMA UsageKept ==
  ASSUME TypeOK, UsageInv, NEW t \in Tasks, usage'[t] = usage[t], ended'[t] = ended[t],
         Unbilled(t)' \subseteq Unbilled(t)
  PROVE  usage'[t] + Cardinality(Unbilled(t)') <= ended'[t]
<1>1. Cardinality(Unbilled(t)') <= Cardinality(Unbilled(t))
  BY UnbilledFinite, FS_Subset
<1>2. usage[t] \in Nat /\ ended[t] \in Nat
  BY DEF TypeOK
<1> QED
  BY <1>1, <1>2, UnbilledFinite DEF UsageInv

\* A step of c bills nobody else and makes nobody else billable.
LEMMA OthersUnbilled ==
  ASSUME NEW c \in Callers, Apart(c), NEW t \in Tasks
  PROVE  Unbilled(t)' \ {c} \subseteq Unbilled(t)
<1>1. \A d \in Callers \ {c} : Left(d)' = Left(d)
  BY DEF Apart, Left
<1> QED
  BY <1>1 DEF Unbilled, Apart

\* Who was not in a batch has no process that could be billed.
LEMMA OutsideUnbilled ==
  ASSUME BatchInv, NEW c \in Callers, NEW t \in Tasks, pc[c] \notin Dispatching, UNCHANGED runs
  PROVE  c \notin Unbilled(t)'
<1>1. runs'[c][t] = "none"
  BY DEF BatchInv, BatchOf
<1> QED
  BY <1>1 DEF Unbilled, Outcomes

LEMMA ChargeBills ==
  ASSUME TypeOK, BatchInv, UsageInv, NEW t \in Tasks, NEW c \in Callers, Charge(c)
  PROVE  usage'[t] + Cardinality(Unbilled(t)') <= ended'[t]
<1> DEFINE f == First(tasks[c])
<1>0. usage[t] \in Nat /\ ended[t] \in Nat /\ tasks[c] \in SUBSET Tasks
  BY DEF TypeOK
<1>1. pc[c] = "charge" /\ f \in tasks[c] /\ f \in Tasks
  BY <1>0, FirstIn DEF Charge, BatchInv, BatchOf, Dispatching
<1>2. usage' = [usage EXCEPT ![f] = @ + 1] /\ ended' = ended /\ runs' = runs
  BY DEF Charge, UsageLine, history
<1>3. Unbilled(t)' \ {c} \subseteq Unbilled(t)
  BY ResultBatches, OthersUnbilled
<1>4. pc'[c] = "judge" /\ tasks'[c] = tasks[c]
  BY GotoEffect DEF Charge
<1>5. c \in Unbilled(t)' => t \in tasks[c] \ {f}
  BY <1>4 DEF Unbilled, Left
<1>6. t \in tasks[c] /\ runs[c][t] \in Outcomes => c \in Unbilled(t)
  BY <1>1 DEF Unbilled, Left, Dispatching
<1>7. CASE t # f
  <2>1. Unbilled(t)' \subseteq Unbilled(t)
    BY <1>2, <1>3, <1>5, <1>6 DEF Unbilled
  <2>2. usage'[t] = usage[t]
    BY <1>2, <1>7 DEF TypeOK
  <2> QED
    BY <1>2, <2>1, <2>2, UsageKept
<1>8. CASE t = f
  <2>1. Unbilled(t)' \subseteq Unbilled(t) \ {c}
    BY <1>3, <1>5, <1>8
  <2>2. c \in Unbilled(t)
    BY <1>1, <1>6, <1>8 DEF BatchInv, BatchOf, Recording
  <2>3. Cardinality(Unbilled(t) \ {c}) = Cardinality(Unbilled(t)) - 1
        /\ IsFiniteSet(Unbilled(t) \ {c})
    BY <2>2, UnbilledFinite, FS_RemoveElement
  <2>4. Cardinality(Unbilled(t)') <= Cardinality(Unbilled(t)) - 1
    BY <2>1, <2>3, FS_Subset
  <2>5. usage'[t] = usage[t] + 1
    BY <1>2, <1>8, <1>1 DEF TypeOK
  <2> QED
    BY <1>0, <1>2, <2>4, <2>5, UnbilledFinite DEF UsageInv
<1> QED
  BY <1>7, <1>8

LEMMA FinishBills ==
  ASSUME TypeOK, BatchInv, UsageInv, NEW t \in Tasks, NEW c \in Callers, NEW u \in Tasks,
         Finish(c, u)
  PROVE  usage'[t] + Cardinality(Unbilled(t)') <= ended'[t]
<1>0. usage[t] \in Nat /\ ended[t] \in Nat
  BY DEF TypeOK
<1>1. UNCHANGED <<usage, pc, tasks>> /\ ended' = [ended EXCEPT ![u] = @ + 1]
  BY DEF Finish, caller
<1>2. PICK x : runs' = [runs EXCEPT ![c][u] = x]
  BY DEF Finish
<1>3. \A d \in Callers : Left(d)' = Left(d)
  BY <1>1 DEF Left
<1>4. CASE t # u
  <2>1. Unbilled(t)' \subseteq Unbilled(t)
    BY <1>1, <1>2, <1>3, <1>4 DEF Unbilled, TypeOK
  <2> QED
    BY <1>1, <1>4, <2>1, UsageKept DEF TypeOK
<1>5. CASE t = u
  <2>1. Unbilled(t)' \subseteq Unbilled(t) \cup {c}
    BY <1>1, <1>2, <1>3 DEF Unbilled, TypeOK
  <2>2. /\ IsFiniteSet(Unbilled(t) \cup {c})
        /\ Cardinality(Unbilled(t) \cup {c}) =
             IF c \in Unbilled(t) THEN Cardinality(Unbilled(t)) ELSE Cardinality(Unbilled(t)) + 1
    BY UnbilledFinite, FS_AddElement, Zenon
  <2>3. Cardinality(Unbilled(t)') <= Cardinality(Unbilled(t) \cup {c})
    BY <2>1, <2>2, FS_Subset
  <2>4. Cardinality(Unbilled(t)') <= Cardinality(Unbilled(t)) + 1
    BY <2>2, <2>3, UnbilledFinite
  <2>5. ended'[t] = ended[t] + 1
    BY <1>1, <1>5 DEF TypeOK
  <2> QED
    BY <1>0, <1>1, <2>4, <2>5, UnbilledFinite DEF UsageInv
<1> QED
  BY <1>4, <1>5

\* The other steps make no process billable.
LEMMA StepBills ==
  ASSUME TypeOK, BatchInv, NEW t \in Tasks, NEW c \in Callers,
         ThreadStep(c) \/ ProcessEnds(c) \/ Issue(c), ~Charge(c), \A u \in Tasks : ~Finish(c, u)
  PROVE  UNCHANGED <<usage, ended>> /\ Unbilled(t)' \subseteq Unbilled(t)
<1> USE DEF caller, history, ReadCursor
<1>0. Unbilled(t)' \ {c} \subseteq Unbilled(t)
  BY CallerBatches, CommandBatches, OthersUnbilled
<1>1. CASE \/ Open(c) \/ Write(c) \/ Retry(c) \/ Clear(c) \/ Enter(c) \/ Compile(c) \/ Spend(c)
           \/ Signal(c) \/ RecordCancelled(c) \/ RecordVerified(c)
           \/ Execute(c) \/ Resume(c) \/ Cancel(c) \/ Verify(c)
  <2>1. UNCHANGED <<usage, ended, runs>>
    BY <1>1 DEF Open, Write, Retry, Clear, Enter, Compile, Spend, Signal, RecordCancelled,
                RecordVerified, Execute, Resume, Cancel, Verify, StoreResult
  <2>2. pc[c] \notin Dispatching
    BY <1>1 DEF Open, Write, Retry, Clear, Enter, Compile, Spend, Signal, RecordCancelled,
                RecordVerified, Execute, Resume, Cancel, Verify, Command, Dispatching
  <2> QED
    BY <1>0, <2>1, <2>2, OutsideUnbilled
<1>2. ASSUME NEW u \in Tasks, NEW status \in Reported, RecordResult(c, u, status)
      PROVE  UNCHANGED <<usage, ended>> /\ c \notin Unbilled(t)'
  <2>1. UNCHANGED <<usage, ended, runs>> /\ pc[c] \notin Dispatching
    BY <1>2 DEF RecordResult, StoreResult, Command, Dispatching
  <2> QED
    BY <2>1, OutsideUnbilled
<1>3. ASSUME NEW u \in Tasks,
             Launch(c, u) \/ Register(c, u) \/ Unregister(c, u) \/ DuplicateEnds(c, u)
      PROVE  UNCHANGED <<usage, ended>> /\ (c \in Unbilled(t)' => c \in Unbilled(t))
  <2>1. UNCHANGED <<usage, ended, pc, tasks>>
    BY <1>3 DEF Launch, Register, Unregister, DuplicateEnds
  <2>2. \/ runs' = runs
        \/ \E x \in {"launched", "running", "duplicate", "error"} : runs' = [runs EXCEPT ![c][u] = x]
    BY <1>3 DEF Launch, Register, Unregister, DuplicateEnds
  <2>3. runs'[c][t] \in Outcomes => runs[c][t] \in Outcomes
    BY <2>2 DEF TypeOK, Outcomes
  <2>4. Left(c)' = Left(c)
    BY <2>1 DEF Left
  <2> QED
    BY <2>1, <2>3, <2>4 DEF Unbilled
<1>4. CASE Collect(c) \/ Record(c)
  <2>1. UNCHANGED <<usage, ended>> /\ pc[c] \in {"wait", "record"}
    BY <1>4 DEF Collect, Record, StoreResult
  <2>2. Left(c) = tasks[c]
    BY <2>1 DEF Left
  <2>3. \/ pc'[c] = "idle"
        \/ pc'[c] \in {"record", "charge"} /\ tasks'[c] = tasks[c] /\ runs' = runs
    BY <1>4, GotoEffect DEF Collect, Record, Return
  <2>4. c \in Unbilled(t)' => c \in Unbilled(t)
    BY <2>1, <2>2, <2>3 DEF Unbilled, Left, Dispatching
  <2> QED
    BY <1>0, <2>1, <2>4
<1>5. CASE Judge(c)
  <2>1. UNCHANGED <<usage, ended>> /\ pc[c] = "judge"
    BY <1>5 DEF Judge
  <2>2. \/ \E v, f : Save(c, v, f)
        \/ Goto(c, "record", tasks[c] \ {First(tasks[c])}, read[c]) /\ runs' = runs
    BY <1>5, Zenon DEF Judge
  <2>3. \/ pc'[c] = "open"
        \/ pc'[c] = "record" /\ tasks'[c] = Left(c) /\ runs' = runs
    BY <2>1, <2>2, GotoEffect, SaveEffect DEF Left
  <2>4. c \in Unbilled(t)' => c \in Unbilled(t)
    BY <2>1, <2>3 DEF Unbilled, Left, Dispatching
  <2> QED
    BY <1>0, <2>1, <2>4
<1> QED
  BY <1>0, <1>1, <1>2, <1>3, <1>4, <1>5 DEF ThreadStep, ProcessEnds, Issue

LEMMA UsageStep == TypeOK /\ BatchInv /\ UsageInv /\ [Next]_vars => UsageInv'
<1> SUFFICES ASSUME TypeOK, BatchInv, UsageInv, [Next]_vars, NEW t \in Tasks
             PROVE  usage'[t] + Cardinality(Unbilled(t)') <= ended'[t]
  BY DEF UsageInv
<1>1. ASSUME NEW c \in Callers, ThreadStep(c) \/ ProcessEnds(c) \/ Issue(c)
      PROVE  usage'[t] + Cardinality(Unbilled(t)') <= ended'[t]
  BY <1>1, ChargeBills, FinishBills, StepBills, UsageKept
<1>2. CASE Plan \/ UNCHANGED vars \/ \E u \in Tasks : OrphanEnds(u)
  <2>1. UNCHANGED <<usage, ended, pc, tasks, runs>>
    BY <1>2 DEF Plan, vars, OrphanEnds, caller, history
  <2>2. Unbilled(t)' = Unbilled(t)
    BY <2>1 DEF Unbilled, Left
  <2> QED
    BY <2>1, <2>2, UsageKept
<1>3. ASSUME NEW s \in Services, Crash(s)
      PROVE  usage'[t] + Cardinality(Unbilled(t)') <= ended'[t]
  <2>1. /\ UNCHANGED <<usage, ended>>
        /\ \A d \in Callers : \/ pc'[d] = "idle"
                              \/ pc'[d] = pc[d] /\ tasks'[d] = tasks[d] /\ runs'[d] = runs[d]
    BY <1>3 DEF Crash, history
  <2>2. Unbilled(t)' \subseteq Unbilled(t)
    BY <2>1 DEF Unbilled, Left, Dispatching
  <2> QED
    BY <2>1, <2>2, UsageKept
<1> QED
  BY <1>1, <1>2, <1>3 DEF Next

(* A task never has more usage lines than provider processes of it ended.    *)
THEOREM UsageAlwaysTraceable == Spec => []UsageTraceable
<1>1. Init => UsageInv
  <2> SUFFICES ASSUME Init, NEW t \in Tasks
               PROVE  usage[t] + Cardinality(Unbilled(t)) <= ended[t]
    BY DEF UsageInv
  <2>1. Unbilled(t) = {}
    BY DEF Init, Unbilled, Dispatching
  <2> QED
    BY <2>1, FS_EmptySet DEF Init
<1>2. TypeOK /\ UsageInv => UsageTraceable
  <2> SUFFICES ASSUME TypeOK, UsageInv, NEW t \in Tasks
               PROVE  usage[t] <= ended[t]
    BY DEF UsageTraceable
  <2>1. usage[t] \in Nat /\ ended[t] \in Nat
    BY DEF TypeOK
  <2> QED
    BY <2>1, UnbilledFinite DEF UsageInv
<1> QED
  BY <1>1, <1>2, BatchesCorrect, UsageStep, PTL DEF Spec

-----------------------------------------------------------------------------
(* Bounds: a compiled batch was cut to both limits, and in the registry of a *)
(* runtime a task has one process.                                           *)

Within(S) ==
  /\ Cardinality(S) <= MaximumParallel
  /\ \A p : Cardinality({u \in S : ProviderOf[u] = p}) <= PerProvider

BoundInv ==
  /\ \A c \in Callers : pc[c] \in {"spend", "wait"} => Within(tasks[c])
  /\ \A c, d \in Callers, t \in Tasks :
       <<c, t>> \in registry /\ <<d, t>> \in registry /\ ServiceOf[c] = ServiceOf[d] => c = d

LEMMA TasksFinite ==
  ASSUME NEW S \in SUBSET Tasks
  PROVE  IsFiniteSet(S) /\ Cardinality(S) \in Nat
<1>0. TaskCount \in Int /\ 1 \in Int
  BY TaskAssumption
<1>1. IsFiniteSet(Tasks)
  BY <1>0, FS_Interval, Zenon DEF Tasks
<1> QED
  BY <1>1, FS_Subset, FS_CardinalityType

(* At most n elements of a set of tasks have fewer than n elements below    *)
(* them: their ranks are different numbers below n.                         *)
LEMMA RanksBelow ==
  ASSUME NEW S \in SUBSET Tasks, NEW n \in Nat
  PROVE  Cardinality({t \in S : Cardinality({u \in S : u < t}) < n}) <= n
<1> DEFINE below(t) == {u \in S : u < t}
           R == {t \in S : Cardinality(below(t)) < n}
           rank == [t \in R |-> Cardinality(below(t))]
<1>0. S \subseteq Int
  BY TaskAssumption DEF Tasks
<1>1. \A t : IsFiniteSet(below(t)) /\ Cardinality(below(t)) \in Nat
  BY TasksFinite
<1>2. rank \in [R -> 0 .. (n - 1)]
  BY <1>1
<1>3. ASSUME NEW t \in R, NEW u \in R, t < u
      PROVE  rank[t] < rank[u]
  <2>1. below(t) \subseteq below(u) /\ t \in below(u) /\ t \notin below(t)
    <3>1. t \in S /\ u \in S
      BY <1>3
    <3>2. \A v \in S : v < t => v < u
      BY <1>0, <1>3, <3>1
    <3>3. ~(t < t)
      BY <1>0, <3>1
    <3> QED
      BY <1>3, <3>1, <3>2, <3>3
  <2> HIDE DEF below
  <2>2. Cardinality(below(t)) <= Cardinality(below(u)) /\ below(t) # below(u)
    BY <1>1, <2>1, FS_Subset
  <2>3. Cardinality(below(u)) # Cardinality(below(t))
    BY <1>1, <2>1, <2>2, FS_Subset
  <2> QED
    BY <1>1, <2>2, <2>3
<1>4. \A t, u \in R : rank[t] = rank[u] => t = u
  <2> SUFFICES ASSUME NEW t \in R, NEW u \in R, rank[t] = rank[u], t # u
               PROVE  FALSE
    OBVIOUS
  <2>1. t < u \/ u < t
    BY <1>0
  <2>2. rank[t] \in Int /\ rank[u] \in Int
    BY <1>2
  <2> HIDE DEF rank
  <2> QED
    BY <1>3, <2>1, <2>2
<1>5. rank \in Injection(R, 0 .. (n - 1))
  BY <1>2, <1>4 DEF Injection, IsInjective
<1>6. IsFiniteSet(0 .. (n - 1)) /\ Cardinality(0 .. (n - 1)) = n
  BY FS_Interval
<1> HIDE DEF R, rank, below
<1>7. Cardinality(R) <= n
  BY <1>5, <1>6, FS_Injection
<1> QED
  BY <1>7 DEF R, below

(* ready_tasks never returns more than the parallelism of the plan, and     *)
(* _split_batch cuts it to the limit of every provider.                     *)
LEMMA BatchBounds ==
  ASSUME TypeOK, NEW p
  PROVE  LET batch == FirstBatch(ReadyTasks(results)) IN
         /\ Cardinality(batch) <= MaximumParallel
         /\ Cardinality({u \in batch : ProviderOf[u] = p}) <= PerProvider
<1> DEFINE inFlight == {t \in Tasks : results[t] = "pending"}
           free == {t \in Tasks : /\ results[t] = "none"
                                  /\ \A d \in deps[t] : results[d] = "success"}
           ready == ReadyTasks(results)
           low == {t \in free : Cardinality({u \in free : u < t}) < MaximumParallel}
           S == {t \in ready : ProviderOf[t] = p}
           batch == FirstBatch(ready)
<1>1. Cardinality(low) <= MaximumParallel
  BY TaskAssumption, RanksBelow
<1>2. batch \subseteq low
  <2>1. Cardinality(inFlight) \in Nat
    BY TasksFinite
  <2>2. \A t : Cardinality({u \in free : u < t}) \in Nat
    BY TasksFinite
  <2>3. ready \subseteq low
    <3>1. \A n, k \in Nat : n < MaximumParallel - k => n < MaximumParallel
      BY TaskAssumption
    <3>2. ready = {t \in free : Cardinality({u \in free : u < t})
                                   < MaximumParallel - Cardinality(inFlight)}
      BY DEF ReadyTasks
    <3> HIDE DEF ready, inFlight, free
    <3> QED
      BY <2>1, <2>2, <3>1, <3>2
  <2> QED
    BY <2>3 DEF FirstBatch
<1>3. Cardinality(batch) <= MaximumParallel
  <2>1. IsFiniteSet(low) /\ Cardinality(low) \in Nat /\ Cardinality(batch) \in Nat
    BY <1>2, TasksFinite
  <2>2. Cardinality(batch) <= Cardinality(low)
    BY <1>2, <2>1, FS_Subset
  <2> QED
    BY <1>1, <2>1, <2>2, TaskAssumption
<1>4. S \in SUBSET Tasks
  BY DEF ReadyTasks
<1>5. {u \in batch : ProviderOf[u] = p} = {t \in S : Cardinality({u \in S : u < t}) < PerProvider}
  <2>1. \A t \in S : {u \in ready : u < t /\ ProviderOf[u] = ProviderOf[t]} = {u \in S : u < t}
    OBVIOUS
  <2> QED
    BY <2>1 DEF FirstBatch
<1>6. Cardinality({t \in S : Cardinality({u \in S : u < t}) < PerProvider}) <= PerProvider
  <2> HIDE DEF S
  <2> QED
    BY <1>4, TaskAssumption, RanksBelow
<1> QED
  BY <1>3, <1>5, <1>6

\* Only Register puts a process into a registry, and only where the task has none.
LEMMA RegistryStep ==
  ASSUME NEW c \in Callers, ThreadStep(c) \/ ProcessEnds(c) \/ Issue(c)
  PROVE  \/ registry' \subseteq registry
         \/ \E t \in Tasks : /\ t \notin Registered(ServiceOf[c])
                             /\ registry' = registry \cup {<<c, t>>}
<1>1. ASSUME NEW t \in Tasks, Register(c, t)
      PROVE  \/ registry' \subseteq registry
             \/ /\ t \notin Registered(ServiceOf[c])
                /\ registry' = registry \cup {<<c, t>>}
  BY <1>1 DEF Register
<1>2. ASSUME NEW t \in Tasks,
             Launch(c, t) \/ Unregister(c, t) \/ Finish(c, t) \/ DuplicateEnds(c, t)
      PROVE  registry' \subseteq registry
  BY <1>2 DEF Launch, Unregister, Finish, DuplicateEnds
<1>3. ASSUME NEW t \in Tasks, NEW status \in Reported, RecordResult(c, t, status)
      PROVE  UNCHANGED registry
  BY <1>3 DEF RecordResult
<1>4. CASE \/ Open(c) \/ Write(c) \/ Retry(c) \/ Clear(c) \/ Enter(c) \/ Compile(c) \/ Spend(c)
           \/ Collect(c) \/ Record(c) \/ Charge(c) \/ Judge(c)
           \/ Signal(c) \/ RecordCancelled(c) \/ RecordVerified(c)
           \/ Execute(c) \/ Resume(c) \/ Cancel(c) \/ Verify(c)
  BY <1>4 DEF Open, Write, Retry, Clear, Enter, Compile, Spend, Collect, Record, Charge, Judge,
       Signal, RecordCancelled, RecordVerified, Execute, Resume, Cancel, Verify
<1> QED
  BY <1>1, <1>2, <1>3, <1>4 DEF ThreadStep, ProcessEnds, Issue

LEMMA BoundStep == TypeOK /\ BatchInv /\ BoundInv /\ [Next]_vars => BoundInv'
<1> SUFFICES ASSUME TypeOK, BatchInv, BoundInv, [Next]_vars
             PROVE  BoundInv'
  OBVIOUS
<1> USE DEF caller
<1>0. ASSUME \A c \in Callers : pc'[c] \in {"spend", "wait"} => Within(tasks'[c]),
             registry' \subseteq registry
      PROVE  BoundInv'
  BY <1>0 DEF BoundInv, Within
<1>1. ASSUME NEW c \in Callers, ThreadStep(c) \/ ProcessEnds(c) \/ Issue(c)
      PROVE  BoundInv'
  <2>1. \A d \in Callers \ {c} : pc'[d] = pc[d] /\ tasks'[d] = tasks[d]
    BY <1>1, CallerBatches, CommandBatches DEF Apart
  <2>2. CASE Compile(c)
    <3>1. pc'[c] \in {"spend", "wait"} => tasks'[c] = FirstBatch(ReadyTasks(results))
      BY <2>2, GotoEffect, SaveEffect DEF Compile
    <3>2. Within(FirstBatch(ReadyTasks(results)))
      BY BatchBounds DEF Within
    <3>3. UNCHANGED registry
      BY <2>2 DEF Compile
    <3> QED
      BY <1>0, <2>1, <3>1, <3>2, <3>3 DEF BoundInv
  <2>3. ASSUME ~Compile(c)
        PROVE  \A d \in Callers : pc'[d] \in {"spend", "wait"} => Within(tasks'[d])
    BY <1>1, <2>1, <2>3, BatchOrigin DEF BoundInv
  <2>4. ASSUME ~Compile(c), NEW t \in Tasks, t \notin Registered(ServiceOf[c]),
               registry' = registry \cup {<<c, t>>}
        PROVE  BoundInv'
    <3>1. ASSUME NEW d \in Callers, NEW e \in Callers, NEW u \in Tasks,
                 <<d, u>> \in registry', <<e, u>> \in registry', ServiceOf[d] = ServiceOf[e]
          PROVE  d = e
      <4>1. \A f \in Callers : <<f, t>> \in registry => ServiceOf[f] # ServiceOf[c]
        BY <2>4 DEF Registered
      <4> QED
        BY <2>4, <3>1, <4>1 DEF BoundInv
    <3>2. \A d \in Callers : pc'[d] \in {"spend", "wait"} => Within(tasks'[d])
      BY <2>3, <2>4
    <3> QED
      BY <3>1, <3>2 DEF BoundInv, Within
  <2> QED
    BY <1>0, <1>1, <2>2, <2>3, <2>4, RegistryStep
<1>2. CASE Plan \/ UNCHANGED vars \/ \E t \in Tasks : OrphanEnds(t)
  <2>1. UNCHANGED <<pc, tasks, registry>>
    BY <1>2 DEF Plan, vars, OrphanEnds
  <2> QED
    BY <1>0, <2>1 DEF BoundInv
<1>3. ASSUME NEW s \in Services, Crash(s)
      PROVE  BoundInv'
  <2>1. /\ registry' \subseteq registry
        /\ \A d \in Callers : pc'[d] = "idle" \/ (pc'[d] = pc[d] /\ tasks'[d] = tasks[d])
    BY <1>3 DEF Crash
  <2> QED
    BY <1>0, <2>1 DEF BoundInv
<1> QED
  BY <1>1, <1>2, <1>3 DEF Next

(* The live processes of an executor, its duplicates included, stay within   *)
(* the plan's parallelism and the policy's limit per provider, and of the    *)
(* processes that executors of one runtime start for a task one at most is   *)
(* waited for to do its work.                                                *)
THEOREM BoundsAlwaysHold == Spec => []ExecutorBounds
<1>1. Init => BoundInv
  BY DEF Init, BoundInv
<1>2. TypeOK /\ BatchInv /\ BoundInv => ExecutorBounds
  <2> SUFFICES ASSUME TypeOK, BatchInv, BoundInv, NEW c \in Callers
               PROVE  LET live == {t \in Tasks : runs[c][t] \in Live} IN
                      /\ Cardinality(live) <= MaximumParallel
                      /\ \A t \in live :
                            /\ Cardinality({u \in live : ProviderOf[u] = ProviderOf[t]})
                                 <= PerProvider
                            /\ \A d \in Callers \ {c} :
                                  ServiceOf[c] = ServiceOf[d] =>
                                      ~(runs[c][t] = "running" /\ runs[d][t] = "running")
    BY DEF ExecutorBounds
  <2> DEFINE live == {t \in Tasks : runs[c][t] \in Live}
  <2>1. live \subseteq tasks[c] /\ (live # {} => pc[c] = "wait") /\ tasks[c] \in SUBSET Tasks
    BY DEF BatchInv, BatchOf, TypeOK
  <2>4. \A t \in Tasks, d \in Callers \ {c} : ServiceOf[c] = ServiceOf[d] =>
            ~(runs[c][t] = "running" /\ runs[d][t] = "running")
    BY DEF BatchInv, BatchOf, BoundInv
  <2>2. CASE live = {}
    <3>1. Cardinality(live) = 0
      BY <2>2, FS_EmptySet
    <3>2. Cardinality(live) <= MaximumParallel
      BY <3>1, TaskAssumption
    <3> QED
      BY <2>2, <3>2
  <2>3. CASE live # {}
    <3>1. /\ Cardinality(tasks[c]) <= MaximumParallel
          /\ \A p : Cardinality({u \in tasks[c] : ProviderOf[u] = p}) <= PerProvider
      BY <2>1, <2>3 DEF BoundInv, Within
    <3>2. Cardinality(live) <= Cardinality(tasks[c])
      BY <2>1, TasksFinite, FS_Subset
    <3>3. ASSUME NEW p
          PROVE  Cardinality({u \in live : ProviderOf[u] = p})
                   <= Cardinality({u \in tasks[c] : ProviderOf[u] = p})
      <4>1. {u \in live : ProviderOf[u] = p} \subseteq {u \in tasks[c] : ProviderOf[u] = p}
        BY <2>1
      <4>2. IsFiniteSet({u \in tasks[c] : ProviderOf[u] = p})
        BY <2>1, TasksFinite
      <4> QED
        BY <4>1, <4>2, FS_Subset
    <3>4. /\ Cardinality(live) \in Nat /\ Cardinality(tasks[c]) \in Nat
          /\ \A p : /\ Cardinality({u \in live : ProviderOf[u] = p}) \in Nat
                    /\ Cardinality({u \in tasks[c] : ProviderOf[u] = p}) \in Nat
      BY <2>1, TasksFinite
    <3>5. /\ Cardinality(live) <= MaximumParallel
          /\ \A p : Cardinality({u \in live : ProviderOf[u] = p}) <= PerProvider
      <4>1. MaximumParallel \in Nat /\ PerProvider \in Nat
        BY TaskAssumption
      <4>2. Cardinality(live) <= MaximumParallel
        BY <3>1, <3>2, <3>4, <4>1
      <4>3. ASSUME NEW p
            PROVE  Cardinality({u \in live : ProviderOf[u] = p}) <= PerProvider
        <5> DEFINE few == Cardinality({u \in live : ProviderOf[u] = p})
                   many == Cardinality({u \in tasks[c] : ProviderOf[u] = p})
        <5>1. few <= many /\ many <= PerProvider /\ few \in Nat /\ many \in Nat
          BY <3>1, <3>3, <3>4
        <5> HIDE DEF few, many
        <5>2. few <= PerProvider
          BY <4>1, <5>1
        <5> QED
          BY <5>2 DEF few
      <4> QED
        BY <4>2, <4>3
    <3> QED
      BY <2>4, <3>5
  <2> QED
    BY <2>2, <2>3
<1> QED
  BY <1>1, <1>2, BatchesCorrect, BoundStep, PTL DEF Spec

-----------------------------------------------------------------------------
(* The plan is never stuck. *)

\* A path of the walk, and the task the walk is at.
Walks == (SUBSET Tasks) \X Tasks

(* The walks of which a step leads back to the path or into X. *)
Leading(d, X) ==
  {w \in Walks : w[2] \in w[1] \/ \E u \in d[w[2]] : <<w[1] \cup {w[2]}, u>> \in X}

(* The depth-first walk is a function: the least set of walks that holds    *)
(* every walk leading into it.                                              *)
LEMMA VisitExists ==
  ASSUME NEW d \in [Tasks -> SUBSET Tasks]
  PROVE  \E v : v = [path \in SUBSET Tasks |->
                       {t \in Tasks : t \in path \/ \E u \in d[t] : u \in v[path \cup {t}]}]
<1> DEFINE Closed == {X \in SUBSET Walks : Leading(d, X) \subseteq X}
           L == {w \in Walks : \A X \in Closed : w \in X}
           v == [path \in SUBSET Tasks |-> {t \in Tasks : <<path, t>> \in L}]
<1>1. ASSUME NEW X \in SUBSET Walks, NEW Y \in SUBSET Walks, X \subseteq Y
      PROVE  Leading(d, X) \subseteq Leading(d, Y) /\ Leading(d, X) \in SUBSET Walks
  BY <1>1 DEF Leading
<1>2. L \in SUBSET Walks /\ \A X \in Closed : L \subseteq X
  OBVIOUS
<1>3. Leading(d, L) \subseteq L
  <2>1. ASSUME NEW X \in Closed
        PROVE  Leading(d, L) \subseteq X
    BY <1>1, <1>2
  <2>2. Leading(d, L) \in SUBSET Walks
    BY <1>1, <1>2
  <2> QED
    BY <2>1, <2>2
<1>4. L \subseteq Leading(d, L)
  <2>1. Leading(d, L) \in SUBSET Walks /\ Leading(d, Leading(d, L)) \subseteq Leading(d, L)
    BY <1>1, <1>2, <1>3
  <2>2. Leading(d, L) \in Closed
    BY <2>1
  <2> QED
    BY <1>2, <2>2
<1> HIDE DEF L
<1>5. ASSUME NEW P \in SUBSET Tasks, NEW t \in Tasks
      PROVE  <<P, t>> \in L <=> t \in P \/ \E u \in d[t] : <<P \cup {t}, u>> \in L
  <2>1. <<P, t>> \in L <=> <<P, t>> \in Leading(d, L)
    BY <1>3, <1>4
  <2> QED
    BY <2>1 DEF Leading, Walks
<1>6. ASSUME NEW P \in SUBSET Tasks
      PROVE  v[P] = {t \in Tasks : t \in P \/ \E u \in d[t] : u \in v[P \cup {t}]}
  <2>1. ASSUME NEW t \in Tasks
        PROVE  t \in v[P] <=> t \in P \/ \E u \in d[t] : u \in v[P \cup {t}]
    <3>1. t \in v[P] <=> <<P, t>> \in L
      OBVIOUS
    <3>2. \A u \in d[t] : u \in v[P \cup {t}] <=> <<P \cup {t}, u>> \in L
      OBVIOUS
    <3> HIDE DEF v
    <3> QED
      BY <1>5, <3>1, <3>2
  <2>2. v[P] \subseteq Tasks
    OBVIOUS
  <2> HIDE DEF v
  <2> QED
    BY <2>1, <2>2
<1>7. v = [path \in SUBSET Tasks |->
             {t \in Tasks : t \in path \/ \E u \in d[t] : u \in v[path \cup {t}]}]
  <2>1. v = [path \in SUBSET Tasks |-> v[path]]
    OBVIOUS
  <2> HIDE DEF v
  <2> QED
    BY <1>6, <2>1, Zenon
<1> QED
  BY <1>7, Zenon

(* The walk from every task of a set all of whose tasks depend on one of it *)
(* closes a cycle: it would have to leave a finite set of tasks.            *)
LEMMA WaitingCycle ==
  ASSUME NEW d \in [Tasks -> SUBSET Tasks], NEW U \in SUBSET Tasks,
         \A t \in U : d[t] \cap U # {}
  PROVE  U \subseteq CycleFrom(d)
<1> DEFINE visit == CHOOSE visit : visit = [path \in SUBSET Tasks |->
              {t \in Tasks : t \in path \/ \E u \in d[t] : u \in visit[path \cup {t}]}]
<1>1. visit = [path \in SUBSET Tasks |->
              {t \in Tasks : t \in path \/ \E u \in d[t] : u \in visit[path \cup {t}]}]
  BY VisitExists, Zenon
<1>2. CycleFrom(d) = visit[{}]
  BY Zenon DEF CycleFrom
<1> HIDE DEF visit
<1>3. \A P \in SUBSET Tasks :
        visit[P] = {t \in Tasks : t \in P \/ \E u \in d[t] : u \in visit[P \cup {t}]}
  BY <1>1
<1> DEFINE Bad == {n \in Nat : \E P \in SUBSET Tasks : Cardinality(Tasks \ P) = n /\ ~(U \subseteq visit[P])}
           R == {p \in Nat \X Nat : p[1] < p[2]}
<1>4. Bad = {}
  <2>1. SUFFICES ASSUME Bad # {}
                 PROVE  FALSE
    OBVIOUS
  <2>2. R = OpToRel(<, Nat)
    BY Zenon DEF OpToRel
  <2>3. IsWellFoundedOn(R, Nat)
    BY <2>2, NatLessThanWellFounded, Zenon
  <2>4. PICK n \in Bad : \A m \in Bad : ~(<<m, n>> \in R)
    <3>1. Bad \subseteq Nat
      OBVIOUS
    <3> HIDE DEF R, Bad
    <3> QED
      BY <2>1, <2>3, <3>1, WFMin, Zenon
  <2>5. PICK P \in SUBSET Tasks : Cardinality(Tasks \ P) = n /\ ~(U \subseteq visit[P])
    OBVIOUS
  <2>6. PICK t \in U : t \notin visit[P]
    BY <2>5
  <2>7. PICK u \in d[t] \cap U : TRUE
    OBVIOUS
  <2>8. t \notin P /\ u \notin visit[P \cup {t}]
    BY <1>3, <2>6, <2>7
  <2> DEFINE Q == P \cup {t}
             m == Cardinality(Tasks \ Q)
  <2>9. Q \in SUBSET Tasks /\ ~(U \subseteq visit[Q])
    BY <2>8
  <2>10. n \in Nat /\ m \in Nat /\ n = m + 1
    <3>1. t \notin Tasks \ Q /\ Tasks \ P = (Tasks \ Q) \cup {t}
      BY <2>8
    <3>2. IsFiniteSet(Tasks \ Q) /\ m \in Nat
      BY TasksFinite
    <3> QED
      BY <2>5, <3>1, <3>2, FS_AddElement
  <2>11. m \in Bad
    BY <2>9, <2>10
  <2>12. <<m, n>> \in R
    <3> HIDE DEF m, Bad
    <3>1. m \in Nat /\ n \in Nat /\ m < n
      BY <2>10
    <3> QED
      BY <3>1
  <2> QED
    BY <2>4, <2>11, <2>12
<1>5. Cardinality(Tasks \ {}) \in Nat
  BY TasksFinite
<1> QED
  BY <1>2, <1>4, <1>5

\* What the service saves as a plan, the planner has found to be free of cycles.
ValidGraphs == {d \in [Tasks -> SUBSET Tasks] : ValidTasks(d)}

PlanInv == planned => deps \in ValidGraphs

LEMMA ReadyWhenUnfinished ==
  ASSUME TypeOK, PlanInv
  PROVE  NeverStuck
<1> SUFFICES ASSUME planned, \A t \in Tasks : results[t] \in {"none", "success"},
                    \E t \in Tasks : results[t] = "none"
             PROVE  ReadyTasks(results) # {}
  BY DEF NeverStuck
<1> DEFINE U == {t \in Tasks : results[t] = "none"}
           free == {t \in Tasks : /\ results[t] = "none"
                                  /\ \A d \in deps[t] : results[d] = "success"}
<1>1. deps \in [Tasks -> SUBSET Tasks] /\ CycleFrom(deps) = {}
  BY DEF TypeOK, PlanInv, ValidGraphs, ValidTasks
<1>2. PICK w \in U : deps[w] \cap U = {}
  BY <1>1, WaitingCycle
<1>3. free # {} /\ free \in SUBSET Tasks
  BY <1>1, <1>2
<1>4. PICK m \in free : \A u \in free : m <= u
  <2> HIDE DEF free
  <2> QED
    BY <1>3, LeastTask
<1>5. {u \in free : u < m} = {} /\ {t \in Tasks : results[t] = "pending"} = {}
  <2>1. \A u \in free : ~(u < m)
    <3>1. free \subseteq Int
      BY TaskAssumption DEF Tasks
    <3> HIDE DEF free
    <3> QED
      BY <1>4, <3>1
  <2> QED
    BY <2>1
<1>6. Cardinality({u \in free : u < m}) = 0
      /\ Cardinality({t \in Tasks : results[t] = "pending"}) = 0
  BY <1>5, FS_EmptySet
<1>7. 0 < MaximumParallel - 0
  BY TaskAssumption
<1>8. ReadyTasks(results) = {t \in free : Cardinality({u \in free : u < t})
              < MaximumParallel - Cardinality({x \in Tasks : results[x] = "pending"})}
  BY Zenon DEF ReadyTasks
<1> QED
  BY <1>4, <1>6, <1>7, <1>8

LEMMA PlanStep == PlanInv /\ [Next]_vars => PlanInv'
<1> SUFFICES ASSUME PlanInv, [Next]_vars
             PROVE  PlanInv'
  OBVIOUS
<1>1. CASE Plan
  BY <1>1, TaskAssumption DEF Plan, PlanInv, ValidGraphs
<1>2. CASE UNCHANGED <<planned, deps>>
  BY <1>2 DEF PlanInv
<1> QED
  BY <1>1, <1>2, PlanKept

(* As long as nothing fails and nothing is in flight, a plan the planner    *)
(* accepted has a task to start: every graph that validation lets through,  *)
(* with any positive capacity.                                              *)
THEOREM NeverAlwaysStuck == Spec => []NeverStuck
<1>1. Init => PlanInv
  BY DEF Init, PlanInv
<1> QED
  BY <1>1, PlanStep, TypeCorrect, ReadyWhenUnfinished, PTL DEF Spec
=============================================================================
