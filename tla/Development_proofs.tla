------------------------- MODULE Development_proofs -------------------------
(***************************************************************************)
(* Proofs about the workspace and about the development supervisor of its   *)
(* applications: two components that share no variable, each with an        *)
(* invariant of its own.                                                    *)
(***************************************************************************)
EXTENDS Workspace, DevSupervisor, SequenceTheorems, WellFoundedInduction, TLAPS

-----------------------------------------------------------------------------
(* The workspace.  A directory is its promoter's until the promoter has     *)
(* registered it or taken it back, whatever callers without a lock do; and   *)
(* until a kill or an ignored error, everything incomplete has a caller that *)
(* is still going to complete it or take it away.                            *)

Owning == {"listing", "complete", "register", "record", "remove"}

(* What a caller has in place between its rename and its record. *)
Promoted(c) ==
  [by |-> c, parts |-> IF step[c] \in {"register", "record"} THEN "complete" ELSE "partial"]

OwnInv ==
  \A c \in Callers :
    /\ step[c] \in Owning => entry = Nobody /\ target = Promoted(c)
    /\ step[c] = "created" => entry = c

EntryInv ==
  entry # Nobody => step[entry] = "created" /\ target = [by |-> entry, parts |-> "complete"]

(* What initialization has seen written stays written. *)
LayoutInv ==
  \A c \in Callers :
    /\ step[c] \in {"json", "layout", "initialized"} => yaml = "written"
    /\ step[c] \in {"layout", "initialized"} => json
    /\ step[c] = "initialized" => directories = Layout

LitterInv ==
  ~littered =>
    /\ \A c \in staging : step[c] \in {"staged", "clean"}
    /\ yaml = "empty" => \E c \in Callers : step[c] = "writing"
    /\ target.parts = "empty" => \E c \in Callers : step[c] = "rmdir"
    /\ target.parts \in {"partial", "complete"} =>
         entry # Nobody \/ \E c \in Callers : step[c] \in Owning

WorkspaceInv == WorkspaceTypeOK /\ OwnInv /\ EntryInv /\ LayoutInv /\ LitterInv

(* Caller c goes from one step to another, the others stay where they are. *)
Moves(c, from, to) ==
  /\ step[c] = from /\ step' \in [Callers -> Ended \cup Steps] /\ step'[c] = to
  /\ \A u \in Callers : u # c => step'[u] = step[u]

LEMMA CallerMoves ==
  ASSUME WorkspaceTypeOK, NEW c \in Callers, NEW from, NEW to \in Ended \cup Steps,
         Proceed(c, from, to) \/ Finish(c, from, to)
  PROVE  /\ Moves(c, from, to)
         /\ lock' \in [Locks -> Callers \cup {Nobody}]
         /\ command' \in [Callers -> Commands]
  BY DEF WorkspaceTypeOK, Proceed, Finish, Moves

(* Changing what is in the directory leaves it its promoter's. *)
LEMMA PartsChanged ==
  ASSUME WorkspaceTypeOK, NEW p, target' = [target EXCEPT !.parts = p]
  PROVE  target' = [by |-> target.by, parts |-> p]
<1>1. target \in [by : Callers \cup {Nobody}, parts : {"absent", "empty", "partial", "complete"}]
  BY DEF WorkspaceTypeOK
<1> QED
  BY <1>1, Zenon

(* A step that writes nothing on disk: nobody enters or leaves a place     *)
(* where something incomplete waits, unless it is littered by then.        *)
LEMMA QuietStep ==
  ASSUME WorkspaceInv, NEW c \in Callers, NEW from, NEW to, Moves(c, from, to),
         UNCHANGED <<files, application>>, littered' \in BOOLEAN,
         lock' \in [Locks -> Callers \cup {Nobody}],
         command' \in [Callers -> Commands],
         to \notin Owning \cup {"created"} \/ (from = "listing" /\ to = "complete")
           \/ (from = "register" /\ to = "record"),
         from # "created",
         to \in {"json", "layout", "initialized"} => yaml = "written",
         to \in {"layout", "initialized"} => json,
         to = "initialized" => directories = Layout,
         littered => littered',
         ~littered' => /\ from \in {"staged", "clean"} => to \in {"staged", "clean"}
                       /\ from \in {"writing", "rmdir"} => FALSE
                       /\ from \in Owning => to \in Owning
  PROVE  WorkspaceInv'
<1> USE DEF files, application, Moves, Owning
<1>1. WorkspaceTypeOK'
  BY DEF WorkspaceInv, WorkspaceTypeOK
<1>2. OwnInv'
  BY DEF WorkspaceInv, OwnInv, Promoted
<1>3. EntryInv'
  BY DEF WorkspaceInv, EntryInv, WorkspaceTypeOK
<1>4. LayoutInv'
  BY DEF WorkspaceInv, LayoutInv
<1>5. LitterInv'
  BY DEF WorkspaceInv, LitterInv, WorkspaceTypeOK
<1> QED
  BY <1>1, <1>2, <1>3, <1>4, <1>5 DEF WorkspaceInv

(* A step of an initialization leaves applications alone. *)
LEMMA FilesStep ==
  ASSUME WorkspaceInv, NEW c \in Callers, NEW from, NEW to, Moves(c, from, to),
         UNCHANGED <<application, littered>>,
         yaml' \in {"absent", "empty", "written"}, json' \in BOOLEAN,
         directories' \subseteq Layout,
         lock' \in [Locks -> Callers \cup {Nobody}],
         command' \in [Callers -> Commands],
         {from, to} \cap (Owning \cup {"created", "staged", "clean", "rmdir"}) = {},
         LayoutInv',
         ~littered /\ yaml' = "empty" => \E u \in Callers : step'[u] = "writing"
  PROVE  WorkspaceInv'
<1> USE DEF application, Moves, Owning
<1>1. WorkspaceTypeOK'
  BY DEF WorkspaceInv, WorkspaceTypeOK
<1>2. OwnInv'
  BY DEF WorkspaceInv, OwnInv, Promoted
<1>3. EntryInv'
  BY DEF WorkspaceInv, EntryInv, WorkspaceTypeOK
<1>4. LitterInv'
  BY DEF WorkspaceInv, LitterInv, WorkspaceTypeOK
<1> QED
  BY <1>1, <1>2, <1>3, <1>4 DEF WorkspaceInv

LEMMA InitializeStep ==
  ASSUME WorkspaceInv, NEW c \in Callers, Initialize(c)
  PROVE  WorkspaceInv'
<1> USE DEF Ended, Steps, Owning
<1>0. WorkspaceTypeOK
  BY DEF WorkspaceInv
<1>1. CASE YamlFound(c)
  <2>1. Moves(c, "yaml", "json") /\ lock' \in [Locks -> Callers \cup {Nobody}]
        /\ command' \in [Callers -> Commands]
    BY <1>0, <1>1, CallerMoves DEF YamlFound
  <2> QED
    BY <1>0, <1>1, <2>1, QuietStep DEF YamlFound, WorkspaceTypeOK
<1>2. CASE YamlMalformed(c)
  <2>1. Moves(c, "yaml", "idle") /\ lock' \in [Locks -> Callers \cup {Nobody}]
        /\ command' \in [Callers -> Commands]
    BY <1>0, <1>2, CallerMoves DEF YamlMalformed
  <2> QED
    BY <1>0, <1>2, <2>1, QuietStep DEF YamlMalformed, WorkspaceTypeOK
<1>3. CASE OpenYaml(c)
  <2>1. Moves(c, "yaml", "writing") /\ lock' \in [Locks -> Callers \cup {Nobody}]
        /\ command' \in [Callers -> Commands]
    BY <1>0, <1>3, CallerMoves DEF OpenYaml
  <2>2. LayoutInv'
    BY <1>3, <2>1 DEF OpenYaml, Moves, WorkspaceInv, LayoutInv
  <2> QED
    BY <1>0, <1>3, <2>1, <2>2, FilesStep DEF OpenYaml, WorkspaceTypeOK, Moves
<1>4. CASE WriteYaml(c)
  <2>1. Moves(c, "writing", "json") /\ lock' \in [Locks -> Callers \cup {Nobody}]
        /\ command' \in [Callers -> Commands]
    BY <1>0, <1>4, CallerMoves DEF WriteYaml
  <2>2. LayoutInv'
    BY <1>4, <2>1 DEF WriteYaml, Moves, WorkspaceInv, LayoutInv
  <2> QED
    BY <1>0, <1>4, <2>1, <2>2, FilesStep DEF WriteYaml, WorkspaceTypeOK
<1>5. CASE WriteYamlFails(c)
  <2>1. Moves(c, "writing", "idle") /\ lock' \in [Locks -> Callers \cup {Nobody}]
        /\ command' \in [Callers -> Commands]
    BY <1>0, <1>5, CallerMoves DEF WriteYamlFails
  <2> QED
    BY <1>0, <1>5, <2>1, QuietStep DEF WriteYamlFails
<1>6. CASE WriteJson(c)
  <2>1. Moves(c, "json", "layout") /\ lock' \in [Locks -> Callers \cup {Nobody}]
        /\ command' \in [Callers -> Commands]
    BY <1>0, <1>6, CallerMoves DEF WriteJson
  <2>2. LayoutInv'
    BY <1>6, <2>1 DEF WriteJson, Moves, WorkspaceInv, LayoutInv
  <2>3. yaml' = "written"
    BY <1>6, <2>1 DEF WriteJson, Moves, WorkspaceInv, LayoutInv
  <2> QED
    BY <1>0, <1>6, <2>1, <2>2, <2>3, FilesStep DEF WriteJson, WorkspaceTypeOK
<1>7. CASE WriteJsonFails(c)
  <2>1. Moves(c, "json", "idle") /\ lock' \in [Locks -> Callers \cup {Nobody}]
        /\ command' \in [Callers -> Commands]
    BY <1>0, <1>7, CallerMoves DEF WriteJsonFails
  <2> QED
    BY <1>0, <1>7, <2>1, QuietStep DEF WriteJsonFails, WorkspaceTypeOK
<1>8. CASE MakeDirectory(c)
  <2>1. Moves(c, "layout", "layout") /\ UNCHANGED <<lock, command, step>>
    BY <1>0, <1>8 DEF MakeDirectory, Moves, WorkspaceTypeOK
  <2>2. directories' \subseteq Layout /\ directories \subseteq directories'
    BY <1>0, <1>8 DEF MakeDirectory, WorkspaceTypeOK, Layout
  <2>3. LayoutInv'
    BY <1>0, <1>8, <2>1, <2>2 DEF MakeDirectory, WorkspaceInv, LayoutInv, WorkspaceTypeOK
  <2>4. yaml' = "written"
    BY <1>8, <2>1 DEF MakeDirectory, Moves, WorkspaceInv, LayoutInv
  <2> QED
    BY <1>0, <1>8, <2>1, <2>2, <2>3, <2>4, FilesStep DEF MakeDirectory, WorkspaceTypeOK
<1>9. CASE Initialized(c)
  <2>1. Moves(c, "layout", "initialized") /\ lock' \in [Locks -> Callers \cup {Nobody}]
        /\ command' \in [Callers -> Commands]
    BY <1>0, <1>9, CallerMoves DEF Initialized
  <2>2. yaml = "written" /\ json
    BY <2>1 DEF Moves, WorkspaceInv, LayoutInv
  <2> QED
    BY <1>0, <1>9, <2>1, <2>2, QuietStep DEF Initialized, WorkspaceTypeOK
<1> QED
  BY <1>1, <1>2, <1>3, <1>4, <1>5, <1>6, <1>7, <1>8, <1>9 DEF Initialize


(* The steps of a creation that only look, go on, or give up. *)
LEMMA LookStep ==
  ASSUME WorkspaceInv, NEW c \in Callers,
         \/ LookForDirectory(c) \/ LookForRecord(c) \/ AlreadyExists(c) \/ StageRefused(c)
         \/ StagingFails(c) \/ CleanFails(c) \/ List(c) \/ ListFails(c) \/ Register(c)
         \/ RemoveFails(c)
  PROVE  WorkspaceInv'
<1> USE DEF Ended, Steps, Owning
<1>0. WorkspaceTypeOK
  BY DEF WorkspaceInv
<1>1. CASE LookForDirectory(c)
  <2>1. Moves(c, "look", "registry") /\ lock' \in [Locks -> Callers \cup {Nobody}]
        /\ command' \in [Callers -> Commands]
    BY <1>0, <1>1, CallerMoves DEF LookForDirectory
  <2> QED
    BY <1>0, <1>1, <2>1, QuietStep DEF LookForDirectory, WorkspaceTypeOK
<1>2. CASE LookForRecord(c)
  <2>1. Moves(c, "registry", "stage") /\ lock' \in [Locks -> Callers \cup {Nobody}]
        /\ command' \in [Callers -> Commands]
    BY <1>0, <1>2, CallerMoves DEF LookForRecord
  <2> QED
    BY <1>0, <1>2, <2>1, QuietStep DEF LookForRecord, WorkspaceTypeOK
<1>3. CASE StageRefused(c)
  <2>1. Moves(c, "stage", "idle") /\ lock' \in [Locks -> Callers \cup {Nobody}]
        /\ command' \in [Callers -> Commands]
    BY <1>0, <1>3, CallerMoves DEF StageRefused
  <2> QED
    BY <1>0, <1>3, <2>1, QuietStep DEF StageRefused, WorkspaceTypeOK
<1>4. CASE StagingFails(c)
  <2>1. Moves(c, "staged", "clean") /\ lock' \in [Locks -> Callers \cup {Nobody}]
        /\ command' \in [Callers -> Commands]
    BY <1>0, <1>4, CallerMoves DEF StagingFails
  <2> QED
    BY <1>0, <1>4, <2>1, QuietStep DEF StagingFails, WorkspaceTypeOK
<1>5. CASE CleanFails(c)
  <2>1. Moves(c, "clean", "idle") /\ lock' \in [Locks -> Callers \cup {Nobody}]
        /\ command' \in [Callers -> Commands]
    BY <1>0, <1>5, CallerMoves DEF CleanFails
  <2> QED
    BY <1>0, <1>5, <2>1, QuietStep DEF CleanFails, WorkspaceTypeOK
<1>6. CASE List(c)
  <2>1. Moves(c, "listing", "complete") /\ lock' \in [Locks -> Callers \cup {Nobody}]
        /\ command' \in [Callers -> Commands]
    BY <1>0, <1>6, CallerMoves DEF List
  <2> QED
    BY <1>0, <1>6, <2>1, QuietStep DEF List, WorkspaceTypeOK
<1>7. CASE ListFails(c)
  <2>1. Moves(c, "listing", "idle") /\ lock' \in [Locks -> Callers \cup {Nobody}]
        /\ command' \in [Callers -> Commands]
    BY <1>0, <1>7, CallerMoves DEF ListFails
  <2> QED
    BY <1>0, <1>7, <2>1, QuietStep DEF ListFails, WorkspaceTypeOK
<1>8. CASE Register(c)
  <2>1. Moves(c, "register", "record") /\ lock' \in [Locks -> Callers \cup {Nobody}]
        /\ command' \in [Callers -> Commands]
    BY <1>0, <1>8, CallerMoves DEF Register
  <2> QED
    BY <1>0, <1>8, <2>1, QuietStep DEF Register, WorkspaceTypeOK
<1>9. CASE RemoveFails(c)
  <2>1. Moves(c, "remove", "idle") /\ lock' \in [Locks -> Callers \cup {Nobody}]
        /\ command' \in [Callers -> Commands]
    BY <1>0, <1>9, CallerMoves DEF RemoveFails
  <2> QED
    BY <1>0, <1>9, <2>1, QuietStep DEF RemoveFails, WorkspaceTypeOK
<1>10. CASE AlreadyExists(c)
  <2>1. PICK from \in {"look", "registry"} : Finish(c, from, "idle")
    BY <1>10 DEF AlreadyExists
  <2>2. Moves(c, from, "idle") /\ lock' \in [Locks -> Callers \cup {Nobody}]
        /\ command' \in [Callers -> Commands]
    BY <1>0, <2>1, CallerMoves
  <2> QED
    BY <1>0, <1>10, <2>2, QuietStep DEF AlreadyExists, WorkspaceTypeOK
<1> QED
  BY <1>1, <1>2, <1>3, <1>4, <1>5, <1>6, <1>7, <1>8, <1>9, <1>10

(* A command begins, takes its lock or is killed. *)
LEMMA CommandStep ==
  ASSUME WorkspaceInv, NEW c \in Callers, Begin(c) \/ Lock(c) \/ Kill(c)
  PROVE  WorkspaceInv'
<1> USE DEF Ended, Steps, Owning
<1>0. WorkspaceTypeOK
  BY DEF WorkspaceInv
<1>1. CASE Begin(c)
  <2>1. PICK k \in Commands : command' = [command EXCEPT ![c] = k]
                           /\ step' = [step EXCEPT ![c] = IF k = "compose" THEN "look" ELSE "lock"]
    BY <1>1 DEF Begin
  <2>2. PICK from \in {"idle", "initialized"} : step[c] = from
    BY <1>1 DEF Begin
  <2>3. PICK to \in {"look", "lock"} : step' = [step EXCEPT ![c] = to]
    BY <2>1
  <2>4. Moves(c, from, to)
    BY <1>0, <2>2, <2>3 DEF Moves, WorkspaceTypeOK
  <2>5. lock' \in [Locks -> Callers \cup {Nobody}] /\ command' \in [Callers -> Commands]
    BY <1>0, <1>1, <2>1 DEF Begin, WorkspaceTypeOK
  <2> QED
    BY <1>0, <1>1, <2>4, <2>5, QuietStep DEF Begin, WorkspaceTypeOK
<1>2. CASE Lock(c)
  <2>1. PICK to \in {"yaml", "look"} : step' = [step EXCEPT ![c] = to]
    BY <1>2 DEF Lock
  <2>2. Moves(c, "lock", to)
    BY <1>0, <1>2, <2>1 DEF Lock, Moves, WorkspaceTypeOK
  <2>3. lock' \in [Locks -> Callers \cup {Nobody}] /\ command' \in [Callers -> Commands]
    BY <1>0, <1>2 DEF Lock, WorkspaceTypeOK
  <2> QED
    BY <1>0, <1>2, <2>2, <2>3, QuietStep DEF Lock, WorkspaceTypeOK
<1>3. CASE Kill(c)
  <2>1. PICK from \in Steps : Finish(c, from, "idle") /\ littered' = (littered \/ from \in Leaves)
    BY <1>3 DEF Kill
  <2>2. Moves(c, from, "idle") /\ lock' \in [Locks -> Callers \cup {Nobody}]
        /\ command' \in [Callers -> Commands]
    BY <1>0, <2>1, CallerMoves
  <2>3. littered' \in BOOLEAN
    BY <2>1
  <2>4. (littered => littered') /\ (from \in Leaves => littered')
    BY <2>1
  <2>5. UNCHANGED <<files, application>>
    BY <1>3 DEF Kill
  <2> QED
    BY <2>1, <2>2, <2>3, <2>4, <2>5, QuietStep DEF Leaves
<1> QED
  BY <1>1, <1>2, <1>3

(* A directory has one owner, and until then nobody is registered. *)
LEMMA OneOwner ==
  ASSUME WorkspaceInv, NEW c \in Callers, step[c] \in Owning
  PROVE  /\ entry = Nobody /\ target = Promoted(c)
         /\ \A u \in Callers : u # c => step[u] \notin Owning
         /\ \A u \in Callers : step[u] # "created"
<1>1. entry = Nobody /\ target = Promoted(c)
  BY DEF WorkspaceInv, OwnInv
<1>2. \A u \in Callers : step[u] \in Owning => target = Promoted(u)
  BY DEF WorkspaceInv, OwnInv
<1>3. \A u \in Callers : step[u] # "created"
  BY <1>1, WorkspaceAssumption DEF WorkspaceInv, OwnInv
<1> QED
  BY <1>1, <1>2, <1>3 DEF Promoted

(* Staging directories come and go beside the target. *)
LEMMA StagingStep ==
  ASSUME WorkspaceInv, NEW c \in Callers, Stage(c) \/ Clean(c)
  PROVE  WorkspaceInv'
<1> USE DEF Ended, Steps, Owning
<1>0. WorkspaceTypeOK
  BY DEF WorkspaceInv
<1>1. PICK from \in {"stage", "clean"}, to \in {"staged", "idle"} :
        /\ Moves(c, from, to)
        /\ lock' \in [Locks -> Callers \cup {Nobody}]
        /\ command' \in [Callers -> Commands]
        /\ directories' \in {directories, directories \cup {"applications"}}
        /\ staging' = IF to = "staged" THEN staging \cup {c} ELSE staging \ {c}
        /\ UNCHANGED <<yaml, json, target, entry, littered>>
  BY <1>0, CallerMoves DEF Stage, Clean, files
<1>2. WorkspaceTypeOK'
  BY <1>0, <1>1 DEF WorkspaceTypeOK, Moves, Layout
<1>3. OwnInv'
  BY <1>1 DEF WorkspaceInv, OwnInv, Moves, Promoted
<1>4. EntryInv'
  BY <1>0, <1>1 DEF WorkspaceInv, EntryInv, WorkspaceTypeOK, Moves
<1>5. LayoutInv'
  BY <1>1 DEF WorkspaceInv, LayoutInv, Moves, Layout
<1>6. LitterInv'
  BY <1>0, <1>1 DEF WorkspaceInv, LitterInv, WorkspaceTypeOK, Moves
<1> QED
  BY <1>2, <1>3, <1>4, <1>5, <1>6 DEF WorkspaceInv

(* The rename: nobody owned the directory, and nobody is registered. *)
LEMMA PromoteStep ==
  ASSUME WorkspaceInv, NEW c \in Callers, Promote(c)
  PROVE  WorkspaceInv'
<1> USE DEF Ended, Steps, Owning
<1>0. WorkspaceTypeOK
  BY DEF WorkspaceInv
<1>1. PICK to \in {"register", "listing"} :
        /\ Moves(c, "staged", to)
        /\ lock' \in [Locks -> Callers \cup {Nobody}]
        /\ command' \in [Callers -> Commands]
        /\ target' = [by |-> c, parts |-> IF to = "register" THEN "complete" ELSE "partial"]
        /\ staging' = staging \ {c}
        /\ UNCHANGED <<yaml, json, directories, entry, littered>>
  BY <1>0, CallerMoves DEF Promote, files
<1>2. \A u \in Callers : step[u] \notin Owning
  BY OneOwner DEF Promote, Renamable, Promoted
<1>3. entry = Nobody
  BY DEF Promote, Renamable, WorkspaceInv, EntryInv
<1>4. \A u \in Callers : step[u] # "created"
  BY <1>3, WorkspaceAssumption DEF WorkspaceInv, OwnInv
<1>5. WorkspaceTypeOK'
  BY <1>0, <1>1 DEF WorkspaceTypeOK, Moves
<1>6. OwnInv'
  BY <1>1, <1>2, <1>3, <1>4 DEF OwnInv, Moves, Promoted
<1>7. EntryInv'
  BY <1>1, <1>3 DEF EntryInv
<1>8. LayoutInv'
  BY <1>1 DEF WorkspaceInv, LayoutInv, Moves
<1>9. LitterInv'
  BY <1>0, <1>1 DEF WorkspaceInv, LitterInv, WorkspaceTypeOK, Moves
<1> QED
  BY <1>5, <1>6, <1>7, <1>8, <1>9 DEF WorkspaceInv

(* The owner completes the directory, registers it or takes it back. *)
LEMMA OwnerStep ==
  ASSUME WorkspaceInv, NEW c \in Callers, Complete(c) \/ Record(c) \/ RollBack(c) \/ Remove(c)
  PROVE  WorkspaceInv'
<1> USE DEF Ended, Steps, Owning
<1>0. WorkspaceTypeOK
  BY DEF WorkspaceInv
<1>1. PICK from \in Owning, to \in {"register", "created", "remove", "rmdir"} :
        /\ Moves(c, from, to)
        /\ lock' \in [Locks -> Callers \cup {Nobody}]
        /\ command' \in [Callers -> Commands]
        /\ target' = CASE to = "register" -> [target EXCEPT !.parts = "complete"]
                       [] to = "created" -> target
                       [] to = "remove" -> [target EXCEPT !.parts = "partial"]
                       [] to = "rmdir" -> [target EXCEPT !.parts = "empty"]
        /\ entry' = IF to = "created" THEN c ELSE entry
        /\ to = "created" => from = "record"
        /\ UNCHANGED <<yaml, json, directories, staging, littered>>
  BY <1>0, CallerMoves DEF Complete, Record, RollBack, Remove, files
<1>2. /\ entry = Nobody /\ target = Promoted(c)
      /\ \A u \in Callers : u # c => step[u] \notin Owning
      /\ \A u \in Callers : step[u] # "created"
  BY <1>1, OneOwner DEF Moves
<1>3. target' = [by |-> c, parts |-> IF to \in {"register", "created"} THEN "complete"
                                     ELSE IF to = "remove" THEN "partial" ELSE "empty"]
  <2>1. target.by = c /\ (from = "record" => target = [by |-> c, parts |-> "complete"])
    BY <1>1, <1>2 DEF Promoted, Moves
  <2>2. CASE to = "created"
    BY <1>1, <2>1, <2>2
  <2>3. CASE to # "created"
    <3>1. PICK p \in {"complete", "partial", "empty"} :
            /\ target' = [target EXCEPT !.parts = p]
            /\ p = IF to = "register" THEN "complete"
                   ELSE IF to = "remove" THEN "partial" ELSE "empty"
      <4>1. CASE to = "register"
        BY <1>1, <4>1
      <4>2. CASE to = "remove"
        BY <1>1, <4>2
      <4>3. CASE to = "rmdir"
        BY <1>1, <4>3
      <4> QED
        BY <2>3, <4>1, <4>2, <4>3
    <3>2. target' = [by |-> c, parts |-> p]
      BY <1>0, <2>1, <3>1, PartsChanged
    <3> QED
      BY <2>3, <3>1, <3>2
  <2> QED
    BY <2>2, <2>3
<1>4. /\ Moves(c, from, to) /\ from \in Owning
      /\ lock' \in [Locks -> Callers \cup {Nobody}]
      /\ command' \in [Callers -> Commands]
      /\ entry' = IF to = "created" THEN c ELSE Nobody
      /\ UNCHANGED <<yaml, json, directories, staging, littered>>
  BY <1>1, <1>2
<1>5. WorkspaceTypeOK'
  BY <1>0, <1>3, <1>4 DEF WorkspaceTypeOK, Moves
<1>6. OwnInv'
  BY <1>2, <1>3, <1>4 DEF OwnInv, Moves, Promoted
<1>7. EntryInv'
  BY <1>3, <1>4 DEF EntryInv, Moves
<1>8. LayoutInv'
  BY <1>4 DEF WorkspaceInv, LayoutInv, Moves
<1>9. LitterInv'
  BY <1>0, <1>3, <1>4, WorkspaceAssumption DEF WorkspaceInv, LitterInv, WorkspaceTypeOK, Moves
<1> QED
  BY <1>5, <1>6, <1>7, <1>8, <1>9 DEF WorkspaceInv

(* rmdir takes away an empty directory only: nobody owns that one. *)
LEMMA RemoveDirectoryStep ==
  ASSUME WorkspaceInv, NEW c \in Callers, RemoveDirectory(c)
  PROVE  WorkspaceInv'
<1> USE DEF Ended, Steps, Owning
<1>0. WorkspaceTypeOK
  BY DEF WorkspaceInv
<1>1. /\ Moves(c, "rmdir", "idle")
      /\ lock' \in [Locks -> Callers \cup {Nobody}]
      /\ command' \in [Callers -> Commands]
      /\ target' = IF target.parts = "empty" THEN Absent ELSE target
      /\ UNCHANGED <<yaml, json, directories, staging, entry, littered>>
  BY <1>0, CallerMoves DEF RemoveDirectory, files
<1>2. WorkspaceTypeOK'
  BY <1>0, <1>1 DEF WorkspaceTypeOK, Moves, Absent
<1>3. OwnInv'
  <2>1. CASE target.parts = "empty"
    <3>1. \A u \in Callers : step[u] \notin Owning
      BY <2>1, OneOwner DEF Promoted
    <3> QED
      BY <1>1, <3>1 DEF WorkspaceInv, OwnInv, Moves
  <2>2. CASE target.parts # "empty"
    BY <1>1, <2>2 DEF WorkspaceInv, OwnInv, Moves, Promoted
  <2> QED
    BY <2>1, <2>2
<1>4. EntryInv'
  BY <1>0, <1>1 DEF WorkspaceInv, EntryInv, WorkspaceTypeOK, Moves
<1>5. LayoutInv'
  BY <1>1 DEF WorkspaceInv, LayoutInv, Moves
<1>6. LitterInv'
  BY <1>0, <1>1 DEF WorkspaceInv, LitterInv, WorkspaceTypeOK, Moves, Absent
<1> QED
  BY <1>2, <1>3, <1>4, <1>5, <1>6 DEF WorkspaceInv

LEMMA WorkspaceInvStep == WorkspaceInv /\ [WorkspaceNext]_workspaceVars => WorkspaceInv'
<1> SUFFICES ASSUME WorkspaceInv, [WorkspaceNext]_workspaceVars
             PROVE  WorkspaceInv'
  OBVIOUS
<1>1. CASE UNCHANGED workspaceVars
  BY <1>1 DEF workspaceVars, files, application, WorkspaceInv, WorkspaceTypeOK, OwnInv,
     Promoted, EntryInv, LayoutInv, LitterInv
<1>2. ASSUME NEW c \in Callers, Create(c)
      PROVE  WorkspaceInv'
  BY <1>2, LookStep, StagingStep, PromoteStep, OwnerStep, RemoveDirectoryStep DEF Create
<1> QED
  BY <1>1, <1>2, CommandStep, InitializeStep DEF WorkspaceNext

LEMMA WorkspaceInvCorrect == WorkspaceSpec => []WorkspaceInv
<1>1. WorkspaceInit => WorkspaceTypeOK
  <2> SUFFICES ASSUME WorkspaceInit PROVE WorkspaceTypeOK
    OBVIOUS
  <2>1. /\ lock \in [Locks -> Callers \cup {Nobody}]
        /\ command \in [Callers -> Commands] /\ step \in [Callers -> Ended \cup Steps]
    BY DEF WorkspaceInit, Ended, Commands
  <2>2. target \in [by : Callers \cup {Nobody}, parts : {"absent", "empty", "partial", "complete"}]
    BY DEF WorkspaceInit, Absent
  <2> QED
    BY <2>1, <2>2 DEF WorkspaceInit, WorkspaceTypeOK
<1>2. WorkspaceInit => OwnInv /\ EntryInv /\ LayoutInv
  BY DEF WorkspaceInit, OwnInv, EntryInv, LayoutInv, Owning
<1>3. WorkspaceInit => LitterInv
  BY DEF WorkspaceInit, LitterInv, Absent
<1> QED
  BY <1>1, <1>2, <1>3, WorkspaceInvStep, PTL DEF WorkspaceSpec, WorkspaceInv

(* The type invariant of the disk, the locks and the commands, for any      *)
(* number of callers.                                                       *)
THEOREM WorkspaceTypeCorrect == WorkspaceSpec => []WorkspaceTypeOK
  BY WorkspaceInvCorrect, PTL DEF WorkspaceInv

(* What a command has answered stays true, for any number of callers, with  *)
(* and without locks, and whatever is killed and fails in whatever order.   *)
THEOREM AnswersAlwaysKept == WorkspaceSpec => []AnswersKept
<1>1. WorkspaceInv => AnswersKept
  BY WorkspaceAssumption DEF WorkspaceInv, OwnInv, EntryInv, LayoutInv, AnswersKept
<1> QED
  BY <1>1, WorkspaceInvCorrect, PTL

(* Nothing incomplete is on disk once every command has ended, unless a     *)
(* kill or an ignored error left it, for any number of callers.             *)
THEOREM NothingLeftIncomplete == WorkspaceSpec => []NothingIncomplete
<1>1. WorkspaceInv => NothingIncomplete
  <2> SUFFICES ASSUME WorkspaceInv, ~littered, \A c \in Callers : step[c] \in Ended
               PROVE  /\ staging = {} /\ yaml # "empty"
                      /\ Exists <=> entry # Nobody
    BY DEF NothingIncomplete
  <2>1. \A c \in Callers : step[c] \notin Owning \cup {"staged", "clean", "writing", "rmdir"}
    BY DEF Ended, Owning
  <2>2. staging = {} /\ yaml # "empty"
    BY <2>1 DEF WorkspaceInv, WorkspaceTypeOK, LitterInv
  <2>3. Exists => entry # Nobody
    BY <2>1 DEF WorkspaceInv, WorkspaceTypeOK, LitterInv, Exists
  <2>4. entry # Nobody => Exists
    BY DEF WorkspaceInv, EntryInv, Exists
  <2> QED
    BY <2>2, <2>3, <2>4
<1> QED
  BY <1>1, WorkspaceInvCorrect, PTL

-----------------------------------------------------------------------------
(* The development supervisor.  What a service has in its own hands is      *)
(* stated service by service (Local), what they share with the processes    *)
(* once (Procs), and what a command in progress relies on while no other    *)
(* one runs, in Sound.                                                      *)

Plan == [by : Services \cup {None}, bindings : Nat, api : Services \cup {None}]
Preparing == {"prepare", "modules"}
Launching == {"start", "restart", "relaunch"}

Job ==
  [step : {None, "stop", "rollback"} \cup Preparing \cup Launching,
   at : 0 .. ModuleCount + 1, started : SUBSET Modules, failed : BOOLEAN,
   then : {None, "start", "restart"}, pids : SUBSET Nat,
   ended : {None, "prepared", "started", "restarted", "stopped", "rolled back", "failed"}]

(* The command in progress starts or restarts, now or after preparing. *)
Going(s, goal) == At(s, goal) \/ (job[s].step \in Preparing /\ job[s].then = goal)

(* How far a command is: a start has only started earlier modules.          *)
JobOK(s) ==
  /\ job[s] \in Job /\ job[s].pids \subseteq 1 .. Len(launched)
  /\ Going(s, "start") => job[s].at >= 1 /\ job[s].started \subseteq 1 .. (job[s].at - 1)
  /\ Going(s, "restart") \/ At(s, "relaunch") => job[s].at \in Executable
  /\ At(s, "relaunch") => plans[s][job[s].at] # NoPlan
  /\ At(s, "stop") => job[s].at <= ModuleCount
  /\ job[s].step \in Preparing => job[s].pids = {}
  /\ ~At(s, None) => job[s].ended = None

(* Plans are made up by a command of their service; whoever launches holds  *)
(* bindings, and a service of one command makes up no plan without them     *)
(* before it launches.                                                      *)
PlansOK(s) ==
  /\ commands[s] = 0 => At(s, None) /\ \A m \in Modules : plans[s][m] = NoPlan
  /\ \A m \in Modules : plans[s][m] # NoPlan => plans[s][m].by = s
  /\ prepared[s] \/ job[s].step \in {"modules"} \cup Launching => bindings[s] > 0
  /\ CommandsOf[s] = 1 /\ job[s].step \in Preparing \cup Launching =>
       \A m \in Modules : plans[s][m] # NoPlan => plans[s][m].bindings > 0

Local(s) == JobOK(s) /\ PlansOK(s)

(* One service runs all commands. *)
Single == \A s, t \in Services : commands[s] > 0 /\ commands[t] > 0 => s = t

(* The records and processes: a record is of a process of its module, and a *)
(* process has the plan its service made up.                                *)
Procs ==
  /\ record \in [Modules -> [state : {"running", "stopped", "failed"}, pid : 0 .. Len(launched)]]
  /\ launched \in Seq([module : Modules, plan : Plan])
  /\ alive \subseteq 1 .. Len(launched)
  /\ \A m \in Modules :
       record[m].pid # 0 => m \in Executable /\ launched[record[m].pid].module = m
  /\ \A p \in 1 .. Len(launched) :
       /\ launched[p].plan.by \in Services
       /\ plans[launched[p].plan.by][launched[p].module] = launched[p].plan
       /\ CommandsOf[launched[p].plan.by] = 1 => launched[p].plan.bindings # 0
  /\ Single => \A p \in alive : record[launched[p].module].pid = p

ResourcesOK ==
  /\ prepared \in [Services -> BOOLEAN] /\ bindings \in [Services -> Nat]
  /\ resource \in [grant : Nat, active : BOOLEAN]
  /\ resource.active => resource.grant > 0

Shared ==
  /\ ResourcesOK /\ plans \in [Services -> [Modules -> Plan]]
  /\ DOMAIN job = Services
  /\ commands \in [Services -> Nat] /\ overlap \in BOOLEAN

(* While commands do not overlap, what one does or has done is the last     *)
(* that happened.                                                           *)
AloneInv ==
  ~overlap =>
    \A s, t \in Services : ~At(s, None) \/ job[s].ended # None => t = s \/ At(t, None)

(* What a command in progress has achieved so far.                          *)
Sound(s) ==
  /\ job[s].step \in {"start", "rollback"} =>
       \A p \in job[s].pids \cap alive :
         launched[p].module \in job[s].started /\ record[launched[p].module].pid = p
  /\ At(s, "stop") /\ ~job[s].failed =>
       \A m \in Modules : m > job[s].at => record[m].pid \notin alive
  /\ job[s].ended = "rolled back" => job[s].pids \cap alive = {}
  /\ job[s].ended = "stopped" =>
       /\ \A m \in Modules : record[m].pid \notin alive
       /\ Volatile => ~resource.active

SoundInv == ~overlap => \A s \in Services : Sound(s)

SupervisorInv ==
  Shared /\ Procs /\ (\A s \in Services : Local(s)) /\ AloneInv /\ SoundInv

-----------------------------------------------------------------------------
(* How the records of jobs and of the resource change.                     *)

LEMMA StepTo ==
  ASSUME NEW j \in Job, NEW x \in {None, "stop", "rollback"} \cup Preparing \cup Launching,
         NEW k, k = [j EXCEPT !.step = x]
  PROVE  /\ k \in Job /\ k.step = x /\ k.at = j.at /\ k.started = j.started /\ k.failed = j.failed
         /\ k.then = j.then /\ k.pids = j.pids /\ k.ended = j.ended
<1>1. k \in Job
  BY ZenonT(30) DEF Job
<1>2. /\ k.step = x /\ k.at = j.at /\ k.started = j.started /\ k.failed = j.failed
      /\ k.then = j.then /\ k.pids = j.pids /\ k.ended = j.ended
  BY ZenonT(30) DEF Job
<1> QED
  BY <1>1, <1>2

LEMMA AtTo ==
  ASSUME NEW j \in Job, NEW x \in 0 .. ModuleCount + 1,
         NEW k, k = [j EXCEPT !.at = x]
  PROVE  /\ k \in Job /\ k.step = j.step /\ k.at = x /\ k.started = j.started /\ k.failed = j.failed
         /\ k.then = j.then /\ k.pids = j.pids /\ k.ended = j.ended
<1>1. k \in Job
  BY ZenonT(30) DEF Job
<1>2. /\ k.step = j.step /\ k.at = x /\ k.started = j.started /\ k.failed = j.failed
      /\ k.then = j.then /\ k.pids = j.pids /\ k.ended = j.ended
  BY ZenonT(30) DEF Job
<1> QED
  BY <1>1, <1>2

LEMMA StartedTo ==
  ASSUME NEW j \in Job, NEW x \in SUBSET Modules,
         NEW k, k = [j EXCEPT !.started = x]
  PROVE  /\ k \in Job /\ k.step = j.step /\ k.at = j.at /\ k.started = x /\ k.failed = j.failed
         /\ k.then = j.then /\ k.pids = j.pids /\ k.ended = j.ended
<1>1. k \in Job
  BY ZenonT(30) DEF Job
<1>2. /\ k.step = j.step /\ k.at = j.at /\ k.started = x /\ k.failed = j.failed
      /\ k.then = j.then /\ k.pids = j.pids /\ k.ended = j.ended
  BY ZenonT(30) DEF Job
<1> QED
  BY <1>1, <1>2

LEMMA EndedTo ==
  ASSUME NEW j \in Job, NEW x, NEW k, k = [j EXCEPT !.ended = x]
  PROVE  k = [step |-> j.step, at |-> j.at, started |-> j.started, failed |-> j.failed,
              then |-> j.then, pids |-> j.pids, ended |-> x]
  BY ZenonT(30) DEF Job

LEMMA EndedPids ==
  ASSUME NEW j \in Job, NEW h, NEW P, NEW k, k = [j EXCEPT !.ended = h, !.pids = P]
  PROVE  k = [step |-> j.step, at |-> j.at, started |-> j.started, failed |-> j.failed,
              then |-> j.then, pids |-> P, ended |-> h]
  BY ZenonT(30) DEF Job

LEMMA IsJob ==
  ASSUME NEW k,
         NEW x \in {None, "stop", "rollback"} \cup Preparing \cup Launching,
         NEW a \in 0 .. ModuleCount + 1, NEW S \in SUBSET Modules, NEW f \in BOOLEAN,
         NEW goal \in {None, "start", "restart"}, NEW P \in SUBSET Nat,
         NEW e \in {None, "prepared", "started", "restarted", "stopped", "rolled back", "failed"},
         k = [step |-> x, at |-> a, started |-> S, failed |-> f, then |-> goal,
              pids |-> P, ended |-> e]
  PROVE  /\ k \in Job /\ k.step = x /\ k.at = a /\ k.started = S /\ k.failed = f
         /\ k.then = goal /\ k.pids = P /\ k.ended = e
  BY Zenon DEF Job

LEMMA IdleRange ==
  /\ None \in {None, "stop", "rollback"} \cup Preparing \cup Launching
  /\ 0 \in 0 .. ModuleCount + 1 /\ {} \in SUBSET Modules /\ FALSE \in BOOLEAN
  /\ None \in {None, "start", "restart"}
  BY SupervisorAssumption

LEMMA IdleJob ==
  /\ Idle \in Job /\ Idle.step = None /\ Idle.at = 0 /\ Idle.started = {}
  /\ Idle.failed = FALSE /\ Idle.then = None /\ Idle.pids = {} /\ Idle.ended = None
  BY SupervisorAssumption, SMT DEF Idle, Job

LEMMA IdleStep ==
  ASSUME NEW x \in {None, "stop", "rollback"} \cup Preparing \cup Launching,
         NEW k,
         k = [Idle EXCEPT !.step = x]
  PROVE  /\ k \in Job /\ k.step = x /\ k.at = 0 /\ k.started = {} /\ k.failed = FALSE
         /\ k.then = None /\ k.pids = {} /\ k.ended = None
<1>1. k \in Job
  <2>1. Idle \in Job
    BY IdleJob
  <2> QED
    BY <2>1, Zenon DEF Job
<1>2. /\ k.step = x /\ k.at = 0 /\ k.started = {} /\ k.failed = FALSE
      /\ k.then = None /\ k.pids = {} /\ k.ended = None
  BY Zenon DEF Idle
<1> QED
  BY <1>1, <1>2

LEMMA Released ==
  ASSUME ResourcesOK, Release
  PROVE  /\ resource' = [grant |-> resource.grant, active |-> resource.active /\ ~Volatile]
         /\ resource' \in [grant : Nat, active : BOOLEAN]
         /\ resource'.active => resource'.grant > 0
         /\ Volatile => ~resource'.active
<1>1. resource \in [grant : Nat, active : BOOLEAN]
  BY DEF ResourcesOK
<1>2. resource' = [grant |-> resource.grant, active |-> resource.active /\ ~Volatile]
  BY <1>1, Zenon DEF Release
<1> QED
  BY <1>1, <1>2, SupervisorAssumption DEF ResourcesOK
-----------------------------------------------------------------------------
(* How a step of service s changes the plans: its own grow, and no other's. *)

PlansGrow(s) ==
  /\ plans' \in [Services -> [Modules -> Plan]]
  /\ \A t \in Services \ {s} : plans'[t] = plans[t]
  /\ \A m \in Modules :
       \/ plans'[s][m] = plans[s][m]
       \/ /\ plans[s][m] = NoPlan /\ plans'[s][m] # NoPlan
          /\ plans'[s][m].by = s /\ plans'[s][m].bindings = bindings[s]

LEMMA PlannedGrows ==
  ASSUME Shared, NEW s \in Services, NEW S \in SUBSET Modules,
         plans' = [plans EXCEPT ![s] = Planned(s, S, bindings[s])]
  PROVE  /\ PlansGrow(s)
         /\ plans'[s] = Planned(s, S, bindings[s])
         /\ \A m \in S \cap Executable : plans'[s][m] # NoPlan
<1> DEFINE made == Planned(s, S, bindings[s])
<1>1. bindings[s] \in Nat /\ plans \in [Services -> [Modules -> Plan]]
  BY DEF Shared, ResourcesOK
<1>2. NoPlan.by = None
  BY DEF NoPlan
<1>3. ASSUME NEW m \in Modules
      PROVE  /\ made[m] \in Plan
             /\ \/ made[m] = plans[s][m]
                \/ /\ plans[s][m] = NoPlan /\ made[m] # NoPlan
                   /\ made[m].by = s /\ made[m].bindings = bindings[s]
             /\ m \in S \cap Executable => made[m] # NoPlan
  <2> DEFINE api == IF m \in Consumer /\ (m - 1 \in S \/ plans[s][m - 1] # NoPlan)
                    THEN s ELSE None
             fresh == [by |-> s, bindings |-> bindings[s], api |-> api]
  <2>1. made[m] = IF m \notin S \cap Executable \/ plans[s][m] # NoPlan
                  THEN plans[s][m] ELSE fresh
    BY Zenon DEF Planned
  <2>2. plans[s][m] \in Plan
    BY <1>1
  <2>3. api \in Services \cup {None}
    OBVIOUS
  <2> HIDE DEF api
  <2>4. fresh \in Plan /\ fresh.by = s /\ fresh.bindings = bindings[s]
    BY <1>1, <2>3 DEF Plan
  <2>5. fresh # NoPlan
    BY <1>2, <2>4, SupervisorAssumption
  <2> HIDE DEF fresh
  <2> QED
    BY <2>1, <2>2, <2>4, <2>5
<1>4. made \in [Modules -> Plan]
  <2>1. made = [m \in Modules |-> made[m]]
    BY Zenon DEF Planned
  <2> HIDE DEF made
  <2> QED
    BY <1>3, <2>1
<1> HIDE DEF made
<1>5. /\ plans'[s] = made /\ plans' \in [Services -> [Modules -> Plan]]
      /\ \A t \in Services \ {s} : plans'[t] = plans[t]
  BY <1>1, <1>4 DEF made
<1> QED
  BY <1>3, <1>5 DEF PlansGrow, made

LEMMA PlansStay ==
  ASSUME Shared, NEW s \in Services, plans' = plans
  PROVE  PlansGrow(s)
  BY DEF Shared, PlansGrow

-----------------------------------------------------------------------------
(* How the records and processes change: they go, or one is launched.       *)

(* Processes end and records are given up, none of a process that still     *)
(* runs but those of X.                                                     *)
Shrink(X) ==
  /\ launched' = launched /\ alive' \subseteq alive
  /\ record' \in [Modules -> [state : {"running", "stopped", "failed"}, pid : 0 .. Len(launched)]]
  /\ \A m \in Modules : record'[m].pid \in {record[m].pid, 0}
  /\ \A m \in Modules \ X : record[m].pid \in alive' => record'[m].pid = record[m].pid

LEMMA ShrinkObserved ==
  ASSUME Procs, record' = Observed, UNCHANGED <<launched, alive>>
  PROVE  Shrink({})
  BY DEF Procs, Observed, Shrink

LEMMA ShrinkNothing ==
  ASSUME Procs, UNCHANGED <<launched, record>>, alive' \subseteq alive
  PROVE  Shrink({})
  BY DEF Procs, Shrink

LEMMA ShrinkTerminate ==
  ASSUME Procs, NEW m \in Modules, Terminate(m), launched' = launched
  PROVE  /\ Shrink({}) /\ record'[m].pid = 0 /\ record[m].pid \notin alive'
         /\ \A n \in Modules \ {m} : record'[n] = record[n]
<1>1. record \in [Modules -> [state : {"running", "stopped", "failed"}, pid : 0 .. Len(launched)]]
  BY DEF Procs
<1>2. PICK r : /\ r = [state |-> IF record[m].pid # 0 /\ record[m].pid \notin alive
                                 THEN "failed" ELSE "stopped", pid |-> 0]
               /\ record' = [record EXCEPT ![m] = r]
  BY DEF Terminate
<1>3. r \in [state : {"running", "stopped", "failed"}, pid : 0 .. Len(launched)] /\ r.pid = 0
  <2>1. Len(launched) \in Nat
    BY DEF Procs
  <2> QED
    BY <1>2, <2>1
<1>4. /\ record'[m] = r /\ \A n \in Modules \ {m} : record'[n] = record[n]
      /\ record' \in [Modules -> [state : {"running", "stopped", "failed"}, pid : 0 .. Len(launched)]]
  BY <1>1, <1>2, <1>3
<1>5. alive' = alive \ {record[m].pid}
  BY DEF Terminate
<1> QED
  BY <1>3, <1>4, <1>5 DEF Shrink

LEMMA ShrinkLaunchFails ==
  ASSUME Procs, NEW m \in Modules, NEW plan, LaunchFails(m, plan)
  PROVE  Shrink({m}) /\ ~Owned(m, plan) /\ alive' = alive
<1>1. record \in [Modules -> [state : {"running", "stopped", "failed"}, pid : 0 .. Len(launched)]]
  BY DEF Procs
<1>2. PICK state \in {"failed"} \cup ({record[m].state} \ {"running"}) :
         record' = [record EXCEPT ![m] = [state |-> state, pid |-> 0]]
  BY DEF LaunchFails
<1>3. Len(launched) \in Nat /\ state \in {"running", "stopped", "failed"}
  <2>1. launched \in Seq([module : Modules, plan : Plan])
    BY DEF Procs
  <2>2. record[m] \in [state : {"running", "stopped", "failed"}, pid : 0 .. Len(launched)]
    BY <1>1
  <2>3. record[m].state \in {"running", "stopped", "failed"}
    BY <2>2
  <2> QED
    BY <2>1, <2>3, LenProperties
<1>4. /\ record'[m].pid = 0 /\ \A n \in Modules \ {m} : record'[n] = record[n]
      /\ record' \in [Modules -> [state : {"running", "stopped", "failed"}, pid : 0 .. Len(launched)]]
  BY <1>1, <1>2, <1>3
<1> QED
  BY <1>4 DEF Shrink, LaunchFails

(* What runs keeps its plan: plans once made up stay. *)
LEMMA PlansKept ==
  ASSUME Procs, NEW s \in Services, PlansGrow(s), NEW p \in 1 .. Len(launched)
  PROVE  LET q == launched[p].plan IN
         /\ q.by \in Services /\ q # NoPlan /\ launched[p].module \in Modules
         /\ plans'[q.by][launched[p].module] = q
<1> DEFINE q == launched[p].plan
<1>1. q.by \in Services /\ plans[q.by][launched[p].module] = q
  BY DEF Procs
<1>2. q # NoPlan
  BY <1>1, SupervisorAssumption DEF NoPlan
<1>3. launched[p].module \in Modules
  <2>1. launched \in Seq([module : Modules, plan : Plan])
    BY DEF Procs
  <2>2. launched[p] \in [module : Modules, plan : Plan]
    BY <2>1, ElementOfSeq
  <2> QED
    BY <2>2
<1> QED
  BY <1>1, <1>2, <1>3 DEF PlansGrow

LEMMA ShrinkProcs ==
  ASSUME Procs, NEW s \in Services, PlansGrow(s), NEW X \in SUBSET Modules, Shrink(X),
         Single' => Single, Single => \A m \in X : record[m].pid \notin alive
  PROVE  Procs'
<1>1. launched' = launched /\ alive' \subseteq alive
  BY DEF Shrink
<1>2. \A m \in Modules :
        record'[m].pid # 0 => m \in Executable /\ launched'[record'[m].pid].module = m
  BY <1>1 DEF Procs, Shrink
<1>3. \A p \in 1 .. Len(launched') :
       /\ launched'[p].plan.by \in Services
       /\ plans'[launched'[p].plan.by][launched'[p].module] = launched'[p].plan
       /\ CommandsOf[launched'[p].plan.by] = 1 => launched'[p].plan.bindings # 0
  BY <1>1, PlansKept DEF Procs
<1>4. ASSUME Single', NEW p \in alive'
      PROVE  record'[launched'[p].module].pid = p
  <2>1. p \in alive /\ p \in 1 .. Len(launched) /\ Single
    BY <1>1, <1>4 DEF Procs
  <2>2. PICK m \in Modules : m = launched[p].module
    BY <2>1, PlansKept
  <2>3. record[m].pid = p
    BY <2>1, <2>2 DEF Procs
  <2>4. m \notin X
    BY <2>1, <2>3
  <2> QED
    BY <1>1, <1>4, <2>2, <2>3, <2>4 DEF Shrink
<1> QED
  BY <1>1, <1>2, <1>3, <1>4 DEF Procs, Shrink
(* While one service runs all commands, a live process on record is its own. *)
LEMMA OwnedWhenAlone ==
  ASSUME Procs, Shared, NEW s \in Services, PlansGrow(s), \A t \in Services : Local(t),
         Single, commands[s] > 0, NEW m \in Modules, record[m].pid \in alive
  PROVE  Owned(m, plans'[s][m])
<1> DEFINE p == record[m].pid
<1>1. p \in 1 .. Len(launched) /\ launched[p].module = m
  BY DEF Procs
<1> HIDE DEF p
<1>2. PICK q : q = launched[p].plan
  OBVIOUS
<1>3. q.by \in Services /\ q # NoPlan /\ plans'[q.by][m] = q /\ plans[q.by][m] = q
  BY <1>1, <1>2, PlansKept DEF Procs
<1>4. commands[q.by] > 0
  BY <1>3 DEF Local, PlansOK, Shared
<1>5. q.by = s
  BY <1>3, <1>4 DEF Single
<1> QED
  BY <1>2, <1>3, <1>5 DEF Owned, p

(* A start of the controller for module m: what runs goes on, and the       *)
(* process on record is this plan's.                                        *)
LEMMA LaunchProcs ==
  ASSUME Procs, Shared, NEW s \in Services, PlansGrow(s), \A t \in Services : Local(t),
         Single' => Single, NEW m \in Executable, NEW plan, Launch(m, plan),
         commands[s] > 0, plan = plans'[s][m], plan.by = s,
         CommandsOf[s] = 1 => plan.bindings # 0
  PROVE  /\ Procs'
         /\ Len(launched) <= Len(launched')
         /\ \A p \in 1 .. Len(launched) : launched'[p] = launched[p]
         /\ record'[m].pid \in 1 .. Len(launched') /\ record'[m].pid \in alive'
         /\ launched'[record'[m].pid].module = m
         /\ \A n \in Modules \ {m} : record'[n] = record[n]
         /\ alive' \subseteq alive \cup {record'[m].pid}
         /\ Single => record[m].pid = record'[m].pid \/ record[m].pid \notin alive
<1>1. m \in Modules /\ Len(launched) \in Nat /\ launched \in Seq([module : Modules, plan : Plan])
  BY SupervisorAssumption DEF Procs
<1>2. CASE Owned(m, plan)
  <2>1. UNCHANGED <<record, launched, alive>>
    BY <1>2 DEF Launch
  <2>2. Shrink({})
    BY <2>1, ShrinkNothing
  <2>3. Procs'
    BY <2>2, ShrinkProcs
  <2>4. record[m].pid \in alive /\ record[m].pid \in 1 .. Len(launched) /\ launched[record[m].pid].module = m
    BY <1>1, <1>2 DEF Owned, Procs
  <2> QED
    BY <1>1, <2>1, <2>3, <2>4
<1>3. CASE ~Owned(m, plan)
  <2>1. /\ launched' = Append(launched, [module |-> m, plan |-> plan])
        /\ alive' = alive \cup {Len(launched')}
        /\ record' = [record EXCEPT ![m] = [state |-> "running", pid |-> Len(launched')]]
    BY <1>3 DEF Launch
  <2>2. plan \in Plan
    BY <1>1 DEF PlansGrow
  <2> DEFINE e == [module |-> m, plan |-> plan]
  <2>3. e \in [module : Modules, plan : Plan] /\ e.module = m /\ e.plan = plan
    BY <1>1, <2>2
  <2>e. launched' = Append(launched, e)
    BY <2>1
  <2> HIDE DEF e
  <2>4. /\ launched' \in Seq([module : Modules, plan : Plan])
        /\ Len(launched') = Len(launched) + 1
        /\ \A p \in 1 .. Len(launched) : launched'[p] = launched[p]
        /\ launched'[Len(launched) + 1] = e
    BY <1>1, <2>e, <2>3, AppendProperties
  <2> DEFINE n == Len(launched) + 1
  <2> DEFINE r == [state |-> "running", pid |-> n]
  <2>5. r.pid = n /\ r = [state |-> "running", pid |-> n]
    OBVIOUS
  <2>6. /\ \A k \in Modules : record[k] \in [state : {"running", "stopped", "failed"}, pid : 0 .. Len(launched)]
        /\ record' = [record EXCEPT ![m] = r]
        /\ DOMAIN record = Modules
    BY <2>1, <2>4, <2>5 DEF Procs
  <2> HIDE DEF r
  <2>7. /\ record'[m] = r /\ \A k \in Modules \ {m} : record'[k] = record[k]
        /\ DOMAIN record' = Modules
    BY <1>1, <2>6
  <2>8. record' \in [Modules -> [state : {"running", "stopped", "failed"}, pid : 0 .. Len(launched')]]
    <3>1. r \in [state : {"running", "stopped", "failed"}, pid : 0 .. Len(launched')]
      BY <1>1, <2>4, <2>5
    <3>2. \A k \in Modules : record'[k] \in [state : {"running", "stopped", "failed"}, pid : 0 .. Len(launched')]
      BY <1>1, <2>4, <2>6, <2>7, <3>1
    <3>3. record' = [k \in Modules |-> record'[k]]
      BY <2>6, <2>7
    <3> QED
      BY <3>2, <3>3
  <2>9. \A k \in Modules :
          record'[k].pid # 0 => k \in Executable /\ launched'[record'[k].pid].module = k
    <3> SUFFICES ASSUME NEW k \in Modules, record'[k].pid # 0
                 PROVE  k \in Executable /\ launched'[record'[k].pid].module = k
      OBVIOUS
    <3>1. CASE k = m
      BY <2>3, <2>4, <2>5, <2>7, <3>1
    <3>2. CASE k # m
      <4>1. record[k].pid \in 1 .. Len(launched)
        BY <1>1, <2>7, <3>2 DEF Procs
      <4> QED
        BY <2>4, <2>7, <3>2, <4>1 DEF Procs
    <3> QED
      BY <3>1, <3>2
  <2>10. \A p \in 1 .. Len(launched') :
          /\ launched'[p].plan.by \in Services
          /\ plans'[launched'[p].plan.by][launched'[p].module] = launched'[p].plan
          /\ CommandsOf[launched'[p].plan.by] = 1 => launched'[p].plan.bindings # 0
    <3> SUFFICES ASSUME NEW p \in 1 .. Len(launched')
                 PROVE  /\ launched'[p].plan.by \in Services
                        /\ plans'[launched'[p].plan.by][launched'[p].module] = launched'[p].plan
                        /\ CommandsOf[launched'[p].plan.by] = 1 => launched'[p].plan.bindings # 0
      OBVIOUS
    <3>1. CASE p = n
      BY <2>3, <2>4, <3>1
    <3>2. CASE p # n
      <4>1. p \in 1 .. Len(launched)
        BY <1>1, <2>4, <3>2
      <4> QED
        BY <2>4, <4>1, PlansKept DEF Procs
    <3> QED
      BY <3>1, <3>2
  <2>11. Single => record[m].pid \notin alive
    BY <1>1, <1>3, OwnedWhenAlone
  <2>12. ASSUME Single', NEW p \in alive'
         PROVE  record'[launched'[p].module].pid = p
    <3>1. CASE p = n
      BY <2>3, <2>4, <2>5, <2>7, <3>1
    <3>2. CASE p # n
      <4>1. p \in alive /\ p \in 1 .. Len(launched) /\ Single
        BY <1>1, <2>1, <2>4, <2>12, <3>2 DEF Procs
      <4>2. record[launched[p].module].pid = p /\ launched[p].module \in Modules
        BY <4>1, PlansKept DEF Procs
      <4>3. launched[p].module # m
        BY <2>11, <4>1, <4>2
      <4> QED
        BY <2>4, <2>7, <4>1, <4>2, <4>3
    <3> QED
      BY <3>1, <3>2
  <2>13. alive' \subseteq 1 .. Len(launched')
    <3>1. alive \subseteq 1 .. Len(launched)
      BY DEF Procs
    <3>2. Len(launched') = Len(launched) + 1 /\ alive' = alive \cup {Len(launched')}
      BY <2>1, <2>4
    <3>3. PICK k \in Nat : k = Len(launched)
      BY <1>1
    <3>4. alive' \subseteq 1 .. (k + 1)
      <4>1. SUFFICES ASSUME NEW p \in alive' PROVE p \in 1 .. (k + 1)
        OBVIOUS
      <4>2. p \in alive \/ p = k + 1
        BY <3>2, <3>3, <4>1
      <4>3. \A q \in alive : q \in 1 .. k
        BY <3>1, <3>3
      <4> QED
        BY <3>3, <4>2, <4>3
    <3> QED
      BY <3>2, <3>3, <3>4
  <2>14. Procs'
    BY <2>4, <2>8, <2>9, <2>10, <2>12, <2>13 DEF Procs
  <2> QED
    BY <1>1, <2>1, <2>3, <2>4, <2>5, <2>7, <2>11, <2>14
<1> QED
  BY <1>2, <1>3
LEMMA Wider ==
  ASSUME NEW m \in Nat, NEW n \in Nat, m <= n
  PROVE  1 .. m \subseteq 1 .. n
  OBVIOUS

-----------------------------------------------------------------------------
(* A step of one service: what the others have in hand stays.               *)

(* The services other than s keep what they hold, and the bindings file and *)
(* what s holds are well formed.                                            *)
Keeps(s) ==
  /\ ResourcesOK'
  /\ \A t \in Services \ {s} : prepared'[t] = prepared[t] /\ bindings'[t] = bindings[t]

LEMMA KeepsAll ==
  ASSUME Shared, NEW s \in Services, UNCHANGED <<prepared, bindings, resource>>
  PROVE  Keeps(s)
  BY DEF Shared, ResourcesOK, Keeps

LEMMA ServiceMoves ==
  ASSUME SupervisorInv, NEW s \in Services, ~At(s, None), NEW k,
         job' = [job EXCEPT ![s] = k], UNCHANGED <<commands, overlap>>,
         PlansGrow(s), Keeps(s), Procs', Len(launched) <= Len(launched'),
         Local(s)', ~overlap => Sound(s)'
  PROVE  SupervisorInv'
<1>1. /\ DOMAIN job' = Services /\ job'[s] = k
      /\ \A t \in Services \ {s} : job'[t] = job[t]
  BY DEF SupervisorInv, Shared
<1>2. Shared'
  BY <1>1 DEF SupervisorInv, Shared, PlansGrow, Keeps
<1>3. ASSUME NEW t \in Services \ {s}
      PROVE  Local(t)'
  <2>1. /\ job'[t] = job[t] /\ plans'[t] = plans[t] /\ commands'[t] = commands[t]
        /\ prepared'[t] = prepared[t] /\ bindings'[t] = bindings[t]
    BY <1>1, <1>3 DEF PlansGrow, Keeps
  <2>2. Local(t) /\ Len(launched) \in Nat /\ Len(launched') \in Nat
    BY <1>3 DEF SupervisorInv, Procs
  <2>3. 1 .. Len(launched) \subseteq 1 .. Len(launched')
    BY <2>2
  <2>4. JobOK(t)'
    BY <2>1, <2>2, <2>3 DEF Local, JobOK, Going, At
  <2>5. PlansOK(t)'
    BY <2>1, <2>2 DEF Local, PlansOK, At
  <2> QED
    BY <2>4, <2>5 DEF Local
<1>4. ~overlap => \A t \in Services \ {s} : At(t, None) /\ job[t].ended = None
  BY DEF SupervisorInv, AloneInv
<1>5. AloneInv'
  BY <1>1, <1>4 DEF AloneInv, At
<1>6. ASSUME NEW t \in Services \ {s}, ~overlap
      PROVE  Sound(t)'
  <2>1. job'[t].step = None /\ job'[t].ended = None
    BY <1>1, <1>4, <1>6 DEF At
  <2> QED
    BY <2>1 DEF Sound, At, None
<1>7. SoundInv'
  BY <1>6 DEF SoundInv
<1> QED
  BY <1>2, <1>3, <1>5, <1>7 DEF SupervisorInv

(* A command of s begins: it has achieved nothing, and what the others have *)
(* achieved is not the last any more.                                       *)
LEMMA CommandMoves ==
  ASSUME SupervisorInv, NEW s \in Services, NEW k \in Job, Command(s, k),
         k.ended = None, k.pids = {}, k.step = "stop" => k.at = ModuleCount,
         PlansGrow(s), Procs', UNCHANGED <<prepared, bindings, resource, launched>>,
         Local(s)'
  PROVE  SupervisorInv' /\ job'[s] = k
<1>1. /\ At(s, None) /\ commands' = [commands EXCEPT ![s] = @ + 1]
      /\ overlap' = (overlap \/ \E t \in Services : ~At(t, None))
      /\ job' = [t \in Services |-> IF t = s THEN k ELSE [job[t] EXCEPT !.ended = None]]
  BY DEF Command
<1>2. /\ DOMAIN job' = Services /\ job'[s] = k
      /\ \A t \in Services \ {s} : job'[t] = [job[t] EXCEPT !.ended = None]
  BY <1>1, Zenon
<1>3. commands' \in [Services -> Nat] /\ \A t \in Services \ {s} : commands'[t] = commands[t]
  BY <1>1 DEF SupervisorInv, Shared
<1>4. Shared'
  <2>1. overlap' \in BOOLEAN
    BY <1>1
  <2> QED
    BY <1>2, <1>3, <2>1 DEF SupervisorInv, Shared, ResourcesOK, PlansGrow
<1>5. ASSUME NEW t \in Services \ {s}
      PROVE  /\ Local(t)' /\ job'[t].ended = None
             /\ job'[t].step = job[t].step
  <2>1. Local(t) /\ job[t] \in Job /\ job'[t] = [job[t] EXCEPT !.ended = None]
    BY <1>2, <1>5 DEF SupervisorInv, Local, JobOK
  <2>2. PICK j : j = job[t]
    OBVIOUS
  <2>3. PICK i : i = job'[t]
    OBVIOUS
  <2>4. /\ i = [step |-> j.step, at |-> j.at, started |-> j.started, failed |-> j.failed,
                then |-> j.then, pids |-> j.pids, ended |-> None]
        /\ j \in Job
    BY <2>1, <2>2, <2>3, EndedTo
  <2>5. /\ i \in Job /\ i.step = j.step /\ i.at = j.at /\ i.started = j.started
        /\ i.then = j.then /\ i.pids = j.pids /\ i.ended = None
    BY <2>4 DEF Job
  <2>6. /\ plans'[t] = plans[t] /\ commands'[t] = commands[t]
        /\ prepared' = prepared /\ bindings' = bindings /\ launched' = launched
    BY <1>3, <1>5 DEF PlansGrow
  <2>7. JobOK(t)'
    BY <2>1, <2>2, <2>3, <2>5, <2>6 DEF Local, JobOK, Going, At
  <2>8. PlansOK(t)'
    BY <2>1, <2>2, <2>3, <2>5, <2>6 DEF Local, PlansOK, At
  <2> QED
    BY <2>2, <2>3, <2>5, <2>7, <2>8 DEF Local
<1>6. ~overlap' => \A t \in Services : At(t, None)
  BY <1>1
<1>7. AloneInv'
  BY <1>2, <1>5, <1>6 DEF AloneInv, At
<1>8. SoundInv'
  <2>1. SUFFICES ASSUME ~overlap', NEW t \in Services
                 PROVE  Sound(t)'
    BY DEF SoundInv
  <2>2. CASE t = s
    <3>1. PICK c : c = job'[s]
      OBVIOUS
    <3>2. c.ended = None /\ c.pids = {} /\ (c.step = "stop" => c.at = ModuleCount)
      BY <1>2, <3>1
    <3> QED
      BY <2>2, <3>1, <3>2, SupervisorAssumption DEF Sound, At, None, Modules
  <2>3. CASE t # s
    <3>1. job'[t].step = None /\ job'[t].ended = None
      BY <1>5, <1>6, <2>1, <2>3 DEF At
    <3> QED
      BY <3>1 DEF Sound, At, None
  <2> QED
    BY <2>2, <2>3
<1> QED
  BY <1>2, <1>4, <1>5, <1>7, <1>8 DEF SupervisorInv

(* A command of s ends; what it says of itself is what is claimed of it.    *)
LEMMA EndMoves ==
  ASSUME SupervisorInv, NEW s \in Services, ~At(s, None),
         NEW how \in {"prepared", "started", "restarted", "stopped", "rolled back", "failed"},
         End(s, how), UNCHANGED <<commands, overlap>>,
         PlansGrow(s), Keeps(s), prepared'[s] => bindings'[s] > 0,
         Procs', Len(launched) <= Len(launched'),
         ~overlap /\ how = "rolled back" => job[s].pids \cap alive' = {},
         ~overlap /\ how = "stopped" =>
           /\ \A m \in Modules : record'[m].pid \notin alive'
           /\ Volatile => ~resource'.active
  PROVE  SupervisorInv'
<1>1. PICK k : /\ k = [Idle EXCEPT !.ended = how, !.pids = job[s].pids]
               /\ job' = [job EXCEPT ![s] = k]
  BY DEF End, Goto
<1>2. k = [step |-> None, at |-> 0, started |-> {}, failed |-> FALSE,
           then |-> None, pids |-> job[s].pids, ended |-> how]
  BY <1>1, EndedPids, IdleJob
<1>3. /\ Local(s) /\ job[s] \in Job /\ job[s].pids \subseteq 1 .. Len(launched)
      /\ Len(launched) \in Nat /\ Len(launched') \in Nat
  <2>1. Len(launched) \in Nat /\ Len(launched') \in Nat
    <3>1. /\ launched \in Seq([module : Modules, plan : Plan])
          /\ launched' \in Seq([module : Modules, plan : Plan]')
      BY DEF SupervisorInv, Procs
    <3> QED
      BY <3>1, LenProperties
  <2>2. Local(s)
    BY DEF SupervisorInv
  <2> QED
    BY <2>1, <2>2 DEF Local, JobOK
<1>4. job[s].pids \in SUBSET Nat /\ job[s].pids \subseteq 1 .. Len(launched')
  <2>1. job[s].pids \in SUBSET Nat
    BY <1>3 DEF Job
  <2>2. 1 .. Len(launched) \subseteq 1 .. Len(launched')
    BY <1>3, Wider
  <2> QED
    BY <1>3, <2>1, <2>2
<1>5. /\ k \in Job /\ k.step = None /\ k.pids = job[s].pids /\ k.ended = how
  <2>2. PICK P \in SUBSET Nat : P = job[s].pids
    BY <1>4
  <2>3. k = [step |-> None, at |-> 0, started |-> {}, failed |-> FALSE,
             then |-> None, pids |-> P, ended |-> how]
    BY <1>2, <2>2
  <2>4. how \in {None, "prepared", "started", "restarted", "stopped", "rolled back", "failed"}
    OBVIOUS
  <2>5. k \in Job
    <3> QED
      BY <2>2, <2>3, <2>4, IdleRange, IsJob, Zenon
  <2> QED
    BY <2>2, <2>3, <2>5
<1>6. job'[s] = k
  BY <1>1 DEF SupervisorInv, Shared
<1>7. JobOK(s)'
  BY <1>4, <1>5, <1>6 DEF JobOK, Going, At, None, Preparing
<1>8. PlansOK(s)'
  <2>1. commands'[s] # 0
    BY <1>3 DEF Local, PlansOK
  <2>2. \A m \in Modules : plans'[s][m] # NoPlan => plans'[s][m].by = s
    BY <1>3 DEF Local, PlansOK, PlansGrow
  <2> QED
    BY <1>5, <1>6, <2>1, <2>2 DEF PlansOK, At, None, Preparing, Launching
<1>9. ~overlap => Sound(s)'
  BY <1>5, <1>6 DEF Sound, At, None
<1> QED
  BY <1>1, <1>7, <1>8, <1>9, ServiceMoves DEF Local
-----------------------------------------------------------------------------
(* The commands begin.                                                      *)

LEMMA SingleBefore ==
  ASSUME Shared, NEW s \in Services, NEW k, Command(s, k) \/ commands' = commands
  PROVE  Single' => Single
<1>1. commands \in [Services -> Nat]
  BY DEF Shared
<1>2. \A t \in Services : commands[t] > 0 => commands'[t] > 0
  <2>1. CASE commands' = commands
    BY <2>1
  <2>2. CASE Command(s, k)
    BY <1>1, <2>2 DEF Command
  <2> QED
    BY <2>1, <2>2
<1> QED
  BY <1>2 DEF Single

LEMMA CommandBegins ==
  ASSUME SupervisorInv, NEW s \in Services, NEW k \in Job, Command(s, k),
         k.step \in {None, "prepare", "start", "restart", "stop"},
         k.started = {}, k.pids = {}, k.ended = None,
         k.step = "start" \/ (k.step = "prepare" /\ k.then = "start") => k.at >= 1,
         k.step = "restart" \/ (k.step = "prepare" /\ k.then = "restart") => k.at \in Executable,
         k.step = "stop" => k.at = ModuleCount,
         k.step \in {"start", "restart"} => prepared[s],
         k.step # None => plans' = plans,
         PlansGrow(s), Procs', UNCHANGED <<prepared, bindings, resource, launched>>
  PROVE  SupervisorInv'
<1>1. /\ Local(s) /\ At(s, None) /\ commands[s] < CommandsOf[s]
      /\ commands' = [commands EXCEPT ![s] = @ + 1]
      /\ job' = [t \in Services |-> IF t = s THEN k ELSE [job[t] EXCEPT !.ended = None]]
  BY DEF SupervisorInv, Command
<1>2. job'[s] = k
  BY <1>1, Zenon
<1>3. commands \in [Services -> Nat] /\ CommandsOf[s] \in Nat
  BY SupervisorAssumption DEF SupervisorInv, Shared
<1>4. commands'[s] = commands[s] + 1 /\ commands[s] \in Nat
  BY <1>1, <1>3
<1>5. JobOK(s)'
  <2>1. k.step \notin {"relaunch", "modules"} /\ {} \subseteq 1 .. (k.at - 1)
    BY DEF None
  <2>2. Going(s, "start")' => k.at >= 1
    BY <1>2, <2>1 DEF Going, At, Preparing
  <2>3. Going(s, "restart")' => k.at \in Executable
    BY <1>2, <2>1 DEF Going, At, Preparing
  <2>4. At(s, "stop")' => k.at <= ModuleCount
    BY <1>2, SupervisorAssumption DEF At
  <2> QED
    BY <1>2, <2>1, <2>2, <2>3, <2>4 DEF JobOK, At
<1>6. PlansOK(s)'
  <2>1. commands'[s] # 0
    BY <1>4
  <2>2. \A m \in Modules : plans'[s][m] # NoPlan => plans'[s][m].by = s
    BY <1>1 DEF Local, PlansOK, PlansGrow
  <2>3. prepared'[s] \/ k.step \in {"modules"} \cup Launching => bindings'[s] > 0
    BY <1>1 DEF Local, PlansOK, Launching, None
  <2>4. CommandsOf[s] = 1 /\ k.step \in Preparing \cup Launching =>
          \A m \in Modules : plans'[s][m] = NoPlan
    <3>1. CommandsOf[s] = 1 => commands[s] = 0
      BY <1>1, <1>3
    <3> QED
      BY <1>1, <3>1 DEF Local, PlansOK, Preparing, Launching, None
  <2> QED
    BY <1>2, <2>1, <2>2, <2>3, <2>4 DEF PlansOK
<1> QED
  BY <1>5, <1>6, CommandMoves DEF Local

LEMMA IssueInv ==
  ASSUME SupervisorInv, NEW s \in Services, Issue(s)
  PROVE  SupervisorInv'
<1>0. Shared /\ Procs /\ ModuleCount \in Nat /\ ModuleCount > 0
  BY SupervisorAssumption DEF SupervisorInv
<1>a. ASSUME NEW k, Command(s, k), UNCHANGED <<plans, record, launched, alive>>
      PROVE  PlansGrow(s) /\ Procs'
  <2>1. PlansGrow(s)
    BY <1>0, <1>a, PlansStay
  <2>2. Shrink({})
    BY <1>0, <1>a, ShrinkNothing
  <2>3. Single' => Single
    BY <1>0, <1>a, SingleBefore
  <2> QED
    BY <1>0, <2>1, <2>2, <2>3, ShrinkProcs
<1>1. CASE Prepare(s)
  <2>1. PICK k : k = [Idle EXCEPT !.step = "prepare"] /\ Command(s, k)
    BY <1>1 DEF Prepare
  <2>3. "prepare" \in {None, "stop", "rollback"} \cup Preparing \cup Launching
    BY DEF Preparing
  <2>4. /\ k \in Job /\ k.step = "prepare" /\ k.started = {}
        /\ k.then = None /\ k.pids = {} /\ k.ended = None
    BY <2>1, <2>3, IdleStep, Zenon
  <2>5. UNCHANGED <<prepared, bindings, plans, resource, record, launched, alive>>
    BY <1>1 DEF Prepare
  <2> QED
    BY <1>a, <2>1, <2>4, <2>5, CommandBegins DEF None
<1>2. CASE Start(s)
  <2> DEFINE first == IF Ready(s) THEN "start" ELSE "prepare"
  <2>1. PICK k : /\ k = [Idle EXCEPT !.step = first, !.then = "start", !.at = 1]
                 /\ Command(s, k)
    BY <1>2 DEF Start
  <2>3. /\ first \in {None, "stop", "rollback"} \cup Preparing \cup Launching
        /\ first \in {"start", "prepare"} /\ (first = "start" => prepared[s])
    BY DEF Preparing, Launching, Ready
  <2> HIDE DEF first
  <2>4. 1 \in 0 .. ModuleCount + 1 /\ "start" \in {None, "start", "restart"}
    BY <1>0
  <2>5. /\ k \in Job /\ k.step = first /\ k.at = 1 /\ k.started = {}
        /\ k.then = "start" /\ k.pids = {} /\ k.ended = None
    <3>1. k \in Job
      BY <2>1, <2>3, <2>4, IdleJob, Zenon DEF Job
    <3>2. /\ k.started = {} /\ k.pids = {} /\ k.ended = None
      BY <2>1, Zenon DEF Idle
    <3>3. k.step = first /\ k.at = 1 /\ k.then = "start"
      BY <2>1, Zenon DEF Idle
    <3> QED
      BY <3>1, <3>2, <3>3
  <2>6. UNCHANGED <<prepared, bindings, plans, resource, record, launched, alive>>
    BY <1>2 DEF Start
  <2>7. PlansGrow(s) /\ Procs'
    BY <1>a, <2>1, <2>6
  <2> QED
    <3>1. /\ k.step \in {"start", "prepare"} /\ k.at >= 1 /\ k.then = "start"
          /\ k.step = "start" => prepared[s]
      BY <2>3, <2>5
    <3> QED
      BY <2>1, <2>5, <2>6, <2>7, <3>1, CommandBegins DEF None
<1>3. CASE Stop(s)
  <2>1. PICK k : k = [Idle EXCEPT !.step = "stop", !.at = ModuleCount] /\ Command(s, k)
    BY <1>3 DEF Stop
  <2>3. "stop" \in {None, "stop", "rollback"} \cup Preparing \cup Launching
    OBVIOUS
  <2>4. ModuleCount \in 0 .. ModuleCount + 1
    BY <1>0
  <2>5. /\ k \in Job /\ k.step = "stop" /\ k.at = ModuleCount /\ k.started = {}
        /\ k.pids = {} /\ k.ended = None
    <3>1. k \in Job
      BY <2>1, <2>3, <2>4, IdleJob, Zenon DEF Job
    <3>2. /\ k.started = {} /\ k.pids = {} /\ k.ended = None
      BY <2>1, Zenon DEF Idle
    <3>3. k.step = "stop" /\ k.at = ModuleCount
      BY <2>1, Zenon DEF Idle
    <3> QED
      BY <3>1, <3>2, <3>3
  <2>6. UNCHANGED <<prepared, bindings, plans, resource, record, launched, alive>>
    BY <1>3 DEF Stop
  <2> QED
    BY <1>a, <2>1, <2>5, <2>6, CommandBegins DEF None
<1>4. CASE Status(s)
  <2>1. /\ Command(s, Idle) /\ record' = Observed
        /\ plans' = [plans EXCEPT ![s] = Planned(s, Modules, bindings[s])]
        /\ UNCHANGED <<prepared, bindings, resource, launched, alive>>
    BY <1>4 DEF Status
  <2>2. PlansGrow(s)
    BY <1>0, <2>1, PlannedGrows
  <2>3. Shrink({})
    BY <1>0, <2>1, ShrinkObserved
  <2>4. Single' => Single
    BY <1>0, <2>1, SingleBefore
  <2>5. Procs'
    BY <1>0, <2>2, <2>3, <2>4, ShrinkProcs
  <2> QED
    BY <2>1, <2>2, <2>5, IdleJob, CommandBegins DEF None
<1>5. ASSUME NEW m \in Modules, Restart(s, m)
      PROVE  SupervisorInv'
  <2> DEFINE first == IF Ready(s) THEN "restart" ELSE "prepare"
  <2>1. PICK k : /\ k = [Idle EXCEPT !.step = first, !.then = "restart", !.at = m]
                 /\ Command(s, k)
    BY <1>5 DEF Restart
  <2>3. /\ first \in {None, "stop", "rollback"} \cup Preparing \cup Launching
        /\ first \in {"restart", "prepare"} /\ (first = "restart" => prepared[s])
    BY DEF Preparing, Launching, Ready
  <2> HIDE DEF first
  <2>4. m \in 0 .. ModuleCount + 1 /\ "restart" \in {None, "start", "restart"}
    BY <1>0, <1>5 DEF Modules
  <2>5. /\ k \in Job /\ k.step = first /\ k.at = m /\ k.started = {}
        /\ k.then = "restart" /\ k.pids = {} /\ k.ended = None
    <3>1. k \in Job
      BY <2>1, <2>3, <2>4, IdleJob, Zenon DEF Job
    <3>2. /\ k.started = {} /\ k.pids = {} /\ k.ended = None
      BY <2>1, Zenon DEF Idle
    <3>3. k.step = first /\ k.at = m /\ k.then = "restart"
      BY <2>1, Zenon DEF Idle
    <3> QED
      BY <3>1, <3>2, <3>3
  <2>6. /\ UNCHANGED <<prepared, bindings, plans, resource, record, launched, alive>>
        /\ m \in Executable
    BY <1>5 DEF Restart
  <2>7. PlansGrow(s) /\ Procs'
    BY <1>a, <2>1, <2>6
  <2> QED
    BY <2>1, <2>3, <2>5, <2>6, <2>7, CommandBegins DEF None
<1> QED
  BY <1>1, <1>2, <1>3, <1>4, <1>5 DEF Issue
-----------------------------------------------------------------------------
(* The steps of a command.                                                  *)

LEMMA InHand ==
  ASSUME SupervisorInv, NEW s \in Services, ~At(s, None)
  PROVE  /\ Shared /\ Procs /\ ResourcesOK /\ Local(s) /\ JobOK(s) /\ PlansOK(s)
         /\ \A t \in Services : Local(t)
         /\ job[s] \in Job /\ job[s].ended = None /\ job[s].pids \subseteq 1 .. Len(launched)
         /\ commands[s] > 0 /\ Len(launched) \in Nat /\ bindings[s] \in Nat
         /\ ~overlap => Sound(s)
<1>1. Shared /\ Procs /\ ResourcesOK /\ Local(s) /\ JobOK(s) /\ PlansOK(s)
      /\ (\A t \in Services : Local(t)) /\ (~overlap => Sound(s))
  BY DEF SupervisorInv, Shared, Local, SoundInv
<1>2. job[s] \in Job /\ job[s].ended = None /\ job[s].pids \subseteq 1 .. Len(launched)
  BY <1>1 DEF JobOK
<1>3. commands[s] \in Nat /\ commands[s] # 0 /\ bindings[s] \in Nat
  BY <1>1 DEF Shared, ResourcesOK, PlansOK
<1>4. Len(launched) \in Nat
  BY <1>1, LenProperties DEF Procs
<1> QED
  BY <1>1, <1>2, <1>3, <1>4

LEMMA QuietProcs ==
  ASSUME Shared, Procs, NEW s \in Services, PlansGrow(s), Shrink({}), commands' = commands
  PROVE  Procs' /\ Len(launched) <= Len(launched')
<1>1. Single' => Single
  BY SingleBefore
<1>2. Procs'
  BY <1>1, ShrinkProcs
<1>3. Len(launched) \in Nat /\ launched' = launched
  BY LenProperties DEF Procs, Shrink
<1> QED
  BY <1>2, <1>3

(* Plans made up by who prepares or launches have the bindings it holds. *)
LEMMA PlansGrown ==
  ASSUME NEW s \in Services, PlansOK(s), PlansGrow(s)
  PROVE  /\ \A m \in Modules : plans'[s][m] # NoPlan => plans'[s][m].by = s
         /\ CommandsOf[s] = 1 /\ job[s].step \in {"modules"} \cup Launching =>
              \A m \in Modules : plans'[s][m] # NoPlan => plans'[s][m].bindings > 0
  BY DEF PlansOK, PlansGrow, Preparing

LEMMA PlansGo ==
  ASSUME NEW s \in Services, PlansOK(s), ~At(s, None), PlansGrow(s),
         UNCHANGED <<commands, prepared, bindings>>, job'[s].step # None,
         job'[s].step \in Preparing \cup Launching => job[s].step \in {"modules"} \cup Launching
  PROVE  PlansOK(s)'
<1>1. /\ \A m \in Modules : plans'[s][m] # NoPlan => plans'[s][m].by = s
      /\ CommandsOf[s] = 1 /\ job[s].step \in {"modules"} \cup Launching =>
              \A m \in Modules : plans'[s][m] # NoPlan => plans'[s][m].bindings > 0
  BY PlansGrown
<1>2. commands[s] # 0 /\ commands' = commands
  BY DEF PlansOK
<1>3. prepared'[s] \/ job'[s].step \in {"modules"} \cup Launching => bindings'[s] > 0
  BY DEF PlansOK, Preparing
<1> QED
  BY <1>1, <1>2, <1>3 DEF PlansOK

LEMMA Gone ==
  ASSUME Shared, NEW s \in Services, NEW k, job' = [job EXCEPT ![s] = k]
  PROVE  job'[s] = k
  BY DEF Shared

LEMMA ResolveInv ==
  ASSUME SupervisorInv, NEW s \in Services, Resolve(s)
  PROVE  SupervisorInv'
<1>1. /\ At(s, "prepare") /\ ~At(s, None)
      /\ UNCHANGED <<prepared, plans, record, launched, alive, commands, overlap>>
  BY DEF Resolve, At, None
<1>2. PICK k : k = [job[s] EXCEPT !.step = "modules"] /\ job' = [job EXCEPT ![s] = k]
  BY DEF Resolve, Goto
<1>3. PICK j : j = job[s] /\ j \in Job /\ j.step = "prepare"
  BY <1>1, InHand DEF At
<1>4. "modules" \in {None, "stop", "rollback"} \cup Preparing \cup Launching
  BY DEF Preparing
<1>5. /\ k \in Job /\ k.step = "modules" /\ k.at = j.at /\ k.started = j.started
      /\ k.then = j.then /\ k.pids = j.pids /\ k.ended = j.ended
  BY <1>2, <1>3, <1>4, StepTo
<1>6. job'[s] = k
  BY <1>1, <1>2, InHand, Gone
<1>7. PICK grant \in Nat :
        /\ grant > 0 /\ resource' = [grant |-> grant, active |-> TRUE]
        /\ bindings' = [bindings EXCEPT ![s] = grant]
  <2>1. /\ resource \in [grant : Nat, active : BOOLEAN]
        /\ resource.active => resource.grant > 0
    BY <1>1, InHand DEF ResourcesOK
  <2>2. resource.grant \in Nat
    BY <2>1
  <2>3. PICK grant \in Nat :
          /\ grant = IF resource.active THEN resource.grant ELSE resource.grant + 1
          /\ grant > 0
    BY <2>1, <2>2
  <2> QED
    BY <2>3 DEF Resolve
<1>8. Keeps(s) /\ bindings'[s] = grant
  <2>1. resource' \in [grant : Nat, active : BOOLEAN] /\ resource'.grant > 0
    BY <1>7
  <2> QED
    BY <1>1, <1>7, <2>1, InHand DEF Keeps, ResourcesOK
<1>9. PlansGrow(s)
  BY <1>1, InHand, PlansStay
<1>10. Procs' /\ Len(launched) <= Len(launched')
  BY <1>1, <1>9, InHand, ShrinkNothing, QuietProcs
<1>11. JobOK(s)'
  BY <1>1, <1>3, <1>5, <1>6, InHand DEF JobOK, Going, At, Preparing, None
<1>12. PlansOK(s)'
  BY <1>1, <1>3, <1>5, <1>6, <1>7, <1>8, InHand DEF PlansOK, At, Preparing, Launching, None
<1>13. Sound(s)'
  BY <1>1, <1>3, <1>5, <1>6, InHand DEF Sound, At, None
<1> QED
  BY <1>1, <1>2, <1>8, <1>9, <1>10, <1>11, <1>12, <1>13, ServiceMoves DEF Local
(* A set of modules has a last one. *)
LEMMA LeastNatural ==
  ASSUME NEW T \in SUBSET Nat, T # {}
  PROVE  \E x \in T : \A y \in T : x <= y
<1>1. PICK R : R = OpToRel(<, Nat) /\ IsWellFoundedOn(R, Nat)
  BY NatLessThanWellFounded
<1>2. ASSUME NEW y \in Nat, NEW x \in Nat, y < x
      PROVE  <<y, x>> \in R
  BY <1>1, <1>2 DEF OpToRel
<1>3. PICK x \in T : \A y \in T : ~(<<y, x>> \in R)
  BY <1>1, WFMin
<1>4. ASSUME NEW y \in T
      PROVE  x <= y
  <2>1. x \in Nat /\ y \in Nat
    OBVIOUS
  <2>2. ~(y < x)
    BY <1>2, <1>3, <2>1
  <2> QED
    BY <2>1, <2>2
<1> QED
  BY <1>4

LEMMA LastOfModules ==
  ASSUME NEW T \in SUBSET Modules, T # {}
  PROVE  Last(T) \in T
<1> DEFINE U == {ModuleCount - m : m \in T}
<1>1. ModuleCount \in Nat /\ T \in SUBSET (1 .. ModuleCount)
  BY SupervisorAssumption DEF Modules
<1>2. U \in SUBSET Nat /\ U # {}
  <2>1. \A m \in T : ModuleCount - m \in Nat
    BY <1>1
  <2>2. PICK m \in T : TRUE
    OBVIOUS
  <2> QED
    BY <2>1, <2>2
<1>3. PICK u \in U : \A v \in U : u <= v
  <2> HIDE DEF U
  <2> QED
    BY <1>2, LeastNatural
<1>4. PICK x \in T : u = ModuleCount - x
  OBVIOUS
<1>5. ASSUME NEW y \in T
      PROVE  y <= x
  <2>1. ModuleCount - x <= ModuleCount - y
    BY <1>3, <1>4
  <2>2. x \in Nat /\ y \in Nat
    BY <1>1
  <2> QED
    BY <1>1, <2>1, <2>2
<1>6. \E n \in T : \A y \in T : y <= n
  BY <1>5
<1> QED
  BY <1>6, Zenon DEF Last

LEMMA PrepareModulesInv ==
  ASSUME SupervisorInv, NEW s \in Services, PrepareModules(s)
  PROVE  SupervisorInv'
<1>1. At(s, "modules") /\ ~At(s, None) /\ UNCHANGED <<launched, alive, commands, overlap>>
  BY DEF PrepareModules, At, None
<1>2. PICK j : j = job[s] /\ j \in Job /\ j.step = "modules" /\ j.ended = None
  BY <1>1, InHand DEF At
<1>3. bindings[s] > 0 /\ bindings[s] \in Nat
  BY <1>1, <1>2, InHand DEF PlansOK
<1>4. CASE /\ prepared' = [prepared EXCEPT ![s] = TRUE]
           /\ plans' = [plans EXCEPT ![s] = Planned(s, Modules, bindings[s])]
           /\ record' = Observed
           /\ IF job[s].then = None THEN End(s, "prepared")
              ELSE Goto(s, [job[s] EXCEPT !.step = job[s].then])
           /\ UNCHANGED <<bindings, resource>>
  <2>1. PlansGrow(s)
    BY <1>1, <1>4, InHand, PlannedGrows
  <2>2. Shrink({})
    BY <1>1, <1>4, InHand, ShrinkObserved
  <2>3. Procs' /\ Len(launched) <= Len(launched')
    BY <1>1, <2>1, <2>2, InHand, QuietProcs
  <2>4. /\ Keeps(s) /\ bindings'[s] > 0
    BY <1>1, <1>3, <1>4, InHand DEF Keeps, ResourcesOK
  <2>5. CASE job[s].then = None
    <3>1. End(s, "prepared")
      BY <1>4, <2>5
    <3> QED
      BY <1>1, <2>1, <2>3, <2>4, <3>1, EndMoves
  <2>6. CASE job[s].then # None
    <3>1. PICK k : k = [j EXCEPT !.step = j.then] /\ job' = [job EXCEPT ![s] = k]
      BY <1>2, <1>4, <2>6 DEF Goto
    <3>2. /\ j.then \in {"start", "restart"}
          /\ j.then \in {None, "stop", "rollback"} \cup Preparing \cup Launching
      BY <1>2, <2>6 DEF Job, Launching
    <3>3. /\ k \in Job /\ k.step = j.then /\ k.at = j.at /\ k.started = j.started
          /\ k.then = j.then /\ k.pids = j.pids /\ k.ended = j.ended
      BY <1>2, <3>1, <3>2, StepTo
    <3>4. job'[s] = k
      BY <1>1, <3>1, InHand, Gone
    <3>5. JobOK(s) /\ j.pids = {}
      BY <1>1, <1>2, InHand DEF JobOK, Preparing
    <3>6. JobOK(s)'
      <4>1. /\ j.then = "start" => j.at >= 1 /\ j.started \subseteq 1 .. (j.at - 1)
            /\ j.then = "restart" => j.at \in Executable
        BY <1>2, <3>5 DEF JobOK, Going, Preparing
      <4>2. /\ Going(s, "start")' => j.then = "start"
            /\ Going(s, "restart")' \/ At(s, "relaunch")' => j.then = "restart"
            /\ ~At(s, "relaunch")' /\ ~At(s, "stop")' /\ k.step \notin Preparing
        BY <3>2, <3>3, <3>4 DEF Going, At, Preparing
      <4> QED
        BY <1>2, <3>3, <3>4, <3>5, <4>1, <4>2 DEF JobOK
    <3>7. PlansOK(s)'
      <4>1. job'[s].step # None /\ job[s].step \in {"modules"} \cup Launching
        BY <1>2, <3>2, <3>3, <3>4 DEF None
      <4>2. /\ \A m \in Modules : plans'[s][m] # NoPlan => plans'[s][m].by = s
            /\ CommandsOf[s] = 1 =>
                 \A m \in Modules : plans'[s][m] # NoPlan => plans'[s][m].bindings > 0
        BY <1>1, <2>1, <4>1, InHand, PlansGrown
      <4>3. commands'[s] # 0
        BY <1>1, InHand
      <4> QED
        BY <2>4, <4>2, <4>3 DEF PlansOK
    <3>8. Sound(s)'
      BY <1>2, <3>2, <3>3, <3>4, <3>5 DEF Sound, At, None
    <3> QED
      BY <1>1, <2>1, <2>3, <2>4, <3>1, <3>6, <3>7, <3>8, ServiceMoves DEF Local
  <2> QED
    BY <2>5, <2>6
<1>5. CASE /\ prepared' = [prepared EXCEPT ![s] = FALSE]
           /\ bindings' = [bindings EXCEPT ![s] = 0]
           /\ Release
           /\ End(s, "failed")
           /\ UNCHANGED <<plans, record>>
  <2>1. PlansGrow(s)
    BY <1>1, <1>5, InHand, PlansStay
  <2>2. Procs' /\ Len(launched) <= Len(launched')
    BY <1>1, <1>5, <2>1, InHand, ShrinkNothing, QuietProcs
  <2>3. Keeps(s) /\ ~prepared'[s]
    BY <1>1, <1>5, InHand, Released DEF Keeps, ResourcesOK
  <2> QED
    BY <1>1, <1>5, <2>1, <2>2, <2>3, EndMoves
<1> QED
  BY <1>4, <1>5 DEF PrepareModules

LEMMA StartedInv ==
  ASSUME SupervisorInv, NEW s \in Services, Started(s)
  PROVE  SupervisorInv'
<1>1. /\ At(s, "start") /\ ~At(s, None) /\ record' = Observed /\ End(s, "started")
      /\ UNCHANGED <<prepared, bindings, plans, resource, launched, alive, commands, overlap>>
  BY DEF Started, At, None
<1>2. PlansGrow(s) /\ Keeps(s)
  BY <1>1, InHand, PlansStay, KeepsAll
<1>3. Shrink({})
  BY <1>1, InHand, ShrinkObserved
<1>4. Procs' /\ Len(launched) <= Len(launched')
  BY <1>1, <1>2, <1>3, InHand, QuietProcs
<1>5. prepared'[s] => bindings'[s] > 0
  BY <1>1, InHand DEF PlansOK
<1> QED
  BY <1>1, <1>2, <1>4, <1>5, EndMoves
(* Who launches launches a plan of its own, with bindings if it must. *)
LEMMA OwnPlan ==
  ASSUME NEW s \in Services, PlansOK(s), PlansGrow(s), job[s].step \in {"modules"} \cup Launching,
         NEW m \in Modules, plans'[s][m] # NoPlan
  PROVE  /\ plans'[s][m].by = s
         /\ CommandsOf[s] = 1 => plans'[s][m].bindings # 0
<1>1. /\ plans'[s][m].by = s
      /\ CommandsOf[s] = 1 => plans'[s][m].bindings > 0
  BY PlansGrown
<1>2. plans'[s][m] \in Plan
  BY DEF PlansGrow
<1> QED
  BY <1>1, <1>2 DEF Plan

(* A launch that fails gives up no record of a running process while one    *)
(* service runs all commands.                                               *)
LEMMA FailedProcs ==
  ASSUME Shared, Procs, \A t \in Services : Local(t), NEW s \in Services, PlansGrow(s),
         NEW m \in Modules, LaunchFails(m, plans'[s][m]), commands' = commands, commands[s] > 0
  PROVE  /\ Procs' /\ Len(launched) <= Len(launched')
         /\ Shrink({m}) /\ alive' = alive /\ launched' = launched
<1>1. Shrink({m}) /\ ~Owned(m, plans'[s][m]) /\ alive' = alive /\ launched' = launched
  BY ShrinkLaunchFails DEF Shrink
<1>2. Single => record[m].pid \notin alive
  BY <1>1, OwnedWhenAlone
<1>3. Single' => Single
  BY SingleBefore
<1>4. Procs'
  BY <1>1, <1>2, <1>3, ShrinkProcs
<1>5. Len(launched) \in Nat
  BY LenProperties DEF Procs
<1> QED
  BY <1>1, <1>4, <1>5

LEMMA StartModuleInv ==
  ASSUME SupervisorInv, NEW s \in Services, StartModule(s)
  PROVE  SupervisorInv'
<1> DEFINE m == job[s].at
<1>1. /\ At(s, "start") /\ ~At(s, None) /\ m \in Modules
      /\ plans' = [plans EXCEPT ![s] = Planned(s, {m}, bindings[s])]
      /\ UNCHANGED <<prepared, bindings, resource, commands, overlap>>
  BY DEF StartModule, At, None
<1>2. PICK j : /\ j = job[s] /\ j \in Job /\ j.step = "start" /\ j.ended = None
               /\ j.at = m /\ j.pids \in SUBSET Nat /\ j.started \in SUBSET Modules
  <2>1. job[s] \in Job /\ job[s].step = "start" /\ job[s].ended = None
    BY <1>1, InHand DEF At
  <2> QED
    BY <2>1 DEF Job
<1>3. /\ PlansGrow(s) /\ Keeps(s)
      /\ plans'[s] = Planned(s, {m}, bindings[s])
      /\ m \in Executable => plans'[s][m] # NoPlan
  <2>1. {m} \in SUBSET Modules
    BY <1>1
  <2> QED
    BY <1>1, <2>1, InHand, KeepsAll, PlannedGrows
<1>4. m + 1 \in 0 .. ModuleCount + 1 /\ m \in 1 .. ModuleCount /\ m \in Nat
  BY <1>1, SupervisorAssumption DEF Modules
<1>5. m >= 1 /\ j.started \subseteq 1 .. (m - 1) /\ m \notin j.started
  BY <1>1, <1>2, <1>4, InHand DEF JobOK, Going, At
<1>6. ASSUME NEW k, job' = [job EXCEPT ![s] = k], k.step \in {"start", "rollback"}
      PROVE  job'[s] = k /\ PlansOK(s)'
  <2>1. job'[s] = k
    BY <1>1, <1>6, InHand, Gone
  <2>2. job[s].step \in {"modules"} \cup Launching /\ job'[s].step # None
    BY <1>2, <1>6, <2>1 DEF Launching, None
  <2> QED
    BY <1>1, <1>3, <2>1, <2>2, InHand, PlansGo
<1>7. ~overlap => \A p \in j.pids \cap alive :
                    launched[p].module \in j.started /\ record[launched[p].module].pid = p
  BY <1>1, <1>2, InHand DEF Sound
<1>8. j.pids \subseteq 1 .. Len(launched) /\ Len(launched) \in Nat
  BY <1>1, <1>2, InHand
<1>9. CASE /\ m \notin Executable
           /\ Goto(s, [job[s] EXCEPT !.at = m + 1])
           /\ UNCHANGED <<record, launched, alive>>
  <2>1. PICK k : k = [j EXCEPT !.at = m + 1] /\ job' = [job EXCEPT ![s] = k]
    BY <1>2, <1>9 DEF Goto
  <2>2. /\ k \in Job /\ k.step = "start" /\ k.at = m + 1 /\ k.started = j.started
        /\ k.pids = j.pids /\ k.ended = None
    BY <1>2, <1>4, <2>1, AtTo
  <2>3. job'[s] = k /\ PlansOK(s)'
    BY <1>6, <2>1, <2>2
  <2>4. Procs' /\ Len(launched) <= Len(launched')
    BY <1>1, <1>3, <1>9, InHand, ShrinkNothing, QuietProcs
  <2>5. JobOK(s)'
    <3>1. m + 1 >= 1 /\ j.started \subseteq 1 .. ((m + 1) - 1)
      BY <1>4, <1>5
    <3> QED
      BY <1>8, <1>9, <2>2, <2>3, <3>1 DEF JobOK, Going, At, Preparing
  <2>6. ~overlap => Sound(s)'
    BY <1>7, <1>9, <2>2, <2>3 DEF Sound, At, None
  <2> QED
    BY <1>1, <1>3, <2>1, <2>3, <2>4, <2>5, <2>6, ServiceMoves DEF Local
<1>10. CASE /\ m \in Executable
            /\ Launch(m, Planned(s, {m}, bindings[s])[m])
            /\ Goto(s, [job[s] EXCEPT !.at = m + 1, !.started = @ \cup {m},
                          !.pids = @ \cup {record'[m].pid}])
  <2> DEFINE pid == record'[m].pid
  <2>1. PICK k : /\ k = [j EXCEPT !.at = m + 1, !.started = j.started \cup {m},
                           !.pids = j.pids \cup {pid}]
                 /\ job' = [job EXCEPT ![s] = k]
    BY <1>2, <1>10 DEF Goto
  <2>2. plans'[s][m] # NoPlan /\ Launch(m, plans'[s][m])
    BY <1>3, <1>10
  <2>3. /\ plans'[s][m].by = s
        /\ CommandsOf[s] = 1 => plans'[s][m].bindings # 0
    BY <1>1, <1>2, <1>3, <2>2, InHand, OwnPlan DEF Launching
  <2>4. Single' => Single
    BY <1>1, InHand, SingleBefore
  <2>5. /\ Procs'
        /\ Len(launched) <= Len(launched')
        /\ \A p \in 1 .. Len(launched) : launched'[p] = launched[p]
        /\ pid \in 1 .. Len(launched') /\ pid \in alive'
        /\ launched'[pid].module = m
        /\ \A n \in Modules \ {m} : record'[n] = record[n]
        /\ alive' \subseteq alive \cup {pid}
    <3>1. PICK plan : plan = plans'[s][m]
      OBVIOUS
    <3>2. PICK n \in Executable : n = m
      BY <1>10
    <3>3. Launch(n, plan) /\ plan = plans'[s][n] /\ plan.by = s
          /\ (CommandsOf[s] = 1 => plan.bindings # 0)
      BY <2>2, <2>3, <3>1, <3>2
    <3>4. /\ Procs'
          /\ Len(launched) <= Len(launched')
          /\ \A p \in 1 .. Len(launched) : launched'[p] = launched[p]
          /\ record'[n].pid \in 1 .. Len(launched') /\ record'[n].pid \in alive'
          /\ launched'[record'[n].pid].module = n
          /\ \A i \in Modules \ {n} : record'[i] = record[i]
          /\ alive' \subseteq alive \cup {record'[n].pid}
      BY <1>1, <1>3, <2>4, <3>3, InHand, LaunchProcs
    <3> QED
      BY <3>2, <3>4
  <2> DEFINE S == j.started \cup {m}
             P == j.pids \cup {pid}
  <2>6. S \in SUBSET Modules /\ P \in SUBSET Nat
    BY <1>1, <1>2, <2>5
  <2>7. /\ k \in Job /\ k.step = "start" /\ k.at = m + 1 /\ k.started = S
        /\ k.pids = P /\ k.ended = None
    <3> HIDE DEF S, P
    <3>1. k = [j EXCEPT !.at = m + 1, !.started = S, !.pids = P]
      BY <2>1 DEF S, P
    <3>2. PICK n \in 0 .. ModuleCount + 1 : n = m + 1
      BY <1>4
    <3>3. k = [j EXCEPT !.at = n, !.started = S, !.pids = P]
      BY <3>1, <3>2
    <3>4. k \in Job
      BY <1>2, <2>6, <3>3, ZenonT(30) DEF Job
    <3>5. /\ k.step = j.step /\ k.at = n /\ k.started = S /\ k.pids = P /\ k.ended = j.ended
      BY <1>2, <3>3, ZenonT(30) DEF Job
    <3> QED
      BY <1>2, <3>2, <3>4, <3>5
  <2>8. job'[s] = k /\ PlansOK(s)'
    BY <1>6, <2>1, <2>7
  <2>9. JobOK(s)'
    <3>1. m + 1 >= 1 /\ S \subseteq 1 .. ((m + 1) - 1)
      BY <1>4, <1>5
    <3>2. Len(launched') \in Nat
      BY <2>5, LenProperties DEF Procs
    <3>3. 1 .. Len(launched) \subseteq 1 .. Len(launched')
      BY <1>8, <2>5, <3>2, Wider
    <3>4. P \subseteq 1 .. Len(launched')
      BY <1>8, <2>5, <3>3
    <3> HIDE DEF S, P
    <3> QED
      BY <2>7, <2>8, <3>1, <3>4 DEF JobOK, Going, At, Preparing
  <2>10. ASSUME ~overlap, NEW p \in P \cap alive'
         PROVE  launched'[p].module \in S /\ record'[launched'[p].module].pid = p
    <3>1. CASE p = pid
      BY <1>1, <2>5, <3>1
    <3>2. CASE p # pid
      <4>1. p \in j.pids \cap alive /\ p \in 1 .. Len(launched)
        BY <1>8, <2>5, <2>10, <3>2
      <4>2. launched[p].module \in j.started /\ record[launched[p].module].pid = p
        BY <1>7, <2>10, <4>1
      <4>3. launched'[p].module \in j.started /\ record[launched'[p].module].pid = p
        BY <2>5, <4>1, <4>2
      <4>4. launched'[p].module \in Modules \ {m}
        BY <1>2, <1>5, <4>3
      <4> QED
        BY <2>5, <4>3, <4>4
    <3> QED
      BY <3>1, <3>2
  <2>11. ~overlap => Sound(s)'
    BY <2>7, <2>8, <2>10 DEF Sound, At, None
  <2> QED
    BY <1>1, <1>3, <2>1, <2>5, <2>8, <2>9, <2>11, ServiceMoves DEF Local
<1>11. CASE /\ m \in Executable
            /\ LaunchFails(m, Planned(s, {m}, bindings[s])[m])
            /\ Goto(s, [job[s] EXCEPT !.step = "rollback"])
  <2>1. PICK k : k = [j EXCEPT !.step = "rollback"] /\ job' = [job EXCEPT ![s] = k]
    BY <1>2, <1>11 DEF Goto
  <2>2. /\ k \in Job /\ k.step = "rollback" /\ k.at = m /\ k.started = j.started
        /\ k.pids = j.pids /\ k.ended = None
    BY <1>2, <2>1, StepTo
  <2>3. job'[s] = k /\ PlansOK(s)'
    BY <1>6, <2>1, <2>2
  <2>4. /\ Procs' /\ Len(launched) <= Len(launched')
        /\ Shrink({m}) /\ alive' = alive /\ launched' = launched
    BY <1>1, <1>3, <1>11, InHand, FailedProcs
  <2>5. JobOK(s)'
    BY <1>8, <2>2, <2>3, <2>4 DEF JobOK, Going, At, Preparing, None
  <2>6. ASSUME ~overlap, NEW p \in j.pids \cap alive
        PROVE  launched[p].module \in j.started /\ record'[launched[p].module].pid = p
    <3>1. launched[p].module \in j.started /\ record[launched[p].module].pid = p
      BY <1>7, <2>6
    <3>2. launched[p].module \in Modules \ {m}
      BY <1>2, <1>5, <3>1
    <3> QED
      BY <2>4, <3>1, <3>2 DEF Shrink
  <2>7. ~overlap => Sound(s)'
    BY <2>2, <2>3, <2>4, <2>6 DEF Sound, At, None
  <2> QED
    BY <1>1, <1>3, <2>1, <2>3, <2>4, <2>5, <2>7, ServiceMoves DEF Local
<1> QED
  BY <1>9, <1>10, <1>11 DEF StartModule
LEMMA RollbackInv ==
  ASSUME SupervisorInv, NEW s \in Services, Rollback(s)
  PROVE  SupervisorInv'
<1>1. /\ At(s, "rollback") /\ ~At(s, None)
      /\ UNCHANGED <<plans, launched, commands, overlap>>
  BY DEF Rollback, At, None
<1>2. PICK j : /\ j = job[s] /\ j \in Job /\ j.step = "rollback" /\ j.ended = None
               /\ j.started \in SUBSET Modules
  <2>1. job[s] \in Job /\ job[s].step = "rollback" /\ job[s].ended = None
    BY <1>1, InHand DEF At
  <2> QED
    BY <2>1 DEF Job
<1>3. PlansGrow(s)
  BY <1>1, InHand, PlansStay
<1>4. ~overlap => \A p \in j.pids \cap alive :
                    launched[p].module \in j.started /\ record[launched[p].module].pid = p
  BY <1>1, <1>2, InHand DEF Sound
<1>5. CASE /\ j.started = {}
           /\ Release
           /\ bindings' = [bindings EXCEPT ![s] = 0]
           /\ prepared' = [prepared EXCEPT ![s] = FALSE]
           /\ End(s, "rolled back")
           /\ UNCHANGED <<alive, record>>
  <2>1. Procs' /\ Len(launched) <= Len(launched')
    BY <1>1, <1>3, <1>5, InHand, ShrinkNothing, QuietProcs
  <2>2. Keeps(s) /\ ~prepared'[s]
    BY <1>1, <1>5, InHand, Released DEF Keeps, ResourcesOK
  <2>3. ~overlap => job[s].pids \cap alive' = {}
    BY <1>2, <1>4, <1>5
  <2> QED
    BY <1>1, <1>3, <1>5, <2>1, <2>2, <2>3, EndMoves
<1>6. CASE /\ j.started # {}
           /\ Terminate(Last(j.started))
           /\ Goto(s, [job[s] EXCEPT !.started = @ \ {Last(j.started)}])
           /\ UNCHANGED <<resource, bindings, prepared>>
  <2>1. PICK m \in Modules : m = Last(j.started) /\ m \in j.started
    BY <1>2, <1>6, LastOfModules
  <2>2. PICK k : /\ k = [j EXCEPT !.started = j.started \ {m}]
                 /\ job' = [job EXCEPT ![s] = k]
    BY <1>2, <1>6, <2>1 DEF Goto
  <2>3. j.started \ {m} \in SUBSET Modules
    BY <1>2
  <2>4. /\ k \in Job /\ k.step = "rollback" /\ k.at = j.at /\ k.started = j.started \ {m}
        /\ k.pids = j.pids /\ k.ended = None
    BY <1>2, <2>2, <2>3, StartedTo
  <2>5. job'[s] = k
    BY <1>1, <2>2, InHand, Gone
  <2>6. /\ Shrink({}) /\ record'[m].pid = 0 /\ record[m].pid \notin alive'
        /\ \A n \in Modules \ {m} : record'[n] = record[n]
    BY <1>1, <1>6, <2>1, InHand, ShrinkTerminate
  <2>7. Procs' /\ Len(launched) <= Len(launched') /\ Keeps(s)
    BY <1>1, <1>3, <1>6, <2>6, InHand, QuietProcs, KeepsAll
  <2>8. JobOK(s)'
    BY <1>1, <1>2, <2>4, <2>5, InHand DEF JobOK, Going, At, Preparing, None
  <2>9. PlansOK(s)'
    BY <1>1, <1>3, <1>6, <2>4, <2>5, InHand, PlansGo DEF Preparing, Launching, None
  <2>10. ASSUME ~overlap, NEW p \in j.pids \cap alive'
         PROVE  /\ launched'[p].module \in j.started \ {m}
                /\ record'[launched'[p].module].pid = p
    <3>1. p \in alive /\ launched' = launched
      BY <1>1, <2>6 DEF Shrink
    <3>2. launched[p].module \in j.started /\ record[launched[p].module].pid = p
      BY <1>4, <2>10, <3>1
    <3>3. launched[p].module \in Modules \ {m}
      BY <1>2, <2>6, <2>10, <3>2
    <3> QED
      BY <2>6, <3>1, <3>2, <3>3
  <2>11. ~overlap => Sound(s)'
    BY <2>4, <2>5, <2>10 DEF Sound, At, None
  <2> QED
    BY <1>1, <1>3, <2>2, <2>7, <2>8, <2>9, <2>11, ServiceMoves DEF Local
<1>7. CASE /\ j.started # {}
           /\ Unstoppable(Last(j.started))
           /\ End(s, "failed")
           /\ UNCHANGED <<resource, bindings, prepared>>
  <2>1. UNCHANGED <<alive, record>>
    BY <1>7 DEF Unstoppable
  <2>2. Procs' /\ Len(launched) <= Len(launched')
    BY <1>1, <1>3, <2>1, InHand, ShrinkNothing, QuietProcs
  <2>3. Keeps(s) /\ (prepared'[s] => bindings'[s] > 0)
    BY <1>1, <1>7, InHand, KeepsAll DEF PlansOK
  <2> QED
    BY <1>1, <1>3, <1>7, <2>2, <2>3, EndMoves
<1> QED
  BY <1>2, <1>5, <1>6, <1>7 DEF Rollback, RollbackOf

LEMMA RestartStopInv ==
  ASSUME SupervisorInv, NEW s \in Services, RestartStop(s)
  PROVE  SupervisorInv'
<1> DEFINE m == job[s].at
<1>1. /\ At(s, "restart") /\ ~At(s, None)
      /\ plans' = [plans EXCEPT ![s] = Planned(s, {m}, bindings[s])]
      /\ UNCHANGED <<prepared, bindings, resource, launched, commands, overlap>>
  BY DEF RestartStop, At, None
<1>2. PICK j : /\ j = job[s] /\ j \in Job /\ j.step = "restart" /\ j.ended = None /\ j.at = m
  BY <1>1, InHand DEF At
<1>3. m \in Executable /\ m \in Modules
  BY <1>1, <1>2, InHand, SupervisorAssumption DEF JobOK, Going, At
<1>4. PlansGrow(s) /\ Keeps(s) /\ plans'[s][m] # NoPlan
  <2>1. {m} \in SUBSET Modules
    BY <1>3
  <2> QED
    BY <1>1, <1>3, <2>1, InHand, KeepsAll, PlannedGrows
<1>5. CASE Terminate(m) /\ Goto(s, [job[s] EXCEPT !.step = "relaunch"])
  <2>1. PICK k : k = [j EXCEPT !.step = "relaunch"] /\ job' = [job EXCEPT ![s] = k]
    BY <1>2, <1>5 DEF Goto
  <2>2. "relaunch" \in {None, "stop", "rollback"} \cup Preparing \cup Launching
    BY DEF Launching
  <2>3. /\ k \in Job /\ k.step = "relaunch" /\ k.at = m /\ k.started = j.started
        /\ k.pids = j.pids /\ k.ended = None
    BY <1>2, <2>1, <2>2, StepTo
  <2>4. job'[s] = k
    BY <1>1, <2>1, InHand, Gone
  <2>5. Shrink({})
    BY <1>1, <1>3, <1>5, InHand, ShrinkTerminate
  <2>6. Procs' /\ Len(launched) <= Len(launched')
    BY <1>1, <1>4, <2>5, InHand, QuietProcs
  <2>7. JobOK(s)'
    BY <1>1, <1>2, <1>3, <1>4, <2>3, <2>4, InHand DEF JobOK, Going, At, Preparing, None
  <2>8. PlansOK(s)'
    BY <1>1, <1>2, <1>4, <2>3, <2>4, InHand, PlansGo DEF Preparing, Launching, None
  <2>9. Sound(s)'
    BY <2>3, <2>4 DEF Sound, At, None
  <2> QED
    BY <1>1, <1>4, <2>1, <2>6, <2>7, <2>8, <2>9, ServiceMoves DEF Local
<1>6. CASE Unstoppable(m) /\ End(s, "failed")
  <2>1. UNCHANGED <<alive, record>>
    BY <1>6 DEF Unstoppable
  <2>2. Procs' /\ Len(launched) <= Len(launched')
    BY <1>1, <1>4, <2>1, InHand, ShrinkNothing, QuietProcs
  <2>3. prepared'[s] => bindings'[s] > 0
    BY <1>1, InHand DEF PlansOK
  <2> QED
    BY <1>1, <1>4, <1>6, <2>2, <2>3, EndMoves
<1> QED
  BY <1>5, <1>6 DEF RestartStop

LEMMA RestartStartInv ==
  ASSUME SupervisorInv, NEW s \in Services, RestartStart(s)
  PROVE  SupervisorInv'
<1> DEFINE m == job[s].at
<1>1. /\ At(s, "relaunch") /\ ~At(s, None)
      /\ UNCHANGED <<prepared, bindings, plans, resource, commands, overlap>>
  BY DEF RestartStart, At, None
<1>2. /\ m \in Executable /\ m \in Modules /\ plans[s][m] # NoPlan
      /\ job[s].step \in {"modules"} \cup Launching
  BY <1>1, InHand, SupervisorAssumption DEF JobOK, At, Launching
<1>3. PlansGrow(s) /\ Keeps(s)
  BY <1>1, InHand, PlansStay, KeepsAll
<1>4. prepared'[s] => bindings'[s] > 0
  BY <1>1, InHand DEF PlansOK
<1>5. /\ plans'[s][m] = plans[s][m] /\ plans'[s][m].by = s
      /\ CommandsOf[s] = 1 => plans'[s][m].bindings # 0
  BY <1>1, <1>2, <1>3, InHand, OwnPlan
<1>6. CASE Launch(m, plans[s][m]) /\ End(s, "restarted")
  <2>1. Single' => Single
    BY <1>1, InHand, SingleBefore
  <2>2. Procs' /\ Len(launched) <= Len(launched')
    BY <1>1, <1>2, <1>3, <1>5, <1>6, <2>1, InHand, LaunchProcs
  <2> QED
    BY <1>1, <1>3, <1>4, <1>6, <2>2, EndMoves
<1>7. CASE LaunchFails(m, plans[s][m]) /\ End(s, "failed")
  <2>1. Procs' /\ Len(launched) <= Len(launched')
    BY <1>1, <1>2, <1>3, <1>5, <1>7, InHand, FailedProcs
  <2> QED
    BY <1>1, <1>3, <1>4, <1>7, <2>1, EndMoves
<1> QED
  BY <1>6, <1>7 DEF RestartStart
LEMMA StopModuleInv ==
  ASSUME SupervisorInv, NEW s \in Services, StopModule(s)
  PROVE  SupervisorInv'
<1> DEFINE m == job[s].at
<1>1. /\ At(s, "stop") /\ ~At(s, None) /\ m \in Modules
      /\ plans' = [plans EXCEPT ![s] = Planned(s, {m}, bindings[s])]
      /\ UNCHANGED <<prepared, bindings, resource, launched, commands, overlap>>
  BY DEF StopModule, At, None
<1>2. PICK j : /\ j = job[s] /\ j \in Job /\ j.step = "stop" /\ j.ended = None /\ j.at = m
  BY <1>1, InHand DEF At
<1>3. PlansGrow(s) /\ Keeps(s)
  <2>1. {m} \in SUBSET Modules
    BY <1>1
  <2> QED
    BY <1>1, <2>1, InHand, KeepsAll, PlannedGrows
<1>4. /\ m \in 1 .. ModuleCount /\ ModuleCount \in Nat
      /\ m - 1 \in 0 .. ModuleCount + 1 /\ m - 1 <= ModuleCount
  BY <1>1, SupervisorAssumption DEF Modules
<1>5. ~overlap /\ ~j.failed => \A n \in Modules : n > m => record[n].pid \notin alive
  BY <1>1, <1>2, InHand DEF Sound
<1>6. ASSUME NEW k \in Job, job' = [job EXCEPT ![s] = k], k.step = "stop", k.at = m - 1,
             k.pids = j.pids, k.ended = None, Shrink({}),
             ~overlap /\ ~k.failed =>
               \A n \in Modules : n > m - 1 => record'[n].pid \notin alive'
      PROVE  SupervisorInv'
  <2>1. job'[s] = k
    BY <1>1, <1>6, InHand, Gone
  <2>2. Procs' /\ Len(launched) <= Len(launched')
    BY <1>1, <1>3, <1>6, InHand, QuietProcs
  <2>3. JobOK(s)'
    BY <1>1, <1>2, <1>4, <1>6, <2>1, InHand DEF JobOK, Going, At, Preparing, None
  <2>4. PlansOK(s)'
    BY <1>1, <1>3, <1>6, <2>1, InHand, PlansGo DEF Preparing, Launching, None
  <2>5. ~overlap => Sound(s)'
    BY <1>6, <2>1 DEF Sound, At, None
  <2> QED
    BY <1>1, <1>3, <1>6, <2>2, <2>3, <2>4, <2>5, ServiceMoves DEF Local
<1>7. ASSUME NEW n \in Modules, n > m - 1, n # m
      PROVE  n > m
  BY <1>4, <1>7 DEF Modules
<1>8. 0 \notin alive
  BY <1>1, InHand DEF Procs
<1>9. CASE m \in Executable /\ Terminate(m) /\ Goto(s, [job[s] EXCEPT !.at = m - 1])
  <2>1. PICK k : k = [j EXCEPT !.at = m - 1] /\ job' = [job EXCEPT ![s] = k]
    BY <1>2, <1>9 DEF Goto
  <2>2. /\ k \in Job /\ k.step = "stop" /\ k.at = m - 1 /\ k.failed = j.failed
        /\ k.pids = j.pids /\ k.ended = None
    BY <1>2, <1>4, <2>1, AtTo
  <2>3. /\ Shrink({}) /\ record'[m].pid = 0
        /\ \A n \in Modules \ {m} : record'[n] = record[n]
    BY <1>1, <1>9, InHand, ShrinkTerminate
  <2>4. alive' \subseteq alive
    BY <2>3 DEF Shrink
  <2>5. ASSUME ~overlap, ~k.failed, NEW n \in Modules, n > m - 1
        PROVE  record'[n].pid \notin alive'
    <3>1. CASE n = m
      BY <1>8, <2>3, <2>4, <3>1
    <3>2. CASE n # m
      BY <1>5, <1>7, <2>2, <2>3, <2>4, <2>5, <3>2
    <3> QED
      BY <3>1, <3>2
  <2> QED
    BY <1>6, <2>1, <2>2, <2>3, <2>5
<1>10. CASE /\ m \in Executable /\ Unstoppable(m)
            /\ Goto(s, [job[s] EXCEPT !.at = m - 1, !.failed = TRUE])
  <2>1. PICK k : k = [j EXCEPT !.at = m - 1, !.failed = TRUE] /\ job' = [job EXCEPT ![s] = k]
    BY <1>2, <1>10 DEF Goto
  <2>2. /\ k \in Job /\ k.step = "stop" /\ k.at = m - 1 /\ k.failed = TRUE
        /\ k.pids = j.pids /\ k.ended = None
    <3>1. k \in Job
      BY <1>2, <1>4, <2>1, ZenonT(30) DEF Job
    <3>2. /\ k.step = j.step /\ k.at = m - 1 /\ k.failed = TRUE
          /\ k.pids = j.pids /\ k.ended = j.ended
      BY <1>2, <2>1, ZenonT(30) DEF Job
    <3> QED
      BY <1>2, <3>1, <3>2
  <2>3. Shrink({})
    BY <1>1, <1>10, InHand, ShrinkNothing DEF Unstoppable
  <2> QED
    BY <1>6, <2>1, <2>2, <2>3
<1>11. CASE /\ m \notin Executable
            /\ Goto(s, [job[s] EXCEPT !.at = m - 1])
            /\ UNCHANGED <<alive, record>>
  <2>1. PICK k : k = [j EXCEPT !.at = m - 1] /\ job' = [job EXCEPT ![s] = k]
    BY <1>2, <1>11 DEF Goto
  <2>2. /\ k \in Job /\ k.step = "stop" /\ k.at = m - 1 /\ k.failed = j.failed
        /\ k.pids = j.pids /\ k.ended = None
    BY <1>2, <1>4, <2>1, AtTo
  <2>3. Shrink({})
    BY <1>1, <1>11, InHand, ShrinkNothing
  <2>4. record[m].pid = 0
    BY <1>1, <1>11, InHand DEF Procs
  <2>5. ASSUME ~overlap, ~k.failed, NEW n \in Modules, n > m - 1
        PROVE  record'[n].pid \notin alive'
    <3>1. CASE n = m
      BY <1>8, <1>11, <2>4, <3>1
    <3>2. CASE n # m
      BY <1>5, <1>7, <1>11, <2>2, <2>5, <3>2
    <3> QED
      BY <3>1, <3>2
  <2> QED
    BY <1>6, <2>1, <2>2, <2>3, <2>5
<1> QED
  BY <1>9, <1>10, <1>11 DEF StopModule

LEMMA StoppedInv ==
  ASSUME SupervisorInv, NEW s \in Services, Stopped(s)
  PROVE  SupervisorInv'
<1>1. /\ At(s, "stop") /\ ~At(s, None) /\ job[s].at \notin Modules
      /\ UNCHANGED <<plans, launched, alive, commands, overlap>>
  BY DEF Stopped, At, None
<1>2. PlansGrow(s)
  BY <1>1, InHand, PlansStay
<1>3. CASE End(s, "failed") /\ UNCHANGED <<resource, bindings, prepared, record>>
  <2>1. Procs' /\ Len(launched) <= Len(launched')
    BY <1>1, <1>2, <1>3, InHand, ShrinkNothing, QuietProcs
  <2>2. Keeps(s) /\ (prepared'[s] => bindings'[s] > 0)
    BY <1>1, <1>3, InHand, KeepsAll DEF PlansOK
  <2> QED
    BY <1>1, <1>2, <1>3, <2>1, <2>2, EndMoves
<1>4. CASE /\ ~job[s].failed
           /\ Release
           /\ bindings' = [bindings EXCEPT ![s] = 0]
           /\ prepared' = [prepared EXCEPT ![s] = FALSE]
           /\ record' = Observed
           /\ End(s, "stopped")
  <2>1. Shrink({})
    BY <1>1, <1>4, InHand, ShrinkObserved
  <2>2. Procs' /\ Len(launched) <= Len(launched')
    BY <1>1, <1>2, <2>1, InHand, QuietProcs
  <2>3. Keeps(s) /\ ~prepared'[s] /\ (Volatile => ~resource'.active)
    BY <1>1, <1>4, InHand, Released DEF Keeps, ResourcesOK
  <2>4. \A m \in Modules : m > job[s].at
    <3>1. job[s].at \in 0 .. ModuleCount + 1 /\ job[s].at <= ModuleCount
      <4>1. job[s] \in Job /\ job[s].at <= ModuleCount
        BY <1>1, InHand DEF JobOK
      <4> QED
        BY <4>1 DEF Job
    <3> QED
      BY <1>1, <3>1, SupervisorAssumption DEF Modules
  <2>5. ~overlap => \A m \in Modules : record[m].pid \notin alive
    BY <1>1, <1>4, <2>4, InHand DEF Sound
  <2>6. 0 \notin alive /\ \A m \in Modules : record'[m].pid \in {record[m].pid, 0}
    BY <1>1, <2>1, InHand DEF Procs, Shrink
  <2>7. ~overlap => \A m \in Modules : record'[m].pid \notin alive'
    BY <1>1, <2>5, <2>6
  <2> QED
    BY <1>1, <1>2, <1>4, <2>2, <2>3, <2>7, EndMoves
<1> QED
  BY <1>3, <1>4 DEF Stopped, StopFailed

LEMMA DieInv ==
  ASSUME SupervisorInv, NEW p \in alive, Die(p)
  PROVE  SupervisorInv'
<1>1. /\ alive' \subseteq alive
      /\ UNCHANGED <<prepared, bindings, plans, resource, record, launched, job, commands, overlap>>
  BY DEF Die
<1>2. Shared' /\ (\A s \in Services : Local(s)') /\ AloneInv'
  BY <1>1 DEF SupervisorInv, Shared, ResourcesOK, Local, JobOK, PlansOK, Going, At, AloneInv
<1>3. Procs'
  BY <1>1 DEF SupervisorInv, Procs, Single
<1>4. SoundInv'
  BY <1>1 DEF SupervisorInv, SoundInv, Sound, At
<1> QED
  BY <1>2, <1>3, <1>4 DEF SupervisorInv
-----------------------------------------------------------------------------

LEMMA InitSupervisorInv == Init => SupervisorInv
<1> SUFFICES ASSUME Init
             PROVE  SupervisorInv
  OBVIOUS
<1>1. /\ prepared = [s \in Services |-> FALSE] /\ bindings = [s \in Services |-> 0]
      /\ plans = [s \in Services |-> [m \in Modules |-> NoPlan]]
      /\ resource = [grant |-> 0, active |-> FALSE]
      /\ launched = <<>> /\ alive = {} /\ overlap = FALSE
      /\ commands = [s \in Services |-> 0]
  BY DEF Init
<1>2. /\ \A s \in Services : job[s] = Idle
      /\ DOMAIN job = Services
      /\ \A m \in Modules : record[m] = [state |-> "stopped", pid |-> 0]
      /\ record = [m \in Modules |-> record[m]]
  BY DEF Init
<1>3. Len(launched) = 0 /\ launched \in Seq([module : Modules, plan : Plan])
  BY <1>1, EmptySeq
<1>4. NoPlan \in Plan
  BY DEF NoPlan, Plan
<1>5. Shared
  <2>1. plans \in [Services -> [Modules -> Plan]]
    BY <1>1, <1>4
  <2>2. resource \in [grant : Nat, active : BOOLEAN] /\ ~resource.active
    BY <1>1
  <2>3. prepared \in [Services -> BOOLEAN] /\ bindings \in [Services -> Nat]
        /\ commands \in [Services -> Nat]
    BY <1>1
  <2> QED
    BY <1>1, <1>2, <2>1, <2>2, <2>3 DEF Shared, ResourcesOK
<1>6. Procs
  <2>1. \A m \in Modules : record[m].pid = 0
    BY <1>2
  <2>2. record \in [Modules -> [state : {"running", "stopped", "failed"}, pid : 0 .. Len(launched)]]
    <3>1. [state |-> "stopped", pid |-> 0]
            \in [state : {"running", "stopped", "failed"}, pid : 0 .. Len(launched)]
      BY <1>3
    <3> QED
      BY <1>2, <3>1
  <2> QED
    BY <1>1, <1>3, <2>1, <2>2 DEF Procs
<1>7. ASSUME NEW s \in Services
      PROVE  Local(s)
  <2>1. /\ job[s] \in Job /\ job[s].step = None /\ job[s].pids = {} /\ job[s].ended = None
    BY <1>2, IdleJob
  <2>2. JobOK(s)
    BY <2>1 DEF JobOK, Going, At, Preparing, None
  <2>3. PlansOK(s)
    BY <1>1, <2>1 DEF PlansOK, At, Preparing, Launching, None
  <2> QED
    BY <2>2, <2>3 DEF Local
<1>8. AloneInv /\ SoundInv
  BY <1>2, IdleJob DEF AloneInv, SoundInv, Sound, At, None
<1> QED
  BY <1>5, <1>6, <1>7, <1>8 DEF SupervisorInv

LEMMA NextSupervisorInv == SupervisorInv /\ [Next]_vars => SupervisorInv'
<1> SUFFICES ASSUME SupervisorInv, [Next]_vars
             PROVE  SupervisorInv'
  OBVIOUS
<1>1. ASSUME NEW s \in Services, ServiceStep(s)
      PROVE  SupervisorInv'
  BY <1>1, ResolveInv, PrepareModulesInv, StartModuleInv, StartedInv, RollbackInv,
     RestartStopInv, RestartStartInv, StopModuleInv, StoppedInv DEF ServiceStep
<1>2. ASSUME NEW s \in Services, Issue(s)
      PROVE  SupervisorInv'
  BY <1>2, IssueInv
<1>3. ASSUME NEW p \in alive, Die(p)
      PROVE  SupervisorInv'
  BY <1>3, DieInv
<1>4. CASE UNCHANGED vars
  <2>1. UNCHANGED <<prepared, bindings, plans, resource, record, launched, alive, job, commands, overlap>>
    BY <1>4 DEF vars
  <2>2. Shared' /\ (\A s \in Services : Local(s)') /\ AloneInv'
    BY <2>1 DEF SupervisorInv, Shared, ResourcesOK, Local, JobOK, PlansOK, Going, At, AloneInv
  <2>3. Procs'
    BY <2>1 DEF SupervisorInv, Procs, Single
  <2>4. SoundInv'
    BY <2>1 DEF SupervisorInv, SoundInv, Sound, At
  <2> QED
    BY <2>2, <2>3, <2>4 DEF SupervisorInv
<1> QED
  BY <1>1, <1>2, <1>3, <1>4 DEF Next

LEMMA SupervisorInvariant == Spec => []SupervisorInv
  BY InitSupervisorInv, NextSupervisorInv, PTL DEF Spec

\* TypeOK: every value of the supervisor's files, plans, processes and commands has its
\* type, in whatever order services issue commands and processes end.
THEOREM SupervisorTypeCorrect == Spec => []TypeOK
<1>1. SupervisorInv => TypeOK
  <2> SUFFICES ASSUME SupervisorInv
               PROVE  TypeOK
    OBVIOUS
  <2>1. Shared /\ ResourcesOK /\ Procs
    BY DEF SupervisorInv, Shared
  <2>2. ASSUME NEW s \in Services
        PROVE  /\ job[s].at \in 0 .. ModuleCount + 1
               /\ job[s].started \subseteq Modules /\ job[s].pids \subseteq 1 .. Len(launched)
    <3>1. job[s] \in Job /\ job[s].pids \subseteq 1 .. Len(launched)
      BY DEF SupervisorInv, Local, JobOK
    <3> QED
      BY <3>1 DEF Job
  <2> QED
    BY <2>1, <2>2 DEF TypeOK, Shared, ResourcesOK, Procs, Plan
<1> QED
  BY <1>1, SupervisorInvariant, PTL

\* RollbackComplete: a start of the supervisor that fails leaves, while commands do not
\* overlap, none of the processes it started or took over.
THEOREM RollbackAlwaysComplete == Spec => []RollbackComplete
<1>1. SupervisorInv => RollbackComplete
  BY DEF SupervisorInv, SoundInv, Sound, RollbackComplete
<1> QED
  BY <1>1, SupervisorInvariant, PTL

\* StopComplete: a stop that reports success leaves, while commands do not overlap, no
\* live process on record and no loopback allocation.
THEOREM StopAlwaysComplete == Spec => []StopComplete
<1>1. SupervisorInv => StopComplete
  BY DEF SupervisorInv, SoundInv, Sound, StopComplete
<1> QED
  BY <1>1, SupervisorInvariant, PTL

\* CommandLineInjects: a service of one command, as those of the command line are,
\* launches no process without the bindings of the application.
THEOREM CommandLineAlwaysInjects == Spec => []CommandLineInjects
<1>1. SupervisorInv => CommandLineInjects
  BY DEF SupervisorInv, Procs, CommandLineInjects
<1> QED
  BY <1>1, SupervisorInvariant, PTL

\* OneServiceLosesNone: as long as one service runs all commands, every live process is on
\* record, through repeated starts, restarts, failures and rollbacks.
THEOREM OneServiceNeverLoses == Spec => []OneServiceLosesNone
<1>1. SupervisorInv => OneServiceLosesNone
  BY DEF SupervisorInv, Procs, Single, OneServiceLosesNone
<1> QED
  BY <1>1, SupervisorInvariant, PTL
=============================================================================
