----------------------------- MODULE Workspace -----------------------------
(***************************************************************************)
(* A workspace and one of its applications on disk.  Callers are separate   *)
(* commands: "init" initializes the workspace under a lock, "scaffold"      *)
(* (apps create) creates the application under the locks of its id, and     *)
(* "compose" (apps create --template) creates it from a blueprint without   *)
(* any lock.  Both build a directory aside, rename it into place and        *)
(* register it, and take the directory back when a later step fails.  A     *)
(* command may be killed between any two steps.                             *)
(*                                                                          *)
(* The two locks of an id are always taken together and are one lock here.  *)
(* A rename succeeds onto a missing or an empty directory only (POSIX).     *)
(***************************************************************************)
EXTENDS FiniteSets

CONSTANT Callers

Nobody == "none"
Commands == {"init", "scaffold", "compose"}
Locks == {"init", "application"}
Layout == {"applications", "state"}   \* directories: where applications live, and all others

ASSUME WorkspaceAssumption == Nobody \notin Callers

VARIABLES
    yaml,         \* workspace.yaml: absent, empty (opened for writing) or written
    json,         \* registry/workspace.json exists
    directories,  \* directories of the layout that exist
    staging,      \* callers whose temporary directory exists
    target,       \* applications/<id>: who promoted it, and what is in it
    entry,        \* registry/applications/<id>.json: who registered it
    lock,         \* holder of each file lock
    command,      \* the command each caller runs
    step,         \* how far it has come
    littered      \* history: a kill, or an error nobody repairs, has left something

files == <<yaml, json, directories>>
application == <<staging, target, entry>>
workspaceVars == <<files, application, lock, command, step, littered>>

Absent == [by |-> Nobody, parts |-> "absent"]
Ended == {"idle", "initialized", "created"}
Steps == {"lock", "yaml", "writing", "json", "layout", "look", "registry", "stage", "staged",
          "clean", "listing", "complete", "register", "record", "remove", "rmdir"}

WorkspaceTypeOK ==
    /\ yaml \in {"absent", "empty", "written"} /\ json \in BOOLEAN
    /\ directories \subseteq Layout /\ staging \subseteq Callers
    /\ target \in [by : Callers \cup {Nobody}, parts : {"absent", "empty", "partial", "complete"}]
    /\ entry \in Callers \cup {Nobody}
    /\ lock \in [Locks -> Callers \cup {Nobody}]
    /\ command \in [Callers -> Commands] /\ step \in [Callers -> Ended \cup Steps]
    /\ littered \in BOOLEAN

WorkspaceInit ==
    /\ yaml = "absent" /\ json = FALSE /\ directories = {}
    /\ staging = {} /\ target = Absent /\ entry = Nobody
    /\ lock = [l \in Locks |-> Nobody]
    /\ command = [c \in Callers |-> "init"] /\ step = [c \in Callers |-> "idle"]
    /\ littered = FALSE

Exists == target.parts # "absent"

(* A caller's command goes from one step to the next; or it ends, and its    *)
(* locks with it.                                                           *)
Proceed(c, from, to) ==
    /\ step[c] = from /\ step' = [step EXCEPT ![c] = to]
    /\ UNCHANGED <<lock, command>>

Finish(c, from, to) ==
    /\ step[c] = from /\ step' = [step EXCEPT ![c] = to]
    /\ lock' = [l \in Locks |-> IF lock[l] = c THEN Nobody ELSE lock[l]]
    /\ UNCHANGED command

Begin(c) ==
    /\ step[c] \in {"idle", "initialized"}
    /\ \E k \in Commands :
         /\ k = "scaffold" => yaml # "absent"   \* the workspace must look initialized
         /\ command' = [command EXCEPT ![c] = k]
         /\ step' = [step EXCEPT ![c] = IF k = "compose" THEN "look" ELSE "lock"]
    /\ UNCHANGED <<files, application, lock, littered>>

Guarded(c) == IF command[c] = "init" THEN "init" ELSE "application"

Lock(c) ==
    /\ step[c] = "lock" /\ lock[Guarded(c)] = Nobody
    /\ lock' = [lock EXCEPT ![Guarded(c)] = c]
    /\ step' = [step EXCEPT ![c] = IF command[c] = "init" THEN "yaml" ELSE "look"]
    /\ UNCHANGED <<files, application, command, littered>>
----------------------------------------------------------------------------
(* Initialization.                                                          *)

YamlFound(c) ==
    /\ yaml = "written" /\ Proceed(c, "yaml", "json")
    /\ UNCHANGED <<files, application, littered>>

YamlMalformed(c) ==
    /\ yaml = "empty" /\ Finish(c, "yaml", "idle")
    /\ UNCHANGED <<files, application, littered>>

(* write_text opens the file in place: it exists before its content does.   *)
OpenYaml(c) ==
    /\ yaml = "absent" /\ Proceed(c, "yaml", "writing") /\ yaml' = "empty"
    /\ UNCHANGED <<json, directories, application, littered>>

WriteYaml(c) ==
    /\ Proceed(c, "writing", "json") /\ yaml' = "written"
    /\ UNCHANGED <<json, directories, application, littered>>

WriteYamlFails(c) ==
    /\ Finish(c, "writing", "idle") /\ littered' = TRUE
    /\ UNCHANGED <<files, application>>

WriteJson(c) ==
    /\ Proceed(c, "json", "layout") /\ json' = TRUE
    /\ UNCHANGED <<yaml, directories, application, littered>>

WriteJsonFails(c) ==
    /\ ~json /\ Finish(c, "json", "idle")
    /\ UNCHANGED <<files, application, littered>>

MakeDirectory(c) ==
    /\ step[c] = "layout" /\ directories # Layout
    /\ directories' = directories \cup
         {IF "applications" \in directories THEN "state" ELSE "applications"}
    /\ UNCHANGED <<yaml, json, application, lock, command, step, littered>>

Initialized(c) ==
    /\ directories = Layout /\ Finish(c, "layout", "initialized")
    /\ UNCHANGED <<files, application, littered>>
----------------------------------------------------------------------------
(* Creation: look for the directory, then for the record, then stage.       *)

LookForDirectory(c) ==
    /\ ~Exists /\ Proceed(c, "look", "registry")
    /\ UNCHANGED <<files, application, littered>>

LookForRecord(c) ==
    /\ entry = Nobody /\ Proceed(c, "registry", "stage")
    /\ UNCHANGED <<files, application, littered>>

AlreadyExists(c) ==
    /\ \/ Exists /\ Finish(c, "look", "idle")
       \/ entry # Nobody /\ Finish(c, "registry", "idle")
    /\ UNCHANGED <<files, application, littered>>

(* The generator looks once more, and makes the directory it stages in.     *)
Stageable(c) ==
    IF command[c] = "compose" THEN ~Exists ELSE "applications" \in directories

Stage(c) ==
    /\ Stageable(c) /\ Proceed(c, "stage", "staged")
    /\ staging' = staging \cup {c}
    /\ directories' = directories \cup {"applications"}
    /\ UNCHANGED <<yaml, json, target, entry, littered>>

StageRefused(c) ==
    /\ ~Stageable(c) /\ Finish(c, "stage", "idle")
    /\ UNCHANGED <<files, application, littered>>

(* Writing the staged files may fail, and the rename may.                   *)
StagingFails(c) ==
    /\ Proceed(c, "staged", "clean")
    /\ UNCHANGED <<files, application, littered>>

(* rmtree(ignore_errors=True): what it cannot remove stays.                 *)
CleanTargetToo(c) ==   \* bug: the composer's rollback does not ask whether it promoted
    /\ Finish(c, "clean", "idle") /\ staging' = staging \ {c}
    /\ target' = IF command[c] = "compose" THEN Absent ELSE target
    /\ UNCHANGED <<files, entry, littered>>

Clean(c) ==
    /\ Finish(c, "clean", "idle") /\ staging' = staging \ {c}
    /\ UNCHANGED <<files, target, entry, littered>>

CleanFails(c) ==
    /\ Finish(c, "clean", "idle") /\ littered' = TRUE
    /\ UNCHANGED <<files, application>>

Renamable == target.parts \in {"absent", "empty"}

Promote(c) ==
    /\ Renamable /\ staging' = staging \ {c}
    /\ \/ /\ command[c] = "scaffold" /\ Proceed(c, "staged", "register")
          /\ target' = [by |-> c, parts |-> "complete"]
       \/ /\ command[c] = "compose" /\ Proceed(c, "staged", "listing")
          /\ target' = [by |-> c, parts |-> "partial"]
    /\ UNCHANGED <<files, entry, littered>>

(* The generator lists what it published; an error here is past its         *)
(* rollback and before its caller's.                                        *)
List(c) ==
    /\ Proceed(c, "listing", "complete")
    /\ UNCHANGED <<files, application, littered>>

ListFails(c) ==
    /\ Finish(c, "listing", "idle") /\ littered' = TRUE
    /\ UNCHANGED <<files, application>>

(* Guidance and reviewed sources are written into the promoted directory.   *)
Complete(c) ==
    /\ Proceed(c, "complete", "register") /\ target' = [target EXCEPT !.parts = "complete"]
    /\ UNCHANGED <<files, staging, entry, littered>>

Register(c) ==
    /\ entry = Nobody /\ Proceed(c, "register", "record")
    /\ UNCHANGED <<files, application, littered>>

Record(c) ==
    /\ Finish(c, "record", "created") /\ entry' = c
    /\ UNCHANGED <<files, staging, target, littered>>

KeepDirectory(c) ==    \* bug: a failure after the rename is not rolled back
    /\ \E p \in {"complete", "register", "record"} : Finish(c, p, "idle")
    /\ UNCHANGED <<files, application, littered>>

(* Completing, registering or writing the record fails: the directory goes. *)
RollBack(c) ==
    /\ \E p \in {"complete", "register", "record"} : Proceed(c, p, "remove")
    /\ target' = [target EXCEPT !.parts = "partial"]
    /\ UNCHANGED <<files, staging, entry, littered>>

Remove(c) ==
    /\ Proceed(c, "remove", "rmdir") /\ target' = [target EXCEPT !.parts = "empty"]
    /\ UNCHANGED <<files, staging, entry, littered>>

RemoveFails(c) ==
    /\ Finish(c, "remove", "idle") /\ littered' = TRUE
    /\ UNCHANGED <<files, application>>

(* rmdir, which leaves what was renamed onto the empty directory.           *)
RemoveDirectory(c) ==
    /\ Finish(c, "rmdir", "idle")
    /\ target' = IF target.parts = "empty" THEN Absent ELSE target
    /\ UNCHANGED <<files, staging, entry, littered>>

(* A killed command loses its locks; at these steps it leaves something.    *)
Leaves == {"writing", "staged", "clean", "listing", "complete", "register", "record",
           "remove", "rmdir"}

Kill(c) ==
    /\ \E p \in Steps : Finish(c, p, "idle") /\ littered' = (littered \/ p \in Leaves)
    /\ UNCHANGED <<files, application>>
----------------------------------------------------------------------------
Initialize(c) ==
    \/ YamlFound(c) \/ YamlMalformed(c) \/ OpenYaml(c) \/ WriteYaml(c) \/ WriteYamlFails(c)
    \/ WriteJson(c) \/ WriteJsonFails(c) \/ MakeDirectory(c) \/ Initialized(c)

Create(c) ==
    \/ LookForDirectory(c) \/ LookForRecord(c) \/ AlreadyExists(c) \/ Stage(c)
    \/ StageRefused(c) \/ StagingFails(c) \/ Clean(c) \/ CleanFails(c) \/ Promote(c)
    \/ List(c) \/ ListFails(c) \/ Complete(c) \/ Register(c) \/ Record(c)
    \/ RollBack(c) \/ Remove(c) \/ RemoveFails(c) \/ RemoveDirectory(c)

WorkspaceNext == \E c \in Callers : Begin(c) \/ Lock(c) \/ Initialize(c) \/ Create(c) \/ Kill(c)

WorkspaceSpec == WorkspaceInit /\ [][WorkspaceNext]_workspaceVars
----------------------------------------------------------------------------
(* What a command has answered stays true, whatever other commands, their   *)
(* rollbacks and kills do: a created application is registered as its       *)
(* creator's and its directory is whole and the creator's own, so that      *)
(* nobody else is told the same; an initialized workspace is whole.         *)
AnswersKept ==
    \A c \in Callers :
        /\ step[c] = "created" \/ entry = c =>
             entry = c /\ target = [by |-> c, parts |-> "complete"]
        /\ step[c] = "initialized" => yaml = "written" /\ json /\ directories = Layout

(* Unless a kill or an ignored error left it there, nothing incomplete is   *)
(* on disk once every command has ended: no staging directory, no directory *)
(* without its record, no half-written workspace.yaml.                      *)
NothingIncomplete ==
    (~littered /\ \A c \in Callers : step[c] \in Ended) =>
        /\ staging = {} /\ yaml # "empty"
        /\ Exists <=> entry # Nobody

(* Refuted when a command is killed or an error ignored: what the           *)
(* documentation of create_application says without a condition.            *)
NeverLeftBehind ==
    (\A c \in Callers : step[c] \in Ended) => staging = {} /\ (Exists => entry # Nobody)
=============================================================================
