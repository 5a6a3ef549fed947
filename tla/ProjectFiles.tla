---------------------------- MODULE ProjectFiles ----------------------------
(***************************************************************************)
(* One project directory with its compose.yaml, and everyone who writes    *)
(* there: Editor.Save and Restore, Workspace.SaveFile, CreateDirectory and *)
(* CreateProject, people with a shell, and a crash of the server.          *)
(*                                                                         *)
(* The calls share removalGate only, so their steps interleave; what they  *)
(* rely on is the order of their file operations and rename(2).  A file is *)
(* its content, and SHA-256 is injective on Contents.  DeleteProject holds *)
(* the gate alone (UpdateTasks!DeletionAlone) and is not here.             *)
(***************************************************************************)
EXTENDS FiniteSets

CONSTANTS
  Callers,    \* handlers inside the gate at the same time
  Contents,   \* what a compose.yaml may hold
  Valid,      \* the contents docker compose config accepts
  Outsiders,  \* contents that people with a shell write in its place
  Crashes,    \* TRUE: the server may be killed and started again
  None

ASSUME ContentAssumption ==
  Valid \subseteq Contents /\ Outsiders \subseteq Contents /\ None \notin Contents \cup Callers

VARIABLES
  dir,       \* the project directory exists
  file,      \* content of compose.yaml, or None
  temps,     \* callers with a .cm-* file in the directory
  debris,    \* .cm-* files a killed server left there
  backups,   \* contents held in complete backup files
  rows,      \* contents that compose_versions rows point to
  maker,     \* who made the directory: a creator, or None for anyone else
  pc, op,    \* per caller: where its handler is, which operation it serves
  base,      \* per caller: the content its user opened (baseSHA)
  content,   \* per caller: the content its user sends
  current,   \* per caller: what the handler read itself
  reply      \* per caller: the last answer

vars  == <<dir, file, temps, debris, backups, rows, maker, pc, op, base, content,
           current, reply>>
disk  == <<dir, file, temps, debris, maker>>
store == <<backups, rows>>
input == <<op, base>>
work  == <<content, current>>

SaveOps == {"save", "restore", "workspace"}
Ops     == SaveOps \cup {"create", "mkdir", "none"}
Pcs     == {"idle", "open", "read", "validate", "backup", "version", "replace", "apply",
            "stat", "mkdir", "temp", "config", "rename", "untemp", "rmdir"}
Maybe   == Contents \cup {None}

TypeOK ==
  /\ dir \in BOOLEAN /\ debris \in BOOLEAN
  /\ file \in Maybe /\ (file # None \/ temps # {} => dir)
  /\ temps \in SUBSET Callers
  /\ backups \in SUBSET Contents /\ rows \in SUBSET Contents
  /\ maker \in Callers \cup {None}
  /\ pc \in [Callers -> Pcs] /\ op \in [Callers -> Ops]
  /\ base \in [Callers -> Maybe] /\ content \in [Callers -> Maybe]
  /\ current \in [Callers -> Maybe]
  /\ reply \in [Callers -> {"none", "ok", "conflict", "failed"}]

Init ==
  /\ \/ dir = FALSE /\ file = None
     \/ dir = TRUE /\ file \in Valid
  /\ temps = {} /\ debris = FALSE
  /\ backups = {} /\ rows = {}
  /\ maker = None
  /\ pc = [a \in Callers |-> "idle"] /\ op = [a \in Callers |-> "none"]
  /\ base = [a \in Callers |-> None] /\ content = [a \in Callers |-> None]
  /\ current = [a \in Callers |-> None]
  /\ reply = [a \in Callers |-> "none"]

Go(a, there) == pc' = [pc EXCEPT ![a] = there] /\ UNCHANGED <<reply, work>>

\* The handler returns; its variables are gone.
Reply(a, r) ==
  /\ pc' = [pc EXCEPT ![a] = "idle"]
  /\ reply' = [reply EXCEPT ![a] = r]
  /\ content' = [content EXCEPT ![a] = None]
  /\ current' = [current EXCEPT ![a] = None]

-----------------------------------------------------------------------------
(* Saving.                                                                 *)

\* Workspace.SaveFile keeps a backup but no version row, and never applies.
ViaWorkspace(a) == op[a] = "workspace"

\* File or WorkspaceFile shows the user the content a later save is based on.
Open(a, o) ==
  /\ pc[a] = "idle" /\ file # None
  /\ pc' = [pc EXCEPT ![a] = "open"]
  /\ op' = [op EXCEPT ![a] = o]
  /\ base' = [base EXCEPT ![a] = file]
  /\ content' = [content EXCEPT ![a] = None]
  /\ current' = [current EXCEPT ![a] = None]
  /\ reply' = [reply EXCEPT ![a] = "none"]
  /\ UNCHANGED <<disk, store>>

\* The user sends a content, or Restore takes it from a version's backup.
Submit(a, c) ==
  /\ pc[a] = "open"
  /\ op[a] = "restore" => c \in rows \cap backups
  /\ content' = [content EXCEPT ![a] = c]
  /\ pc' = [pc EXCEPT ![a] = "read"]
  /\ UNCHANGED <<disk, store, input, current, reply>>

\* The user closes the editor.
Close(a) ==
  /\ pc[a] = "open" /\ Go(a, "idle")
  /\ UNCHANGED <<disk, store, input>>

\* Broken: the base is not compared.
ReadCurrentUnchecked(a) ==
  /\ pc[a] = "read" /\ file # None
  /\ current' = [current EXCEPT ![a] = file]
  /\ pc' = [pc EXCEPT ![a] = "validate"]
  /\ UNCHANGED <<disk, store, input, content, reply>>

\* Editor.Read and the comparison with baseSHA.
ReadCurrent(a) ==
  /\ pc[a] = "read"
  /\ IF file = None THEN Reply(a, "failed")
     ELSE IF file # base[a] THEN Reply(a, "conflict")
     ELSE /\ current' = [current EXCEPT ![a] = file]
          /\ pc' = [pc EXCEPT ![a] = "validate"] /\ UNCHANGED <<content, reply>>
  /\ UNCHANGED <<disk, store, input>>

\* Broken: the verdict of docker compose config is dropped.
ValidateIgnored(a) ==
  /\ pc[a] = "validate" /\ Go(a, "backup")
  /\ UNCHANGED <<disk, store, input>>

\* validateComposeDocument, then docker compose config on a candidate file that
\* is gone when the step is over; the command may fail for any content.
Validate(a) ==
  /\ pc[a] = "validate"
  /\ \/ content[a] \in Valid /\ Go(a, "backup")
     \/ Reply(a, "failed")
  /\ UNCHANGED <<disk, store, input>>

\* Broken: the old content is not stored.
BackupSkipped(a) ==
  /\ pc[a] = "backup"
  /\ Go(a, IF ViaWorkspace(a) THEN "replace" ELSE "version")
  /\ UNCHANGED <<disk, store, input>>

\* The backup file. Nothing refers to one that was not written whole.
Backup(a) ==
  /\ pc[a] = "backup"
  /\ \/ /\ backups' = backups \cup {current[a]}
        /\ Go(a, IF ViaWorkspace(a) THEN "replace" ELSE "version")
     \/ UNCHANGED backups /\ Reply(a, "failed")
  /\ UNCHANGED <<disk, rows, input>>

\* AddVersion, for the editor's saves.
AddVersion(a) ==
  /\ pc[a] = "version"
  /\ \/ rows' = rows \cup {current[a]} /\ Go(a, "replace")
     \/ UNCHANGED rows /\ Reply(a, "failed")
  /\ UNCHANGED <<disk, backups, input>>

\* The temporary file and the rename that puts it in the file's place.
Replace(a) ==
  /\ pc[a] = "replace"
  /\ \/ /\ file' = content[a]
        /\ (~ViaWorkspace(a) /\ Go(a, "apply")) \/ Reply(a, "ok")
     \/ UNCHANGED file /\ Reply(a, "failed")
  /\ UNCHANGED <<dir, temps, debris, maker, store, input>>

-----------------------------------------------------------------------------
(* CreateDirectory and CreateProject.                                      *)

BeginMkdir(a) ==
  /\ pc[a] = "idle"
  /\ dir' = TRUE
  /\ maker' = IF dir THEN maker ELSE None
  /\ op' = [op EXCEPT ![a] = "mkdir"]
  /\ Reply(a, "ok")
  /\ UNCHANGED <<file, temps, debris, store, base>>

BeginCreate(a, c) ==
  /\ pc[a] = "idle"
  /\ pc' = [pc EXCEPT ![a] = "stat"]
  /\ op' = [op EXCEPT ![a] = "create"]
  /\ base' = [base EXCEPT ![a] = None]
  /\ content' = [content EXCEPT ![a] = c]
  /\ current' = [current EXCEPT ![a] = None]
  /\ reply' = [reply EXCEPT ![a] = "none"]
  /\ UNCHANGED <<disk, store>>

\* os.Stat: the target must not be there.
CreateStat(a) ==
  /\ pc[a] = "stat"
  /\ IF dir THEN Reply(a, "failed") ELSE Go(a, "mkdir")
  /\ UNCHANGED <<disk, store, input>>

\* MkdirAll succeeds on a directory that has appeared since.
CreateMkdir(a) ==
  /\ pc[a] = "mkdir"
  /\ \/ /\ dir' = TRUE /\ maker' = (IF dir THEN maker ELSE a)
        /\ Go(a, "temp")
     \/ UNCHANGED <<dir, maker>> /\ Reply(a, "failed")
  /\ UNCHANGED <<file, temps, debris, store, input>>

\* writeWorkspaceTemp; an error goes to the deferred os.Remove of the directory.
CreateTemp(a) ==
  /\ pc[a] = "temp"
  /\ \/ dir /\ temps' = temps \cup {a} /\ Go(a, "config")
     \/ UNCHANGED temps /\ Go(a, "rmdir")
  /\ UNCHANGED <<dir, file, debris, maker, store, input>>

\* Broken: the error path forgets the directory.
CreateConfigForgets(a) ==
  /\ pc[a] = "config"
  /\ \/ content[a] \in Valid /\ Go(a, "rename") /\ UNCHANGED temps
     \/ Reply(a, "failed") /\ temps' = temps \ {a}
  /\ UNCHANGED <<dir, file, debris, maker, store, input>>

\* docker compose config on the temporary file.
CreateConfig(a) ==
  /\ pc[a] = "config"
  /\ \/ content[a] \in Valid /\ Go(a, "rename")
     \/ Go(a, "untemp")
  /\ UNCHANGED <<disk, store, input>>

\* The rename to compose.yaml; from here on the directory stays.
CreateRename(a) ==
  /\ pc[a] = "rename"
  /\ \/ /\ file' = content[a] /\ temps' = temps \ {a}
        /\ Go(a, "apply") \/ Reply(a, "ok")
     \/ UNCHANGED <<file, temps>> /\ Go(a, "untemp")
  /\ UNCHANGED <<dir, debris, maker, store, input>>

\* The deferred removals: the temporary file, then the directory.
CreateUntemp(a) ==
  /\ pc[a] = "untemp"
  /\ temps' = temps \ {a}
  /\ Go(a, "rmdir")
  /\ UNCHANGED <<dir, file, debris, maker, store, input>>

\* Broken: os.RemoveAll.
CreateRemoveAll(a) ==
  /\ pc[a] = "rmdir"
  /\ dir' = FALSE /\ file' = None /\ temps' = {} /\ debris' = FALSE /\ maker' = None
  /\ Reply(a, "failed")
  /\ UNCHANGED <<store, input>>

\* Broken: a directory without a compose.yaml counts as empty.
CreateRmdirBlind(a) ==
  /\ pc[a] = "rmdir"
  /\ IF dir /\ file = None THEN dir' = FALSE /\ maker' = None ELSE UNCHANGED <<dir, maker>>
  /\ Reply(a, "failed")
  /\ UNCHANGED <<file, temps, debris, store, input>>

\* os.Remove takes an empty directory only.
CreateRmdir(a) ==
  /\ pc[a] = "rmdir"
  /\ IF dir /\ file = None /\ temps = {} /\ ~debris
     THEN dir' = FALSE /\ maker' = None ELSE UNCHANGED <<dir, maker>>
  /\ Reply(a, "failed")
  /\ UNCHANGED <<file, temps, debris, store, input>>

-----------------------------------------------------------------------------
\* "up -d" after a save or a creation; the file stays whatever it does.
Apply(a) ==
  /\ pc[a] = "apply"
  /\ Reply(a, "ok") \/ Reply(a, "failed")
  /\ UNCHANGED <<disk, store, input>>

\* Someone edits compose.yaml on the host.
Outside(c) ==
  /\ file # None /\ file # c
  /\ file' = c
  /\ UNCHANGED <<dir, temps, debris, maker, store, pc, op, base, content, current, reply>>

\* The process is killed: the disk stays, the callers get no answer, and their
\* temporary files are nobody's.
Crash ==
  /\ Crashes /\ \E a \in Callers : pc[a] # "idle"
  /\ pc' = [a \in Callers |-> "idle"] /\ op' = [a \in Callers |-> "none"]
  /\ base' = [a \in Callers |-> None] /\ content' = [a \in Callers |-> None]
  /\ current' = [a \in Callers |-> None]
  /\ reply' = [a \in Callers |-> "none"]
  /\ temps' = {} /\ debris' = (debris \/ temps # {})
  /\ maker' = None
  /\ UNCHANGED <<dir, file, store>>

Step(a) ==
  \/ ReadCurrent(a) \/ Validate(a) \/ Backup(a) \/ AddVersion(a) \/ Replace(a)
  \/ CreateStat(a) \/ CreateMkdir(a) \/ CreateTemp(a) \/ CreateConfig(a)
  \/ CreateRename(a) \/ CreateUntemp(a) \/ CreateRmdir(a) \/ Apply(a)

Begin(a) ==
  \/ \E o \in SaveOps : Open(a, o)
  \/ \E c \in Contents : Submit(a, c) \/ BeginCreate(a, c)
  \/ Close(a) \/ BeginMkdir(a)

Next ==
  \/ \E a \in Callers : Begin(a) \/ Step(a)
  \/ \E c \in Outsiders : Outside(c)
  \/ Crash

Spec == Init /\ [][Next]_vars

-----------------------------------------------------------------------------
(* Properties. *)

\* Restore can always read what a version row points to, after any crash and
\* any failure in between: the file is written before the row (editor.go
\* 155-178).
RowsHaveBackups == rows \subseteq backups

\* A save that answered success can be undone: what its user had opened is in a
\* backup, and in the history when the editor saved it, whoever else wrote in
\* between (editor.go 102-153, workspace.go 156-197).
SuccessUndoable ==
  \A a \in Callers : reply[a] = "ok" /\ op[a] \in SaveOps =>
    base[a] \in backups /\ (~ViaWorkspace(a) => base[a] \in rows)

\* A caller's rename changes the file: its handler moves on from that point.
Renames(a) == pc[a] \in {"replace", "rename"} /\ pc'[a] # pc[a] /\ file' # file

\* Nothing a handler puts in the place of compose.yaml was rejected by docker
\* compose config, a restored version and a new project included (editor.go
\* 110, workspace.go 174-187, 238-243).
OnlyValidInstalled == [][\A a \in Callers : Renames(a) => file' \in Valid]_vars

\* No failure, cleanup or crash takes a project's file away: a failed creation
\* removes a directory only while it is empty (workspace.go 233-238).
FileNeverVanishes == [][file # None => file' # None]_vars

\* Failed creations clean up after themselves, however many meet in the same
\* directory: when all have answered, a directory one of them made holds a
\* project (workspace.go 225-251).
NoOrphanDirectory ==
  (\A a \in Callers : pc[a] = "idle") /\ dir /\ maker # None /\ ~debris => file # None

\* PRD.md 57: "compare the client's base version, so that concurrent changes
\* are not overwritten".  A save replaces only what its user had opened.
NoLostUpdate ==
  [][\A a \in Callers : Renames(a) /\ op[a] \in SaveOps => file = base[a]]_vars

\* TASKS.md 114: "never overwrite an existing project directory".  A creation
\* never replaces a compose.yaml.
CreateNeverOverwrites ==
  [][\A a \in Callers : Renames(a) /\ op[a] = "create" => file = None]_vars

=============================================================================
