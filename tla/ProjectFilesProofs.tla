------------------------- MODULE ProjectFilesProofs -------------------------
(***************************************************************************)
(* Proofs about ProjectFiles, for any number of callers and any contents.  *)
(* IInv is the inductive invariant: what each handler knows of the file    *)
(* and the history while it works, and who answers for what is in the      *)
(* directory.                                                              *)
(***************************************************************************)
EXTENDS ProjectFiles, TLAPS

Saving   == {"read", "validate", "backup", "version", "replace"}
Creating == {"stat", "mkdir", "temp", "config", "rename", "untemp", "rmdir"}
Cleaning == Creating \ {"stat", "mkdir"}
Holding  == {"config", "rename", "untemp"}

\* What a handler at work has read and taken in.  Its file is there as long as
\* it saves, and its content is valid once docker compose config has said so.
WorkOf(a) ==
  /\ pc[a] \in Saving \cup {"open"} => op[a] \in SaveOps /\ base[a] \in Contents /\ file # None
  /\ pc[a] \in Creating => op[a] = "create"
  /\ pc[a] \in Saving \cup (Creating \ {"untemp", "rmdir"}) => content[a] \in Contents
  /\ pc[a] \in {"backup", "version", "replace", "rename"} => content[a] \in Valid
  /\ pc[a] \in Saving \ {"read"} => current[a] = base[a]
WorkInv == \A a \in Callers : WorkOf(a)

\* What a save has stored of the content its user opened, in a backup and, when
\* the editor saves, in the history.
Kept(a) == base[a] \in backups /\ (~ViaWorkspace(a) => base[a] \in rows)

HistoryOf(a) ==
  /\ pc[a] = "version" => base[a] \in backups /\ ~ViaWorkspace(a)
  /\ pc[a] = "replace" \/ (pc[a] = "apply" /\ op[a] \in SaveOps) => Kept(a)
  /\ pc[a] # "idle" => reply[a] = "none"
  /\ reply[a] = "ok" /\ op[a] \in SaveOps => Kept(a)
HistoryInv == rows \subseteq backups /\ \A a \in Callers : HistoryOf(a)

\* A temporary file has a creator who will rename or remove it, and an empty
\* directory that a creation made has one who will fill or remove it.
DirInv ==
  /\ temps = {a \in Callers : pc[a] \in Holding}
  /\ dir /\ maker # None /\ ~debris /\ file = None => \E a \in Callers : pc[a] \in Cleaning

IInv == TypeOK /\ WorkInv /\ HistoryInv /\ DirInv

USE DEF disk, store, input, work, Go, Reply, Saving, Creating, Cleaning, Holding

\* The step is one of a's: the variables of all other callers stay.
Mine(a) == \A b \in Callers \ {a} :
  /\ pc'[b] = pc[b] /\ op'[b] = op[b] /\ base'[b] = base[b] /\ content'[b] = content[b]
  /\ current'[b] = current[b] /\ reply'[b] = reply[b]

-----------------------------------------------------------------------------
(* What is common to the steps.                                            *)

\* What the others know survives a step that takes nothing from the history and
\* does not take the file away.
LEMMA Others ==
  ASSUME NEW a \in Callers, Mine(a), WorkInv, HistoryInv,
         backups \subseteq backups', rows \subseteq rows', rows' \subseteq backups',
         file # None => file' # None,
         WorkOf(a)', HistoryOf(a)'
  PROVE  WorkInv' /\ HistoryInv'
<1>1. ASSUME NEW b \in Callers, b # a PROVE WorkOf(b)'
  BY <1>1 DEF WorkInv, WorkOf, Mine
<1>2. ASSUME NEW b \in Callers, b # a PROVE HistoryOf(b)'
  BY <1>2 DEF HistoryInv, HistoryOf, Mine, Kept, ViaWorkspace
<1>. QED BY <1>1, <1>2 DEF WorkInv, HistoryInv

\* A step that leaves the directory and the temporary files alone keeps DirInv
\* if its caller goes on cleaning up for what it answered for, or was not.
LEMMA SameDir ==
  ASSUME NEW a \in Callers, Mine(a), DirInv,
         UNCHANGED <<dir, temps, debris, maker>>, file # None => file' # None,
         pc[a] \in Holding <=> pc'[a] \in Holding,
         pc[a] \in Cleaning => pc'[a] \in Cleaning
  PROVE  DirInv'
<1>1. \A b \in Callers : pc[b] \in Holding <=> pc'[b] \in Holding
  BY DEF Mine
<1>2. \A b \in Callers : pc[b] \in Cleaning => pc'[b] \in Cleaning
  BY DEF Mine
<1>. QED BY <1>1, <1>2 DEF DirInv

-----------------------------------------------------------------------------
(* Types.                                                                  *)

LEMMA TypeStep == IInv /\ [Next]_vars => TypeOK'
<1>. SUFFICES ASSUME IInv, [Next]_vars PROVE TypeOK'
  OBVIOUS
<1>. TypeOK /\ WorkInv /\ DirInv
  BY DEF IInv
<1>. USE ContentAssumption DEF TypeOK, Maybe
<1>1. ASSUME NEW a \in Callers, NEW o \in SaveOps, Open(a, o) PROVE TypeOK'
  BY <1>1 DEF Open, Pcs, Ops
<1>2. ASSUME NEW a \in Callers, NEW c \in Contents, Submit(a, c) \/ BeginCreate(a, c) PROVE TypeOK'
  BY <1>2 DEF Submit, BeginCreate, Pcs, Ops
<1>3. ASSUME NEW a \in Callers, Close(a) \/ BeginMkdir(a) PROVE TypeOK'
  <2>1. CASE Close(a)
    BY <2>1 DEF Close, Pcs
  <2>2. CASE BeginMkdir(a)
    BY <2>2 DEF BeginMkdir, Pcs, Ops
  <2>. QED BY <1>3, <2>1, <2>2
<1>4. ASSUME NEW a \in Callers, ReadCurrent(a) \/ Validate(a) PROVE TypeOK'
  BY <1>4 DEF ReadCurrent, Validate, Pcs
<1>5. ASSUME NEW a \in Callers, Backup(a) \/ AddVersion(a) PROVE TypeOK'
  <2>1. current[a] \in Contents
    BY <1>5 DEF WorkInv, WorkOf, Backup, AddVersion
  <2>. QED BY <1>5, <2>1 DEF Backup, AddVersion, Pcs
<1>6. ASSUME NEW a \in Callers, Replace(a) \/ CreateRename(a) PROVE TypeOK'
  <2>1. content[a] \in Contents /\ dir
    BY <1>6 DEF WorkInv, WorkOf, DirInv, Replace, CreateRename
  <2>2. CASE Replace(a)
    BY <2>1, <2>2 DEF Replace, Pcs
  <2>3. CASE CreateRename(a)
    BY <2>1, <2>3 DEF CreateRename, Pcs
  <2>. QED BY <1>6, <2>2, <2>3
<1>7. ASSUME NEW a \in Callers, CreateStat(a) \/ CreateMkdir(a) \/ CreateConfig(a) \/ Apply(a) PROVE TypeOK'
  <2>1. CASE CreateStat(a)
    BY <2>1 DEF CreateStat, Pcs
  <2>2. CASE CreateMkdir(a)
    <3>1. dir' \in BOOLEAN /\ (dir => dir') /\ maker' \in Callers \cup {None}
      BY <2>2 DEF CreateMkdir
    <3>2. /\ pc' \in [Callers -> Pcs] /\ reply' \in [Callers -> {"none", "ok", "conflict", "failed"}]
          /\ content' \in [Callers -> Maybe] /\ current' \in [Callers -> Maybe]
      BY <2>2 DEF CreateMkdir, Pcs
    <3>. QED BY <2>2, <3>1, <3>2 DEF CreateMkdir
  <2>3. CASE CreateConfig(a)
    BY <2>3 DEF CreateConfig, Pcs
  <2>4. CASE Apply(a)
    BY <2>4 DEF Apply, Pcs
  <2>. QED BY <1>7, <2>1, <2>2, <2>3, <2>4
<1>8. ASSUME NEW a \in Callers, CreateTemp(a) \/ CreateUntemp(a) \/ CreateRmdir(a) PROVE TypeOK'
  <2>1. CASE CreateTemp(a)
    BY <2>1 DEF CreateTemp, Pcs
  <2>2. CASE CreateUntemp(a)
    BY <2>2 DEF CreateUntemp, Pcs
  <2>3. CASE CreateRmdir(a)
    BY <2>3 DEF CreateRmdir, Pcs
  <2>. QED BY <1>8, <2>1, <2>2, <2>3
<1>9. ASSUME NEW c \in Outsiders, Outside(c) PROVE TypeOK'
  BY <1>9 DEF Outside
<1>10. CASE Crash
  BY <1>10 DEF Crash, Pcs, Ops
<1>11. CASE UNCHANGED vars
  BY <1>11 DEF vars
<1>. QED BY <1>1, <1>2, <1>3, <1>4, <1>5, <1>6, <1>7, <1>8, <1>9, <1>10, <1>11 DEF Next, Begin, Step

-----------------------------------------------------------------------------
(* One lemma per group of actions.                                         *)

\* Opening, submitting, closing, and the start of a creation.
LEMMA BeginKeeps ==
  ASSUME IInv, NEW a \in Callers, Begin(a)
  PROVE  WorkInv' /\ HistoryInv' /\ DirInv'
<1>. /\ WorkInv /\ HistoryInv /\ DirInv /\ WorkOf(a) /\ HistoryOf(a)
     /\ pc \in [Callers -> Pcs] /\ op \in [Callers -> Ops]
     /\ base \in [Callers -> Maybe] /\ content \in [Callers -> Maybe]
     /\ current \in [Callers -> Maybe] /\ file \in Maybe
     /\ reply \in [Callers -> {"none", "ok", "conflict", "failed"}]
  BY DEF IInv, TypeOK, WorkInv, HistoryInv
<1>1. ASSUME NEW o \in SaveOps, Open(a, o) PROVE WorkInv' /\ HistoryInv' /\ DirInv'
  <2>1. Mine(a)
    BY <1>1 DEF Open, Mine
  <2>2. WorkOf(a)' /\ HistoryOf(a)'
    BY <1>1 DEF Open, WorkOf, HistoryOf, Maybe, Kept, ViaWorkspace
  <2>3. DirInv'
    BY <1>1, <2>1, SameDir DEF Open
  <2>. QED BY <1>1, <2>1, <2>2, <2>3, Others DEF Open, HistoryInv
<1>2. ASSUME NEW c \in Contents, Submit(a, c) PROVE WorkInv' /\ HistoryInv' /\ DirInv'
  <2>1. Mine(a)
    BY <1>2 DEF Submit, Mine
  <2>2. WorkOf(a)' /\ HistoryOf(a)'
    BY <1>2 DEF Submit, WorkOf, HistoryOf, Kept, ViaWorkspace
  <2>3. DirInv'
    BY <1>2, <2>1, SameDir DEF Submit
  <2>. QED BY <1>2, <2>1, <2>2, <2>3, Others DEF Submit, HistoryInv
<1>3. ASSUME NEW c \in Contents, BeginCreate(a, c) PROVE WorkInv' /\ HistoryInv' /\ DirInv'
  <2>1. Mine(a)
    BY <1>3 DEF BeginCreate, Mine
  <2>2. WorkOf(a)' /\ HistoryOf(a)'
    BY <1>3 DEF BeginCreate, WorkOf, HistoryOf, SaveOps
  <2>3. DirInv'
    BY <1>3, <2>1, SameDir DEF BeginCreate
  <2>. QED BY <1>3, <2>1, <2>2, <2>3, Others DEF BeginCreate, HistoryInv
<1>4. CASE Close(a)
  <2>1. Mine(a)
    BY <1>4 DEF Close, Mine
  <2>2. WorkOf(a)' /\ HistoryOf(a)'
    BY <1>4 DEF Close, WorkOf, HistoryOf
  <2>3. DirInv'
    BY <1>4, <2>1, SameDir DEF Close
  <2>. QED BY <1>4, <2>1, <2>2, <2>3, Others DEF Close, HistoryInv
<1>5. CASE BeginMkdir(a)
  <2>1. Mine(a)
    BY <1>5 DEF BeginMkdir, Mine
  <2>2. WorkOf(a)' /\ HistoryOf(a)'
    BY <1>5 DEF BeginMkdir, WorkOf, HistoryOf, SaveOps
  <2>3. DirInv'
    <3>1. /\ \A b \in Callers : pc[b] \in Holding <=> pc'[b] \in Holding
          /\ \A b \in Callers : pc[b] \in Cleaning <=> pc'[b] \in Cleaning
      BY <1>5 DEF BeginMkdir
    <3>2. UNCHANGED <<temps, file, debris>> /\ maker' = (IF dir THEN maker ELSE None)
      BY <1>5 DEF BeginMkdir
    <3>. QED BY <3>1, <3>2 DEF DirInv
  <2>. QED BY <1>5, <2>1, <2>2, <2>3, Others DEF BeginMkdir, HistoryInv
<1>. QED BY <1>1, <1>2, <1>3, <1>4, <1>5 DEF Begin

\* The steps of a save up to the rename, which tell the handler more, store what
\* it read, and touch neither file nor directory.
LEMMA SaveKeeps ==
  ASSUME IInv, NEW a \in Callers, ReadCurrent(a) \/ Validate(a) \/ Backup(a) \/ AddVersion(a)
  PROVE  WorkInv' /\ HistoryInv' /\ DirInv'
<1>. /\ WorkInv /\ HistoryInv /\ DirInv /\ WorkOf(a) /\ HistoryOf(a)
     /\ pc \in [Callers -> Pcs] /\ reply \in [Callers -> {"none", "ok", "conflict", "failed"}]
     /\ content \in [Callers -> Maybe] /\ current \in [Callers -> Maybe]
  BY DEF IInv, TypeOK, WorkInv, HistoryInv
<1>1. Mine(a)
  BY DEF ReadCurrent, Validate, Backup, AddVersion, Mine
<1>2. WorkOf(a)'
  BY DEF ReadCurrent, Validate, Backup, AddVersion, WorkOf
<1>3. CASE ReadCurrent(a)
  <2>1. HistoryOf(a)'
    BY <1>3 DEF ReadCurrent, HistoryOf, Kept, ViaWorkspace
  <2>. QED BY <1>1, <1>2, <1>3, <2>1, Others, SameDir DEF ReadCurrent, HistoryInv
<1>4. CASE Validate(a)
  <2>1. HistoryOf(a)'
    BY <1>4 DEF Validate, HistoryOf, Kept, ViaWorkspace
  <2>. QED BY <1>1, <1>2, <1>4, <2>1, Others, SameDir DEF Validate, HistoryInv
<1>5. CASE Backup(a)
  <2>1. HistoryOf(a)'
    BY <1>5 DEF Backup, WorkOf, HistoryOf, Kept, ViaWorkspace
  <2>2. backups \subseteq backups' /\ rows' = rows
    BY <1>5 DEF Backup
  <2>. QED BY <1>1, <1>2, <1>5, <2>1, <2>2, Others, SameDir DEF Backup, HistoryInv
<1>6. CASE AddVersion(a)
  <2>1. HistoryOf(a)'
    BY <1>6 DEF AddVersion, WorkOf, HistoryOf, Kept, ViaWorkspace
  <2>2. rows \subseteq rows' /\ rows' \subseteq backups /\ backups' = backups
    BY <1>6 DEF AddVersion, WorkOf, HistoryInv, HistoryOf
  <2>. QED BY <1>1, <1>2, <1>6, <2>1, <2>2, Others, SameDir DEF AddVersion, HistoryInv
<1>. QED BY <1>3, <1>4, <1>5, <1>6

\* The rename that ends a save, and "up -d".
LEMMA ReplaceKeeps ==
  ASSUME IInv, NEW a \in Callers, Replace(a) \/ Apply(a)
  PROVE  WorkInv' /\ HistoryInv' /\ DirInv'
<1>. /\ WorkInv /\ HistoryInv /\ DirInv /\ WorkOf(a) /\ HistoryOf(a) /\ None \notin Contents
     /\ pc \in [Callers -> Pcs] /\ reply \in [Callers -> {"none", "ok", "conflict", "failed"}]
     /\ content \in [Callers -> Maybe] /\ current \in [Callers -> Maybe]
  BY ContentAssumption DEF IInv, TypeOK, WorkInv, HistoryInv
<1>1. Mine(a)
  BY DEF Replace, Apply, Mine
<1>2. file' = file \/ (file' = content[a] /\ content[a] \in Contents)
  BY DEF Replace, Apply, WorkOf
<1>3. WorkOf(a)'
  BY DEF Replace, Apply, WorkOf
<1>4. HistoryOf(a)'
  BY DEF Replace, Apply, HistoryOf, Kept, ViaWorkspace
<1>5. DirInv'
  BY <1>1, <1>2, SameDir DEF Replace, Apply
<1>. QED BY <1>1, <1>2, <1>3, <1>4, <1>5, Others DEF Replace, Apply, HistoryInv

\* The steps of a creation, which know nothing of the history.
LEMMA CreateKeeps ==
  ASSUME IInv, NEW a \in Callers,
         \/ CreateStat(a) \/ CreateMkdir(a) \/ CreateTemp(a) \/ CreateConfig(a)
         \/ CreateRename(a) \/ CreateUntemp(a) \/ CreateRmdir(a)
  PROVE  WorkInv' /\ HistoryInv' /\ DirInv'
<1>. /\ WorkInv /\ HistoryInv /\ DirInv /\ WorkOf(a) /\ HistoryOf(a)
     /\ None \notin Contents \cup Callers
     /\ pc \in [Callers -> Pcs] /\ reply \in [Callers -> {"none", "ok", "conflict", "failed"}]
     /\ content \in [Callers -> Maybe] /\ current \in [Callers -> Maybe]
     /\ dir \in BOOLEAN /\ debris \in BOOLEAN /\ temps \subseteq Callers
  BY ContentAssumption DEF IInv, TypeOK, WorkInv, HistoryInv
<1>1. Mine(a) /\ UNCHANGED <<backups, rows>>
  BY DEF CreateStat, CreateMkdir, CreateTemp, CreateConfig, CreateRename, CreateUntemp, CreateRmdir, Mine
<1>2. file' = file \/ (pc[a] = "rename" /\ file' = content[a])
  BY DEF CreateStat, CreateMkdir, CreateTemp, CreateConfig, CreateRename, CreateUntemp, CreateRmdir
<1>3. file # None => file' # None
  BY <1>2 DEF WorkOf
<1>4. WorkOf(a)'
  BY DEF CreateStat, CreateMkdir, CreateTemp, CreateConfig, CreateRename, CreateUntemp, CreateRmdir, WorkOf
<1>5. HistoryOf(a)'
  BY DEF CreateStat, CreateMkdir, CreateTemp, CreateConfig, CreateRename, CreateUntemp, CreateRmdir,
         WorkOf, HistoryOf, SaveOps
<1>6. WorkInv' /\ HistoryInv'
  BY <1>1, <1>3, <1>4, <1>5, Others DEF HistoryInv
<1>7. CASE CreateStat(a) \/ CreateConfig(a)
  BY <1>1, <1>6, <1>7, SameDir DEF CreateStat, CreateConfig
<1>8. CASE CreateMkdir(a)
  <2>1. temps' = {b \in Callers : pc'[b] \in Holding}
    BY <1>8 DEF CreateMkdir, DirInv
  <2>2. \A b \in Callers : pc[b] \in Cleaning => pc'[b] \in Cleaning
    BY <1>8 DEF CreateMkdir
  <2>3. pc'[a] \in Cleaning \/ UNCHANGED <<dir, maker, file, debris>>
    BY <1>8 DEF CreateMkdir
  <2>. QED BY <1>6, <2>1, <2>2, <2>3 DEF DirInv
<1>9. CASE CreateTemp(a) \/ CreateUntemp(a)
  <2>1. temps' = {b \in Callers : pc'[b] \in Holding}
    BY <1>9 DEF CreateTemp, CreateUntemp, DirInv
  <2>2. pc'[a] \in Cleaning
    BY <1>9 DEF CreateTemp, CreateUntemp
  <2>. QED BY <1>6, <2>1, <2>2 DEF DirInv
<1>10. CASE CreateRename(a)
  <2>1. temps' = {b \in Callers : pc'[b] \in Holding}
    BY <1>10 DEF CreateRename, DirInv
  <2>2. pc'[a] \in Cleaning \/ file' # None
    BY <1>10 DEF CreateRename, WorkOf
  <2>. QED BY <1>6, <2>1, <2>2 DEF DirInv
<1>11. CASE CreateRmdir(a)
  \* The last creator in an empty directory takes it away.
  <2>1. temps' = {b \in Callers : pc'[b] \in Holding}
    BY <1>11 DEF CreateRmdir, DirInv
  <2>2. ASSUME dir', maker' # None, ~debris', file' = None PROVE \E b \in Callers : pc'[b] \in Cleaning
    <3>1. temps # {}
      BY <1>11, <2>2 DEF CreateRmdir
    <3>2. PICK b \in Callers : pc[b] \in Holding
      BY <3>1 DEF DirInv
    <3>. QED BY <1>11, <3>2 DEF CreateRmdir
  <2>. QED BY <1>6, <2>1, <2>2 DEF DirInv
<1>. QED BY <1>6, <1>7, <1>8, <1>9, <1>10, <1>11

\* Other people, and a kill.
LEMMA WorldKeeps ==
  ASSUME IInv, (\E c \in Outsiders : Outside(c)) \/ Crash \/ UNCHANGED vars
  PROVE  WorkInv' /\ HistoryInv' /\ DirInv'
<1>. WorkInv /\ HistoryInv /\ DirInv
  BY DEF IInv
<1>1. ASSUME NEW c \in Outsiders, Outside(c) PROVE WorkInv' /\ HistoryInv' /\ DirInv'
  BY <1>1, ContentAssumption DEF Outside, WorkInv, WorkOf, HistoryInv, HistoryOf, Kept, ViaWorkspace, DirInv
<1>2. CASE Crash
  <2>1. WorkInv' /\ HistoryInv'
    BY <1>2 DEF Crash, WorkInv, WorkOf, HistoryInv, HistoryOf
  <2>2. DirInv'
    BY <1>2 DEF Crash, DirInv
  <2>. QED BY <2>1, <2>2
<1>3. CASE UNCHANGED vars
  BY <1>3 DEF vars, WorkInv, WorkOf, HistoryInv, HistoryOf, Kept, ViaWorkspace, DirInv
<1>. QED BY <1>1, <1>2, <1>3

-----------------------------------------------------------------------------
(* The theorems.                                                           *)

LEMMA IInvHolds == Spec => []IInv
<1>1. Init => IInv
  <2>. SUFFICES ASSUME Init PROVE IInv
    OBVIOUS
  <2>1. TypeOK
    BY ContentAssumption DEF Init, TypeOK, Maybe, Pcs, Ops
  <2>2. WorkInv /\ HistoryInv
    BY DEF Init, WorkInv, WorkOf, HistoryInv, HistoryOf
  <2>3. DirInv
    BY DEF Init, DirInv
  <2>. QED BY <2>1, <2>2, <2>3 DEF IInv
<1>2. IInv /\ [Next]_vars => IInv'
  <2>. SUFFICES ASSUME IInv, [Next]_vars PROVE IInv'
    OBVIOUS
  <2>1. TypeOK'
    BY TypeStep
  <2>2. WorkInv' /\ HistoryInv' /\ DirInv'
    BY BeginKeeps, SaveKeeps, ReplaceKeeps, CreateKeeps, WorldKeeps DEF Next, Step
  <2>. QED BY <2>1, <2>2 DEF IInv
<1>. QED BY <1>1, <1>2, PTL DEF Spec

\* Every variable of the directory and its callers keeps its type, and a file or
\* a temporary file has its directory, whoever removes it (workspace.go 225-251).
THEOREM FilesTypes == Spec => []TypeOK
<1>1. IInv => TypeOK
  BY DEF IInv
<1>. QED BY <1>1, IInvHolds, PTL

\* A version row points to a backup that is there, after any failure and any
\* kill in between, for any number of savers (editor.go 155-178).
THEOREM RowsPointToBackups == Spec => []RowsHaveBackups
<1>1. IInv => RowsHaveBackups
  BY DEF IInv, HistoryInv, RowsHaveBackups
<1>. QED BY <1>1, IInvHolds, PTL

\* A save that answered success can be undone, whoever else wrote in between
\* (editor.go 102-153, workspace.go 156-197).
THEOREM SuccessCanBeUndone == Spec => []SuccessUndoable
<1>1. IInv => SuccessUndoable
  BY DEF IInv, HistoryInv, HistoryOf, Kept, SuccessUndoable
<1>. QED BY <1>1, IInvHolds, PTL

\* Failed creations leave no directory behind, for any number of them in the
\* same directory (workspace.go 225-251).
THEOREM CreationsCleanUp == Spec => []NoOrphanDirectory
<1>1. IInv => NoOrphanDirectory
  BY DEF IInv, DirInv, NoOrphanDirectory
<1>. QED BY <1>1, IInvHolds, PTL

\* Nothing a handler installs was rejected by docker compose config, whatever
\* others install meanwhile (editor.go 110, workspace.go 174-187, 238-243).
THEOREM InstalledIsValid == Spec => OnlyValidInstalled
<1>1. IInv /\ [Next]_vars => [\A a \in Callers : Renames(a) => file' \in Valid]_vars
  <2>. SUFFICES ASSUME IInv, Next, NEW a \in Callers, Renames(a) PROVE file' \in Valid
    BY DEF Renames, vars
  <2>. pc \in [Callers -> Pcs] /\ WorkOf(a)
    BY DEF IInv, TypeOK, WorkInv
  <2>1. ASSUME NEW b \in Callers, Begin(b) \/ Step(b) PROVE file' = file \/ (b = a /\ file' = content[a])
    <3>1. b # a => pc'[a] = pc[a] \/ file' = file
      BY <2>1 DEF Begin, Step, Open, Submit, Close, BeginMkdir, BeginCreate, ReadCurrent, Validate, Backup,
         AddVersion, Replace, CreateStat, CreateMkdir, CreateTemp, CreateConfig, CreateRename,
         CreateUntemp, CreateRmdir, Apply
    <3>2. file' = file \/ file' = content[b]
      BY <2>1 DEF Begin, Step, Open, Submit, Close, BeginMkdir, BeginCreate, ReadCurrent, Validate, Backup,
         AddVersion, Replace, CreateStat, CreateMkdir, CreateTemp, CreateConfig, CreateRename,
         CreateUntemp, CreateRmdir, Apply
    <3>. QED BY <3>1, <3>2 DEF Renames
  <2>2. CASE Crash \/ \E c \in Outsiders : Outside(c)
    BY <2>2 DEF Crash, Outside, Renames
  <2>. QED BY <2>1, <2>2 DEF Next, Renames, WorkOf
<1>. QED BY <1>1, IInvHolds, PTL DEF Spec, OnlyValidInstalled

\* No failure, clean-up or kill takes a project's file away, for any number of
\* savers and creators (workspace.go 233-238).
THEOREM FileStays == Spec => FileNeverVanishes
<1>1. IInv /\ [Next]_vars => [file # None => file' # None]_vars
  <2>. SUFFICES ASSUME IInv, Next, file # None PROVE file' # None
    BY DEF vars
  <2>. WorkInv /\ Valid \subseteq Contents /\ Outsiders \subseteq Contents /\ None \notin Contents
    BY ContentAssumption DEF IInv
  <2>1. ASSUME NEW a \in Callers, Replace(a) \/ CreateRename(a) PROVE file' # None
    BY <2>1 DEF Replace, CreateRename, WorkInv, WorkOf
  <2>2. ASSUME NEW a \in Callers, Begin(a) \/ Step(a), ~Replace(a), ~CreateRename(a) PROVE file' = file
    BY <2>2 DEF Begin, Step, Open, Submit, Close, BeginMkdir, BeginCreate, ReadCurrent, Validate, Backup,
       AddVersion, CreateStat, CreateMkdir, CreateTemp, CreateConfig, CreateUntemp, CreateRmdir, Apply
  <2>3. CASE Crash \/ \E c \in Outsiders : Outside(c)
    BY <2>3 DEF Crash, Outside
  <2>. QED BY <2>1, <2>2, <2>3 DEF Next
<1>. QED BY <1>1, IInvHolds, PTL DEF Spec, FileNeverVanishes

=============================================================================
