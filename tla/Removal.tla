------------------------------ MODULE Removal ------------------------------
(***************************************************************************)
(* PreviewProjectRemoval and DeleteProject of app.Service, for one project *)
(* and the world around it: its Compose file and directory, its containers *)
(* and those of others, the images and volumes its preview offers.         *)
(*                                                                         *)
(* A deletion holds removalGate alone, so nothing else in the server runs  *)
(* beside it (UpdateTasks!DeletionAlone).  Outside the server people use   *)
(* docker and edit files at any time, between any two calls the deletion   *)
(* makes; and the server may be killed.                                    *)
(*                                                                         *)
(* A plan is what removalPlan returns; the fingerprint is injective on     *)
(* plans, and the project's key is part of it.                             *)
(***************************************************************************)
EXTENDS Naturals, FiniteSets

CONSTANTS
  Tokens,       \* removal tickets (updateTaskID)
  Own,          \* containers labelled with the project
  Other,        \* containers that are not
  Images,       \* images the project's containers or its file name
  Volumes,      \* volumes labelled with the project
  Uses,         \* per container: the images and volumes it uses
  Contents,     \* what the Compose file may hold
  TicketLimit,  \* size of removalTickets at which a preview is refused (64)
  MaxMoves,     \* how often the world outside may move: a bound for TLC
  None

Containers == Own \cup Other
Resources  == Images \cup Volumes

ASSUME RemovalAssumption ==
  /\ TicketLimit \in Nat \ {0} /\ MaxMoves \in Nat
  /\ Own \cap Other = {} /\ Images \cap Volumes = {}
  /\ Containers \cap Resources = {}
  /\ {"file", "directory"} \cap (Containers \cup Resources) = {}  \* see erased
  /\ Uses \in [Containers -> SUBSET Resources]
  /\ None \notin Contents \cup Tokens \cup Resources

VARIABLES
  file,      \* content of the project's Compose file, or None
  live,      \* per container: "gone", "stopped" or "running"
  have,      \* images and volumes in Docker
  refs,      \* images and volumes another Compose file refers to
  shared,    \* something else uses the directory: it must not be removed
  moves,     \* moves of the world so far
  tickets,   \* removalTickets: token to the plan it was issued for, or None
  expired,   \* tickets older than ten minutes
  drafts,    \* per token: the half of its plan a preview has read, or None
  pc,        \* where the deletion is, "idle" when there is none
  token,     \* the deletion's token
  paper,     \* the plan of its ticket, the one the user saw
  want,      \* what the request asks for beyond containers and file
  read,      \* what its last RemovalInventory found
  plan,      \* the plan it made itself and works off
  todo,      \* containers, then resources, still to be handled
  item,      \* the one it is at
  errors,    \* result.Errors is not empty
  backup,    \* content stored under deleted-projects, or None
  audit,     \* its audit rows
  erased,    \* ghost: what it has removed, "file" for the Compose file
  held,      \* ghost: what was in use at its last look and has been since
  used,      \* ghost: tokens that deletions were begun with
  edited     \* ghost: someone edited the file since it began

world    == <<file, live, have, refs, shared, moves>>
preview  == <<tickets, expired, drafts>>
request  == <<token, paper, want>>
locals   == <<read, plan, todo, item>>
result   == <<errors, backup, audit>>
progress == <<locals, result>>
ghosts   == <<erased, held, used, edited>>
vars     == <<world, preview, pc, request, progress, ghosts>>

States == {"gone", "stopped", "running"}
Inventory == [sha : Contents, refs : SUBSET Resources]
Plans == [sha : Contents, own : [Own -> States], items : SUBSET Resources,
          kept : SUBSET Resources, blocked : BOOLEAN]
Wants == [directory : BOOLEAN, images : BOOLEAN, volumes : BOOLEAN]
Nothing == [directory |-> FALSE, images |-> FALSE, volumes |-> FALSE]

Pcs == {"idle", "files", "docker", "confirm", "backup", "containers", "remove",
        "freshFiles", "freshDocker", "erase", "resources", "useDocker", "useFiles",
        "drop", "close"}

\* A ticket table of a map can hold TicketLimit entries at most: the preview
\* that would exceed it is refused (project_removal.go 84-86).
TypeOK ==
  /\ file \in Contents \cup {None} /\ shared \in BOOLEAN
  /\ live \in [Containers -> States]
  /\ have \in SUBSET Resources /\ refs \in SUBSET Resources
  /\ moves \in 0..MaxMoves
  /\ tickets \in [Tokens -> Plans \cup {None}] /\ expired \in SUBSET Tokens
  /\ Cardinality({t \in Tokens : tickets[t] # None}) <= TicketLimit
  /\ drafts \in [Tokens -> Inventory \cup {None}]
  /\ pc \in Pcs /\ token \in Tokens \cup {None}
  /\ paper \in Plans \cup {None} /\ want \in Wants
  /\ read \in Inventory \cup {None} /\ plan \in Plans \cup {None}
  /\ todo \in SUBSET (Own \cup Resources) /\ item \in Own \cup Resources \cup {None}
  /\ errors \in BOOLEAN /\ backup \in Contents \cup {None}
  /\ audit \in {"none", "started", "partial", "success"}
  /\ erased \in SUBSET (Own \cup Resources \cup {"file", "directory"})
  /\ held \in SUBSET (Own \cup Resources \cup {"directory"}) /\ used \in SUBSET Tokens
  /\ edited \in BOOLEAN

Init ==
  /\ file \in Contents
  /\ live \in [Containers -> States]
  /\ have = Resources /\ refs \in SUBSET Resources /\ shared \in BOOLEAN
  /\ moves = 0
  /\ tickets = [t \in Tokens |-> None] /\ expired = {}
  /\ drafts = [t \in Tokens |-> None]
  /\ pc = "idle" /\ token = None /\ paper = None /\ want = Nothing
  /\ read = None /\ plan = None /\ todo = {} /\ item = None
  /\ errors = FALSE /\ backup = None /\ audit = "none"
  /\ erased = {} /\ held = {} /\ used = {} /\ edited = FALSE

-----------------------------------------------------------------------------
(* removalPlan: first the files, then Docker.                              *)

\* RemovalInventory; without the project's file there is no plan.
Files == [sha |-> file, refs |-> refs]

UsedBy(containers) == UNION {Uses[c] : c \in {d \in containers : live[d] # "gone"}}

\* What Docker adds to the inventory inv: containers, images and volumes, and
\* the ones to keep because someone else refers to them.
PlanFrom(inv) ==
  [sha     |-> inv.sha,
   own     |-> [c \in Own |-> live[c]],
   items   |-> have,
   kept    |-> have \cap (inv.refs \cup UsedBy(Other)),
   blocked |-> shared]

PreviewFiles(t) ==
  /\ pc = "idle" /\ t \notin used
  /\ tickets[t] = None /\ drafts[t] = None /\ t \notin expired
  /\ file # None
  /\ drafts' = [drafts EXCEPT ![t] = Files]
  /\ UNCHANGED <<world, tickets, expired, pc, request, progress, ghosts>>

Table == {t \in Tokens : tickets[t] # None}

\* Broken: one ticket too many.
PreviewTicketTooMany(t) ==
  /\ drafts[t] # None
  /\ drafts' = [drafts EXCEPT ![t] = None]
  /\ tickets' = [u \in Tokens |->
       IF u = t /\ Cardinality(Table \ expired) <= TicketLimit THEN PlanFrom(drafts[t])
       ELSE IF u \in expired THEN None ELSE tickets[u]]
  /\ UNCHANGED <<world, expired, pc, request, progress, ghosts>>

\* The rest of the plan, the purge of old tickets and the limit.
PreviewTicket(t) ==
  /\ drafts[t] # None
  /\ drafts' = [drafts EXCEPT ![t] = None]
  /\ tickets' = [u \in Tokens |->
       IF u = t /\ Cardinality(Table \ expired) < TicketLimit THEN PlanFrom(drafts[t])
       ELSE IF u \in expired THEN None ELSE tickets[u]]
  /\ UNCHANGED <<world, expired, pc, request, progress, ghosts>>

\* Docker or the scan fails the preview.
PreviewFails(t) ==
  /\ drafts[t] # None
  /\ drafts' = [drafts EXCEPT ![t] = None]
  /\ UNCHANGED <<world, tickets, expired, pc, request, progress, ghosts>>

Expire(t) ==
  /\ tickets[t] # None /\ t \notin expired
  /\ expired' = expired \cup {t}
  /\ UNCHANGED <<world, tickets, drafts, pc, request, progress, ghosts>>

-----------------------------------------------------------------------------
(* DeleteProject up to the point where it starts to remove things.         *)

\* The gate keeps previews out. The ticket is taken from the table, whatever
\* becomes of the deletion.
Begin(t, w, left) ==
  /\ pc = "idle" /\ \A u \in Tokens : drafts[u] = None
  /\ tickets[t] # None
  /\ tickets' = left
  /\ IF t \in expired
     THEN UNCHANGED <<pc, request, progress, ghosts>>
     ELSE /\ pc' = "files" /\ token' = t /\ paper' = tickets[t] /\ want' = w
          /\ errors' = FALSE /\ backup' = None /\ audit' = "none" /\ UNCHANGED locals
          /\ erased' = {} /\ held' = {} /\ used' = used \cup {t} /\ edited' = FALSE
  /\ UNCHANGED <<world, expired, drafts>>

\* Broken: the ticket stays in the table.
DeleteKeepsTicket(t, w) == Begin(t, w, tickets)

Delete(t, w) == Begin(t, w, [tickets EXCEPT ![t] = None])

Go(there) == pc' = there

\* The handler returns and its variables are gone.
Return == /\ Go("idle")
          /\ read' = None /\ plan' = None /\ todo' = {} /\ item' = None

\* A refusal before the audit row: nothing has been removed.
Refuse ==
  /\ pc \in {"files", "docker", "confirm"}
  /\ Return
  /\ UNCHANGED <<world, preview, request, result, ghosts>>

PlanFiles ==
  /\ pc = "files" /\ file # None
  /\ read' = Files
  /\ Go("docker")
  /\ UNCHANGED <<world, preview, request, plan, todo, item, result, ghosts>>

PlanDocker ==
  /\ pc = "docker"
  /\ plan' = PlanFrom(read)
  /\ Go("confirm")
  /\ UNCHANGED <<world, preview, request, read, todo, item, result, ghosts>>

\* Broken: the fingerprints are not compared.
ConfirmAnyway ==
  /\ pc = "confirm"
  /\ want.directory => ~plan.blocked
  /\ audit' = "started"
  /\ Go("backup")
  /\ UNCHANGED <<world, preview, request, locals, errors, backup, ghosts>>

\* Broken: a failure to write the audit row is ignored.
ConfirmUnaudited ==
  /\ pc = "confirm" /\ plan = paper
  /\ want.directory => ~plan.blocked
  /\ audit' \in {"none", "started"}
  /\ Go("backup")
  /\ UNCHANGED <<world, preview, request, locals, errors, backup, ghosts>>

\* The plan is the one the user saw, the name was typed right, the directory is
\* free if it is to go, and the audit row is written. Refuse is the other way.
Confirm ==
  /\ pc = "confirm" /\ plan = paper
  /\ want.directory => ~plan.blocked
  /\ audit' = "started"
  /\ Go("backup")
  /\ UNCHANGED <<world, preview, request, locals, errors, backup, ghosts>>

-----------------------------------------------------------------------------
(* From here on a failure ends the deletion as partial.                    *)

Stop == errors' = TRUE /\ Go("close")

OwnLive == {c \in Own : live[c] # "gone"}

\* The file is read again for the backup.
Backup ==
  /\ pc = "backup"
  /\ \/ /\ file # None /\ backup' = file
        /\ todo' = {c \in Own : plan.own[c] # "gone"}
        /\ Go("containers") /\ UNCHANGED errors
     \/ Stop /\ UNCHANGED <<backup, todo>>
  /\ UNCHANGED <<world, preview, request, read, plan, item, audit, ghosts>>

\* Stop the next container if the plan saw it running.
StopContainer(c) ==
  /\ pc = "containers" /\ c \in todo
  /\ item' = c
  /\ \/ plan.own[c] # "running" /\ UNCHANGED <<live, errors>> /\ Go("remove")
     \/ /\ plan.own[c] = "running" /\ live[c] # "gone"
        /\ live' = [live EXCEPT ![c] = "stopped"] /\ UNCHANGED errors /\ Go("remove")
     \/ plan.own[c] = "running" /\ UNCHANGED live /\ Stop
  /\ UNCHANGED <<file, have, refs, shared, moves, preview, request, read, plan, todo,
                 backup, audit, ghosts>>

\* Broken: a container that will not go is passed over.
RemoveContainerGoesOn ==
  /\ pc = "remove"
  /\ todo' = todo \ {item} /\ Go("containers")
  /\ \/ /\ live[item] = "stopped"
        /\ live' = [live EXCEPT ![item] = "gone"] /\ erased' = erased \cup {item}
        /\ UNCHANGED errors
     \/ errors' = TRUE /\ UNCHANGED <<live, erased>>
  /\ UNCHANGED <<file, have, refs, shared, moves, preview, request, read, plan, item,
                 backup, audit, held, used, edited>>

\* Docker removes a stopped container, never a running one: force=false.
RemoveContainer ==
  /\ pc = "remove"
  /\ \/ /\ live[item] = "stopped"
        /\ live' = [live EXCEPT ![item] = "gone"] /\ erased' = erased \cup {item}
        /\ todo' = todo \ {item} /\ Go("containers") /\ UNCHANGED errors
     \/ Stop /\ UNCHANGED <<live, erased, todo>>
  /\ UNCHANGED <<file, have, refs, shared, moves, preview, request, read, plan, item,
                 backup, audit, held, used, edited>>

\* The second removalPlan.
FreshFiles ==
  /\ pc = "containers" /\ todo = {}
  /\ held' = OwnLive \cup (IF shared THEN {"directory"} ELSE {})
  /\ \/ file # None /\ read' = Files /\ Go("freshDocker") /\ UNCHANGED errors
     \/ Stop /\ UNCHANGED read
  /\ UNCHANGED <<world, preview, request, plan, todo, item, backup, audit,
                 erased, used, edited>>

\* Broken: new containers are not looked for.
FreshDockerBlind ==
  /\ pc = "freshDocker"
  /\ \/ /\ read.sha = plan.sha /\ (want.directory => ~shared)
        /\ Go("erase") /\ UNCHANGED errors
     \/ Stop
  /\ UNCHANGED <<world, preview, request, locals, backup, audit, ghosts>>

\* Broken: only the first look decides about the directory.
FreshDockerTrusting ==
  /\ pc = "freshDocker"
  /\ \/ read.sha = plan.sha /\ OwnLive = {} /\ Go("erase") /\ UNCHANGED errors
     \/ Stop
  /\ UNCHANGED <<world, preview, request, locals, backup, audit, ghosts>>

FreshDocker ==
  /\ pc = "freshDocker"
  /\ \/ /\ read.sha = plan.sha /\ OwnLive = {} /\ (want.directory => ~shared)
        /\ Go("erase") /\ UNCHANGED errors
     \/ Stop
  /\ UNCHANGED <<world, preview, request, locals, backup, audit, ghosts>>

\* The Compose file, or the directory with everything in it; RemoveAll may fail
\* after it has taken the file.
Erase ==
  /\ pc = "erase"
  /\ \/ /\ file # None /\ file' = None
        /\ held' = held \cup refs
        /\ \/ /\ erased' = erased \cup (IF want.directory THEN {"file", "directory"} ELSE {"file"})
              /\ todo' = plan.items /\ Go("resources") /\ UNCHANGED errors
           \/ want.directory /\ erased' = erased \cup {"file"} /\ Stop /\ UNCHANGED todo
     \/ Stop /\ UNCHANGED <<file, erased, held, todo>>
  /\ UNCHANGED <<live, have, refs, shared, moves, preview, request, read, plan, item,
                 backup, audit, used, edited>>

-----------------------------------------------------------------------------
(* Images and volumes, one after the other.                                *)

Selected == (IF want.images THEN Images ELSE {}) \cup (IF want.volumes THEN Volumes ELSE {})

Skip(r) == todo' = todo \ {r} /\ Go("resources")

NextResource(r) ==
  /\ pc = "resources" /\ r \in todo
  /\ item' = r
  /\ IF r \in Selected \ plan.kept THEN Go("useDocker") /\ UNCHANGED todo ELSE Skip(r)
  /\ UNCHANGED <<world, preview, request, read, plan, result, ghosts>>

\* recheckRemovalResource: the containers, of any project, then the files.
RecheckContainers ==
  /\ pc = "useDocker"
  /\ \/ item \notin UsedBy(Containers) /\ Go("useFiles") /\ UNCHANGED todo
     \/ Skip(item)
  /\ UNCHANGED <<world, preview, request, read, plan, item, result, ghosts>>

\* Broken: the files are not looked at again.
RecheckFilesBlind ==
  /\ pc = "useFiles"
  /\ Go("drop") /\ UNCHANGED todo
  /\ UNCHANGED <<world, preview, request, read, plan, item, result, ghosts>>

RecheckFiles ==
  /\ pc = "useFiles"
  /\ \/ item \notin refs /\ file = None /\ Go("drop") /\ UNCHANGED todo
     \/ Skip(item)
  /\ UNCHANGED <<world, preview, request, read, plan, item, result, ghosts>>

\* Docker keeps what a container uses: force=false. An error is noted and the
\* next resource is tried.
DropResource ==
  /\ pc = "drop"
  /\ Skip(item)
  /\ \/ /\ item \in have \ UsedBy(Containers)
        /\ have' = have \ {item} /\ erased' = erased \cup {item} /\ UNCHANGED errors
     \/ errors' = TRUE /\ UNCHANGED <<have, erased>>
  /\ UNCHANGED <<file, live, refs, shared, moves, preview, request, read, plan, item,
                 backup, audit, held, used, edited>>

AllDone ==
  /\ pc = "resources" /\ todo = {}
  /\ Go("close")
  /\ UNCHANGED <<world, preview, request, progress, ghosts>>

\* The deferred audit row, whose error is ignored, and Unlock.
Close ==
  /\ pc = "close"
  /\ audit' \in {audit, IF errors THEN "partial" ELSE "success"}
  /\ Return
  /\ UNCHANGED <<world, preview, request, errors, backup, ghosts>>

-----------------------------------------------------------------------------
(* The world outside.                                                      *)

Move == moves < MaxMoves /\ moves' = moves + 1
Still == <<preview, pc, request, progress, erased, used>>

\* Somebody writes or removes the Compose file.
Edit(c) ==
  /\ Move /\ c # file
  /\ file' = c /\ edited' = TRUE
  /\ UNCHANGED <<live, have, refs, shared, held, Still>>

\* docker run, stop and rm, or compose up, which pulls what is missing.
Handle(c, s) ==
  /\ Move /\ live[c] # s
  /\ live' = [live EXCEPT ![c] = s]
  /\ have' = IF live[c] = "gone" THEN have \cup Uses[c] ELSE have
  /\ held' = IF s = "gone" THEN held \ {c} ELSE held
  /\ UNCHANGED <<file, refs, shared, edited, Still>>

\* Another Compose file begins or ceases to refer to an image or a volume.
Refer(r) ==
  /\ Move
  /\ refs' = IF r \in refs THEN refs \ {r} ELSE refs \cup {r}
  /\ held' = held \ {r}
  /\ UNCHANGED <<file, live, have, shared, edited, Still>>

\* The directory gets a second user, or loses it.
Share ==
  /\ Move /\ shared' = ~shared
  /\ held' = held \ {"directory"}
  /\ UNCHANGED <<file, live, have, refs, edited, Still>>

\* The server is killed and started again: tickets are gone, the disk stays.
Crash ==
  /\ Move
  /\ tickets' = [t \in Tokens |-> None] /\ drafts' = [t \in Tokens |-> None]
  /\ Return
  /\ UNCHANGED <<file, live, have, refs, shared, expired, request, result, ghosts>>

Preview(t) == PreviewFiles(t) \/ PreviewTicket(t) \/ PreviewFails(t) \/ Expire(t)

Deletion ==
  \/ Refuse \/ PlanFiles \/ PlanDocker \/ Confirm \/ Backup
  \/ \E c \in Own : StopContainer(c)
  \/ RemoveContainer \/ FreshFiles \/ FreshDocker \/ Erase
  \/ \E r \in Resources : NextResource(r)
  \/ RecheckContainers \/ RecheckFiles \/ DropResource \/ AllDone \/ Close

Outside ==
  \/ \E c \in Contents \cup {None} : Edit(c)
  \/ \E c \in Containers, s \in States : Handle(c, s)
  \/ \E r \in Resources : Refer(r)
  \/ Share \/ Crash

Next ==
  \/ \E t \in Tokens : Preview(t) \/ \E w \in Wants : Delete(t, w)
  \/ Deletion
  \/ Outside

Spec == Init /\ [][Next]_vars

-----------------------------------------------------------------------------
(* Properties. *)

\* Nothing is removed that the user's preview did not show as about to go:
\* however much changes between preview, confirmation and each call to Docker,
\* the removed containers, images and volumes are among those of the ticket's
\* plan, none of which it marked as kept, and of a kind the request selected
\* (project_removal.go 360-372, 402-418, 460-481).
OnlyConfirmed ==
  erased # {} =>
    /\ \A c \in erased \cap Own : paper.own[c] # "gone"
    /\ erased \cap Resources \subseteq (paper.items \ paper.kept) \cap Selected

\* Containers go first, then the file, then images and volumes, and each stage
\* is complete before the next begins: a failure half way leaves a project
\* whose file is there (project_removal.go 402-481).
RemovedInOrder ==
  /\ "file" \in erased => \A c \in Own : paper.own[c] # "gone" => c \in erased
  /\ erased \cap Resources # {} => "file" \in erased

\* Whatever was removed left its trace, through failures and kills: an audit
\* row, and a backup that holds what the user confirmed unless somebody edited
\* the file meanwhile (project_removal.go 373-400).
LeavesTrace ==
  erased # {} => audit # "none" /\ backup # None /\ (~edited => backup = paper.sha)

\* A container of the project that is there when the deletion looks for the
\* second time, and stays, saves the project's file (project_removal.go 419-434).
NewContainerKeepsFile == "file" \in erased => held \cap Own = {}

\* A directory that somebody else uses when the deletion looks for the second
\* time, and uses on, is not removed, whatever the preview and the first look
\* found (project_removal.go 370-372, 435-440).
SharedDirectoryIsKept == "directory" \in erased => "directory" \notin held

\* An image or a volume that another Compose file referred to when the
\* project's own file went, and has since, is not removed: the last look comes
\* after that (project_removal.go 473-477, 491-544).
ReferencedIsKept == held \cap Resources \cap erased = {}

\* What the user agreed to: the containers, images and volumes that the plan of
\* the ticket shows as about to go, the file, and the directory if it was ticked.
Agreed ==
  IF paper = None THEN {}
  ELSE {c \in Own : paper.own[c] # "gone"} \cup {"file"}
       \cup (IF want.directory THEN {"directory"} ELSE {})
       \cup ((paper.items \ paper.kept) \cap Selected)

Contract == INSTANCE RemovalContract
  WITH open <- pc # "idle", spent <- used, agreed <- Agreed,
       logged <- audit # "none" /\ backup # None, gone <- erased

\* Every step of a deletion, a refusal, a failure and a kill is one the user may
\* rely on, whatever the world does in between: a ticket authorises one
\* deletion, audit row and backup come before the first removal, the agreed
\* things go in order, and nothing goes once the deletion has ended or been
\* killed (project_removal.go 353-359, 373-481).
ImplementsContract == Contract!Spec

=============================================================================
