# Verification of Compose Manager

TLA+ models of the Go server in `src/backend`, the TLC runs that check them and
the TLAPS proofs about all of them. Compose Manager manages Docker Compose
projects on a NAS: it finds Compose files, edits them, runs `docker compose`,
updates images in the background and deletes projects. Its hard part is that
HTTP handlers, background updates, people with a shell and the Docker daemon
all change the same projects at the same time, and that deleting is final.

Paths below are relative to `src/backend/internal` unless they begin with `src/`.

## 1. The system

| Part | State | Operations | Interacts with |
|---|---|---|---|
| Update tasks (`app/service.go` 611-808) | `updateTasks`, `activeUpdates` under `taskMu`; `update_records` | `StartUpdate`, the goroutine `runUpdateTask`, pruning, `UpdateTasks` | gate, runner, store, Docker, update status |
| Removal gate (`app/service.go` 41) | one `RWMutex` | shared by every operation that changes a project, exclusive for `DeleteProject`, by `TryLock` | all of these |
| Compose runner (`compose/runner.go`) | one mutex per project, timeout | `Run`, `RunWithProgress` | editor, workspace, updates, actions, logs |
| Project removal (`app/project_removal.go`, `compose/removal.go`, `docker/removal.go`) | `removalTickets` | `PreviewProjectRemoval`, `DeleteProject` | gate, discovery, Docker, store (audit), disk |
| Editor (`compose/editor.go`) and workspace (`compose/workspace.go`) | files, backups, `compose_versions` | `Save`, `Restore`, `Validate`; `SaveFile`, `CreateDirectory`, `CreateProject` | runner, store, disk |
| Discovery and read caches (`compose/discovery.go`, `app/stats_cache.go`) | a 30 s snapshot of the scan, 5 s of container statistics | `Scan`, `CachedScan`, `Invalidate` | every list and every change |
| Authentication (`auth/*.go`) | users and sessions in SQLite, the setup-token file, two limiters in memory | `New`, `Setup`, `Login`, `Logout`, `Authenticate` | API, store |
| Update status (`app/service.go` 519-607, `update/registry.go`, `src/backend/cmd/server/main.go`) | `updateMap` | `CheckImageUpdates`, daily and on request; `markUpdatedImagesCurrent` | Docker, registries, updates |
| Settings (`app/service.go` 820-881) | the settings table; proxy and timeout in force | `PutSettings`, `ApplySettings` | store, runner, registry client |
| Image deletion (`app/service.go` 475-517) | none | `DeleteImage` | Docker, discovery |
| Web access (`app/web_access.go`, `access/*.go`) | one saved entry per project, `webScanMu` | detect, save, show | Docker, store, settings |
| Store (`store/*.go`) | SQLite through one connection | rows and transactions | all |
| Docker client, configuration, demo data, frontend | - | - | - |

What is hard, and what has to hold:

* **Deletion against everything else.** A deletion must not begin while an
  update is queued or running, not even in the moment between `StartUpdate`'s
  answer and its goroutine's `RLock`; nothing that changes projects may be past
  the gate while it deletes.
* **The task table.** Two maps decide who may start; they must agree whatever
  finishes, is pruned or starts. A result never changes, a success has its row.
* **Commands.** One Compose command per project at a time; no waiting in circles
  between gate and project mutexes.
* **Files.** Savers and creators meet in one directory with nothing but file
  operations between them; failures and kills must leave a file that can be used
  and a history that can be restored.
* **Deleting what was confirmed.** Minutes pass between preview and deletion, and
  Docker and the disk change between any two calls; the deletion stops half way
  when anything fails.
* **First start and logins.** The setup token is a file and a variable and a
  count of users; the limiter counts after it allowed.
* **Sessions.** Their end is stored and compared as text, and the time to compare
  with is read before the wait for the database's only connection.
* **Caches.** A scan or a sample that began before a change must not hide the change.
* **Update status.** A check lists images, asks registries for minutes and writes at
  its end; an update that pulls, recreates and marks may have come and gone.
* **Image deletion.** Three reads and the removal, with files, tags and containers
  changing between any two; data that could not be read must not authorize.
* **Settings.** What is stored and what is in force are changed one after the other.
* **Web entries.** Containers come and go between the list, the probes and the save.

`PROJECT.json` lists every hazard at its line, with the properties that cover it
or the reason why none does.

## 2. The modules

| Module | Models | Instances |
|---|---|---|
| `UpdateTasks` | gate, task table, `runUpdateTask`, project mutexes, and the handlers as far as they meet there | `MCUpdateTasks` |
| `ProjectLedger` | what gate and table promise together, each decision one atomic step | refined by `UpdateTasks` |
| `UpdateTasksProofs` | theorems about `UpdateTasks` | - |
| `Removal` | one project, its preview, ticket and deletion, and the world around it | `MCRemoval` |
| `RemovalContract` | what one who confirms a deletion may rely on, without plans, looks and the world | refined by `Removal` |
| `RemovalProofs` | theorems about `Removal` | - |
| `ProjectFiles` | one project directory and all who write there | `MCProjectFiles` |
| `ProjectFilesProofs` | theorems about `ProjectFiles` | - |
| `Access` | setup token, first administrator, login limiter, kills and restarts | `MCAccess` |
| `AccessProofs` | theorems about `Access` | - |
| `ReadCache` | the discovery snapshot and the container samples | `MCReadCache` |
| `ReadCacheProofs` | theorems about `ReadCache` | - |
| `UpdateStatus` | the check for updates, the marks of an update, image deletion | `MCUpdateStatus` |
| `UpdateStatusProofs` | theorems about `UpdateStatus` | - |
| `Sessions` | the sessions table and its times as text | through `Console` |
| `Settings` | the settings table and what is in force | through `Console` |
| `WebAccess` | saved web entry, detection, the address shown; EXTENDS `Settings` for the NAS address | through `Console` |
| `Console` | authenticated requests over the last three, time, kills and starts | `MCConsole` |
| `ConsoleProofs` | theorems about `Console` | - |

The modules split the program along `removalGate`. `UpdateTasks` shows that a
deletion is alone (`DeletionAlone`), so `Removal` has one deletion and only the
world outside beside it; previews take the gate shared, so the deletion waits for
them. `ProjectFiles` has the operations that share the gate, and so no deletion.
`ReadCache` takes from all of them only that they change the disk and then
invalidate. `UpdateStatus` looks at an update from the other side: its pull, apply and
mark instead of the gate and the table. `Console` composes the parts that keep their
state in the store and meet in a request: `Sessions` says whether the request is
admitted, `Settings` whether the NAS has an address that `WebAccess` can use.

Definitions that begin with "Broken:" in their comment are not part of any
specification. They are variants with a plausible mistake, and each shows that
the property named for it in `PROJECT.json` notices the mistake.

### UpdateTasks

`pc` says where each actor is; an actor is a request (an HTTP handler) or a task
(the goroutine of an update id). A step is the code from one shared access to the
next: a call to the gate, a critical section of `taskMu`, a look at the disk, the
start or end of a Compose command, a write to the database.

* `RLock` is two steps: the caller is counted (`Ask`, `TaskAsk`) and goes on when
  no writer holds the gate (`Enter`, `TaskEnter`). `TryLock` fails as long as
  anyone is counted, as in `sync.RWMutex`; a `TryLock` that fails refuses the
  request and changes nothing, so it is not a step.
* `StartUpdate` is `Ask`, `Enter`, `StartLookup` (lookup, id, clock),
  `StartRefused` or `StartInsert` (one critical section), `Leave`. Two handlers may
  draw their ids in one order and insert in the other: `CreatedAt` is read before
  the lock, as in the code.
* `runUpdateTask` is the eleven `Task...` actions; every error path of it is a
  disjunct. `ok` stands for `updateErr`.
* `exists` is what a scan would find. `CreateProject` adds to it, a deletion may
  take from it. Docker labels can show a project as well, but only with a Compose
  file that resolves.
* `ProjectLogs` (and `ValidateFile`, which runs `config` the same way) takes no
  gate: kind `logs`.
* A save (`SaveFile`, `Restore`, `SaveWorkspaceFile`) and a creation run `config`
  under the project's mutex, let go of it (`ConfigEnd`), write (`SaveWrite`,
  `CreateWrite`) and, when asked to apply, go on as an `action`. What they write is
  the matter of `ProjectFiles`.
* `ContainerAction` and `CreateWorkspaceDirectory` take the gate and run no Compose
  command; to the rest of the module they are a lookup that fails, and so have no
  kind of their own.
* The mutex of a creation is that of the name the caller gives, and of a workspace
  save that of the directory's name; the model takes both to be the project's key,
  which they are unless the directory or its `compose.yaml` names the project otherwise.

### Removal

`world` is the Compose file, the containers, images and volumes, what other
Compose files refer to (`refs`) and whether anyone else uses the directory
(`shared`). A plan is a record of what `removalPlan` decides from that; equality
of plans is equality of fingerprints. `removalPlan` is two steps, files and
Docker, because the world may move in between; the second step merges the calls
to Docker with the walk over the directory. Each call that removes something is a
step that may fail. `Outside` has what people do (edit, run, stop and remove
containers, refer, mount) and the kill of the server.

`erased`, `held`, `used` and `edited` are history variables; no action reads one
except that `used` makes ticket ids fresh.

`RemovalContract` is the deletion as its user sees it: a confirmation is good for one,
it is logged before it takes anything, it takes agreed things only, in order, and it may
end anywhere. `Removal` implements it with `erased` for what it has taken, `used` for the
spent confirmations, audit row and backup for the log, and `Agreed` for what the ticket's
plan showed and the request ticked. The contract knows neither plans nor second looks nor
Docker: that the deletion works off a plan of its own, made after the confirmation, is
what the refinement has to get past.

### ProjectFiles

One directory, one `compose.yaml`. A caller goes through the file operations of
its handler: read and compare, validate, backup, version row, rename; or stat,
mkdir, temporary file, validate, rename and the deferred removals. Candidate files
of a validation or a save live in the directory only while its `compose.yaml`
does, so they decide nothing and are not state; those of a creation are (`temps`).
A kill leaves them as `debris`. rename(2) is atomic and what the code has synced
survives a kill of the process; power loss is not modelled. `BackupPath` names are
unique by time, so a backup file is its content.

### Access

`New` is `Boot`, `LoadToken`, `CreateToken`, `WriteToken`; a kill may come between
any two, and the file may then hold nothing or a part. `Setup` is five steps, a
login is `Allow`, the password check and two `Failure` or `Success` calls. The two
`Allow` calls of a login are one step: each looks at its own key only. A wrong
setup token changes nothing and is not a step. A second `Failure` or `Allow` by
another handler may come between any two.

### ReadCache

The content of the disk is a version number, and so is the resource usage of a
container. Changers (saves, creations, deletions, updates, actions) make a new
version, invalidate and answer. `invalidateReadCaches` clears the snapshot under
`Discovery.mu` and then the samples under `statsMu`, two steps. A list takes the
snapshot or scans, asks the daemon for containers and samples those that run. Each
mutex is held over the slow part, as in the code; a 30 s old snapshot and a 5 s old
sample are a miss that may happen at any time. When a scan fails, the list shows what
Docker's labels say instead: that says nothing of the disk and is a list that answers
without files. The four workers of a sampling share a queue; `Read` takes its elements
in any order, and a failed or a cancelled read is a disjunct.

### UpdateStatus

A digest stands for an image id and for the digest of its manifest at once, because
`CheckImageUpdates` compares the registry's digest with the one Docker keeps of the
same image. A project has one service. `SoNow` says of a tag what is so: with a mirror
that lags behind, both statuses are. Endpoints are asked one after the other until one
answers, so whichever answers may be the first; an image without a digest and a
cancelled caller end like an endpoint that fails. Twelve goroutines ask at once:
`CheckDigest` takes the references in any order.

`docker compose pull` and `up -d` are the daemon's: `Pull` and `Apply` say what they
do to images and containers when they succeed, fail half way or fail before anything.
`DeleteImage` reads images, containers and Compose files in three steps; each read may
fail; `DelRemove` is the daemon's own refusal of an image that a container uses or two
tags name, since the code passes `force=false`.

`truths`, `edited` and `holders` are history variables that no action reads.

### Sessions, Settings, WebAccess and Console

`Sessions` counts time in quarters of a second. The nine digits of the fraction become
two binary ones, which keep what matters: a fraction may have both, one or none, the
point goes with the last, and `.` sorts before the digits and these before `Z`.
`Before` compares such texts as SQLite does.

`Settings` has one transaction (`Commit`), one step per value that is applied at once
(`Apply`: proxy, then timeout, the order of `Live`; what is left is a set) and the start that reads the table or, after a warning,
goes on without (`ApplySettings`). `parted` is a history variable: settings whose two
saves were under way together.

`WebAccess` identifies an entry by its published port. `Detect` is one step although it
asks six ports at a time: each goroutine writes only its own candidate. Which of the
two schemes is asked first does not matter (`ProbedIsBest`, an assumption that TLC
evaluates over all answers).

In `Console` a request makes one call and any session ever opened may be presented.
The time a request compares with is taken in `Arrive`, the lookup comes later. A kill
ends all requests; `Boot` reads the settings.

## 3. The runs

| Run | Instance | Shows |
|---|---|---|
| `gate` | 2 projects, 2 requests, 2 ids, limit 1 | deletion apart from updates; the table's agreement with `activeUpdates`, its bound, rows and finality; the inductive invariant; refinement of the ledger |
| `update_live` | 1 project, 2 requests, 1 id | every task and every handler ends |
| `project_files` | 2 callers, 2 valid contents and a bad one, one written from outside, kills | history, undo, validation, no vanished file, clean-up |
| `removal` | 2 tokens with room for 1, 1 own and 1 other container that use everything, 1 image, 1 volume, 2 contents, 2 moves of the world | only the confirmed, in order, with a trace, never what is in use; the table of tickets; refinement of the contract |
| `access` | 3 handlers, 2 addresses, 1 name, limits 2 and 1 | one administrator, spent token, overshoot, lockout |
| `read_cache` | 2 lists, 1 changer, 1 container, 1 change of each object | no answered change is hidden, nobody waits for ever |
| `update_status` | 2 tags, 1 project, 1 check, 1 image deletion, 1 endpoint, 2 digests, 2 moves of the world | every status was true while its writer worked, named images stay |
| `console` | 3 requests, 2 sessions of half a second, 5 quarters of a second, 3 settings, 2 ports | sessions end in time, saved settings are in force, addresses are of listed ports |
| `lost_update`, `create_overwrite`, `setup_token`, `cleared_status` | small | the code departs from what its documents say, see 5 |

Why the bounds are enough. Every property speaks of at most two actors and one or
two projects. The limit 1 of `gate` makes every start prune, and two projects with it
let the table hold more unfinished tasks than the limit, or a finished one that is
pruned for another. Two callers are all a directory needs for each pair of
handlers to meet; more change the order of the same pairs. Two moves of the world
suffice for the worst the removal can meet, something that appears after one look
and before the next, together with a kill. `MaxFailures` is 5, above the largest
count that three handlers can reach beyond limit 2, so it cuts nothing off that
`OvershootBounded` could see. In `read_cache` a change can come before, during and
after a scan or a sample; with one container a list still hits, misses and drops it.
In `update_status` the world's two moves allow a push and an edit, or a push and its
withdrawal, around a check, an update and a deletion that run together; two mirrors and
four moves with one tag were checked once (1.7 million states) and are left to the
proof, which holds for any number. Five quarters of a second in `console` see sessions
of all four kinds of fraction end within a second and across one. Ids, tickets,
requests, time, moves and versions run out, which bounds the state space.

Deadlock is checked in all runs but `removal`, `update_status` (and the small
`cleared_status`) and `console`, where the bounds on tokens, moves, requests and time
let the model come to a rest that the program does not have.

Symmetry is used for requests, ids, projects, callers, tokens of the removal, contents,
clients, addresses, tags; never in the runs with liveness, and never for sessions
(`First` is one of them), ports and settings (their values are told apart).

Fairness (`FairSpec` of `UpdateTasks` and `ReadCache`). Weak fairness on every
actor's steps: the Go scheduler runs what can run, and a Compose command ends
because its context has a deadline. Strong fairness on taking a `sync.Mutex`: a
waiter of more than 1 ms gets it next. Waiting at the gate needs weak fairness
only, for whoever is counted keeps `TryLock` from succeeding. Nothing is assumed
about callers: no request need ever come.

## 4. The proofs

All theorems are of the form `Spec => ...`, for every value of the constants that
satisfies the named assumptions of the module (`LimitAssumption`, `ActorAssumption`,
`FiniteAssumption`, `ContentAssumption`, `RemovalAssumption`, `StatusAssumption`,
`AccessAssumption`, `CacheAssumption`, `SessionAssumption`, `SettingsAssumption`, `WebAssumption`); TLC evaluates those in the
run of that module. None of the properties is inductive by itself. Every strengthening
was first checked by TLC, on the instance of the run or a smaller one.

`UpdateTasksProofs`: any sets of projects, requests and ids (projects and ids
finite), any limit above 0. `Invariance` shows that `IInv` is an invariant; from it
follow `TypeCorrect`, `ActiveMapExact`, `UpdatesKeepTheirProject`, `SuccessRecorded`,
`CommandsExclusive` and `DeletionExclusive`, then `ResultsFinal` and `TableStaysBounded`
(action properties), `TableFits` and `Refinement`: `Spec => Ledger!Spec`. `UpdatedProjectExists` needs that a
deletion that passed its check still finds no update: `DeleteInv`, which holds
because whoever could insert one is past the gate while the deletion holds it:
`GateInv`. An insert must find its project although the lookup came earlier:
`RequestInv` keeps `project[r] \in exists` from the lookup on, again because the
gate keeps deletions out, and says that the drawn id is nobody else's. `TaskInv`
ties the table's entry to the goroutine, which makes `ActiveIffUnfinished` survive
finishing and pruning; `LockInv` says that a mutex is held by the one who runs the
command. There is a lemma per action, in it a step per group of conjuncts, and a
theorem that puts them together. The bound on the table rests on two lemmas about sets:
among finitely many tasks there is an oldest (`OldestExists`, by the well-foundedness
of the strict subset ordering), so prune drops one as soon as one has finished; and
unfinished tasks are no more than the projects, since `activeUpdates` gives each of them
one of its own. `TableFits` joins the two: the table never holds more than the limit or,
if there are more of them, one entry per project. That is more than the run can say.

`ProjectFilesProofs`: any number of callers, any contents. `WorkInv` is what each handler
has read and taken in: the file is there from the first read of a save on, and content
is valid from the end of `config` on. `HistoryInv`: a save that is past its backup keeps
what its user opened in `backups`, past its row in `rows`, and answers only then.
`DirInv`: the temporary files are those of creations between their write and their
removal, and an empty directory that a creation made has a creation under way that will
fill or remove it, unless a kill came between. `NoOrphanDirectory` is the case of
`DirInv` where nobody is under way. One lemma, `Others`, says that what the other callers
know survives any step that takes nothing from the history and leaves the file there;
each action then owes only what its own caller knows. Theorems `FilesTypes`,
`RowsPointToBackups`, `SuccessCanBeUndone`, `CreationsCleanUp`, and the action properties
`InstalledIsValid` and `FileStays`.

`RemovalProofs`: any tokens, containers, images, volumes and contents, any limit on
tickets, any number of moves. The assumption says that containers, images, volumes, the
file and the directory are different things. That the table of tickets is finite is not
assumed but part of the invariant, since it starts empty and no step adds more than one. `InHand`: from the
confirmation on the plan at work is the one the user saw. `DoneInv`: at each point what is
removed and what is left to remove make up the confirmed containers, then the file, then
the resources. `TraceInv` carries the content of the file, unless somebody edits it, from
the plan into the backup. `HeldInv`: what the second look found in use has been lost since
or stops the step that would remove it. `TicketInv`: no ticket and no preview has a used
token. Theorems `RemovalTypes`, `OnlyConfirmedGoes`, `StagesInOrder`, `TraceIsLeft`,
`NewContainersKeepFiles`, `SharedDirectoriesStay`, `ReferencedStay`, `TicketsAreSpent` and
`MeetsContract`: `Spec => Contract!Spec`, with a lemma for each step that the contract
sees and one for the others.

`UpdateStatusProofs`: any number of references, projects, checks, deletions and
endpoints. `Now` ties the ghost to the present: what is so is among what was so since a
writer began. `CheckInv` says what a list of images is still worth: the tag still names
that image, or it moved meanwhile and then both answers have been true. `UpdateInv`
carries "current" from the pull over apply and inspection to the mark, unless the
Compose file was edited. `DeleteInv` says that whoever names the image all along names it
by a tag that the deletion has read, so that a scan which allows the removal has seen
nobody. Theorems `StatusTypes`, `StatusesWereTrue`, `NamedImagesAreKept`.

`AccessProofs`: any number of handlers, addresses and names, any limits above 0 (all
three finite). `SetupInv`: whoever is beyond the insert is alone there, and the token
is gone before he answers. `LoginInv`: what a key has counted, and the handlers that
passed `Allow` for it and may still count, stay together below the limit plus the number
of handlers; each failure that is counted has left the flight. Theorems `AccessTypes`,
`FirstAdministrator`, `SpentToken`, `Overshoot`, `LockoutKept`. The last needs no more
than the types.

`ReadCacheProofs`: any number of lists, changers and containers. A snapshot that is kept,
or that whoever holds the mutex is about to keep, owes three things (`FileDebt`): what
was answered, what a changer that has cleared the snapshot will answer, and what the
lists under way were asked after. Samples owe the same, but clearing them and answering
are one step (`SampleDebt`). Theorems `CacheTypes`, `NoStaleAnswer`.

`ConsoleProofs`: any number of requests, sessions, settings and ports, any lifetime.
Each of the three parts has an invariant of its own, and none needs the others'.
`SessionInv`: a session without a row was logged out or is in its last second or past it; a lemma
says that `Before` never puts a later second first, although within a second it may be
wrong. `SettingInv`: of a setting that is not `parted` at most one request still has to
give it on, and it gives on what is stored. `WebInv`: a request has shown nothing before
it answers. Theorems `ConsoleTypes`, `SessionsEnd`, `SavedTakesEffect`,
`AddressesListed`.

Only model-checked: `EveryTaskEnds`, `EveryRequestEnds` and `EveryoneReturns`, since
liveness under fairness is out of the prover's reach, and the four promises of section 5,
which do not hold. Every other property of a run is a theorem.

## 5. Where code and documents part

Each of these is a run that TLC ends with a counterexample.

* `lost_update`: PRD.md 57 says that the base version protects concurrent changes;
  the comparison comes before the validation and the rename, and two saves may
  both pass it.
* `create_overwrite`: TASKS.md 114 forbids to overwrite an existing project
  directory; two creations may both pass `os.Stat`, and the later rename wins.
* `setup_token`: ARCHITECTURE.md 183 promises a setup token; after a kill between
  creating and writing the file the next start takes the empty file as it is, and
  no setup is possible until somebody deletes it.
* `cleared_status`: TASKS.md 82 says that a successful update clears the "has update"
  mark at once; a check that listed the images before the update writes it back
  afterwards (service.go 558-562), and it stays until the next check.

Read from the code and the documents, without a run of their own:

* ARCHITECTURE.md 149 says that an update holds its project: the mutex is released
  between pull and apply (service.go 683). It also says that every stage writes
  `update_records`: an update whose lookup or `AddUpdate` fails leaves no row
  (service.go 674, 702). `UpdateTasks` models both as the code has them.
* A logout whose `DeleteSession` fails answers 204 and clears the cookie while the row
  stays valid (server.go 177-187); `Logout` of `Console` has that outcome, and
  `SessionsEndInTime` speaks only of rows that went.
* A database error during authentication is answered as an expired session, and that
  answer clears the cookie, be it that of a newer login; `LookupFails` has the error.
* Two concurrent saves of one setting may leave stored and effective values apart until
  the next save or start (TASKS.md 81): the exception that `SavedIsInForce` names.
* The NAS address takes effect only after a restart, although the message at
  web_access.go 17 asks to fill it in the settings; `NasIP` is no live setting.
* "The only page" is the only one among the ports probed within 8 s.

## 6. Not modelled

* The frontend: it stores nothing, and what a page shows is replaced by its next
  load. That two loads may be answered out of order (`useResource.ts`) depends on the
  browser's event loop.
* Demo mode and demo data, model types: no state.
* A restart's effect on update tasks: they are in memory and simply gone.
* Contents of messages, progress and output of tasks, `emitLines`, container actions
  and logs, the HTTP transport of the Docker client: no state here.
* CSRF tokens and password hashing: a token is that of its session, and a password is
  right or not.
* Opening the database, migrations, the audit log's queries.
* `nextDailyCheck`: a check may start at any time. The parsing of image references and
  the token exchange with a registry end in an answer or a failed endpoint.
* The probe itself (HTTP, TLS, titles, icons): its outcome is a status. The guess of
  `provider.go` for projects without an entry.
* The filter for nested projects, path mapping and path checks.
* The rules by which the removal finds out who uses a directory, an image or a
  volume (paths, mount tables, image references); the model has their verdicts.
* An edit of the Compose file between the last comparison and `os.Remove`: the
  code cannot exclude it, and `LeavesTrace` makes no promise about it.
* Power loss (only kills of the process).

`PROJECT.json` names for each component what of it is left out.

## 7. Plan

Done: 1. gate and tasks with ledger and proofs; 2. files; 3. removal; 4. access;
5. read caches; 6. update status with proofs; 7. settings; 8. sessions; 9. samples of
container statistics, joined with the snapshot; web access; the console that composes
sessions, settings and web entries; the contract of a deletion; proofs about every module
that has a run.

Open:

10. Pure functions against reference definitions: `canonicalImageRef`,
    `nextDailyCheck`, `PathContains` and `pathsOverlap`.
11. An abstract specification for `ReadCache`: per object a register whose reads return
    a version between the last one answered for and the present one.
12. Its refinement by `ReadCache`, as a theorem.
