----------------------------- MODULE UpdateTasks -----------------------------
(***************************************************************************)
(* The update tasks of app.Service, the removal gate they share with every *)
(* operation that changes a project, and the per-project mutex of          *)
(* compose.Runner.                                                         *)
(*                                                                         *)
(* An HTTP handler is a request: it may start an update, run a project     *)
(* action, save a file, create a project, read logs or delete a project.   *)
(* StartUpdate returns at once and leaves a goroutine behind, the task.    *)
(* Requests and tasks meet in three places:                                *)
(*   - removalGate, a sync.RWMutex: every operation but the log reader     *)
(*     takes it shared, DeleteProject takes it with TryLock;               *)
(*   - updateTasks and activeUpdates under taskMu;                         *)
(*   - Runner.locks, one mutex per project around each Compose command.    *)
(***************************************************************************)
EXTENDS Naturals, FiniteSets

CONSTANTS
  Projects,   \* project keys
  Requests,   \* HTTP handlers running at the same time
  Tasks,      \* the update ids StartUpdate may draw (updateTaskID)
  Limit,      \* length of updateTasks at which StartUpdate prunes (100)
  None

Actors == Requests \cup Tasks

ASSUME LimitAssumption == Limit \in Nat \ {0}
ASSUME ActorAssumption == Requests \cap Tasks = {} /\ None \notin Actors \cup Projects
ASSUME FiniteAssumption == IsFiniteSet(Projects) /\ IsFiniteSet(Tasks)

VARIABLES
  exists,   \* projects a scan finds: their Compose file is on disk
  readers,  \* actors counted by removalGate.RLock, granted or still waiting
  writer,   \* the request that holds removalGate, or None
  pc,       \* per actor: how far its handler or goroutine is
  project,  \* per actor: the project it works on
  kind,     \* per request: its operation
  drawn,    \* per request: the id StartUpdate drew
  ok,       \* per task: no error so far
  status,   \* per task: its Status in updateTasks, "absent" when not there
  active,   \* activeUpdates: project to task id, or None
  lock,     \* Runner.locks: who runs a Compose command for the project
  record,   \* per task: the row AddUpdate stored in update_records
  stamp,    \* per task: CreatedAt, 0 until the id is drawn
  clock     \* the time, in calls of StartUpdate that drew an id

vars == <<exists, readers, writer, pc, project, kind, drawn, ok, status,
          active, lock, record, stamp, clock>>

gate  == <<readers, writer>>
job   == <<project, kind, drawn>>
table == <<status, active, stamp, clock>>

Gated  == {"start", "action", "save", "create"}
Kinds  == Gated \cup {"none", "logs", "delete"}
Queued == {"queued", "running"}
ReqPc  == {"idle", "wait", "entered", "resolved", "command", "running",
           "leave", "check", "delete", "unlock"}
TaskPc == {"unborn", "queued", "wait", "lookup", "pull", "pulling", "apply",
           "applying", "inspect", "record", "finish", "leave", "done"}

TypeOK ==
  /\ exists \in SUBSET Projects
  /\ readers \in SUBSET Actors
  /\ writer \in Requests \cup {None}
  /\ pc \in [Actors -> ReqPc \cup TaskPc]
  /\ \A r \in Requests : pc[r] \in ReqPc
  /\ \A t \in Tasks : pc[t] \in TaskPc
  /\ project \in [Actors -> Projects \cup {None}]
  /\ kind \in [Requests -> Kinds]
  /\ drawn \in [Requests -> Tasks \cup {None}]
  /\ ok \in [Tasks -> BOOLEAN]
  /\ status \in [Tasks -> {"absent", "queued", "running", "success", "failed"}]
  /\ active \in [Projects -> Tasks \cup {None}]
  /\ lock \in [Projects -> Actors \cup {None}]
  /\ record \in [Tasks -> {"none", "success", "failed"}]
  /\ stamp \in [Tasks -> Nat]
  /\ clock \in Nat

Init ==
  /\ exists \in SUBSET Projects
  /\ readers = {} /\ writer = None
  /\ pc = [a \in Actors |-> IF a \in Requests THEN "idle" ELSE "unborn"]
  /\ project = [a \in Actors |-> None]
  /\ kind = [r \in Requests |-> "none"]
  /\ drawn = [r \in Requests |-> None]
  /\ ok = [t \in Tasks |-> TRUE]
  /\ status = [t \in Tasks |-> "absent"]
  /\ active = [p \in Projects |-> None]
  /\ lock = [p \in Projects |-> None]
  /\ record = [t \in Tasks |-> "none"]
  /\ stamp = [t \in Tasks |-> 0]
  /\ clock = 0

Go(a, there) == pc' = [pc EXCEPT ![a] = there]

\* A handler starts with its operation and project, and answers its caller.
Begin(r, there, k, p) ==
  /\ Go(r, there)
  /\ kind' = [kind EXCEPT ![r] = k]
  /\ project' = [project EXCEPT ![r] = p]
  /\ drawn' = [drawn EXCEPT ![r] = None]

Answer(r) == Begin(r, "idle", "none", None)

-----------------------------------------------------------------------------
(* A Compose command: RunWithProgress holds the project's mutex around it. *)

TakeLock(a) == lock[project[a]] = None /\ lock' = [lock EXCEPT ![project[a]] = a]

ReleaseLock(a) == lock' = [lock EXCEPT ![project[a]] = None]

-----------------------------------------------------------------------------
(* Requests that take the gate shared. RLock counts the caller at once and *)
(* lets it through when no writer holds the gate; TryLock fails as long as *)
(* anyone is counted.                                                      *)

Ask(r, k, p) ==
  /\ pc[r] = "idle"
  /\ Begin(r, "wait", k, p)
  /\ readers' = readers \cup {r}
  /\ UNCHANGED <<exists, writer, ok, table, lock, record>>

Enter(r) ==
  /\ pc[r] = "wait" /\ writer = None
  /\ Go(r, "entered")
  /\ UNCHANGED <<exists, gate, job, ok, table, lock, record>>

\* The deferred RUnlock.
Leave(r) ==
  /\ pc[r] = "leave"
  /\ readers' = readers \ {r}
  /\ Answer(r)
  /\ UNCHANGED <<exists, writer, ok, table, lock, record>>

\* Service.Project: it finds the project on disk, or fails; Docker or the
\* scan may fail it for a project that exists.
LookupFails(r) ==
  /\ pc[r] = "entered" /\ kind[r] \in {"start", "action", "save"}
  /\ Go(r, "leave")
  /\ UNCHANGED <<exists, gate, job, ok, table, lock, record>>

\* StartUpdate up to taskMu: look up, draw an id, read the clock.
StartLookup(r) ==
  /\ pc[r] = "entered" /\ kind[r] = "start" /\ project[r] \in exists
  /\ \E t \in Tasks :
       /\ stamp[t] = 0
       /\ drawn' = [drawn EXCEPT ![r] = t]
       /\ stamp' = [stamp EXCEPT ![t] = clock + 1]
  /\ clock' = clock + 1
  /\ Go(r, "resolved")
  /\ UNCHANGED <<exists, gate, project, kind, ok, status, active, lock, record>>

Present  == {t \in Tasks : status[t] # "absent"}
Finished == {t \in Present : status[t] \notin Queued}

\* Broken: an unfinished task may be pruned.
PrunedAny == IF Cardinality(Present) < Limit THEN {}
             ELSE {t \in Present : \A u \in Present : stamp[t] <= stamp[u]}

\* Broken: failed tasks are never pruned.
PrunedSuccess == IF Cardinality(Present) < Limit THEN {}
                 ELSE LET won == {t \in Present : status[t] = "success"}
                      IN  {t \in won : \A u \in won : stamp[t] <= stamp[u]}

\* pruneUpdateTasksLocked: at the limit, drop the oldest finished task.
Pruned ==
  IF Cardinality(Present) < Limit THEN {}
  ELSE {t \in Finished : \A u \in Finished : stamp[t] <= stamp[u]}

\* StartUpdate under taskMu: refuse, or prune, insert and go runUpdateTask.
StartRefused(r) ==
  /\ pc[r] = "resolved" /\ kind[r] = "start" /\ active[project[r]] # None
  /\ Go(r, "leave")
  /\ UNCHANGED <<exists, gate, job, ok, table, lock, record>>

StartInsert(r) ==
  LET id == drawn[r]
  IN  /\ pc[r] = "resolved" /\ kind[r] = "start" /\ active[project[r]] = None
      /\ status' = [t \in Tasks |-> IF t = id THEN "queued"
                                    ELSE IF t \in Pruned THEN "absent" ELSE status[t]]
      /\ active' = [active EXCEPT ![project[r]] = id]
      /\ pc' = [pc EXCEPT ![id] = "queued", ![r] = "leave"]
      /\ project' = [project EXCEPT ![id] = project[r]]
      /\ UNCHANGED <<exists, gate, kind, drawn, ok, lock, record, stamp, clock>>

\* ProjectAction looks up and runs a command; SaveFile and Restore run "config"
\* on the new content, write it, and "up -d" when the caller asked for it.
ActionLookup(r) ==
  /\ pc[r] = "entered" /\ kind[r] \in {"action", "save"} /\ project[r] \in exists
  /\ Go(r, "command")
  /\ UNCHANGED <<exists, gate, job, ok, table, lock, record>>

\* CreateProject is refused when the target is there; it continues like a save.
CreateStat(r) ==
  /\ pc[r] = "entered" /\ kind[r] = "create"
  /\ Go(r, IF project[r] \in exists THEN "leave" ELSE "command")
  /\ UNCHANGED <<exists, gate, job, ok, table, lock, record>>

\* The write is over, and the handler too, or it goes on as an action.
Written(r) ==
  \/ Go(r, "leave") /\ UNCHANGED kind
  \/ Go(r, "command") /\ kind' = [kind EXCEPT ![r] = "action"]

SaveWrite(r) ==
  /\ pc[r] = "resolved" /\ kind[r] = "save"
  /\ Written(r)
  /\ UNCHANGED <<exists, gate, project, drawn, ok, table, lock, record>>

CreateWrite(r) ==
  /\ pc[r] = "resolved" /\ kind[r] = "create"
  /\ \/ exists' = exists \cup {project[r]} /\ Written(r)
     \/ exists' = exists /\ Go(r, "leave") /\ UNCHANGED kind
  /\ UNCHANGED <<gate, project, drawn, ok, table, lock, record>>

\* ProjectLogs and ValidateFile run a command without taking the gate.
LogsLookup(r, p) ==
  /\ pc[r] = "idle" /\ p \in exists
  /\ Begin(r, "command", "logs", p)
  /\ UNCHANGED <<exists, gate, ok, table, lock, record>>

CommandStart(r) ==
  /\ pc[r] = "command" /\ TakeLock(r)
  /\ Go(r, "running")
  /\ UNCHANGED <<exists, gate, job, ok, table, record>>

\* docker compose config has accepted what is to be written.
ConfigEnd(r) ==
  /\ pc[r] = "running" /\ kind[r] \in {"save", "create"} /\ ReleaseLock(r)
  /\ Go(r, "resolved")
  /\ UNCHANGED <<exists, gate, job, ok, table, record>>

\* Any other command, or a failure.
CommandEnd(r) ==
  /\ pc[r] = "running" /\ ReleaseLock(r)
  /\ IF kind[r] = "logs" THEN Answer(r) ELSE Go(r, "leave") /\ UNCHANGED job
  /\ UNCHANGED <<exists, gate, ok, table, record>>

-----------------------------------------------------------------------------
(* DeleteProject. A TryLock that fails is a refusal that changes nothing.  *)

\* Broken: the gate is taken over the readers' heads.
DeleteTryLockAnyway(r, p) ==
  /\ pc[r] = "idle" /\ writer = None
  /\ writer' = r
  /\ Begin(r, "check", "delete", p)
  /\ UNCHANGED <<exists, readers, ok, table, lock, record>>

DeleteTryLock(r, p) ==
  /\ pc[r] = "idle" /\ readers = {} /\ writer = None
  /\ writer' = r
  /\ Begin(r, "check", "delete", p)
  /\ UNCHANGED <<exists, readers, ok, table, lock, record>>

\* Broken: no look at activeUpdates.
DeleteUnchecked(r) ==
  /\ pc[r] = "check" /\ Go(r, "delete")
  /\ UNCHANGED <<exists, gate, job, ok, table, lock, record>>

\* Broken: only the project's own update counts.
DeleteCheckOwn(r) ==
  /\ pc[r] = "check"
  /\ Go(r, IF active[project[r]] = None THEN "delete" ELSE "unlock")
  /\ UNCHANGED <<exists, gate, job, ok, table, lock, record>>

\* Broken: the refusal returns without Unlock.
DeleteCheckLeaks(r) ==
  /\ pc[r] = "check"
  /\ IF \A p \in Projects : active[p] = None THEN Go(r, "delete") /\ UNCHANGED job
     ELSE Answer(r)
  /\ UNCHANGED <<exists, gate, ok, table, lock, record>>

\* Refused while an update of any project is queued or running.
DeleteCheck(r) ==
  /\ pc[r] = "check"
  /\ Go(r, IF \A p \in Projects : active[p] = None THEN "delete" ELSE "unlock")
  /\ UNCHANGED <<exists, gate, job, ok, table, lock, record>>

\* Everything DeleteProject does after the check; it may stop half way.
DeleteRemove(r) ==
  /\ pc[r] = "delete"
  /\ exists' \in {exists, exists \ {project[r]}}
  /\ Go(r, "unlock")
  /\ UNCHANGED <<gate, job, ok, table, lock, record>>

DeleteUnlock(r) ==
  /\ pc[r] = "unlock"
  /\ writer' = None
  /\ Answer(r)
  /\ UNCHANGED <<exists, readers, ok, table, lock, record>>

-----------------------------------------------------------------------------
(* runUpdateTask.                                                          *)

TaskAsk(t) ==
  /\ pc[t] = "queued"
  /\ Go(t, "wait")
  /\ readers' = readers \cup {t}
  /\ UNCHANGED <<exists, writer, job, ok, table, lock, record>>

TaskEnter(t) ==
  /\ pc[t] = "wait" /\ writer = None
  /\ Go(t, "lookup")
  /\ status' = [status EXCEPT ![t] = "running"]
  /\ UNCHANGED <<exists, gate, job, ok, active, lock, record, stamp, clock>>

\* An error sends the task elsewhere; what it returns with is kept in ok.
Proceed(t, there)   == Go(t, there) /\ UNCHANGED ok
Fail(t, there)      == Go(t, there) /\ ok' = [ok EXCEPT ![t] = FALSE]

\* A failed lookup finishes the task at once, past AddUpdate.
TaskLookup(t) ==
  /\ pc[t] = "lookup"
  /\ \/ project[t] \in exists /\ Proceed(t, "pull")
     \/ Fail(t, "finish")
  /\ UNCHANGED <<exists, gate, job, table, lock, record>>

TaskPull(t) ==
  /\ pc[t] = "pull" /\ TakeLock(t)
  /\ Go(t, "pulling")
  /\ UNCHANGED <<exists, gate, job, ok, table, record>>

TaskPullEnd(t) ==
  /\ pc[t] = "pulling" /\ ReleaseLock(t)
  /\ Proceed(t, "apply") \/ Fail(t, "record")
  /\ UNCHANGED <<exists, gate, job, table, record>>

TaskApply(t) ==
  /\ pc[t] = "apply" /\ TakeLock(t)
  /\ Go(t, "applying")
  /\ UNCHANGED <<exists, gate, job, ok, table, record>>

\* Broken: the error path returns with the mutex held.
TaskApplyEndLeaks(t) ==
  /\ pc[t] = "applying"
  /\ \/ ReleaseLock(t) /\ Proceed(t, "inspect")
     \/ lock' = lock /\ Fail(t, "record")
  /\ UNCHANGED <<exists, gate, job, table, record>>

TaskApplyEnd(t) ==
  /\ pc[t] = "applying" /\ ReleaseLock(t)
  /\ Proceed(t, "inspect") \/ Fail(t, "record")
  /\ UNCHANGED <<exists, gate, job, table, record>>

\* Containers and Images after the update; an error fails it.
TaskInspect(t) ==
  /\ pc[t] = "inspect"
  /\ Proceed(t, "record") \/ Fail(t, "record")
  /\ UNCHANGED <<exists, gate, job, table, lock, record>>

Row(t) == [record EXCEPT ![t] = IF ok[t] THEN "success" ELSE "failed"]

\* Broken: the error of AddUpdate is dropped.
TaskRecordIgnored(t) ==
  /\ pc[t] = "record"
  /\ record' \in {record, Row(t)}
  /\ Proceed(t, "finish")
  /\ UNCHANGED <<exists, gate, job, table, lock>>

\* AddUpdate: an error is ignored after a failure and fails a success.
TaskRecord(t) ==
  /\ pc[t] = "record"
  /\ \/ record' = Row(t) /\ Proceed(t, "finish")
     \/ record' = record /\ Fail(t, "finish")
  /\ UNCHANGED <<exists, gate, job, table, lock>>

Outcome(t, won) == [status EXCEPT ![t] = IF @ = "absent" THEN @ ELSE IF ok[t] THEN won ELSE "failed"]

\* Broken: the stage is stored as the status.
TaskFinishStage(t) ==
  /\ pc[t] = "finish" /\ Go(t, "leave")
  /\ status' = Outcome(t, "completed")
  /\ active' = [active EXCEPT ![project[t]] = None]
  /\ UNCHANGED <<exists, gate, job, ok, lock, record, stamp, clock>>

\* Broken: the project stays in activeUpdates.
TaskFinishKeeps(t) ==
  /\ pc[t] = "finish" /\ Go(t, "leave")
  /\ status' = Outcome(t, "success")
  /\ UNCHANGED <<exists, gate, job, ok, active, lock, record, stamp, clock>>

\* finishUpdateTask, under taskMu.
TaskFinish(t) ==
  /\ pc[t] = "finish" /\ Go(t, "leave")
  /\ status' = Outcome(t, "success")
  /\ active' = [active EXCEPT ![project[t]] = None]
  /\ UNCHANGED <<exists, gate, job, ok, lock, record, stamp, clock>>

TaskLeave(t) ==
  /\ pc[t] = "leave"
  /\ Go(t, "done")
  /\ readers' = readers \ {t}
  /\ UNCHANGED <<exists, writer, job, ok, table, lock, record>>

-----------------------------------------------------------------------------
\* What a handler does once it has begun.
RequestStep(r) ==
  \/ Enter(r) \/ LookupFails(r) \/ StartLookup(r) \/ StartRefused(r)
  \/ StartInsert(r) \/ ActionLookup(r) \/ CreateStat(r) \/ SaveWrite(r)
  \/ CreateWrite(r) \/ CommandStart(r) \/ ConfigEnd(r) \/ CommandEnd(r) \/ Leave(r)
  \/ DeleteCheck(r) \/ DeleteRemove(r) \/ DeleteUnlock(r)

RequestBegin(r) ==
  \E p \in Projects :
    \/ \E k \in Gated : Ask(r, k, p)
    \/ LogsLookup(r, p)
    \/ DeleteTryLock(r, p)

TaskStep(t) ==
  \/ TaskAsk(t) \/ TaskEnter(t) \/ TaskLookup(t) \/ TaskPull(t)
  \/ TaskPullEnd(t) \/ TaskApply(t) \/ TaskApplyEnd(t) \/ TaskInspect(t)
  \/ TaskRecord(t) \/ TaskFinish(t) \/ TaskLeave(t)

Next ==
  \/ \E r \in Requests : RequestBegin(r) \/ RequestStep(r)
  \/ \E t \in Tasks : TaskStep(t)

Spec == Init /\ [][Next]_vars

(* The Go scheduler runs every goroutine that can run, and a command ends: *)
(* its context has a deadline.  sync.Mutex hands the lock to a waiter that *)
(* has waited for 1 ms, so nobody is overtaken for ever: strong fairness   *)
(* on the two steps that take a project's mutex.  Nothing makes a caller   *)
(* send a request.                                                         *)
Fairness ==
  /\ \A r \in Requests : WF_vars(RequestStep(r)) /\ SF_vars(CommandStart(r))
  /\ \A t \in Tasks : /\ WF_vars(TaskStep(t))
                      /\ SF_vars(TaskPull(t)) /\ SF_vars(TaskApply(t))

FairSpec == Spec /\ Fairness

-----------------------------------------------------------------------------
(* Properties. *)

Unfinished(t) == status[t] \in Queued
Working(t)    == pc[t] \notin {"unborn", "queued", "wait", "leave", "done"}

\* activeUpdates names, for each project, exactly the task that is queued or
\* running for it: StartUpdate's refusal and DeleteProject's are both decided
\* on that map while tasks finish, are pruned and start (service.go 628-636,
\* 723-732, 759-775).
ActiveIffUnfinished ==
  \A p \in Projects, t \in Tasks :
    active[p] = t <=> (Unfinished(t) /\ project[t] = p)

\* The task table grows beyond the limit only while every entry is unfinished,
\* and so never beyond the number of projects: prune drops one finished entry
\* for each new one, whichever finished since (service.go 632-634, 759-775).
TableBounded ==
  [][Cardinality(Present)' > Cardinality(Present) /\ Cardinality(Present)' > Limit
       => \A t \in Present : Unfinished(t)]_vars

\* A project an update is queued or running for is on disk: no deletion takes
\* it away between StartUpdate's lookup and the end of the goroutine, although
\* neither holds the gate all the time (service.go 611-640, project_removal.go
\* 343-351).
UpdatedProjectExists ==
  \A t \in Tasks : Unfinished(t) => project[t] \in exists

\* While DeleteProject deletes, no update is queued or running, no gated
\* operation is past the gate, and the only Compose commands are log readers'
\* (project_removal.go 340-351).
DeletionAlone ==
  \A d \in Requests : pc[d] = "delete" =>
    /\ \A t \in Tasks : ~Unfinished(t) /\ ~Working(t)
    /\ \A r \in Requests \ {d} : pc[r] \in {"idle", "wait"} \/ kind[r] = "logs"
    /\ \A p \in Projects : lock[p] \in {None} \cup {r \in Requests : kind[r] = "logs"}

InCommand(a, p) == pc[a] \in {"running", "pulling", "applying"} /\ project[a] = p

\* At most one Compose command runs for a project, whoever asks for it: a pull
\* never overlaps a stop or an apply (runner.go 83-86).
OneCommandPerProject ==
  \A p \in Projects, a, b \in Actors : InCommand(a, p) /\ InCommand(b, p) => a = b

\* A task that reports success has its row in update_records: the row is
\* stored first and an error turns success into failure (service.go 705-711).
SuccessIsRecorded ==
  \A t \in Tasks : status[t] = "success" => record[t] = "success"

\* A finished task stays as it finished until it is pruned, and an unfinished
\* one never leaves the table (714-732, 759-775).
FinishedIsFinal ==
  [][\A t \in Tasks :
       /\ status[t] \in {"success", "failed"} => status'[t] \in {status[t], "absent"}
       /\ Unfinished(t) => status'[t] # "absent"]_vars

\* A task StartUpdate answered with an id ends and lets go of the gate, and of
\* its project: a deletion cannot shut it out for ever, and no waiter on the
\* project's mutex is passed over for ever (service.go 653-712).
EveryTaskEnds ==
  \A t \in Tasks : pc[t] = "queued" ~> (pc[t] = "done" /\ ~Unfinished(t))

\* Every handler ends: nobody waits for somebody who waits for him, at the gate
\* or at a project's mutex (service.go 229-250, 611-640, project_removal.go 340-346).
EveryRequestEnds ==
  \A r \in Requests : pc[r] # "idle" ~> pc[r] = "idle"

Ledger == INSTANCE ProjectLedger WITH busy <- {p \in Projects : active[p] # None}

\* The gate, the table and the goroutines implement the ledger: every insert
\* finds its project on disk although the lookup came earlier, and every
\* deletion finds no update although the check came earlier (service.go
\* 611-640, 723-732, project_removal.go 340-459).
ImplementsLedger == Ledger!Spec

-----------------------------------------------------------------------------
(* The inductive invariant: the properties above, and where everybody is.  *)

\* Who is past the gate is counted by it and keeps the writer out; who waits
\* is counted; the writer is the request that deletes.
Inside(r) == \/ pc[r] \in {"entered", "resolved", "leave"}
             \/ pc[r] \in {"command", "running"} /\ kind[r] # "logs"
InsideT(t) == pc[t] \notin {"unborn", "queued", "wait", "done"}

GateInv ==
  /\ \A a \in Actors : pc[a] = "wait" => a \in readers
  /\ \A r \in Requests : Inside(r) => r \in readers /\ writer = None
  /\ \A t \in Tasks : InsideT(t) => t \in readers /\ writer = None
  /\ \A r \in Requests : pc[r] \in {"check", "delete", "unlock"} <=> writer = r

\* What a request carries at each point.
RequestInv ==
  \A r \in Requests :
    /\ pc[r] # "idle" => project[r] \in Projects
    /\ pc[r] \in {"wait", "entered", "resolved"} => kind[r] \in Gated
    /\ pc[r] \in {"check", "delete", "unlock"} => kind[r] = "delete"
    /\ pc[r] = "resolved" /\ kind[r] = "start" =>
         /\ drawn[r] \in Tasks /\ project[r] \in exists
         /\ pc[drawn[r]] = "unborn" /\ stamp[drawn[r]] > 0
         /\ \A q \in Requests \ {r} :
              pc[q] = "resolved" /\ kind[q] = "start" => drawn[q] # drawn[r]

\* A task's entry follows its goroutine.
TaskInv ==
  \A t \in Tasks :
    /\ pc[t] = "unborn" => status[t] = "absent"
    /\ pc[t] # "unborn" => project[t] \in Projects /\ stamp[t] > 0
    /\ pc[t] \notin {"unborn", "leave", "done"} <=> Unfinished(t)
    /\ pc[t] = "finish" /\ ok[t] => record[t] = "success"

DeleteInv ==
  \A r \in Requests : pc[r] = "delete" => \A p \in Projects : active[p] = None

\* A project's mutex is held by the one who runs its command.
LockInv ==
  \A p \in Projects, a \in Actors : lock[p] = a <=> InCommand(a, p)

IInv ==
  /\ TypeOK
  /\ GateInv
  /\ RequestInv
  /\ TaskInv
  /\ DeleteInv
  /\ LockInv
  /\ ActiveIffUnfinished
  /\ UpdatedProjectExists
  /\ SuccessIsRecorded

=============================================================================
