-------------------------- MODULE UpdateTasksProofs --------------------------
(***************************************************************************)
(* Proofs about UpdateTasks, for any number of projects, handlers and      *)
(* update ids and any limit.  IInv is the inductive invariant; there is    *)
(* one lemma per action, and in it one step per group of conjuncts.        *)
(***************************************************************************)
EXTENDS UpdateTasks, FiniteSetTheorems, WellFoundedInduction, TLAPS

USE DEF Go, Begin, Answer, Proceed, Fail, gate, job, table

\* The state Init describes satisfies the inductive invariant.
LEMMA InitIInv == Init => IInv
  BY ActorAssumption
  DEF Init, IInv, TypeOK, GateInv, RequestInv, TaskInv, DeleteInv, LockInv,
      ActiveIffUnfinished, UpdatedProjectExists, SuccessIsRecorded, Actors, Kinds,
      Gated, Queued, ReqPc, TaskPc, Inside, InsideT, InCommand, Unfinished

\* A handler that asks for the gate is counted and nothing else moves.
LEMMA AskKeeps ==
  ASSUME IInv, NEW r \in Requests, NEW k \in Gated, NEW p \in Projects, Ask(r, k, p)
  PROVE  IInv'
<1>1. TypeOK'
  BY ActorAssumption DEF IInv, Ask, TypeOK, Kinds, Gated, ReqPc, TaskPc,
     Actors
<1>2. GateInv' /\ DeleteInv'
  BY ActorAssumption DEF IInv, Ask, GateInv, DeleteInv, TypeOK, Inside,
     InsideT, Actors, RequestInv
<1>3. RequestInv' /\ TaskInv'
  BY ActorAssumption DEF IInv, Ask, RequestInv, TaskInv, TypeOK, Gated,
     Actors, Unfinished, Queued
<1>4. LockInv'
  BY ActorAssumption DEF IInv, Ask, LockInv, TypeOK, InCommand, Actors
<1>5. ActiveIffUnfinished' /\ UpdatedProjectExists' /\ SuccessIsRecorded'
  BY ActorAssumption DEF IInv, Ask, ActiveIffUnfinished, UpdatedProjectExists,
     SuccessIsRecorded, TypeOK, Unfinished, Queued, Actors
<1>. QED BY <1>1, <1>2, <1>3, <1>4, <1>5 DEF IInv

\* A handler gets through the gate only when no deletion holds it.
LEMMA EnterKeeps ==
  ASSUME IInv, NEW r \in Requests, Enter(r)
  PROVE  IInv'
<1>1. TypeOK'
  BY ActorAssumption DEF IInv, Enter, TypeOK, Kinds, Gated, ReqPc, TaskPc,
     Actors
<1>2. GateInv' /\ DeleteInv'
  BY ActorAssumption DEF IInv, Enter, GateInv, DeleteInv, TypeOK, Inside,
     InsideT, Actors
<1>3. RequestInv' /\ TaskInv'
  BY ActorAssumption DEF IInv, Enter, RequestInv, TaskInv, TypeOK, Gated,
     Actors, Unfinished, Queued
<1>4. LockInv'
  BY ActorAssumption DEF IInv, Enter, LockInv, TypeOK, InCommand, Actors
<1>5. ActiveIffUnfinished' /\ UpdatedProjectExists' /\ SuccessIsRecorded'
  BY ActorAssumption DEF IInv, Enter, ActiveIffUnfinished,
     UpdatedProjectExists, SuccessIsRecorded, TypeOK, Unfinished, Queued,
     Actors
<1>. QED BY <1>1, <1>2, <1>3, <1>4, <1>5 DEF IInv

\* A handler that returns is no longer counted, and it holds no mutex.
LEMMA LeaveKeeps ==
  ASSUME IInv, NEW r \in Requests, Leave(r)
  PROVE  IInv'
<1>1. TypeOK'
  BY ActorAssumption DEF IInv, Leave, TypeOK, Kinds, Gated, ReqPc, TaskPc,
     Actors
<1>2. GateInv' /\ DeleteInv'
  BY ActorAssumption DEF IInv, Leave, GateInv, DeleteInv, TypeOK, Inside,
     InsideT, Actors
<1>3. RequestInv' /\ TaskInv'
  BY ActorAssumption DEF IInv, Leave, RequestInv, TaskInv, TypeOK, Gated,
     Actors, Unfinished, Queued
<1>4. LockInv'
  BY ActorAssumption DEF IInv, Leave, LockInv, TypeOK, InCommand, Actors
<1>5. ActiveIffUnfinished' /\ UpdatedProjectExists' /\ SuccessIsRecorded'
  BY ActorAssumption DEF IInv, Leave, ActiveIffUnfinished,
     UpdatedProjectExists, SuccessIsRecorded, TypeOK, Unfinished, Queued,
     Actors
<1>. QED BY <1>1, <1>2, <1>3, <1>4, <1>5 DEF IInv

\* A failed lookup sends the handler to its deferred RUnlock.
LEMMA LookupFailsKeeps ==
  ASSUME IInv, NEW r \in Requests, LookupFails(r)
  PROVE  IInv'
<1>1. TypeOK'
  BY ActorAssumption DEF IInv, LookupFails, TypeOK, Kinds, Gated, ReqPc,
     TaskPc, Actors
<1>2. GateInv' /\ DeleteInv'
  BY ActorAssumption DEF IInv, LookupFails, GateInv, DeleteInv, TypeOK,
     Inside, InsideT, Actors
<1>3. RequestInv' /\ TaskInv'
  BY ActorAssumption DEF IInv, LookupFails, RequestInv, TaskInv, TypeOK,
     Gated, Actors, Unfinished, Queued
<1>4. LockInv'
  BY ActorAssumption DEF IInv, LookupFails, LockInv, TypeOK, InCommand, Actors
<1>5. ActiveIffUnfinished' /\ UpdatedProjectExists' /\ SuccessIsRecorded'
  BY ActorAssumption DEF IInv, LookupFails, ActiveIffUnfinished,
     UpdatedProjectExists, SuccessIsRecorded, TypeOK, Unfinished, Queued,
     Actors
<1>. QED BY <1>1, <1>2, <1>3, <1>4, <1>5 DEF IInv

\* StartUpdate draws an id nobody has and sees its project on disk.
LEMMA StartLookupKeeps ==
  ASSUME IInv, NEW r \in Requests, StartLookup(r)
  PROVE  IInv'
<1>1. TypeOK'
  BY ActorAssumption DEF IInv, StartLookup, TypeOK, Kinds, Gated, ReqPc,
     TaskPc, Actors
<1>2. GateInv' /\ DeleteInv'
  BY ActorAssumption DEF IInv, StartLookup, GateInv, DeleteInv, TypeOK,
     Inside, InsideT, Actors
<1>3. RequestInv' /\ TaskInv'
  BY ActorAssumption DEF IInv, StartLookup, RequestInv, TaskInv, TypeOK,
     Gated, Actors, Unfinished, Queued
<1>4. LockInv'
  BY ActorAssumption DEF IInv, StartLookup, LockInv, TypeOK, InCommand, Actors
<1>5. ActiveIffUnfinished' /\ UpdatedProjectExists' /\ SuccessIsRecorded'
  BY ActorAssumption DEF IInv, StartLookup, ActiveIffUnfinished,
     UpdatedProjectExists, SuccessIsRecorded, TypeOK, Unfinished, Queued,
     Actors
<1>. QED BY <1>1, <1>2, <1>3, <1>4, <1>5 DEF IInv

\* A refused StartUpdate leaves the table alone.
LEMMA StartRefusedKeeps ==
  ASSUME IInv, NEW r \in Requests, StartRefused(r)
  PROVE  IInv'
<1>1. TypeOK'
  BY ActorAssumption DEF IInv, StartRefused, TypeOK, Kinds, Gated, ReqPc,
     TaskPc, Actors
<1>2. GateInv' /\ DeleteInv'
  BY ActorAssumption DEF IInv, StartRefused, GateInv, DeleteInv, TypeOK,
     Inside, InsideT, Actors
<1>3. RequestInv' /\ TaskInv'
  BY ActorAssumption DEF IInv, StartRefused, RequestInv, TaskInv, TypeOK,
     Gated, Actors, Unfinished, Queued
<1>4. LockInv'
  BY ActorAssumption DEF IInv, StartRefused, LockInv, TypeOK, InCommand,
     Actors
<1>5. ActiveIffUnfinished' /\ UpdatedProjectExists' /\ SuccessIsRecorded'
  BY ActorAssumption DEF IInv, StartRefused, ActiveIffUnfinished,
     UpdatedProjectExists, SuccessIsRecorded, TypeOK, Unfinished, Queued,
     Actors
<1>. QED BY <1>1, <1>2, <1>3, <1>4, <1>5 DEF IInv

\* The insert makes its task the project's only unfinished one; what prune
\* drops was finished.
LEMMA StartInsertKeeps ==
  ASSUME IInv, NEW r \in Requests, StartInsert(r)
  PROVE  IInv'
<1>1. TypeOK'
  BY ActorAssumption DEF IInv, StartInsert, TypeOK, Pruned, Finished, Present,
     Queued, Kinds, Gated, ReqPc, TaskPc, Actors, RequestInv
<1>2. GateInv' /\ DeleteInv'
  BY ActorAssumption DEF IInv, StartInsert, GateInv, DeleteInv, Pruned,
     Finished, Present, Queued, TypeOK, Inside, InsideT, Actors, RequestInv
<1>3. RequestInv' /\ TaskInv'
  BY ActorAssumption DEF IInv, StartInsert, RequestInv, TaskInv, Pruned,
     Finished, Present, Queued, TypeOK, Gated, Actors, Unfinished
<1>4. LockInv'
  BY ActorAssumption DEF IInv, StartInsert, LockInv, Pruned, Finished,
     Present, Queued, TypeOK, InCommand, Actors, RequestInv
<1>5. ActiveIffUnfinished' /\ UpdatedProjectExists' /\ SuccessIsRecorded'
  BY ActorAssumption DEF IInv, StartInsert, ActiveIffUnfinished,
     UpdatedProjectExists, SuccessIsRecorded, Pruned, Finished, Present,
     Queued, TypeOK, Unfinished, Actors, RequestInv, TaskInv
<1>. QED BY <1>1, <1>2, <1>3, <1>4, <1>5 DEF IInv

\* ProjectAction found its project.
LEMMA ActionLookupKeeps ==
  ASSUME IInv, NEW r \in Requests, ActionLookup(r)
  PROVE  IInv'
<1>1. TypeOK'
  BY ActorAssumption DEF IInv, ActionLookup, TypeOK, Kinds, Gated, ReqPc,
     TaskPc, Actors
<1>2. GateInv' /\ DeleteInv'
  BY ActorAssumption DEF IInv, ActionLookup, GateInv, DeleteInv, TypeOK,
     Inside, InsideT, Actors
<1>3. RequestInv' /\ TaskInv'
  BY ActorAssumption DEF IInv, ActionLookup, RequestInv, TaskInv, TypeOK,
     Gated, Actors, Unfinished, Queued
<1>4. LockInv'
  BY ActorAssumption DEF IInv, ActionLookup, LockInv, TypeOK, InCommand,
     Actors
<1>5. ActiveIffUnfinished' /\ UpdatedProjectExists' /\ SuccessIsRecorded'
  BY ActorAssumption DEF IInv, ActionLookup, ActiveIffUnfinished,
     UpdatedProjectExists, SuccessIsRecorded, TypeOK, Unfinished, Queued,
     Actors
<1>. QED BY <1>1, <1>2, <1>3, <1>4, <1>5 DEF IInv

\* CreateProject saw its target absent, or is refused.
LEMMA CreateStatKeeps ==
  ASSUME IInv, NEW r \in Requests, CreateStat(r)
  PROVE  IInv'
<1>1. TypeOK'
  BY ActorAssumption DEF IInv, CreateStat, TypeOK, Kinds, Gated, ReqPc,
     TaskPc, Actors
<1>2. GateInv' /\ DeleteInv'
  BY ActorAssumption DEF IInv, CreateStat, GateInv, DeleteInv, TypeOK, Inside,
     InsideT, Actors
<1>3. RequestInv' /\ TaskInv'
  BY ActorAssumption DEF IInv, CreateStat, RequestInv, TaskInv, TypeOK, Gated,
     Actors, Unfinished, Queued
<1>4. LockInv'
  BY ActorAssumption DEF IInv, CreateStat, LockInv, TypeOK, InCommand, Actors
<1>5. ActiveIffUnfinished' /\ UpdatedProjectExists' /\ SuccessIsRecorded'
  BY ActorAssumption DEF IInv, CreateStat, ActiveIffUnfinished,
     UpdatedProjectExists, SuccessIsRecorded, TypeOK, Unfinished, Queued,
     Actors
<1>. QED BY <1>1, <1>2, <1>3, <1>4, <1>5 DEF IInv

\* What follows a write keeps the types of the two variables it sets.
LEMMA WrittenTypes ==
  ASSUME TypeOK, NEW r \in Requests, Written(r)
  PROVE  /\ pc' \in [Actors -> ReqPc \cup TaskPc]
         /\ \A q \in Requests : pc'[q] \in ReqPc
         /\ \A t \in Tasks : pc'[t] \in TaskPc
         /\ kind' \in [Requests -> Kinds]
<1>1. CASE Go(r, "leave") /\ UNCHANGED kind
  BY <1>1, ActorAssumption DEF TypeOK, ReqPc, Actors
<1>2. CASE Go(r, "command") /\ kind' = [kind EXCEPT ![r] = "action"]
  BY <1>2, ActorAssumption DEF TypeOK, ReqPc, Actors, Kinds, Gated
<1>. QED BY <1>1, <1>2 DEF Written

\* A save that goes on as an action is still inside the gate.
LEMMA SaveWriteKeeps ==
  ASSUME IInv, NEW r \in Requests, SaveWrite(r)
  PROVE  IInv'
<1>1. TypeOK'
  <2>1. TypeOK
    BY DEF IInv
  <2>. QED BY <2>1, WrittenTypes DEF TypeOK, SaveWrite
<1>2. GateInv' /\ DeleteInv'
  BY ActorAssumption DEF IInv, SaveWrite, Written, GateInv, DeleteInv, TypeOK,
     Inside, InsideT, Actors, RequestInv, Gated
<1>3. RequestInv' /\ TaskInv'
  BY ActorAssumption DEF IInv, SaveWrite, Written, RequestInv, TaskInv, TypeOK,
     Gated, Actors, Unfinished, Queued
<1>4. LockInv'
  BY ActorAssumption DEF IInv, SaveWrite, Written, LockInv, TypeOK, InCommand,
     Actors, RequestInv
<1>5. ActiveIffUnfinished' /\ UpdatedProjectExists' /\ SuccessIsRecorded'
  BY ActorAssumption DEF IInv, SaveWrite, Written, ActiveIffUnfinished,
     UpdatedProjectExists, SuccessIsRecorded, TypeOK, Unfinished, Queued, Actors
<1>. QED BY <1>1, <1>2, <1>3, <1>4, <1>5 DEF IInv

\* CreateProject adds a project and takes none away.
LEMMA CreateWriteKeeps ==
  ASSUME IInv, NEW r \in Requests, CreateWrite(r)
  PROVE  IInv'
<1>1. TypeOK'
  <2>1. TypeOK /\ project[r] \in Projects
    BY DEF IInv, RequestInv, CreateWrite
  <2>2. CASE exists' = exists \cup {project[r]} /\ Written(r)
    BY <2>1, <2>2, WrittenTypes DEF TypeOK, CreateWrite
  <2>3. CASE exists' = exists /\ Go(r, "leave") /\ UNCHANGED kind
    BY <2>1, <2>3, ActorAssumption DEF TypeOK, CreateWrite, ReqPc, Actors
  <2>. QED BY <2>2, <2>3 DEF CreateWrite
<1>2. GateInv' /\ DeleteInv'
  BY ActorAssumption DEF IInv, CreateWrite, Written, GateInv, DeleteInv, TypeOK,
     Inside, InsideT, Actors, RequestInv, Gated
<1>3. RequestInv' /\ TaskInv'
  BY ActorAssumption DEF IInv, CreateWrite, Written, RequestInv, TaskInv, TypeOK,
     Gated, Actors, Unfinished, Queued
<1>4. LockInv'
  BY ActorAssumption DEF IInv, CreateWrite, Written, LockInv, TypeOK, InCommand,
     Actors, RequestInv
<1>5. ActiveIffUnfinished' /\ UpdatedProjectExists' /\ SuccessIsRecorded'
  BY ActorAssumption DEF IInv, CreateWrite, Written, ActiveIffUnfinished,
     UpdatedProjectExists, SuccessIsRecorded, TypeOK, Unfinished, Queued, Actors
<1>. QED BY <1>1, <1>2, <1>3, <1>4, <1>5 DEF IInv

\* A log reader starts without the gate.
LEMMA LogsLookupKeeps ==
  ASSUME IInv, NEW r \in Requests, NEW p \in Projects, LogsLookup(r, p)
  PROVE  IInv'
<1>1. TypeOK'
  BY ActorAssumption DEF IInv, LogsLookup, TypeOK, Kinds, Gated, ReqPc,
     TaskPc, Actors
<1>2. GateInv' /\ DeleteInv'
  BY ActorAssumption DEF IInv, LogsLookup, GateInv, DeleteInv, TypeOK, Inside,
     InsideT, Actors
<1>3. RequestInv' /\ TaskInv'
  BY ActorAssumption DEF IInv, LogsLookup, RequestInv, TaskInv, TypeOK, Gated,
     Actors, Unfinished, Queued
<1>4. LockInv'
  BY ActorAssumption DEF IInv, LogsLookup, LockInv, TypeOK, InCommand, Actors
<1>5. ActiveIffUnfinished' /\ UpdatedProjectExists' /\ SuccessIsRecorded'
  BY ActorAssumption DEF IInv, LogsLookup, ActiveIffUnfinished,
     UpdatedProjectExists, SuccessIsRecorded, TypeOK, Unfinished, Queued,
     Actors
<1>. QED BY <1>1, <1>2, <1>3, <1>4, <1>5 DEF IInv

\* A handler takes a free mutex.
LEMMA CommandStartKeeps ==
  ASSUME IInv, NEW r \in Requests, CommandStart(r)
  PROVE  IInv'
<1>1. TypeOK'
  BY ActorAssumption DEF IInv, CommandStart, TypeOK, TakeLock, Kinds, Gated,
     ReqPc, TaskPc, Actors
<1>2. GateInv' /\ DeleteInv'
  BY ActorAssumption DEF IInv, CommandStart, GateInv, DeleteInv, TakeLock,
     TypeOK, Inside, InsideT, Actors, RequestInv, Gated
<1>3. RequestInv' /\ TaskInv'
  BY ActorAssumption DEF IInv, CommandStart, RequestInv, TaskInv, TakeLock,
     TypeOK, Gated, Actors, Unfinished, Queued
<1>4. LockInv'
  BY ActorAssumption DEF IInv, CommandStart, LockInv, TakeLock, TypeOK,
     InCommand, Actors, RequestInv
<1>5. ActiveIffUnfinished' /\ UpdatedProjectExists' /\ SuccessIsRecorded'
  BY ActorAssumption DEF IInv, CommandStart, ActiveIffUnfinished,
     UpdatedProjectExists, SuccessIsRecorded, TakeLock, TypeOK, Unfinished,
     Queued, Actors
<1>. QED BY <1>1, <1>2, <1>3, <1>4, <1>5 DEF IInv

\* After config the handler holds no mutex and is still inside the gate.
LEMMA ConfigEndKeeps ==
  ASSUME IInv, NEW r \in Requests, ConfigEnd(r)
  PROVE  IInv'
<1>1. TypeOK'
  BY ActorAssumption DEF IInv, ConfigEnd, ReleaseLock, TypeOK, ReqPc, TaskPc,
     Actors
<1>2. GateInv' /\ DeleteInv'
  BY ActorAssumption DEF IInv, ConfigEnd, ReleaseLock, GateInv, DeleteInv, TypeOK,
     Inside, InsideT, Actors, RequestInv, Gated
<1>3. RequestInv' /\ TaskInv'
  BY ActorAssumption DEF IInv, ConfigEnd, ReleaseLock, RequestInv, TaskInv, TypeOK,
     Gated, Actors, Unfinished, Queued
<1>4. LockInv'
  BY ActorAssumption DEF IInv, ConfigEnd, ReleaseLock, LockInv, TypeOK, InCommand,
     Actors, RequestInv
<1>5. ActiveIffUnfinished' /\ UpdatedProjectExists' /\ SuccessIsRecorded'
  BY ActorAssumption DEF IInv, ConfigEnd, ReleaseLock, ActiveIffUnfinished,
     UpdatedProjectExists, SuccessIsRecorded, TypeOK, Unfinished, Queued, Actors
<1>. QED BY <1>1, <1>2, <1>3, <1>4, <1>5 DEF IInv

\* A handler lets go of its own mutex.
LEMMA CommandEndKeeps ==
  ASSUME IInv, NEW r \in Requests, CommandEnd(r)
  PROVE  IInv'
<1>1. TypeOK'
  <2>1. CASE kind[r] = "logs"
    BY <2>1, ActorAssumption DEF IInv, TypeOK, CommandEnd, ReleaseLock, Kinds, ReqPc, Actors
  <2>2. CASE kind[r] # "logs"
    BY <2>2, ActorAssumption DEF IInv, TypeOK, CommandEnd, ReleaseLock, ReqPc, Actors
  <2>. QED BY <2>1, <2>2
<1>2. GateInv' /\ DeleteInv'
  BY ActorAssumption DEF IInv, CommandEnd, GateInv, DeleteInv, ReleaseLock,
     TypeOK, Inside, InsideT, Actors, RequestInv, Gated
<1>3. RequestInv' /\ TaskInv'
  BY ActorAssumption DEF IInv, CommandEnd, RequestInv, TaskInv, ReleaseLock,
     TypeOK, Gated, Actors, Unfinished, Queued
<1>4. LockInv'
  BY ActorAssumption DEF IInv, CommandEnd, LockInv, ReleaseLock, TypeOK,
     InCommand, Actors, RequestInv
<1>5. ActiveIffUnfinished' /\ UpdatedProjectExists' /\ SuccessIsRecorded'
  BY ActorAssumption DEF IInv, CommandEnd, ActiveIffUnfinished,
     UpdatedProjectExists, SuccessIsRecorded, ReleaseLock, TypeOK, Unfinished,
     Queued, Actors
<1>. QED BY <1>1, <1>2, <1>3, <1>4, <1>5 DEF IInv

\* TryLock finds nobody counted, hence nobody inside.
LEMMA DeleteTryLockKeeps ==
  ASSUME IInv, NEW r \in Requests, NEW p \in Projects, DeleteTryLock(r, p)
  PROVE  IInv'
<1>1. TypeOK'
  BY ActorAssumption DEF IInv, DeleteTryLock, TypeOK, Kinds, Gated, ReqPc,
     TaskPc, Actors
<1>2. GateInv' /\ DeleteInv'
  BY ActorAssumption DEF IInv, DeleteTryLock, GateInv, DeleteInv, TypeOK,
     Inside, InsideT, Actors
<1>3. RequestInv' /\ TaskInv'
  BY ActorAssumption DEF IInv, DeleteTryLock, RequestInv, TaskInv, TypeOK,
     Gated, Actors, Unfinished, Queued
<1>4. LockInv'
  BY ActorAssumption DEF IInv, DeleteTryLock, LockInv, TypeOK, InCommand,
     Actors
<1>5. ActiveIffUnfinished' /\ UpdatedProjectExists' /\ SuccessIsRecorded'
  BY ActorAssumption DEF IInv, DeleteTryLock, ActiveIffUnfinished,
     UpdatedProjectExists, SuccessIsRecorded, TypeOK, Unfinished, Queued,
     Actors
<1>. QED BY <1>1, <1>2, <1>3, <1>4, <1>5 DEF IInv

\* The check lets a deletion on only when activeUpdates is empty.
LEMMA DeleteCheckKeeps ==
  ASSUME IInv, NEW r \in Requests, DeleteCheck(r)
  PROVE  IInv'
<1>1. TypeOK'
  BY ActorAssumption DEF IInv, DeleteCheck, TypeOK, Kinds, Gated, ReqPc,
     TaskPc, Actors
<1>2. GateInv' /\ DeleteInv'
  BY ActorAssumption DEF IInv, DeleteCheck, GateInv, DeleteInv, TypeOK,
     Inside, InsideT, Actors
<1>3. RequestInv' /\ TaskInv'
  BY ActorAssumption DEF IInv, DeleteCheck, RequestInv, TaskInv, TypeOK,
     Gated, Actors, Unfinished, Queued
<1>4. LockInv'
  BY ActorAssumption DEF IInv, DeleteCheck, LockInv, TypeOK, InCommand, Actors
<1>5. ActiveIffUnfinished' /\ UpdatedProjectExists' /\ SuccessIsRecorded'
  BY ActorAssumption DEF IInv, DeleteCheck, ActiveIffUnfinished,
     UpdatedProjectExists, SuccessIsRecorded, TypeOK, Unfinished, Queued,
     Actors
<1>. QED BY <1>1, <1>2, <1>3, <1>4, <1>5 DEF IInv

\* A deletion takes a project away while nothing is unfinished and no
\* StartUpdate is between its lookup and its insert.
LEMMA DeleteRemoveKeeps ==
  ASSUME IInv, NEW r \in Requests, DeleteRemove(r)
  PROVE  IInv'
<1>1. TypeOK'
  BY ActorAssumption DEF IInv, DeleteRemove, TypeOK, Kinds, Gated, ReqPc,
     TaskPc, Actors
<1>2. GateInv' /\ DeleteInv'
  BY ActorAssumption DEF IInv, DeleteRemove, GateInv, DeleteInv, TypeOK,
     Inside, InsideT, Actors
<1>3. RequestInv' /\ TaskInv'
  BY ActorAssumption DEF IInv, DeleteRemove, RequestInv, TaskInv, TypeOK,
     Gated, Actors, GateInv, Inside, Unfinished, Queued
<1>4. LockInv'
  BY ActorAssumption DEF IInv, DeleteRemove, LockInv, TypeOK, InCommand,
     Actors
<1>5. ActiveIffUnfinished' /\ UpdatedProjectExists' /\ SuccessIsRecorded'
  BY ActorAssumption DEF IInv, DeleteRemove, ActiveIffUnfinished,
     UpdatedProjectExists, SuccessIsRecorded, TypeOK, Unfinished, Queued,
     Actors, DeleteInv, TaskInv
<1>. QED BY <1>1, <1>2, <1>3, <1>4, <1>5 DEF IInv

\* The deletion lets go of the gate.
LEMMA DeleteUnlockKeeps ==
  ASSUME IInv, NEW r \in Requests, DeleteUnlock(r)
  PROVE  IInv'
<1>1. TypeOK'
  BY ActorAssumption DEF IInv, DeleteUnlock, TypeOK, Kinds, Gated, ReqPc,
     TaskPc, Actors
<1>2. GateInv' /\ DeleteInv'
  BY ActorAssumption DEF IInv, DeleteUnlock, GateInv, DeleteInv, TypeOK,
     Inside, InsideT, Actors
<1>3. RequestInv' /\ TaskInv'
  BY ActorAssumption DEF IInv, DeleteUnlock, RequestInv, TaskInv, TypeOK,
     Gated, Actors, Unfinished, Queued
<1>4. LockInv'
  BY ActorAssumption DEF IInv, DeleteUnlock, LockInv, TypeOK, InCommand,
     Actors
<1>5. ActiveIffUnfinished' /\ UpdatedProjectExists' /\ SuccessIsRecorded'
  BY ActorAssumption DEF IInv, DeleteUnlock, ActiveIffUnfinished,
     UpdatedProjectExists, SuccessIsRecorded, TypeOK, Unfinished, Queued,
     Actors
<1>. QED BY <1>1, <1>2, <1>3, <1>4, <1>5 DEF IInv

\* A task that asks for the gate is counted.
LEMMA TaskAskKeeps ==
  ASSUME IInv, NEW t \in Tasks, TaskAsk(t)
  PROVE  IInv'
<1>1. TypeOK'
  BY ActorAssumption DEF IInv, TaskAsk, TypeOK, Kinds, Gated, ReqPc, TaskPc,
     Actors
<1>2. GateInv' /\ DeleteInv'
  BY ActorAssumption DEF IInv, TaskAsk, GateInv, DeleteInv, TypeOK, Inside,
     InsideT, Actors
<1>3. RequestInv' /\ TaskInv'
  BY ActorAssumption DEF IInv, TaskAsk, RequestInv, TaskInv, TypeOK, Gated,
     Actors, Unfinished, Queued
<1>4. LockInv'
  BY ActorAssumption DEF IInv, TaskAsk, LockInv, TypeOK, InCommand, Actors
<1>5. ActiveIffUnfinished' /\ UpdatedProjectExists' /\ SuccessIsRecorded'
  BY ActorAssumption DEF IInv, TaskAsk, ActiveIffUnfinished,
     UpdatedProjectExists, SuccessIsRecorded, TypeOK, Unfinished, Queued,
     Actors
<1>. QED BY <1>1, <1>2, <1>3, <1>4, <1>5 DEF IInv

\* A task gets through the gate only when no deletion holds it.
LEMMA TaskEnterKeeps ==
  ASSUME IInv, NEW t \in Tasks, TaskEnter(t)
  PROVE  IInv'
<1>1. TypeOK'
  BY ActorAssumption DEF IInv, TaskEnter, TypeOK, Kinds, Gated, ReqPc, TaskPc,
     Actors
<1>2. GateInv' /\ DeleteInv'
  BY ActorAssumption DEF IInv, TaskEnter, GateInv, DeleteInv, TypeOK, Inside,
     InsideT, Actors
<1>3. RequestInv' /\ TaskInv'
  BY ActorAssumption DEF IInv, TaskEnter, RequestInv, TaskInv, TypeOK, Gated,
     Actors, Unfinished, Queued
<1>4. LockInv'
  BY ActorAssumption DEF IInv, TaskEnter, LockInv, TypeOK, InCommand, Actors
<1>5. ActiveIffUnfinished' /\ UpdatedProjectExists' /\ SuccessIsRecorded'
  BY ActorAssumption DEF IInv, TaskEnter, ActiveIffUnfinished,
     UpdatedProjectExists, SuccessIsRecorded, TypeOK, Unfinished, Queued,
     Actors, TaskInv
<1>. QED BY <1>1, <1>2, <1>3, <1>4, <1>5 DEF IInv

\* A task that cannot find its project fails.
LEMMA TaskLookupKeeps ==
  ASSUME IInv, NEW t \in Tasks, TaskLookup(t)
  PROVE  IInv'
<1>1. TypeOK'
  BY ActorAssumption DEF IInv, TaskLookup, TypeOK, Kinds, Gated, ReqPc,
     TaskPc, Actors
<1>2. GateInv' /\ DeleteInv'
  BY ActorAssumption DEF IInv, TaskLookup, GateInv, DeleteInv, TypeOK, Inside,
     InsideT, Actors
<1>3. RequestInv' /\ TaskInv'
  BY ActorAssumption DEF IInv, TaskLookup, RequestInv, TaskInv, TypeOK, Gated,
     Actors, Unfinished, Queued
<1>4. LockInv'
  BY ActorAssumption DEF IInv, TaskLookup, LockInv, TypeOK, InCommand, Actors
<1>5. ActiveIffUnfinished' /\ UpdatedProjectExists' /\ SuccessIsRecorded'
  BY ActorAssumption DEF IInv, TaskLookup, ActiveIffUnfinished,
     UpdatedProjectExists, SuccessIsRecorded, TypeOK, Unfinished, Queued,
     Actors
<1>. QED BY <1>1, <1>2, <1>3, <1>4, <1>5 DEF IInv

\* A task takes its project's mutex for the pull.
LEMMA TaskPullKeeps ==
  ASSUME IInv, NEW t \in Tasks, TaskPull(t)
  PROVE  IInv'
<1>1. TypeOK'
  BY ActorAssumption DEF IInv, TaskPull, TypeOK, TakeLock, Kinds, Gated,
     ReqPc, TaskPc, Actors
<1>2. GateInv' /\ DeleteInv'
  BY ActorAssumption DEF IInv, TaskPull, GateInv, DeleteInv, TakeLock, TypeOK,
     Inside, InsideT, Actors
<1>3. RequestInv' /\ TaskInv'
  BY ActorAssumption DEF IInv, TaskPull, RequestInv, TaskInv, TakeLock,
     TypeOK, Gated, Actors, Unfinished, Queued
<1>4. LockInv'
  BY ActorAssumption DEF IInv, TaskPull, LockInv, TakeLock, TypeOK, InCommand,
     Actors, TaskInv
<1>5. ActiveIffUnfinished' /\ UpdatedProjectExists' /\ SuccessIsRecorded'
  BY ActorAssumption DEF IInv, TaskPull, ActiveIffUnfinished,
     UpdatedProjectExists, SuccessIsRecorded, TakeLock, TypeOK, Unfinished,
     Queued, Actors
<1>. QED BY <1>1, <1>2, <1>3, <1>4, <1>5 DEF IInv

\* The pull ends, either way, and the mutex is free.
LEMMA TaskPullEndKeeps ==
  ASSUME IInv, NEW t \in Tasks, TaskPullEnd(t)
  PROVE  IInv'
<1>1. TypeOK'
  BY ActorAssumption DEF IInv, TaskPullEnd, TypeOK, ReleaseLock, Kinds, Gated,
     ReqPc, TaskPc, Actors
<1>2. GateInv' /\ DeleteInv'
  BY ActorAssumption DEF IInv, TaskPullEnd, GateInv, DeleteInv, ReleaseLock,
     TypeOK, Inside, InsideT, Actors
<1>3. RequestInv' /\ TaskInv'
  BY ActorAssumption DEF IInv, TaskPullEnd, RequestInv, TaskInv, ReleaseLock,
     TypeOK, Gated, Actors, Unfinished, Queued
<1>4. LockInv'
  BY ActorAssumption DEF IInv, TaskPullEnd, LockInv, ReleaseLock, TypeOK,
     InCommand, Actors, TaskInv
<1>5. ActiveIffUnfinished' /\ UpdatedProjectExists' /\ SuccessIsRecorded'
  BY ActorAssumption DEF IInv, TaskPullEnd, ActiveIffUnfinished,
     UpdatedProjectExists, SuccessIsRecorded, ReleaseLock, TypeOK, Unfinished,
     Queued, Actors
<1>. QED BY <1>1, <1>2, <1>3, <1>4, <1>5 DEF IInv

\* A task takes its project's mutex for the apply.
LEMMA TaskApplyKeeps ==
  ASSUME IInv, NEW t \in Tasks, TaskApply(t)
  PROVE  IInv'
<1>1. TypeOK'
  BY ActorAssumption DEF IInv, TaskApply, TypeOK, TakeLock, Kinds, Gated,
     ReqPc, TaskPc, Actors
<1>2. GateInv' /\ DeleteInv'
  BY ActorAssumption DEF IInv, TaskApply, GateInv, DeleteInv, TakeLock,
     TypeOK, Inside, InsideT, Actors
<1>3. RequestInv' /\ TaskInv'
  BY ActorAssumption DEF IInv, TaskApply, RequestInv, TaskInv, TakeLock,
     TypeOK, Gated, Actors, Unfinished, Queued
<1>4. LockInv'
  BY ActorAssumption DEF IInv, TaskApply, LockInv, TakeLock, TypeOK,
     InCommand, Actors, TaskInv
<1>5. ActiveIffUnfinished' /\ UpdatedProjectExists' /\ SuccessIsRecorded'
  BY ActorAssumption DEF IInv, TaskApply, ActiveIffUnfinished,
     UpdatedProjectExists, SuccessIsRecorded, TakeLock, TypeOK, Unfinished,
     Queued, Actors
<1>. QED BY <1>1, <1>2, <1>3, <1>4, <1>5 DEF IInv

\* The apply ends, either way, and the mutex is free.
LEMMA TaskApplyEndKeeps ==
  ASSUME IInv, NEW t \in Tasks, TaskApplyEnd(t)
  PROVE  IInv'
<1>1. TypeOK'
  BY ActorAssumption DEF IInv, TaskApplyEnd, TypeOK, ReleaseLock, Kinds,
     Gated, ReqPc, TaskPc, Actors
<1>2. GateInv' /\ DeleteInv'
  BY ActorAssumption DEF IInv, TaskApplyEnd, GateInv, DeleteInv, ReleaseLock,
     TypeOK, Inside, InsideT, Actors
<1>3. RequestInv' /\ TaskInv'
  BY ActorAssumption DEF IInv, TaskApplyEnd, RequestInv, TaskInv, ReleaseLock,
     TypeOK, Gated, Actors, Unfinished, Queued
<1>4. LockInv'
  BY ActorAssumption DEF IInv, TaskApplyEnd, LockInv, ReleaseLock, TypeOK,
     InCommand, Actors, TaskInv
<1>5. ActiveIffUnfinished' /\ UpdatedProjectExists' /\ SuccessIsRecorded'
  BY ActorAssumption DEF IInv, TaskApplyEnd, ActiveIffUnfinished,
     UpdatedProjectExists, SuccessIsRecorded, ReleaseLock, TypeOK, Unfinished,
     Queued, Actors
<1>. QED BY <1>1, <1>2, <1>3, <1>4, <1>5 DEF IInv

\* The look at the containers may fail the task.
LEMMA TaskInspectKeeps ==
  ASSUME IInv, NEW t \in Tasks, TaskInspect(t)
  PROVE  IInv'
<1>1. TypeOK'
  BY ActorAssumption DEF IInv, TaskInspect, TypeOK, Kinds, Gated, ReqPc,
     TaskPc, Actors
<1>2. GateInv' /\ DeleteInv'
  BY ActorAssumption DEF IInv, TaskInspect, GateInv, DeleteInv, TypeOK,
     Inside, InsideT, Actors
<1>3. RequestInv' /\ TaskInv'
  BY ActorAssumption DEF IInv, TaskInspect, RequestInv, TaskInv, TypeOK,
     Gated, Actors, Unfinished, Queued
<1>4. LockInv'
  BY ActorAssumption DEF IInv, TaskInspect, LockInv, TypeOK, InCommand, Actors
<1>5. ActiveIffUnfinished' /\ UpdatedProjectExists' /\ SuccessIsRecorded'
  BY ActorAssumption DEF IInv, TaskInspect, ActiveIffUnfinished,
     UpdatedProjectExists, SuccessIsRecorded, TypeOK, Unfinished, Queued,
     Actors
<1>. QED BY <1>1, <1>2, <1>3, <1>4, <1>5 DEF IInv

\* A task goes on as a success only with its row stored.
LEMMA TaskRecordKeeps ==
  ASSUME IInv, NEW t \in Tasks, TaskRecord(t)
  PROVE  IInv'
<1>1. TypeOK'
  BY ActorAssumption DEF IInv, TaskRecord, TypeOK, Row, Kinds, Gated, ReqPc,
     TaskPc, Actors
<1>2. GateInv' /\ DeleteInv'
  BY ActorAssumption DEF IInv, TaskRecord, GateInv, DeleteInv, Row, TypeOK,
     Inside, InsideT, Actors
<1>3. RequestInv' /\ TaskInv'
  BY ActorAssumption DEF IInv, TaskRecord, RequestInv, TaskInv, Row, TypeOK,
     Gated, Actors, Unfinished, Queued
<1>4. LockInv'
  BY ActorAssumption DEF IInv, TaskRecord, LockInv, Row, TypeOK, InCommand,
     Actors
<1>5. ActiveIffUnfinished' /\ UpdatedProjectExists' /\ SuccessIsRecorded'
  BY ActorAssumption DEF IInv, TaskRecord, ActiveIffUnfinished,
     UpdatedProjectExists, SuccessIsRecorded, Row, TypeOK, Unfinished, Queued,
     Actors, TaskInv
<1>. QED BY <1>1, <1>2, <1>3, <1>4, <1>5 DEF IInv

\* A finishing task takes out of activeUpdates the entry that is its own.
LEMMA TaskFinishPreserves ==
  ASSUME IInv, NEW t \in Tasks, TaskFinish(t)
  PROVE  IInv'
<1>1. TypeOK'
  BY ActorAssumption DEF IInv, TaskFinish, TypeOK, Outcome, Kinds, Gated,
     ReqPc, TaskPc, Actors
<1>2. GateInv' /\ DeleteInv'
  BY ActorAssumption DEF IInv, TaskFinish, GateInv, DeleteInv, Outcome,
     TypeOK, Inside, InsideT, Actors, TaskInv
<1>3. RequestInv' /\ TaskInv'
  BY ActorAssumption DEF IInv, TaskFinish, RequestInv, TaskInv, Outcome,
     TypeOK, Gated, Actors, Unfinished, Queued
<1>4. LockInv'
  BY ActorAssumption DEF IInv, TaskFinish, LockInv, Outcome, TypeOK,
     InCommand, Actors
<1>5. ActiveIffUnfinished' /\ UpdatedProjectExists' /\ SuccessIsRecorded'
  BY ActorAssumption DEF IInv, TaskFinish, ActiveIffUnfinished,
     UpdatedProjectExists, SuccessIsRecorded, Outcome, TypeOK, Unfinished,
     Queued, Actors, TaskInv
<1>. QED BY <1>1, <1>2, <1>3, <1>4, <1>5 DEF IInv

\* A finished task lets go of the gate.
LEMMA TaskLeaveKeeps ==
  ASSUME IInv, NEW t \in Tasks, TaskLeave(t)
  PROVE  IInv'
<1>1. TypeOK'
  BY ActorAssumption DEF IInv, TaskLeave, TypeOK, Kinds, Gated, ReqPc, TaskPc,
     Actors
<1>2. GateInv' /\ DeleteInv'
  BY ActorAssumption DEF IInv, TaskLeave, GateInv, DeleteInv, TypeOK, Inside,
     InsideT, Actors
<1>3. RequestInv' /\ TaskInv'
  BY ActorAssumption DEF IInv, TaskLeave, RequestInv, TaskInv, TypeOK, Gated,
     Actors, Unfinished, Queued
<1>4. LockInv'
  BY ActorAssumption DEF IInv, TaskLeave, LockInv, TypeOK, InCommand, Actors
<1>5. ActiveIffUnfinished' /\ UpdatedProjectExists' /\ SuccessIsRecorded'
  BY ActorAssumption DEF IInv, TaskLeave, ActiveIffUnfinished,
     UpdatedProjectExists, SuccessIsRecorded, TypeOK, Unfinished, Queued,
     Actors
<1>. QED BY <1>1, <1>2, <1>3, <1>4, <1>5 DEF IInv

\* A step that changes nothing keeps the invariant.
LEMMA StutterKeeps == ASSUME IInv, UNCHANGED vars PROVE IInv'
  BY DEF IInv, vars, TypeOK, GateInv, RequestInv, TaskInv, DeleteInv, LockInv,
     ActiveIffUnfinished, UpdatedProjectExists, SuccessIsRecorded, Inside, InsideT,
     InCommand, Unfinished

\* IInv is inductive: no step of any handler or task breaks it.
LEMMA NextKeeps == IInv /\ [Next]_vars => IInv'
<1>. SUFFICES ASSUME IInv, [Next]_vars PROVE IInv'
  OBVIOUS
<1>1. ASSUME NEW r \in Requests, RequestBegin(r) PROVE IInv'
  <2>1. PICK p \in Projects : \/ \E k \in Gated : Ask(r, k, p)
                              \/ LogsLookup(r, p)
                              \/ DeleteTryLock(r, p)
    BY <1>1 DEF RequestBegin
  <2>. QED BY <2>1, AskKeeps, LogsLookupKeeps, DeleteTryLockKeeps
<1>2. ASSUME NEW r \in Requests, RequestStep(r) PROVE IInv'
  BY <1>2, EnterKeeps, LookupFailsKeeps, StartLookupKeeps, StartRefusedKeeps,
     StartInsertKeeps, ActionLookupKeeps, CreateStatKeeps, SaveWriteKeeps,
     CreateWriteKeeps, CommandStartKeeps, ConfigEndKeeps, CommandEndKeeps, LeaveKeeps,
     DeleteCheckKeeps, DeleteRemoveKeeps, DeleteUnlockKeeps
  DEF RequestStep
<1>3. ASSUME NEW t \in Tasks, TaskStep(t) PROVE IInv'
  BY <1>3, TaskAskKeeps, TaskEnterKeeps, TaskLookupKeeps, TaskPullKeeps,
     TaskPullEndKeeps, TaskApplyKeeps, TaskApplyEndKeeps, TaskInspectKeeps,
     TaskRecordKeeps, TaskFinishPreserves, TaskLeaveKeeps
  DEF TaskStep
<1>4. CASE UNCHANGED vars
  BY <1>4, StutterKeeps
<1>. QED BY <1>1, <1>2, <1>3, <1>4 DEF Next

\* The inductive invariant holds in every state of every execution.
THEOREM Invariance == Spec => []IInv
<1>1. Init => IInv
  BY InitIInv
<1>2. IInv /\ [Next]_vars => IInv'
  BY NextKeeps
<1>. QED BY <1>1, <1>2, PTL DEF Spec

\* Every variable keeps its type.
THEOREM TypeCorrect == Spec => []TypeOK
<1>1. IInv => TypeOK
  BY DEF IInv
<1>. QED BY <1>1, Invariance, PTL

\* activeUpdates and the task table agree for any number of concurrent callers:
\* the decisions StartUpdate and DeleteProject take on that map are sound.
THEOREM ActiveMapExact == Spec => []ActiveIffUnfinished
<1>1. IInv => ActiveIffUnfinished
  BY DEF IInv
<1>. QED BY <1>1, Invariance, PTL

\* No deletion removes a project that has an update queued or running.
THEOREM UpdatesKeepTheirProject == Spec => []UpdatedProjectExists
<1>1. IInv => UpdatedProjectExists
  BY DEF IInv
<1>. QED BY <1>1, Invariance, PTL

\* An update reports success only with its row in update_records.
THEOREM SuccessRecorded == Spec => []SuccessIsRecorded
<1>1. IInv => SuccessIsRecorded
  BY DEF IInv
<1>. QED BY <1>1, Invariance, PTL

\* Two Compose commands never run for one project at the same time.
THEOREM CommandsExclusive == Spec => []OneCommandPerProject
<1>1. IInv => OneCommandPerProject
  BY DEF IInv, LockInv, OneCommandPerProject
<1>. QED BY <1>1, Invariance, PTL

\* A deletion that passed its check runs alone: the gate keeps the handlers and
\* the goroutines out, activeUpdates the ones that have not asked for it yet.
THEOREM DeletionExclusive == Spec => []DeletionAlone
<1>1. IInv => DeletionAlone
  <2>. SUFFICES ASSUME IInv, NEW d \in Requests, pc[d] = "delete"
       PROVE  /\ \A t \in Tasks : ~Unfinished(t) /\ ~Working(t)
              /\ \A r \in Requests \ {d} : pc[r] \in {"idle", "wait"} \/ kind[r] = "logs"
              /\ \A p \in Projects :
                   lock[p] \in {None} \cup {r \in Requests : kind[r] = "logs"}
    BY DEF DeletionAlone
  <2>1. writer = d /\ d # None
    BY ActorAssumption DEF IInv, GateInv, Actors
  <2>2. \A t \in Tasks : ~Unfinished(t)
    <3>. SUFFICES ASSUME NEW t \in Tasks, Unfinished(t) PROVE FALSE
      OBVIOUS
    <3>1. project[t] \in Projects
      BY DEF IInv, TaskInv
    <3>2. active[project[t]] = t
      BY <3>1 DEF IInv, ActiveIffUnfinished
    <3>3. active[project[t]] = None
      BY <3>1 DEF IInv, DeleteInv
    <3>. QED BY <3>2, <3>3, ActorAssumption DEF Actors
  <2>3. \A t \in Tasks : ~InsideT(t)
    BY <2>1 DEF IInv, GateInv
  <2>4. \A t \in Tasks : ~Working(t)
    BY <2>3 DEF InsideT, Working
  <2>5. \A r \in Requests \ {d} : pc[r] \in {"idle", "wait"} \/ kind[r] = "logs"
    BY <2>1 DEF IInv, TypeOK, GateInv, Inside, ReqPc
  <2>6. ASSUME NEW p \in Projects, lock[p] # None
        PROVE  lock[p] \in Requests /\ kind[lock[p]] = "logs"
    <3>1. lock[p] \in Actors /\ InCommand(lock[p], p)
      BY <2>6 DEF IInv, TypeOK, LockInv
    <3>2. lock[p] \notin Tasks
      BY <3>1, <2>4 DEF InCommand, Working, IInv, TypeOK, TaskPc
    <3>3. lock[p] \in Requests \ {d}
      BY <3>1, <3>2 DEF InCommand, Actors
    <3>. QED BY <3>1, <3>3, <2>5 DEF InCommand
  <2>. QED BY <2>2, <2>4, <2>5, <2>6
<1>. QED BY <1>1, Invariance, PTL

-----------------------------------------------------------------------------
\* The task table is written by three steps only: the insert, the start of the
\* goroutine and its end.
LEMMA StatusWriters ==
  ASSUME IInv, [Next]_vars
  PROVE  \/ status' = status
         \/ \E r \in Requests : StartInsert(r)
         \/ \E t \in Tasks : TaskEnter(t) \/ TaskFinish(t)
<1>1. CASE UNCHANGED vars
  BY <1>1 DEF vars
<1>2. ASSUME NEW r \in Requests, RequestBegin(r) PROVE status' = status
  BY <1>2 DEF RequestBegin, Ask, LogsLookup, DeleteTryLock
<1>3. ASSUME NEW r \in Requests, RequestStep(r) PROVE status' = status \/ StartInsert(r)
  BY <1>3 DEF RequestStep, Enter, LookupFails, StartLookup, StartRefused, ActionLookup,
     CreateStat, SaveWrite, CreateWrite, CommandStart, ConfigEnd, CommandEnd, Leave,
     DeleteCheck, DeleteRemove, DeleteUnlock
<1>4. ASSUME NEW t \in Tasks, TaskStep(t)
      PROVE  status' = status \/ TaskEnter(t) \/ TaskFinish(t)
  BY <1>4 DEF TaskStep, TaskAsk, TaskLookup, TaskPull, TaskPullEnd, TaskApply,
     TaskApplyEnd, TaskInspect, TaskRecord, TaskLeave
<1>. QED BY <1>1, <1>2, <1>3, <1>4 DEF Next

\* A finished task keeps its result until it is pruned, and prune never takes an
\* unfinished one: the frontend that polls a task it started sees it end.
THEOREM ResultsFinal == Spec => FinishedIsFinal
<1> DEFINE Final == \A t \in Tasks :
             /\ status[t] \in {"success", "failed"} => status'[t] \in {status[t], "absent"}
             /\ Unfinished(t) => status'[t] # "absent"
<1>1. IInv /\ [Next]_vars => [Final]_vars
  <2>. SUFFICES ASSUME IInv, [Next]_vars PROVE Final
    OBVIOUS
  <2>1. CASE status' = status
    BY <2>1 DEF Unfinished, Queued
  <2>2. ASSUME NEW r \in Requests, StartInsert(r) PROVE Final
    <3>1. drawn[r] \in Tasks /\ status[drawn[r]] = "absent"
      BY <2>2 DEF IInv, RequestInv, TaskInv, StartInsert
    <3>. QED BY <2>2, <3>1 DEF StartInsert, Pruned, Finished, Present, Unfinished, Queued
  <2>3. ASSUME NEW t \in Tasks, TaskEnter(t) PROVE Final
    BY <2>3 DEF IInv, TypeOK, TaskInv, TaskEnter, Unfinished, Queued
  <2>4. ASSUME NEW t \in Tasks, TaskFinish(t) PROVE Final
    BY <2>4 DEF IInv, TypeOK, TaskInv, TaskFinish, Outcome, Unfinished, Queued
  <2>. QED BY <2>1, <2>2, <2>3, <2>4, StatusWriters
<1>. QED BY <1>1, Invariance, PTL DEF Spec, FinishedIsFinal

-----------------------------------------------------------------------------
\* Among finitely many tasks one was created first: follow the strictly
\* shrinking sets of older tasks down to an empty one.
LEMMA OldestExists ==
  ASSUME NEW S \in SUBSET Tasks, S # {}, stamp \in [Tasks -> Nat]
  PROVE  \E t \in S : \A u \in S : stamp[t] <= stamp[u]
<1> DEFINE Older(t) == {u \in S : stamp[u] < stamp[t]}
           Chain == {Older(t) : t \in S}
<1>1. IsWellFoundedOn(StrictSubsetOrdering(Tasks), SUBSET Tasks)
  BY FiniteAssumption, FS_StrictSubsetOrderingWellFounded, FS_FiniteSubsetsOfFinite
<1>2. Chain \subseteq SUBSET Tasks /\ Chain # {}
  OBVIOUS
<1>3. \E c \in Chain : \A d \in Chain : ~ (<<d, c>> \in StrictSubsetOrdering(Tasks))
  <2>. HIDE DEF Chain
  <2>. QED BY <1>1, <1>2, WFMin
<1>4. PICK t \in S : \A d \in Chain : ~ (<<d, Older(t)>> \in StrictSubsetOrdering(Tasks))
  BY <1>3
<1>5. ASSUME NEW u \in S, stamp[u] < stamp[t] PROVE FALSE
  <2>1. u \in Older(t) /\ u \notin Older(u)
    BY <1>5
  <2>2. Older(u) \subseteq Older(t)
    BY <1>5
  <2>3. <<Older(u), Older(t)>> \in StrictSubsetOrdering(Tasks)
    BY <2>1, <2>2 DEF StrictSubsetOrdering
  <2>. QED BY <2>3, <1>4
<1>. QED BY <1>5

\* One insert: below the limit it may reach the limit; at the limit it takes
\* the place of a finished task, if there is one.
LEMMA InsertBounded ==
  ASSUME IInv, NEW r \in Requests, StartInsert(r),
         Cardinality(Present') > Cardinality(Present), Cardinality(Present') > Limit
  PROVE  /\ \A t \in Present : Unfinished(t)
         /\ Cardinality(Present') = Cardinality(Present) + 1
<1> DEFINE id == drawn[r]
           Kept == Present \ Pruned
<1>1. id \in Tasks /\ status[id] = "absent"
  BY DEF IInv, RequestInv, TaskInv, StartInsert
<1>2. Present' = Kept \cup {id} /\ id \notin Kept
  BY <1>1 DEF Present, StartInsert
<1>3. IsFiniteSet(Present) /\ Cardinality(Present) \in Nat
  BY FiniteAssumption, FS_Subset, FS_CardinalityType DEF Present
<1>4. /\ IsFiniteSet(Kept) /\ Cardinality(Kept) \in Nat
      /\ Cardinality(Kept) <= Cardinality(Present)
      /\ Cardinality(Kept) = Cardinality(Present) => Kept = Present
  BY <1>3, FS_Subset, FS_CardinalityType
<1>5. Cardinality(Present') = Cardinality(Kept) + 1
  BY <1>2, <1>4, FS_AddElement
<1>6. Kept = Present /\ Cardinality(Present) >= Limit
  BY <1>3, <1>4, <1>5, LimitAssumption
<1>7. Finished = {}
  <2>. SUFFICES ASSUME Finished # {} PROVE FALSE
    OBVIOUS
  <2>1. Finished \in SUBSET Tasks /\ stamp \in [Tasks -> Nat]
    BY DEF Finished, Present, IInv, TypeOK
  <2>2. PICK t \in Finished : \A u \in Finished : stamp[t] <= stamp[u]
    BY <2>1, OldestExists
  <2>3. t \in Pruned /\ t \in Present
    BY <1>3, <1>6, <2>2, LimitAssumption DEF Pruned, Finished
  <2>. QED BY <1>6, <2>3
<1>. QED BY <1>5, <1>6, <1>7 DEF Finished, Unfinished

\* Only an insert changes which tasks are in the table: the start and the end
\* of a goroutine rewrite an entry that is there.
LEMMA TableWriters ==
  ASSUME IInv, [Next]_vars
  PROVE  Present' = Present \/ \E r \in Requests : StartInsert(r)
<1>1. CASE status' = status
  BY <1>1 DEF Present
<1>2. ASSUME NEW t \in Tasks, TaskEnter(t) PROVE Present' = Present
  BY <1>2 DEF IInv, TypeOK, TaskInv, TaskEnter, Present, Unfinished, Queued
<1>3. ASSUME NEW t \in Tasks, TaskFinish(t) PROVE Present' = Present
  BY <1>3 DEF IInv, TypeOK, TaskInv, TaskFinish, Outcome, Present, Unfinished, Queued
<1>. QED BY <1>1, <1>2, <1>3, StatusWriters

\* The table grows past the limit only while every task in it is unfinished:
\* prune then finds nothing to drop, and otherwise drops the oldest (service.go
\* 632-634, 759-775).
THEOREM TableStaysBounded == Spec => TableBounded
<1> DEFINE Bounded == Cardinality(Present)' > Cardinality(Present) /\ Cardinality(Present)' > Limit
                        => \A t \in Present : Unfinished(t)
<1>1. IInv /\ [Next]_vars => [Bounded]_vars
  <2>. SUFFICES ASSUME IInv, [Next]_vars PROVE Bounded
    OBVIOUS
  <2>1. CASE Present' = Present
    <3>1. Cardinality(Present) \in Nat
      BY FiniteAssumption, FS_Subset, FS_CardinalityType DEF Present
    <3>. QED BY <2>1, <3>1
  <2>2. ASSUME NEW r \in Requests, StartInsert(r) PROVE Bounded
    BY <2>2, InsertBounded
  <2>. QED BY <2>1, <2>2, TableWriters
<1>. QED BY <1>1, Invariance, PTL DEF Spec, TableBounded

\* While every task in the table is unfinished, activeUpdates gives each of them
\* a project of its own, and none of them the project of a new one.
LEMMA UnfinishedFitProjects ==
  ASSUME IInv, \A t \in Present : Unfinished(t), NEW p \in Projects, active[p] = None
  PROVE  Cardinality(Present) < Cardinality(Projects)
<1> DEFINE f == [t \in Present |-> project[t]]
           Others == Projects \ {p}
<1>1. \A t \in Present : project[t] \in Others /\ active[project[t]] = t
  <2>. SUFFICES ASSUME NEW t \in Present
                PROVE  project[t] \in Others /\ active[project[t]] = t
    OBVIOUS
  <2>1. t \in Tasks /\ Unfinished(t)
    BY DEF Present
  <2>2. project[t] \in Projects
    BY <2>1 DEF IInv, TaskInv
  <2>3. active[project[t]] = t /\ t # None
    BY <2>1, <2>2, ActorAssumption DEF IInv, ActiveIffUnfinished, Actors
  <2>. QED BY <2>2, <2>3
<1>2. f \in Injection(Present, Others)
  BY <1>1 DEF Injection, IsInjective
<1>3. IsFiniteSet(Others) /\ Cardinality(Others) = Cardinality(Projects) - 1
  BY FiniteAssumption, FS_RemoveElement
<1>4. IsFiniteSet(Present) /\ Cardinality(Present) <= Cardinality(Others)
  <2>. HIDE DEF f, Others
  <2>. QED BY <1>2, <1>3, FS_Injection
<1>. QED
  <2>. HIDE DEF Others
  <2>. QED BY <1>3, <1>4, FiniteAssumption, FS_CardinalityType

\* The table never holds more entries than the limit, or than there are
\* projects if there are more of them (service.go 632-634, 759-775).
THEOREM TableFits ==
  Spec => [](Cardinality(Present) <= Limit \/ Cardinality(Present) <= Cardinality(Projects))
<1> DEFINE Fits == Cardinality(Present) <= Limit \/ Cardinality(Present) <= Cardinality(Projects)
<1>1. Init => Fits
  <2>. SUFFICES ASSUME Init PROVE Fits
    OBVIOUS
  <2>1. Present = {}
    BY DEF Init, Present
  <2>. QED BY <2>1, FS_EmptySet, LimitAssumption
<1>2. IInv /\ Fits /\ [Next]_vars => Fits'
  <2>. SUFFICES ASSUME IInv, Fits, [Next]_vars PROVE Fits'
    OBVIOUS
  <2>1. CASE Present' = Present
    BY <2>1
  <2>2. ASSUME NEW r \in Requests, StartInsert(r) PROVE Fits'
    <3>1. /\ Cardinality(Present) \in Nat /\ Cardinality(Present') \in Nat
          /\ Cardinality(Projects) \in Nat
      BY FiniteAssumption, FS_Subset, FS_CardinalityType DEF Present
    <3>2. CASE /\ Cardinality(Present') > Cardinality(Present)
               /\ Cardinality(Present') > Limit
      <4>1. project[r] \in Projects /\ active[project[r]] = None
        BY <2>2 DEF IInv, RequestInv, StartInsert
      <4>. QED BY <2>2, <3>1, <3>2, <4>1, InsertBounded, UnfinishedFitProjects
    <3>. QED BY <3>1, <3>2, LimitAssumption
  <2>. QED BY <2>1, <2>2, TableWriters
<1>. QED BY <1>1, <1>2, Invariance, PTL DEF Spec

-----------------------------------------------------------------------------
\* The two variables the ledger sees are written by four steps only.
LEMMA LedgerWriters ==
  ASSUME IInv, [Next]_vars
  PROVE  \/ UNCHANGED <<exists, active>>
         \/ \E r \in Requests : CreateWrite(r) \/ StartInsert(r) \/ DeleteRemove(r)
         \/ \E t \in Tasks : TaskFinish(t)
<1>1. CASE UNCHANGED vars
  BY <1>1 DEF vars
<1>2. ASSUME NEW r \in Requests, RequestBegin(r) PROVE UNCHANGED <<exists, active>>
  BY <1>2 DEF RequestBegin, Ask, LogsLookup, DeleteTryLock
<1>3. ASSUME NEW r \in Requests, RequestStep(r)
      PROVE  \/ UNCHANGED <<exists, active>>
             \/ CreateWrite(r) \/ StartInsert(r) \/ DeleteRemove(r)
  BY <1>3 DEF RequestStep, Enter, LookupFails, StartLookup, StartRefused, ActionLookup,
     CreateStat, SaveWrite, CommandStart, ConfigEnd, CommandEnd, Leave, DeleteCheck,
     DeleteUnlock
<1>4. ASSUME NEW t \in Tasks, TaskStep(t)
      PROVE  UNCHANGED <<exists, active>> \/ TaskFinish(t)
  BY <1>4 DEF TaskStep, TaskAsk, TaskEnter, TaskLookup, TaskPull, TaskPullEnd, TaskApply,
     TaskApplyEnd, TaskInspect, TaskRecord, TaskLeave
<1>. QED BY <1>1, <1>2, <1>3, <1>4 DEF Next

\* Every step of the gate, the table and the goroutines is a step of the ledger
\* or none: updates begin on projects that exist and are not being updated, and
\* a project disappears only while no update is queued or running.
THEOREM Refinement == Spec => ImplementsLedger
<1> DEFINE busy == {p \in Projects : active[p] # None}
<1>1. Init => Ledger!Init
  BY DEF Init, Ledger!Init
<1>2. IInv /\ [Next]_vars => [Ledger!Next]_<<exists, busy>>
  <2>. SUFFICES ASSUME IInv, [Next]_vars PROVE [Ledger!Next]_<<exists, busy>>
    OBVIOUS
  <2>1. CASE UNCHANGED <<exists, active>>
    BY <2>1
  <2>2. ASSUME NEW r \in Requests, CreateWrite(r) PROVE [Ledger!Next]_<<exists, busy>>
    <3>1. project[r] \in Projects /\ UNCHANGED active
      BY <2>2 DEF IInv, RequestInv, CreateWrite
    <3>2. CASE exists' = exists
      BY <3>1, <3>2
    <3>3. CASE exists' = exists \cup {project[r]} /\ project[r] \notin exists
      BY <3>1, <3>3 DEF Ledger!Next, Ledger!Create
    <3>. QED BY <2>2, <3>2, <3>3 DEF CreateWrite
  <2>3. ASSUME NEW r \in Requests, StartInsert(r) PROVE Ledger!Next
    <3>1. /\ project[r] \in Projects /\ project[r] \in exists \ busy
          /\ drawn[r] \in Tasks /\ drawn[r] # None
      BY <2>3, ActorAssumption DEF IInv, RequestInv, StartInsert, Actors
    <3>2. exists' = exists /\ busy' = busy \cup {project[r]}
      BY <2>3, <3>1 DEF IInv, TypeOK, StartInsert
    <3>. QED BY <3>1, <3>2 DEF Ledger!Next, Ledger!BeginUpdate
  <2>4. ASSUME NEW r \in Requests, DeleteRemove(r) PROVE [Ledger!Next]_<<exists, busy>>
    <3>1. project[r] \in Projects /\ busy = {} /\ UNCHANGED active
      BY <2>4 DEF IInv, RequestInv, DeleteInv, DeleteRemove
    <3>2. CASE exists' = exists
      BY <3>1, <3>2
    <3>3. CASE exists' = exists \ {project[r]} /\ project[r] \in exists
      BY <3>1, <3>3 DEF Ledger!Next, Ledger!Delete
    <3>. QED BY <2>4, <3>2, <3>3 DEF DeleteRemove
  <2>5. ASSUME NEW t \in Tasks, TaskFinish(t) PROVE Ledger!Next
    <3>1. project[t] \in Projects /\ project[t] \in busy
      BY <2>5, ActorAssumption
      DEF IInv, TaskInv, ActiveIffUnfinished, TaskFinish, Actors
    <3>2. exists' = exists /\ busy' = busy \ {project[t]}
      BY <2>5, <3>1 DEF IInv, TypeOK, TaskFinish
    <3>. QED BY <3>1, <3>2 DEF Ledger!Next, Ledger!EndUpdate
  <2>. QED BY <2>1, <2>2, <2>3, <2>4, <2>5, LedgerWriters
<1>. QED BY <1>1, <1>2, Invariance, PTL DEF Spec, ImplementsLedger, Ledger!Spec

=============================================================================
