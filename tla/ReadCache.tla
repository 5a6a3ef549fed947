----------------------------- MODULE ReadCache -----------------------------
(***************************************************************************)
(* The two caches behind the display pages.  Discovery keeps a snapshot of *)
(* its scan for 30 s, sampleContainerStats keeps samples for 5 s, each     *)
(* under a mutex that is held over the slow part: the disk walk, the reads *)
(* from the daemon.  A list takes the first, then the containers, then the *)
(* second.  Every handler and task that changes something invalidates both *)
(* when it returns, a refresh before it reads.                             *)
(*                                                                         *)
(* What is read is a version number: of the Compose files (Files), or of a *)
(* container's resource usage.  Every change makes a new one.              *)
(***************************************************************************)
EXTENDS Naturals

CONSTANTS
  Lists,       \* requests that list projects or containers, or refresh
  Changers,    \* handlers and tasks that change a file or a container
  Files,       \* the Compose files, one object
  Containers,
  MaxVersion,  \* changes of an object: a bound for TLC
  None

Actors  == Lists \cup Changers
Objects == {Files} \cup Containers

ASSUME CacheAssumption ==
  /\ MaxVersion \in Nat /\ None \notin Actors \cup Nat
  /\ Lists \cap Changers = {} /\ Files \notin Containers

VARIABLES
  now,       \* per object: its version
  cached,    \* Discovery.cached: version of the files, or None
  samples,   \* statsCache: version per container, or None
  cacheMu,   \* who holds it, or None
  statsMu,
  pc,        \* per actor: where it is
  shown,     \* per list and object: what it will answer, or None
  pending,   \* per list: containers yet to be sampled
  answered,  \* ghost, per object: the last version that a changer answered for
  mine,      \* ghost, per changer: the object it changed and the version it made
  floor      \* ghost, per list and object: what it must show at least

caches == <<cached, samples>>
ghosts == <<answered, mine, floor>>
vars   == <<now, cached, samples, cacheMu, statsMu, pc, shown, pending,
            answered, mine, floor>>

Versions == 0..MaxVersion
Walking  == {"scan", "keep"}
Pcs == Walking \cup {"idle", "clear", "clearStats", "wait", "daemon", "sample"}

TypeOK ==
  /\ now \in [Objects -> Versions] /\ answered \in [Objects -> Versions]
  /\ cached \in Versions \cup {None}
  /\ samples \in [Containers -> Versions \cup {None}]
  /\ cacheMu \in Actors \cup {None} /\ statsMu \in Actors \cup {None}
  /\ pc \in [Actors -> Pcs]
  /\ shown \in [Lists -> [Objects -> Versions \cup {None}]]
  /\ pending \in [Lists -> SUBSET Containers]
  /\ mine \in [Changers -> [object : Objects, version : Versions]]
  /\ floor \in [Lists -> [Objects -> Versions]]
  /\ \A a \in Actors : /\ pc[a] \in Walking <=> cacheMu = a
                       /\ pc[a] = "sample" <=> statsMu = a

Nothing == [o \in Objects |-> None]
Unowed  == [o \in Objects |-> 0]
NoChange == [object |-> Files, version |-> 0]

Init ==
  /\ now = [o \in Objects |-> 0] /\ answered = now
  /\ cached = None /\ samples = [k \in Containers |-> None]
  /\ cacheMu = None /\ statsMu = None
  /\ pc = [a \in Actors |-> "idle"]
  /\ shown = [l \in Lists |-> Nothing] /\ pending = [l \in Lists |-> {}]
  /\ mine = [c \in Changers |-> NoChange]
  /\ floor = [l \in Lists |-> Unowed]

Go(a, there) == pc' = [pc EXCEPT ![a] = there]

-----------------------------------------------------------------------------
(* Requests, changes and the world outside.                                *)

\* A list begins: it owes its caller what was answered for before.  The
\* container page does not scan.
List(l) ==
  /\ pc[l] = "idle" /\ (Go(l, "wait") \/ Go(l, "daemon"))
  /\ floor' = [floor EXCEPT ![l] = answered]
  /\ UNCHANGED <<now, caches, cacheMu, statsMu, shown, pending, answered, mine>>

\* A refresh invalidates first: it owes its caller all that is so.
Refresh(l) ==
  /\ pc[l] = "idle" /\ Go(l, "clear")
  /\ floor' = [floor EXCEPT ![l] = now]
  /\ UNCHANGED <<now, caches, cacheMu, statsMu, shown, pending, answered, mine>>

\* A project or container is changed.
Change(c, o) ==
  /\ pc[c] = "idle" /\ now[o] < MaxVersion
  /\ now' = [now EXCEPT ![o] = @ + 1]
  /\ mine' = [mine EXCEPT ![c] = [object |-> o, version |-> now[o] + 1]]
  /\ Go(c, "clear")
  /\ UNCHANGED <<caches, cacheMu, statsMu, shown, pending, answered, floor>>

\* Somebody edits a file on the host, a container works.
Outside(o) ==
  /\ now[o] < MaxVersion /\ now' = [now EXCEPT ![o] = @ + 1]
  /\ UNCHANGED <<caches, cacheMu, statsMu, pc, shown, pending, ghosts>>

-----------------------------------------------------------------------------
(* invalidateReadCaches: one mutex after the other.                        *)

\* Broken: the snapshot is cleared without the mutex.
InvalidateUnlocked(a) ==
  /\ pc[a] = "clear" /\ cached' = None /\ Go(a, "clearStats")
  /\ UNCHANGED <<now, samples, cacheMu, statsMu, shown, pending, ghosts>>

\* Broken: the mutex is not released.
InvalidateLeaks(a) ==
  /\ pc[a] = "clear" /\ cacheMu = None
  /\ cached' = None /\ cacheMu' = a /\ Go(a, "clearStats")
  /\ UNCHANGED <<now, samples, statsMu, shown, pending, ghosts>>

Invalidate(a) ==
  /\ pc[a] = "clear" /\ cacheMu = None
  /\ cached' = None /\ Go(a, "clearStats")
  /\ UNCHANGED <<now, samples, cacheMu, statsMu, shown, pending, ghosts>>

\* The last a changer does; a refresh goes on as a list.
AfterInvalidate(a) ==
  IF a \in Lists THEN Go(a, "wait") /\ UNCHANGED <<answered, mine>>
  ELSE LET o == mine[a].object
           v == mine[a].version
       IN  /\ Go(a, "idle") /\ mine' = [mine EXCEPT ![a] = NoChange]
           /\ answered' = [answered EXCEPT ![o] = IF v > @ THEN v ELSE @]

InvalidateStats(a) ==
  /\ pc[a] = "clearStats" /\ statsMu = None /\ AfterInvalidate(a)
  /\ samples' = [k \in Containers |-> None]
  /\ UNCHANGED <<now, cached, cacheMu, statsMu, shown, pending, floor>>

-----------------------------------------------------------------------------
(* CachedScan.                                                             *)

Release(l) == cacheMu' = None /\ Go(l, "daemon")
Show(l, o, v) == shown' = [shown EXCEPT ![l][o] = v]

\* The snapshot is younger than 30 s.
Hit(l) ==
  /\ pc[l] = "wait" /\ cacheMu = None /\ cached # None
  /\ Show(l, Files, cached) /\ Go(l, "daemon")
  /\ UNCHANGED <<now, caches, cacheMu, statsMu, pending, ghosts>>

\* There is none, or it is 30 s old: the mutex is held over the scan.
Miss(l) ==
  /\ pc[l] = "wait" /\ cacheMu = None
  /\ cacheMu' = l /\ Go(l, "scan")
  /\ UNCHANGED <<now, caches, statsMu, shown, pending, ghosts>>

\* Broken: a return on the caller's cancellation keeps the mutex.
GiveUpLeaks(l) ==
  /\ pc[l] = "scan" /\ Go(l, "daemon")
  /\ UNCHANGED <<now, caches, cacheMu, statsMu, shown, pending, ghosts>>

\* The caller has gone away, or the scan fails: the list goes on without files.
GiveUp(l) ==
  /\ pc[l] = "scan" /\ Release(l)
  /\ UNCHANGED <<now, caches, statsMu, shown, pending, ghosts>>

\* The walk reads the project's file.
Scan(l) ==
  /\ pc[l] = "scan" /\ Go(l, "keep") /\ Show(l, Files, now[Files])
  /\ UNCHANGED <<now, caches, cacheMu, statsMu, pending, ghosts>>

Keep(l) ==
  /\ pc[l] = "keep" /\ cached' = shown[l][Files] /\ Release(l)
  /\ UNCHANGED <<now, samples, statsMu, shown, pending, ghosts>>

-----------------------------------------------------------------------------
(* The containers and sampleContainerStats.                                *)

Reply(l) ==
  /\ Go(l, "idle") /\ shown' = [shown EXCEPT ![l] = Nothing]
  /\ floor' = [floor EXCEPT ![l] = Unowed]

\* The daemon does not list: a list that has no files either ends.
NoContainers(l) ==
  /\ pc[l] = "daemon" /\ shown[l][Files] = None /\ Reply(l)
  /\ UNCHANGED <<now, caches, cacheMu, statsMu, pending, answered, mine>>

\* It lists those that run.  Under the mutex: samples younger than 5 s are
\* taken, those of containers that do not run are dropped, the others are to be
\* read.
LockStats(l) ==
  /\ pc[l] = "daemon" /\ statsMu = None
  /\ statsMu' = l /\ Go(l, "sample")
  /\ \E running \in SUBSET Containers :
       /\ samples' = [k \in Containers |-> IF k \in running THEN samples[k] ELSE None]
       /\ \E fresh \in SUBSET {k \in running : samples[k] # None} :
            /\ shown' = [shown EXCEPT ![l] = [o \in Objects |-> IF o \in fresh THEN samples[o] ELSE @[o]]]
            /\ pending' = [pending EXCEPT ![l] = running \ fresh]
  /\ UNCHANGED <<now, cached, cacheMu, ghosts>>

\* A worker's read, or its failure, or the end of the queue with the caller.
Read(l, k) ==
  /\ pc[l] = "sample" /\ k \in pending[l]
  /\ pending' = [pending EXCEPT ![l] = @ \ {k}]
  /\ Show(l, k, now[k]) \/ UNCHANGED shown
  /\ UNCHANGED <<now, caches, cacheMu, statsMu, pc, ghosts>>

\* Only what was read is kept; the list answers.
Store(l) ==
  /\ pc[l] = "sample" /\ pending[l] = {}
  /\ samples' = [k \in Containers |-> IF shown[l][k] # None THEN shown[l][k] ELSE samples[k]]
  /\ statsMu' = None /\ Reply(l)
  /\ UNCHANGED <<now, cached, cacheMu, pending, answered, mine>>

ListStep(l) ==
  \/ Invalidate(l) \/ InvalidateStats(l)
  \/ Hit(l) \/ Miss(l) \/ GiveUp(l) \/ Scan(l) \/ Keep(l)
  \/ NoContainers(l) \/ LockStats(l) \/ (\E k \in Containers : Read(l, k))
  \/ Store(l)

Next ==
  \/ \E l \in Lists : List(l) \/ Refresh(l) \/ ListStep(l)
  \/ \E c \in Changers : \/ \E o \in Objects : Change(c, o)
                         \/ Invalidate(c) \/ InvalidateStats(c)
  \/ \E o \in Objects : Outside(o)

Spec == Init /\ [][Next]_vars

(* Runnable goroutines run, scans and reads end, and sync.Mutex serves a   *)
(* waiter of more than 1 ms first.  Nothing makes anybody send a request.  *)
Acquire(a) ==
  \/ Invalidate(a) \/ InvalidateStats(a)
  \/ a \in Lists /\ (Hit(a) \/ Miss(a) \/ LockStats(a))

Fairness ==
  /\ \A l \in Lists : WF_vars(ListStep(l))
  /\ \A a \in Actors : SF_vars(Acquire(a))

FairSpec == Spec /\ Fairness

-----------------------------------------------------------------------------
(* Properties. *)

\* A list that was asked for after a change had been answered shows the change,
\* in its files and in its samples, and a refresh shows what was so when it was
\* asked for, although scans and reads that began earlier end in between and
\* store what they saw (discovery.go 52-76, stats_cache.go 23-92, service.go
\* 68-85).
ShowsWhatWasAnswered ==
  [][\A l \in Lists, o \in Objects :
       pc[l] # "idle" /\ pc'[l] = "idle" /\ shown[l][o] # None
         => shown[l][o] >= floor[l][o]]_vars

\* Nobody waits for a mutex of a cache for ever, and nobody holds one while he
\* waits for the other (discovery.go 52-76, stats_cache.go 23-92).
EveryoneReturns == \A a \in Actors : pc[a] # "idle" ~> pc[a] = "idle"

=============================================================================
