---------------------------- MODULE UpdateStatus ----------------------------
(***************************************************************************)
(* The update status of images and what competes for it.  A check, daily   *)
(* or on request, reads the local images, asks the registries for minutes  *)
(* and writes all statuses at its end; an update task pulls, recreates and *)
(* marks its images "current"; DeleteImage removes an image.  All of them  *)
(* overlap: the gate is shared and updateMu is held only for the write.    *)
(*                                                                         *)
(* A digest is a number and stands for the image itself: Docker's image id *)
(* and the registry digest of its manifest.  A project has one service.    *)
(***************************************************************************)
EXTENDS Naturals, FiniteSets

CONSTANTS
  Tags,        \* canonical image references
  Projects,    \* projects, each with the update task that may run for it
  Checks,      \* CheckImageUpdates running at the same time
  Deletes,     \* DeleteImage handlers
  Endpoints,   \* the registry and its mirrors, in the order of registryEndpoints
  MaxDigest,   \* digests ever pushed: a bound for TLC
  MaxMoves,    \* changes made by the world outside: a bound for TLC
  None

Digests == 1..MaxDigest
Writers == Checks \cup Projects
Actors  == Writers \cup Deletes

ASSUME StatusAssumption ==
  /\ MaxDigest \in Nat \ {0} /\ MaxMoves \in Nat
  /\ IsFiniteSet(Tags) /\ IsFiniteSet(Projects) /\ Endpoints # {}
  /\ None \notin Tags \cup Digests
  /\ Checks \cap Projects = {} /\ Writers \cap Deletes = {}

VARIABLES
  registry,   \* per endpoint and tag: the digest it serves
  images,     \* images the Docker daemon has
  local,      \* per tag: the image it names, or None
  file,       \* per project: the tag its Compose file names, or None
  container,  \* per project: its container's tag and image, or None
  updateMap,  \* per tag: Service.updateMap, "none" without an entry
  pc,         \* per actor: where it is
  snap,       \* per check: local as Docker listed it
  result,     \* per check and tag: UpdateStatus so far, "none" not asked yet
  marks,      \* per update: references of the project's containers
  victim,     \* per DeleteImage: what it read of its image
  truths,     \* ghost, per writer and tag: what was so since it began
  edited,     \* ghost, per update: the Compose file was changed meanwhile
  holders,    \* ghost, per DeleteImage: projects whose file named the image all along
  moves

docker  == <<images, local, container>>
world   == <<registry, file, moves>>
working == <<snap, result, marks, victim>>
ghosts  == <<truths, edited, holders>>
vars    == <<registry, images, local, file, container, updateMap, pc, snap,
             result, marks, victim, truths, edited, holders, moves>>

Statuses == {"none", "unknown", "current", "available"}
NoVictim == [id |-> None, tags |-> {}, used |-> FALSE, errors |-> FALSE]

TypeOK ==
  /\ registry \in [Endpoints -> [Tags -> Digests]]
  /\ images \subseteq Digests
  /\ local \in [Tags -> images \cup {None}]
  /\ file \in [Projects -> Tags \cup {None}]
  /\ \A p \in Projects : container[p] # None =>
       container[p].tag \in Tags /\ container[p].image \in images
  /\ updateMap \in [Tags -> Statuses]
  /\ snap \in [Checks -> [Tags -> Digests \cup {None}]]
  /\ result \in [Checks -> [Tags -> Statuses]]
  /\ marks \in [Projects -> SUBSET Tags]
  /\ \A d \in Deletes : victim[d].id \in Digests \cup {None} /\ victim[d].tags \subseteq Tags
  /\ truths \in [Writers -> [Tags -> SUBSET {"current", "available"}]]
  /\ edited \in [Projects -> BOOLEAN]
  /\ holders \in [Deletes -> SUBSET Projects]
  /\ moves \in 0..MaxMoves

\* What is so of a tag: an endpoint may lag behind, so it can be both, and of
\* an image that is gone anything may be said.
SoNow(reg, loc, t) ==
  IF loc[t] = None THEN {"current", "available"}
  ELSE {IF reg[e][t] = loc[t] THEN "current" ELSE "available" : e \in Endpoints}

Init ==
  /\ registry = [e \in Endpoints |-> [t \in Tags |-> 1]]
  /\ file \in [Projects -> Tags]
  /\ container \in [Projects -> {None} \cup [tag : Tags, image : {1}]]
  /\ \A p \in Projects : container[p] # None => container[p].tag = file[p]
  /\ images = {1} /\ local = [t \in Tags |-> 1]
  /\ updateMap = [t \in Tags |-> "none"]
  /\ pc = [a \in Actors |-> "idle"]
  /\ snap = [c \in Checks |-> [t \in Tags |-> None]]
  /\ result = [c \in Checks |-> [t \in Tags |-> "none"]]
  /\ marks = [p \in Projects |-> {}] /\ victim = [d \in Deletes |-> NoVictim]
  /\ truths = [w \in Writers |-> [t \in Tags |-> {}]]
  /\ edited = [p \in Projects |-> FALSE] /\ holders = [d \in Deletes |-> {}]
  /\ moves = 0

Go(a, there) == pc' = [pc EXCEPT ![a] = there]

\* The ghosts: what became so, for whoever is at work, and whose Compose file
\* still names the image of a DeleteImage by the same tag.
Observe ==
  /\ truths' = [w \in Writers |-> [t \in Tags |->
       IF pc'[w] = "idle" THEN {}
       ELSE (IF pc[w] = "idle" THEN {} ELSE truths[w][t]) \cup SoNow(registry', local', t)]]
  /\ holders' = [d \in Deletes |->
       IF pc'[d] = "idle" THEN {}
       ELSE {p \in (IF pc[d] = "idle" THEN Projects ELSE holders[d]) :
               /\ file'[p] = file[p] /\ file'[p] # None
               /\ local'[file'[p]] = victim'[d].id}]

-----------------------------------------------------------------------------
(* The world outside.                                                      *)

Move == moves < MaxMoves /\ moves' = moves + 1

\* A tag is pushed to the registry, or a mirror catches up with another endpoint.
Push(e, t, d) ==
  /\ Move
  /\ registry' = [registry EXCEPT ![e][t] = d]
  /\ UNCHANGED <<docker, file, updateMap, pc, working, edited>> /\ Observe

\* A Compose file is saved: the editor shares the gate with updates.
Edit(p, t) ==
  /\ Move
  /\ file' = [file EXCEPT ![p] = t]
  /\ edited' = [edited EXCEPT ![p] = TRUE]
  /\ UNCHANGED <<docker, registry, updateMap, pc, working>> /\ Observe

\* Somebody removes a container.
Discard(p) ==
  /\ container[p] # None /\ Move
  /\ container' = [container EXCEPT ![p] = None]
  /\ UNCHANGED <<images, local, registry, file, updateMap, pc, working, edited>> /\ Observe

World ==
  \/ \E e \in Endpoints, t \in Tags, d \in Digests : Push(e, t, d)
  \/ \E p \in Projects, t \in Tags \cup {None} : Edit(p, t)
  \/ \E p \in Projects : Discard(p)

-----------------------------------------------------------------------------
(* CheckImageUpdates.                                                      *)

\* Docker's list of images; without it the check ends here.
CheckImages(c) ==
  /\ pc[c] = "idle" /\ Go(c, "ask")
  /\ snap' = [snap EXCEPT ![c] = local]
  /\ UNCHANGED <<docker, world, updateMap, result, marks, victim, edited>> /\ Observe

Asked(c)   == {t \in Tags : snap[c][t] # None}
Compare(c, t, remote) == IF remote = snap[c][t] THEN "current" ELSE "available"

\* Broken: without an answer the status of the list stays, an earlier check's.
CheckDigestKeeps(c, t) ==
  /\ pc[c] = "ask" /\ t \in Asked(c) /\ result[c][t] = "none"
  /\ \E s \in {updateMap[t]} \cup {Compare(c, t, registry[e][t]) : e \in Endpoints} :
       result' = [result EXCEPT ![c][t] = s]
  /\ UNCHANGED <<docker, world, updateMap, pc, snap, marks, victim, edited>> /\ Observe

\* RegistryChecker.Digest asks the endpoints until one answers: which one that
\* is, is anybody's guess.  With no answer, a cancelled caller or an image
\* without a digest the status is unknown.  Twelve run at once, in any order.
CheckDigest(c, t) ==
  /\ pc[c] = "ask" /\ t \in Asked(c) /\ result[c][t] = "none"
  /\ \E s \in {"unknown"} \cup {Compare(c, t, registry[e][t]) : e \in Endpoints} :
       result' = [result EXCEPT ![c][t] = s]
  /\ UNCHANGED <<docker, world, updateMap, pc, snap, marks, victim, edited>> /\ Observe

\* All answers are in; every status goes into the map in one critical section.
CheckWrite(c) ==
  /\ pc[c] = "ask" /\ \A t \in Asked(c) : result[c][t] # "none"
  /\ updateMap' = [t \in Tags |-> IF t \in Asked(c) THEN result[c][t] ELSE updateMap[t]]
  /\ snap' = [snap EXCEPT ![c] = [t \in Tags |-> None]]
  /\ result' = [result EXCEPT ![c] = [t \in Tags |-> "none"]]
  /\ Go(c, "idle")
  /\ UNCHANGED <<docker, world, marks, victim, edited>> /\ Observe

Check(c) == CheckImages(c) \/ (\E t \in Tags : CheckDigest(c, t)) \/ CheckWrite(c)

-----------------------------------------------------------------------------
(* runUpdateTask, from the task's start to its result.                     *)

Begin(p) ==
  /\ pc[p] = "idle" /\ Go(p, "pull")
  /\ edited' = [edited EXCEPT ![p] = FALSE]
  /\ UNCHANGED <<docker, world, updateMap, working>> /\ Observe

Fetch(t) ==
  \E e \in Endpoints :
    /\ images' = images \cup {registry[e][t]}
    /\ local' = [local EXCEPT ![t] = registry[e][t]]

\* docker compose pull, for the file as it is now; a failure ends the task.
Pull(p) ==
  /\ pc[p] = "pull"
  /\ \/ Go(p, "apply") /\ IF file[p] = None THEN UNCHANGED <<images, local>> ELSE Fetch(file[p])
     \/ Go(p, "idle") /\ UNCHANGED <<images, local>>
  /\ UNCHANGED <<container, world, updateMap, working, edited>> /\ Observe

\* docker compose up -d: a missing image is pulled, the container made anew.
Recreate(p) ==
  LET t == file[p]
  IN  /\ IF t # None /\ local[t] = None THEN Fetch(t) ELSE UNCHANGED <<images, local>>
      /\ container' = [container EXCEPT ![p] =
                         IF t = None THEN None ELSE [tag |-> t, image |-> local'[t]]]

\* It may fail before and after it did something.
Apply(p) ==
  /\ pc[p] = "apply"
  /\ \/ (Go(p, "inspect") \/ Go(p, "idle")) /\ Recreate(p)
     \/ Go(p, "idle") /\ UNCHANGED docker
  /\ UNCHANGED <<world, updateMap, working, edited>> /\ Observe

\* The lists of containers and images; an error ends the task.
Inspect(p) ==
  /\ pc[p] = "inspect"
  /\ \/ Go(p, "mark") /\ marks' = [marks EXCEPT ![p] =
                           IF container[p] = None THEN {} ELSE {container[p].tag}]
     \/ Go(p, "idle") /\ UNCHANGED marks
  /\ UNCHANGED <<docker, world, updateMap, snap, result, victim, edited>> /\ Observe

\* markUpdatedImagesCurrent; the row and the end of the task change nothing here.
Mark(p) ==
  /\ pc[p] = "mark" /\ Go(p, "idle")
  /\ updateMap' = [t \in Tags |-> IF t \in marks[p] THEN "current" ELSE updateMap[t]]
  /\ marks' = [marks EXCEPT ![p] = {}]
  /\ UNCHANGED <<docker, world, snap, result, victim, edited>> /\ Observe

Update(p) == Begin(p) \/ Pull(p) \/ Apply(p) \/ Inspect(p) \/ Mark(p)

-----------------------------------------------------------------------------
(* DeleteImage: three reads, a decision and the daemon's own.              *)

Is(d, there, v) == Go(d, there) /\ victim' = [victim EXCEPT ![d] = v]
Refuse(d) == Is(d, "idle", NoVictim)

DelImages(d, id) ==
  /\ pc[d] = "idle" /\ id \in images
  /\ Is(d, "containers", [NoVictim EXCEPT !.id = id, !.tags = {t \in Tags : local[t] = id}])
  /\ UNCHANGED <<docker, world, updateMap, snap, result, marks, edited>> /\ Observe

\* Without the containers the scan still runs.
DelContainers(d) ==
  /\ pc[d] = "containers"
  /\ \/ Is(d, "scan", [victim[d] EXCEPT !.used =
            \E p \in Projects : container[p] # None /\ container[p].image = victim[d].id])
     \/ Is(d, "scan", [victim[d] EXCEPT !.errors = TRUE])
  /\ UNCHANGED <<docker, world, updateMap, snap, result, marks, edited>> /\ Observe

Named(d) == \E p \in Projects : file[p] \in victim[d].tags

\* Broken: a failed scan counts as a scan without references.
DelScanTolerant(d) ==
  /\ pc[d] = "scan"
  /\ \/ Refuse(d)
     \/ /\ ~victim[d].errors /\ ~victim[d].used
        /\ Is(d, "remove", victim[d])
  /\ UNCHANGED <<docker, world, updateMap, snap, result, marks, edited>> /\ Observe

\* Incomplete data never authorizes: an error of either read refuses.
DelScan(d) ==
  /\ pc[d] = "scan"
  /\ \/ Refuse(d)
     \/ /\ ~victim[d].errors /\ ~victim[d].used /\ ~Named(d)
        /\ Is(d, "remove", victim[d])
  /\ UNCHANGED <<docker, world, updateMap, snap, result, marks, edited>> /\ Observe

\* Broken: the request to the daemon has force=true.
DelRemoveForced(d) ==
  /\ pc[d] = "remove" /\ Refuse(d)
  /\ images' = images \ {victim[d].id}
  /\ local' = [t \in Tags |-> IF local[t] = victim[d].id THEN None ELSE local[t]]
  /\ UNCHANGED <<container, world, updateMap, snap, result, marks, edited>> /\ Observe

\* Without force the daemon refuses an image of a container, or of two tags.
DelRemove(d) ==
  LET id == victim[d].id
      free == /\ \A p \in Projects : container[p] # None => container[p].image # id
              /\ Cardinality({t \in Tags : local[t] = id}) <= 1
  IN  /\ pc[d] = "remove" /\ Refuse(d)
      /\ \/ UNCHANGED <<images, local>>
         \/ /\ free /\ images' = images \ {id}
            /\ local' = [t \in Tags |-> IF local[t] = id THEN None ELSE local[t]]
      /\ UNCHANGED <<container, world, updateMap, snap, result, marks, edited>> /\ Observe

Delete(d) ==
  \/ \E id \in Digests : DelImages(d, id)
  \/ DelContainers(d) \/ DelScan(d) \/ DelRemove(d)

Next ==
  \/ World
  \/ \E c \in Checks : Check(c)
  \/ \E p \in Projects : Update(p)
  \/ \E d \in Deletes : Delete(d)

Spec == Init /\ [][Next]_vars

-----------------------------------------------------------------------------
(* Properties. *)

\* The tags whose status w writes in this step.
Written(w) == IF pc'[w] # "idle" THEN {}
              ELSE IF pc[w] = "ask" THEN Asked(w)
              ELSE IF pc[w] = "mark" THEN marks[w] ELSE {}

\* A status that is written was so at some moment since its writer began, of
\* some endpoint, although the local image was listed minutes before the
\* registry answered, and both may have moved and moved back since.  For an
\* update this needs that nobody edited the Compose file between its pull and
\* its apply: then "current" is written of an image that was never pulled
\* (service.go 519-564, 588-607, 683-695).
StatusWasTrue ==
  [][\A w \in Writers : \A t \in Written(w) :
       /\ updateMap'[t] \in {"current", "available"}
       /\ w \in Projects => ~edited[w]
       => updateMap'[t] \in truths[w][t]]_vars

\* An image that a Compose file named by one tag from the request to the end is
\* not deleted, whatever moves between the three reads and the removal, and
\* whichever of the reads fails (service.go 434-437, 475-517).
NamedImageIsKept ==
  [][\A d \in Deletes :
       pc[d] = "remove" /\ victim[d].id \notin images' => holders[d] = {}]_vars

\* TASKS.md 82: "after a successful update the 'has update' cache of the
\* service is cleared at once".  What was cleared stays clear while no endpoint
\* has anything but the local image.
ClearedStaysClear ==
  [][\A t \in Tags :
       updateMap[t] = "current" /\ updateMap'[t] = "available"
         => \E e \in Endpoints : registry[e][t] # local[t]]_vars

=============================================================================
