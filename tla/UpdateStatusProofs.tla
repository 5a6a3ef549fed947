------------------------- MODULE UpdateStatusProofs -------------------------
(***************************************************************************)
(* Proofs about UpdateStatus, for any number of references, projects,      *)
(* checks, deletions and endpoints.  Inv is the inductive invariant: Now   *)
(* ties the ghosts to the present, and one part per kind of actor says     *)
(* what its local data is still worth.                                     *)
(***************************************************************************)
EXTENDS UpdateStatus, TLAPS

Victims    == [id : Digests \cup {None}, tags : SUBSET Tags, used : BOOLEAN, errors : BOOLEAN]
Containers == {None} \cup [tag : Tags, image : Digests]
Both       == {"current", "available"}
Places     == {"idle", "ask", "pull", "apply", "inspect", "mark", "containers", "scan", "remove"}

Typed ==
  /\ TypeOK
  /\ container \in [Projects -> Containers]
  /\ victim \in [Deletes -> Victims]
  /\ pc \in [Actors -> Places]
  /\ \A c \in Checks : pc[c] \in {"idle", "ask"}
  /\ \A p \in Projects : pc[p] \in {"idle", "pull", "apply", "inspect", "mark"}
  /\ \A d \in Deletes : pc[d] \in {"idle", "containers", "scan", "remove"}

\* What is so now is among what was so since a writer at work began.
Now == \A w \in Writers : \A t \in Tags :
         pc[w] # "idle" => SoNow(registry, local, t) \subseteq truths[w][t]

\* A list of images is current, or both answers have been true since; and an
\* answer that was taken has been true.
CheckOf(c) ==
  \A t \in Tags :
    /\ pc[c] = "idle" => result[c][t] = "none"
    /\ pc[c] = "ask" /\ snap[c][t] # None =>
         /\ local[t] = snap[c][t] \/ Both \subseteq truths[c][t]
         /\ result[c][t] \in Both => result[c][t] \in truths[c][t]
CheckInv == \A c \in Checks : CheckOf(c)

\* What an update pulled, recreated and is about to mark was current since it
\* began, unless its Compose file was edited meanwhile.
UpdateInv ==
  \A p \in Projects : ~edited[p] =>
    /\ pc[p] = "apply" /\ file[p] # None => "current" \in truths[p][file[p]]
    /\ pc[p] = "inspect" /\ container[p] # None =>
         container[p].tag = file[p] /\ "current" \in truths[p][file[p]]
    /\ pc[p] = "mark" => \A t \in marks[p] : "current" \in truths[p][t]

\* A Compose file that has named the image all along names it by a tag the
\* deletion has read, and after a scan that allowed the removal there is none.
DeleteInv ==
  \A d \in Deletes :
    /\ pc[d] # "idle" => \A p \in holders[d] : file[p] \in victim[d].tags
    /\ pc[d] = "remove" => holders[d] = {}

Inv == Typed /\ Now /\ CheckInv /\ UpdateInv /\ DeleteInv

USE DEF Go, Is, Refuse, Actors, Writers

-----------------------------------------------------------------------------
(* What the ghosts give, and what the others' steps leave alone.           *)

\* After every step the ghosts hold what is so now, and forget nothing while
\* their writer is at work.
LEMMA Observed ==
  ASSUME Observe
  PROVE  /\ Now'
         /\ \A w \in Writers : \A t \in Tags :
              pc[w] # "idle" /\ pc'[w] # "idle" => truths[w][t] \subseteq truths'[w][t]
  BY DEF Observe, Now

\* A reference moves in a step, or it stays as it is.
Moves(t) == \/ local'[t] = local[t]
            \/ local'[t] = None
            \/ registry' = registry /\ \E e \in Endpoints : local'[t] = registry[e][t]

\* The reference that a pull brought in is current, and if it moved at the same
\* time what it had been before is no longer so.
LEMMA MovedIsBoth ==
  ASSUME Inv, Observe, NEW w \in Writers, NEW t \in Tags,
         pc[w] # "idle", pc'[w] # "idle", Moves(t), local'[t] # local[t]
  PROVE  Both \subseteq truths'[w][t]
<1>1. SoNow(registry', local', t) \subseteq truths'[w][t]
  BY Observed DEF Now
<1>2. SoNow(registry, local, t) \subseteq truths'[w][t]
  BY Observed DEF Now, Inv
<1>3. CASE local'[t] = None
  BY <1>1, <1>3 DEF SoNow, Both
<1>4. CASE local[t] = None
  BY <1>2, <1>4 DEF SoNow, Both
<1>5. CASE local'[t] # None /\ local[t] # None
  <2>1. PICK e \in Endpoints : registry' = registry /\ local'[t] = registry[e][t]
    BY <1>5 DEF Moves
  <2>2. "current" \in SoNow(registry', local', t)
    BY <1>5, <2>1 DEF SoNow
  <2>3. "available" \in SoNow(registry, local, t)
    BY <1>5, <2>1 DEF SoNow
  <2>. QED BY <1>1, <1>2, <2>2, <2>3 DEF Both
<1>. QED BY <1>3, <1>4, <1>5

\* Whatever moves under a check that is not taking a step itself.
LEMMA CheckKept ==
  ASSUME Inv, Observe, \A t \in Tags : Moves(t), NEW c \in Checks,
         pc'[c] = pc[c], snap'[c] = snap[c], result'[c] = result[c]
  PROVE  CheckOf(c)'
<1>. SUFFICES ASSUME NEW t \in Tags, pc[c] = "ask", snap[c][t] # None
              PROVE  /\ local'[t] = snap[c][t] \/ Both \subseteq truths'[c][t]
                     /\ result[c][t] \in Both => result[c][t] \in truths'[c][t]
  BY DEF CheckOf, CheckInv, Inv
<1>1. truths[c][t] \subseteq truths'[c][t]
  BY Observed
<1>2. /\ local[t] = snap[c][t] \/ Both \subseteq truths[c][t]
      /\ result[c][t] \in Both => result[c][t] \in truths[c][t]
  BY DEF Inv, CheckInv, CheckOf
<1>3. CASE local'[t] = local[t]
  BY <1>1, <1>2, <1>3
<1>4. CASE local'[t] # local[t]
  BY <1>1, <1>2, <1>4, MovedIsBoth
<1>. QED BY <1>3, <1>4

\* What holds for an update goes on to hold while it takes no step, its file is
\* not edited and its container is not made anew.
LEMMA UpdateKept ==
  ASSUME Inv, Observe, NEW p \in Projects, pc'[p] = pc[p], edited'[p] \/ file'[p] = file[p],
         edited[p] => edited'[p], marks'[p] = marks[p],
         container'[p] = None \/ container'[p] = container[p],
         ~edited'[p]
  PROVE  /\ pc'[p] = "apply" /\ file'[p] # None => "current" \in truths'[p][file'[p]]
         /\ pc'[p] = "inspect" /\ container'[p] # None =>
              container'[p].tag = file'[p] /\ "current" \in truths'[p][file'[p]]
         /\ pc'[p] = "mark" => \A t \in marks'[p] : "current" \in truths'[p][t]
<1>1. file[p] \in Tags \cup {None} /\ marks[p] \subseteq Tags
  BY DEF Inv, Typed, TypeOK
<1>2. container[p] # None => container[p].tag \in Tags
  BY DEF Inv, Typed, TypeOK
<1>3. \A t \in Tags : pc[p] # "idle" => truths[p][t] \subseteq truths'[p][t]
  BY Observed
<1>. QED BY <1>1, <1>2, <1>3 DEF Inv, UpdateInv

\* The files that go on naming an image are among those that named it before.
LEMMA DeleteKept ==
  ASSUME Inv, Observe, NEW d \in Deletes, pc[d] # "idle",
         pc'[d] = "idle" \/ victim'[d].tags = victim[d].tags
  PROVE  /\ holders'[d] \subseteq holders[d]
         /\ pc'[d] # "idle" => \A p \in holders'[d] : file'[p] \in victim'[d].tags
  BY DEF Observe, Inv, DeleteInv

\* A step that no deletion takes.
LEMMA DeletesKept ==
  ASSUME Inv, Observe, UNCHANGED victim, \A d \in Deletes : pc'[d] = pc[d]
  PROVE  DeleteInv'
<1>. SUFFICES ASSUME NEW d \in Deletes
              PROVE  /\ pc'[d] # "idle" => \A p \in holders'[d] : file'[p] \in victim'[d].tags
                     /\ pc'[d] = "remove" => holders'[d] = {}
  BY DEF DeleteInv
<1>1. CASE pc[d] = "idle"
  BY <1>1
<1>2. CASE pc[d] # "idle"
  BY <1>2, DeleteKept DEF Inv, DeleteInv
<1>. QED BY <1>1, <1>2

\* The ghosts keep their types.
LEMMA ObservedTypes ==
  ASSUME Inv, Observe
  PROVE  /\ truths' \in [Writers -> [Tags -> SUBSET Both]]
         /\ holders' \in [Deletes -> SUBSET Projects]
<1>1. \A t \in Tags : SoNow(registry', local', t) \subseteq Both
  BY DEF SoNow, Both
<1>2. \A w \in Writers : \A t \in Tags : truths[w][t] \subseteq Both
  BY DEF Inv, Typed, TypeOK, Both
<1>3. truths' \in [Writers -> [Tags -> SUBSET Both]]
  BY <1>1, <1>2 DEF Observe
<1>4. holders' \in [Deletes -> SUBSET Projects]
  BY DEF Inv, Typed, TypeOK, Observe
<1>. QED BY <1>3, <1>4

-----------------------------------------------------------------------------
(* One lemma per action.                                                   *)

USE DEF docker, world, working

\* The state Init describes satisfies the invariant.
LEMMA InitInv == Init => Inv
<1>. SUFFICES ASSUME Init PROVE Inv
  OBVIOUS
<1>1. 1 \in Digests
  BY StatusAssumption DEF Digests
<1>2. TypeOK
  BY <1>1, StatusAssumption DEF Init, TypeOK, Statuses, NoVictim
<1>3. container \in [Projects -> Containers] /\ victim \in [Deletes -> Victims]
  BY <1>1 DEF Init, Containers, Victims, NoVictim
<1>4. Typed
  BY <1>2, <1>3, StatusAssumption DEF Init, Typed, Places
<1>5. Now /\ CheckInv /\ UpdateInv /\ DeleteInv
  BY StatusAssumption DEF Init, Now, CheckInv, CheckOf, UpdateInv, DeleteInv
<1>. QED BY <1>4, <1>5 DEF Inv

\* The registry moves on.
LEMMA PushKeeps ==
  ASSUME Inv, NEW e \in Endpoints, NEW t \in Tags, NEW d \in Digests, Push(e, t, d)
  PROVE  Inv'
<1>1. Typed'
  BY StatusAssumption, ObservedTypes
  DEF Inv, Push, Move, Typed, TypeOK, Both
<1>2. Now' BY Observed DEF Push
<1>3. CheckInv' BY CheckKept DEF Push, Moves, CheckInv
<1>4. UpdateInv' BY UpdateKept DEF Push, UpdateInv
<1>5. DeleteInv' BY DeletesKept DEF Push
<1>. QED BY <1>1, <1>2, <1>3, <1>4, <1>5 DEF Inv

\* A Compose file that is edited is marked as edited for its update.
LEMMA EditKeeps ==
  ASSUME Inv, NEW p \in Projects, NEW t \in Tags \cup {None}, Edit(p, t)
  PROVE  Inv'
<1>1. Typed'
  BY StatusAssumption, ObservedTypes
  DEF Inv, Edit, Move, Typed, TypeOK, Both
<1>2. Now' BY Observed DEF Edit
<1>3. CheckInv' BY CheckKept DEF Edit, Moves, CheckInv
<1>4. UpdateInv'
  <2>1. \A q \in Projects : edited'[q] \/ file'[q] = file[q]
    BY DEF Inv, Typed, TypeOK, Edit
  <2>2. \A q \in Projects : edited[q] => edited'[q]
    BY DEF Inv, Typed, TypeOK, Edit
  <2>. QED BY <2>1, <2>2, UpdateKept DEF Edit, UpdateInv
<1>5. DeleteInv' BY DeletesKept DEF Edit
<1>. QED BY <1>1, <1>2, <1>3, <1>4, <1>5 DEF Inv

\* A container goes.
LEMMA DiscardKeeps ==
  ASSUME Inv, NEW p \in Projects, Discard(p)
  PROVE  Inv'
<1>1. Typed'
  BY StatusAssumption, ObservedTypes
  DEF Inv, Discard, Move, Typed, TypeOK, Both, Containers
<1>2. Now' BY Observed DEF Discard
<1>3. CheckInv' BY CheckKept DEF Discard, Moves, CheckInv
<1>4. UpdateInv'
  <2>1. \A q \in Projects : container'[q] = None \/ container'[q] = container[q]
    BY DEF Inv, Typed, TypeOK, Discard
  <2>. QED BY <2>1, UpdateKept DEF Discard, UpdateInv
<1>5. DeleteInv' BY DeletesKept DEF Discard
<1>. QED BY <1>1, <1>2, <1>3, <1>4, <1>5 DEF Inv

\* A check takes the list of images as it is at that moment.
LEMMA CheckImagesKeeps ==
  ASSUME Inv, NEW c \in Checks, CheckImages(c)
  PROVE  Inv'
<1>1. Typed'
  <2>1. local \in [Tags -> Digests \cup {None}]
    BY DEF Inv, Typed, TypeOK
  <2>. QED BY <2>1, StatusAssumption, ObservedTypes
           DEF Inv, CheckImages, Typed, TypeOK, Both, Places
<1>2. Now' BY Observed DEF CheckImages
<1>3. CheckInv'
  <2>. SUFFICES ASSUME NEW k \in Checks PROVE CheckOf(k)'
    BY DEF CheckInv
  <2>1. CASE k = c
    BY <2>1 DEF CheckImages, Inv, Typed, TypeOK, CheckInv, CheckOf, Both
  <2>2. CASE k # c
    BY <2>2, CheckKept DEF CheckImages, Inv, Typed, TypeOK, Moves
  <2>. QED BY <2>1, <2>2
<1>4. UpdateInv' BY StatusAssumption, UpdateKept DEF CheckImages, UpdateInv, Inv, Typed
<1>5. DeleteInv' BY StatusAssumption, DeletesKept DEF CheckImages, Inv, Typed
<1>. QED BY <1>1, <1>2, <1>3, <1>4, <1>5 DEF Inv

\* An answer about the image that was listed has been true since, whether that
\* image is still the local one or not.
LEMMA DigestKeeps ==
  ASSUME Inv, NEW c \in Checks, NEW t \in Tags, CheckDigest(c, t)
  PROVE  Inv'
<1>. DEFINE answers == {"unknown"} \cup {Compare(c, t, registry[e][t]) : e \in Endpoints}
<1>0. PICK s \in answers : result' = [result EXCEPT ![c][t] = s]
  BY DEF CheckDigest
<1>1. s \in Statuses
  BY <1>0 DEF Compare, Statuses
<1>2. Typed'
  BY <1>0, <1>1, StatusAssumption, ObservedTypes
  DEF Inv, CheckDigest, Typed, TypeOK, Both
<1>3. Now' BY Observed DEF CheckDigest
<1>4. CheckInv'
  <2>. SUFFICES ASSUME NEW k \in Checks PROVE CheckOf(k)'
    BY DEF CheckInv
  <2>1. CASE k # c
    BY <2>1, <1>0, CheckKept DEF CheckDigest, Inv, Typed, TypeOK, Moves
  <2>2. CASE k = c
    <3>. SUFFICES ASSUME NEW u \in Tags, snap[c][u] # None
                  PROVE  /\ local[u] = snap[c][u] \/ Both \subseteq truths'[c][u]
                         /\ result'[c][u] \in Both => result'[c][u] \in truths'[c][u]
      BY <2>2 DEF CheckDigest, CheckOf
    <3>1. pc[c] = "ask" /\ truths[c][u] \subseteq truths'[c][u]
      BY Observed DEF CheckDigest
    <3>2. local[u] = snap[c][u] \/ Both \subseteq truths'[c][u]
      BY <3>1 DEF Inv, CheckInv, CheckOf
    <3>3. CASE u # t
      <4>1. result'[c][u] = result[c][u]
        BY <1>0, <3>3 DEF Inv, Typed, TypeOK
      <4>. QED BY <3>1, <3>2, <4>1 DEF Inv, CheckInv, CheckOf
    <3>4. CASE u = t
      <4>1. result'[c][t] = s
        BY <1>0 DEF Inv, Typed, TypeOK
      <4>2. CASE local[t] # snap[c][t]
        BY <3>2, <3>4, <4>1, <4>2
      <4>3. CASE local[t] = snap[c][t] /\ s \in Both
        <5>1. PICK e \in Endpoints : s = Compare(c, t, registry[e][t])
          BY <4>3, <1>0 DEF Both
        <5>2. s \in SoNow(registry, local, t)
          BY <5>1, <4>3, <3>4 DEF SoNow, Compare
        <5>3. SoNow(registry, local, t) \subseteq truths'[c][t]
          BY <3>1, <3>4 DEF Inv, Now
        <5>. QED BY <3>2, <3>4, <4>1, <5>2, <5>3
      <4>. QED BY <3>2, <3>4, <4>1, <4>2, <4>3
    <3>. QED BY <3>3, <3>4
  <2>. QED BY <2>1, <2>2
<1>5. UpdateInv' BY UpdateKept DEF CheckDigest, UpdateInv
<1>6. DeleteInv' BY DeletesKept DEF CheckDigest
<1>. QED BY <1>2, <1>3, <1>4, <1>5, <1>6 DEF Inv

\* A check that has written its statuses has none left.
LEMMA CheckWriteKeeps ==
  ASSUME Inv, NEW c \in Checks, CheckWrite(c)
  PROVE  Inv'
<1>1. Typed'
  BY StatusAssumption, ObservedTypes
  DEF Inv, CheckWrite, Typed, TypeOK, Both, Places, Statuses
<1>2. Now' BY Observed DEF CheckWrite
<1>3. CheckInv'
  <2>. SUFFICES ASSUME NEW k \in Checks PROVE CheckOf(k)'
    BY DEF CheckInv
  <2>1. CASE k # c
    BY <2>1, CheckKept DEF CheckWrite, Inv, Typed, TypeOK, Moves
  <2>2. CASE k = c
    BY <2>2 DEF CheckWrite, CheckOf, Inv, Typed, TypeOK
  <2>. QED BY <2>1, <2>2
<1>4. UpdateInv' BY StatusAssumption, UpdateKept DEF CheckWrite, UpdateInv, Inv, Typed
<1>5. DeleteInv' BY StatusAssumption, DeletesKept DEF CheckWrite, Inv, Typed
<1>. QED BY <1>1, <1>2, <1>3, <1>4, <1>5 DEF Inv

\* An update begins with nothing to claim.
LEMMA BeginKeeps ==
  ASSUME Inv, NEW p \in Projects, Begin(p)
  PROVE  Inv'
<1>1. Typed'
  BY StatusAssumption, ObservedTypes DEF Inv, Begin, Typed, TypeOK, Both, Places
<1>2. Now' BY Observed DEF Begin
<1>3. CheckInv'
  BY StatusAssumption, CheckKept DEF Begin, Inv, Typed, Moves, CheckInv
<1>4. UpdateInv'
  <2>1. pc'[p] = "pull"
    BY DEF Begin, Inv, Typed
  <2>2. \A q \in Projects : q # p => pc'[q] = pc[q] /\ edited'[q] = edited[q]
    BY DEF Begin, Inv, Typed, TypeOK
  <2>. QED BY <2>1, <2>2, UpdateKept DEF Begin, UpdateInv
<1>5. DeleteInv' BY StatusAssumption, DeletesKept DEF Begin, Inv, Typed
<1>. QED BY <1>1, <1>2, <1>3, <1>4, <1>5 DEF Inv

\* What Docker fetches is a digest some endpoint serves now.
LEMMA Fetched ==
  ASSUME Inv, NEW t \in Tags, Fetch(t), registry' = registry
  PROVE  /\ images' \subseteq Digests /\ images \subseteq images'
         /\ local' \in [Tags -> images' \cup {None}]
         /\ \A u \in Tags : Moves(u)
         /\ local'[t] \in images'
         /\ "current" \in SoNow(registry', local', t)
<1>1. PICK e \in Endpoints : /\ images' = images \cup {registry[e][t]}
                             /\ local' = [local EXCEPT ![t] = registry[e][t]]
  BY DEF Fetch
<1>2. registry[e][t] \in Digests /\ local'[t] = registry[e][t]
  BY <1>1 DEF Inv, Typed, TypeOK
<1>3. images' \subseteq Digests /\ local' \in [Tags -> images' \cup {None}]
  BY <1>1, <1>2 DEF Inv, Typed, TypeOK
<1>4. \A u \in Tags : Moves(u)
  BY <1>1 DEF Moves, Inv, Typed, TypeOK
<1>5. "current" \in SoNow(registry', local', t)
  BY <1>2 DEF SoNow
<1>. QED BY <1>1, <1>2, <1>3, <1>4, <1>5

\* What was pulled was current at that moment.
LEMMA PullKeeps ==
  ASSUME Inv, NEW p \in Projects, Pull(p)
  PROVE  Inv'
<1>1. CASE Go(p, "idle") /\ UNCHANGED <<images, local>>
  <2>1. Typed'
    BY <1>1, StatusAssumption, ObservedTypes
    DEF Inv, Pull, Typed, TypeOK, Both, Places
  <2>2. Now' BY Observed DEF Pull
  <2>3. CheckInv'
    BY <1>1, StatusAssumption, CheckKept DEF Pull, Inv, Typed, Moves, CheckInv
  <2>4. UpdateInv' BY <1>1, UpdateKept DEF Pull, UpdateInv, Inv, Typed
  <2>5. DeleteInv' BY <1>1, StatusAssumption, DeletesKept DEF Pull, Inv, Typed
  <2>. QED BY <2>1, <2>2, <2>3, <2>4, <2>5 DEF Inv
<1>2. CASE /\ Go(p, "apply")
           /\ IF file[p] = None THEN UNCHANGED <<images, local>> ELSE Fetch(file[p])
  <2>. DEFINE t == file[p]
  <2>0. t # None => t \in Tags /\ Fetch(t)
    BY <1>2 DEF Inv, Typed, TypeOK
  <2>1. /\ images' \subseteq Digests /\ images \subseteq images'
        /\ local' \in [Tags -> images' \cup {None}]
        /\ \A u \in Tags : Moves(u)
        /\ t # None => "current" \in SoNow(registry', local', t)
    BY <1>2, <2>0, Fetched DEF Pull, Inv, Typed, TypeOK, Moves
  <2>2. Typed'
    BY <1>2, <2>1, StatusAssumption, ObservedTypes
    DEF Inv, Pull, Typed, TypeOK, Both, Places
  <2>3. Now' BY Observed DEF Pull
  <2>4. CheckInv'
    BY <1>2, <2>1, StatusAssumption, CheckKept DEF Pull, Inv, Typed, CheckInv
  <2>5. UpdateInv'
    <3>1. pc'[p] = "apply" /\ file' = file
      BY <1>2 DEF Pull, Inv, Typed
    <3>2. t # None => "current" \in truths'[p][t]
      BY <2>0, <2>1, <2>3, <3>1 DEF Now
    <3>3. \A q \in Projects : q # p => pc'[q] = pc[q]
      BY <1>2 DEF Inv, Typed
    <3>. QED BY <3>1, <3>2, <3>3, UpdateKept DEF Pull, UpdateInv
  <2>6. DeleteInv' BY <1>2, StatusAssumption, DeletesKept DEF Pull, Inv, Typed
  <2>. QED BY <2>2, <2>3, <2>4, <2>5, <2>6 DEF Inv
<1>. QED BY <1>1, <1>2 DEF Pull

\* The container that up leaves behind has the tag of the file, with the image
\* that tag names, and the tag moved only if up had to pull.
LEMMA Recreated ==
  ASSUME Inv, NEW p \in Projects, Recreate(p), registry' = registry
  PROVE  /\ images' \subseteq Digests /\ images \subseteq images'
         /\ local' \in [Tags -> images' \cup {None}]
         /\ \A u \in Tags : Moves(u)
         /\ container' \in [Projects -> Containers]
         /\ \A q \in Projects : q # p => container'[q] = container[q]
         /\ \A q \in Projects : container'[q] # None =>
              container'[q].tag \in Tags /\ container'[q].image \in images'
         /\ container'[p] # None => file[p] # None /\ container'[p].tag = file[p]
<1>. DEFINE t == file[p]
<1>1. t \in Tags \cup {None}
  BY DEF Inv, Typed, TypeOK
<1>2. /\ images' \subseteq Digests /\ images \subseteq images'
      /\ local' \in [Tags -> images' \cup {None}]
      /\ \A u \in Tags : Moves(u)
  <2>1. CASE t # None /\ local[t] = None
    BY <1>1, <2>1, Fetched DEF Recreate
  <2>2. CASE ~(t # None /\ local[t] = None)
    BY <2>2 DEF Recreate, Inv, Typed, TypeOK, Moves
  <2>. QED BY <2>1, <2>2
<1>3. t # None => local'[t] \in images'
  <2>1. CASE t # None /\ local[t] = None
    BY <1>1, <2>1, Fetched DEF Recreate
  <2>2. CASE t # None /\ local[t] # None
    BY <1>1, <2>2 DEF Recreate, Inv, Typed, TypeOK
  <2>. QED BY <2>1, <2>2
<1>4. container' = [container EXCEPT ![p] =
                      IF t = None THEN None ELSE [tag |-> t, image |-> local'[t]]]
  BY DEF Recreate
<1>5. container' \in [Projects -> Containers]
  BY <1>1, <1>2, <1>3, <1>4 DEF Inv, Typed, Containers
<1>6. \A q \in Projects : q # p => container'[q] = container[q]
  BY <1>4 DEF Inv, Typed
<1>7. container'[p] # None =>
        t # None /\ container'[p] = [tag |-> t, image |-> local'[t]]
  BY <1>4 DEF Inv, Typed
<1>8. \A q \in Projects : container'[q] # None =>
        container'[q].tag \in Tags /\ container'[q].image \in images'
  <2>. SUFFICES ASSUME NEW q \in Projects, container'[q] # None
                PROVE  container'[q].tag \in Tags /\ container'[q].image \in images'
    OBVIOUS
  <2>1. CASE q = p
    BY <1>1, <1>3, <1>7, <2>1
  <2>2. CASE q # p
    BY <1>2, <1>6, <2>2 DEF Inv, Typed, TypeOK
  <2>. QED BY <2>1, <2>2
<1>. QED BY <1>2, <1>5, <1>6, <1>7, <1>8

\* After up the container has the tag that was pulled, if nobody edited the file.
LEMMA ApplyKeeps ==
  ASSUME Inv, NEW p \in Projects, Apply(p)
  PROVE  Inv'
<1>0. Recreate(p) \/ UNCHANGED docker
  BY DEF Apply
<1>1. /\ images' \subseteq Digests /\ images \subseteq images'
      /\ local' \in [Tags -> images' \cup {None}]
      /\ \A u \in Tags : Moves(u)
      /\ container' \in [Projects -> Containers]
      /\ \A q \in Projects : q # p => container'[q] = container[q]
      /\ \A q \in Projects : container'[q] # None =>
           container'[q].tag \in Tags /\ container'[q].image \in images'
  <2>1. CASE Recreate(p)
    BY <2>1, Recreated DEF Apply
  <2>2. CASE UNCHANGED docker
    BY <2>2 DEF Inv, Typed, TypeOK, Moves
  <2>. QED BY <1>0, <2>1, <2>2
<1>2. pc'[p] \in {"idle", "inspect"} /\ \A a \in Actors : a # p => pc'[a] = pc[a]
  BY DEF Apply, Inv, Typed
<1>3. Typed'
  <2>1. pc' \in [Actors -> Places]
    BY DEF Apply, Inv, Typed, Places
  <2>2. TypeOK'
    BY <1>1, ObservedTypes DEF Apply, Inv, Typed, TypeOK, Both
  <2>. QED BY <1>1, <1>2, <2>1, <2>2, StatusAssumption DEF Apply, Inv, Typed
<1>4. Now' BY Observed DEF Apply
<1>5. CheckInv'
  BY <1>1, <1>2, StatusAssumption, CheckKept DEF Apply, CheckInv
<1>6. UpdateInv'
  <2>. SUFFICES ASSUME NEW q \in Projects, ~edited'[q]
                PROVE  /\ pc'[q] = "apply" /\ file'[q] # None => "current" \in truths'[q][file'[q]]
                       /\ pc'[q] = "inspect" /\ container'[q] # None =>
                            container'[q].tag = file'[q] /\ "current" \in truths'[q][file'[q]]
                       /\ pc'[q] = "mark" => \A t \in marks'[q] : "current" \in truths'[q][t]
    BY DEF UpdateInv
  <2>1. CASE q # p
    BY <2>1, <1>1, <1>2, UpdateKept DEF Apply
  <2>2. CASE q = p /\ pc'[p] = "inspect" /\ container'[p] # None
    <3>1. file[p] # None /\ container'[p].tag = file[p]
      BY <2>2, Recreated DEF Apply, Inv, Typed
    <3>2. file[p] \in Tags /\ "current" \in truths[p][file[p]]
      BY <2>2, <3>1 DEF Apply, Inv, Typed, TypeOK, UpdateInv
    <3>3. truths[p][file[p]] \subseteq truths'[p][file[p]]
      BY <2>2, <3>2, Observed DEF Apply
    <3>. QED BY <2>2, <3>1, <3>2, <3>3 DEF Apply
  <2>. QED BY <1>2, <2>1, <2>2
<1>7. DeleteInv' BY <1>2, StatusAssumption, DeletesKept DEF Apply
<1>. QED BY <1>3, <1>4, <1>5, <1>6, <1>7 DEF Inv

\* The references that will be marked are those of the container as it is.
LEMMA InspectKeeps ==
  ASSUME Inv, NEW p \in Projects, Inspect(p)
  PROVE  Inv'
<1>1. /\ pc'[p] \in {"idle", "mark"}
      /\ \A a \in Actors : a # p => pc'[a] = pc[a]
      /\ \A q \in Projects : q # p => marks'[q] = marks[q]
  BY DEF Inspect, Inv, Typed, TypeOK
<1>2. Typed'
  <2>0. (IF container[p] = None THEN {} ELSE {container[p].tag}) \in SUBSET Tags
    BY DEF Inv, Typed, TypeOK
  <2>1. marks' \in [Projects -> SUBSET Tags]
    BY <2>0 DEF Inspect, Inv, Typed, TypeOK
  <2>2. TypeOK'
    BY <2>1, ObservedTypes DEF Inspect, Inv, Typed, TypeOK, Both
  <2>3. pc' \in [Actors -> Places]
    BY DEF Inspect, Inv, Typed, Places
  <2>. QED BY <1>1, <2>2, <2>3, StatusAssumption DEF Inspect, Inv, Typed
<1>3. Now' BY Observed DEF Inspect
<1>4. CheckInv'
  BY <1>1, StatusAssumption, CheckKept DEF Inspect, CheckInv, Moves
<1>5. UpdateInv'
  <2>1. ASSUME pc'[p] = "mark", ~edited'[p], NEW t \in marks'[p]
        PROVE  "current" \in truths'[p][t]
    <3>1. container[p] # None /\ t = container[p].tag
      BY <2>1 DEF Inspect, Inv, Typed, TypeOK
    <3>2. t \in Tags /\ "current" \in truths[p][t]
      BY <2>1, <3>1 DEF Inspect, Inv, Typed, TypeOK, UpdateInv
    <3>. QED BY <2>1, <3>2, Observed DEF Inspect
  <2>. QED BY <1>1, <2>1, UpdateKept DEF Inspect, UpdateInv
<1>6. DeleteInv' BY <1>1, StatusAssumption, DeletesKept DEF Inspect
<1>. QED BY <1>2, <1>3, <1>4, <1>5, <1>6 DEF Inv

\* An update that has marked its references is over.
LEMMA MarkKeeps ==
  ASSUME Inv, NEW p \in Projects, Mark(p)
  PROVE  Inv'
<1>1. pc'[p] = "idle" /\ \A a \in Actors : a # p => pc'[a] = pc[a]
  BY DEF Mark, Inv, Typed
<1>2. \A q \in Projects : q # p => marks'[q] = marks[q]
  BY DEF Mark, Inv, Typed, TypeOK
<1>3. Typed'
  BY StatusAssumption, ObservedTypes
  DEF Mark, Inv, Typed, TypeOK, Both, Places, Statuses
<1>4. Now' BY Observed DEF Mark
<1>5. CheckInv'
  BY <1>1, StatusAssumption, CheckKept DEF Mark, CheckInv, Moves
<1>6. UpdateInv' BY <1>1, <1>2, UpdateKept DEF Mark, UpdateInv
<1>7. DeleteInv' BY <1>1, StatusAssumption, DeletesKept DEF Mark
<1>. QED BY <1>3, <1>4, <1>5, <1>6, <1>7 DEF Inv

\* The part of a step of DeleteImage that has nothing to do with deletions.
LEMMA DeletionKeepsOthers ==
  ASSUME Inv, Observe, NEW d \in Deletes, NEW there \in {"idle", "containers", "scan", "remove"},
         Go(d, there), \A t \in Tags : Moves(t),
         UNCHANGED <<container, world, snap, result, marks, edited>>
  PROVE  Now' /\ CheckInv' /\ UpdateInv'
<1>1. pc'[d] = there /\ \A a \in Actors : a # d => pc'[a] = pc[a]
  BY DEF Inv, Typed
<1>2. Now' BY Observed
<1>3. CheckInv' BY <1>1, StatusAssumption, CheckKept DEF CheckInv
<1>4. UpdateInv' BY <1>1, StatusAssumption, UpdateKept DEF UpdateInv
<1>. QED BY <1>2, <1>3, <1>4

\* A deletion that a step leaves alone.
LEMMA OtherDeletionKept ==
  ASSUME Inv, Observe, NEW d \in Deletes, pc'[d] = pc[d], victim'[d] = victim[d]
  PROVE  /\ pc'[d] # "idle" => \A p \in holders'[d] : file'[p] \in victim'[d].tags
         /\ pc'[d] = "remove" => holders'[d] = {}
<1>1. CASE pc[d] = "idle"
  BY <1>1
<1>2. CASE pc[d] # "idle"
  BY <1>2, DeleteKept DEF Inv, DeleteInv
<1>. QED BY <1>1, <1>2

\* The files that name the image by a tag are among those that name its tags.
LEMMA DelImagesKeeps ==
  ASSUME Inv, NEW d \in Deletes, NEW id \in Digests, DelImages(d, id)
  PROVE  Inv'
<1>. DEFINE v == [NoVictim EXCEPT !.id = id, !.tags = {t \in Tags : local[t] = id}]
<1>1. /\ v \in Victims /\ v.id = id /\ v.tags = {t \in Tags : local[t] = id}
      /\ pc' = [pc EXCEPT ![d] = "containers"] /\ victim' = [victim EXCEPT ![d] = v]
  BY DEF DelImages, NoVictim, Victims
<1>2. victim' \in [Deletes -> Victims]
  BY <1>1 DEF Inv, Typed
<1>3. Typed'
  <2>1. \A k \in Deletes : victim'[k].id \in Digests \cup {None} /\ victim'[k].tags \subseteq Tags
    BY <1>2 DEF Victims
  <2>2. pc' \in [Actors -> Places] /\ pc'[d] = "containers" /\ \A a \in Actors : a # d => pc'[a] = pc[a]
    BY <1>1 DEF Inv, Typed, Places
  <2>3. TypeOK'
    BY <2>1, ObservedTypes DEF DelImages, Inv, Typed, TypeOK, Both
  <2>. QED BY <1>2, <2>2, <2>3, StatusAssumption DEF DelImages, Inv, Typed
<1>4. Now' /\ CheckInv' /\ UpdateInv'
  BY <1>1, DeletionKeepsOthers DEF DelImages, Moves
<1>5. DeleteInv'
  <2>. SUFFICES ASSUME NEW k \in Deletes
                PROVE  /\ pc'[k] # "idle" => \A p \in holders'[k] : file'[p] \in victim'[k].tags
                       /\ pc'[k] = "remove" => holders'[k] = {}
    BY DEF DeleteInv
  <2>1. CASE k # d
    BY <1>1, <2>1, OtherDeletionKept DEF DelImages, Inv, Typed
  <2>2. CASE k = d
    <3>1. pc'[d] = "containers" /\ victim'[d] = v
      BY <1>1 DEF Inv, Typed
    <3>2. ASSUME NEW p \in holders'[d] PROVE file'[p] \in v.tags
      BY <1>1, <3>1 DEF DelImages, Observe, Inv, Typed, TypeOK
    <3>. QED BY <2>2, <3>1, <3>2
  <2>. QED BY <2>1, <2>2
<1>. QED BY <1>3, <1>4, <1>5 DEF Inv

\* The list of containers adds to what a deletion knows and takes nothing away.
LEMMA DelContainersKeeps ==
  ASSUME Inv, NEW d \in Deletes, DelContainers(d)
  PROVE  Inv'
<1>1. PICK u \in BOOLEAN, e \in BOOLEAN :
        victim' = [victim EXCEPT ![d] = [victim[d] EXCEPT !.used = u, !.errors = e]]
  <2>1. victim[d] \in Victims
    BY DEF Inv, Typed
  <2>2. \A u \in BOOLEAN : [victim[d] EXCEPT !.used = u]
                         = [victim[d] EXCEPT !.used = u, !.errors = victim[d].errors]
    BY <2>1 DEF Victims
  <2>3. [victim[d] EXCEPT !.errors = TRUE]
      = [victim[d] EXCEPT !.used = victim[d].used, !.errors = TRUE]
    BY <2>1 DEF Victims
  <2>4. victim[d].used \in BOOLEAN /\ victim[d].errors \in BOOLEAN
    BY <2>1 DEF Victims
  <2>. QED BY <2>2, <2>3, <2>4 DEF DelContainers
<1>2. pc' = [pc EXCEPT ![d] = "scan"] /\ pc[d] = "containers"
  BY DEF DelContainers
<1>3. victim' \in [Deletes -> Victims] /\ victim'[d].tags = victim[d].tags
  <2>. DEFINE v == [victim[d] EXCEPT !.used = u, !.errors = e]
  <2>1. v \in Victims /\ v.tags = victim[d].tags
    BY DEF Inv, Typed, Victims
  <2>2. victim' = [victim EXCEPT ![d] = v]
    BY <1>1
  <2>. HIDE DEF v
  <2>. QED BY <2>1, <2>2 DEF Inv, Typed
<1>4. Typed'
  BY <1>2, <1>3, StatusAssumption, ObservedTypes
  DEF DelContainers, Inv, Typed, TypeOK, Both, Places, Victims
<1>5. Now' /\ CheckInv' /\ UpdateInv'
  BY <1>2, DeletionKeepsOthers DEF DelContainers, Moves
<1>6. DeleteInv'
  <2>. SUFFICES ASSUME NEW k \in Deletes
                PROVE  /\ pc'[k] # "idle" => \A p \in holders'[k] : file'[p] \in victim'[k].tags
                       /\ pc'[k] = "remove" => holders'[k] = {}
    BY DEF DeleteInv
  <2>1. CASE k # d
    BY <1>1, <1>2, <2>1, OtherDeletionKept DEF DelContainers, Inv, Typed
  <2>2. CASE k = d
    BY <1>2, <1>3, <2>2, DeleteKept DEF DelContainers, Inv, Typed
  <2>. QED BY <2>1, <2>2
<1>. QED BY <1>4, <1>5, <1>6 DEF Inv

\* A scan that names none of the tags lets the removal go on: then no file has
\* named the image all along.
LEMMA DelScanKeeps ==
  ASSUME Inv, NEW d \in Deletes, DelScan(d)
  PROVE  Inv'
<1>1. PICK there \in {"idle", "remove"}, v \in {NoVictim, victim[d]} :
        /\ pc' = [pc EXCEPT ![d] = there] /\ victim' = [victim EXCEPT ![d] = v]
        /\ there = "remove" => ~Named(d) /\ v = victim[d]
  BY DEF DelScan
<1>2. v \in Victims
  <2>1. NoVictim \in Victims
    BY DEF Victims, NoVictim
  <2>2. victim[d] \in Victims
    BY DEF Inv, Typed
  <2>. QED BY <2>1, <2>2
<1>3. victim' \in [Deletes -> Victims]
  BY <1>1, <1>2 DEF Inv, Typed
<1>4. Typed'
  BY <1>1, <1>3, StatusAssumption, ObservedTypes
  DEF DelScan, Inv, Typed, TypeOK, Both, Places, Victims
<1>5. Now' /\ CheckInv' /\ UpdateInv'
  BY <1>1, DeletionKeepsOthers DEF DelScan, Moves
<1>6. DeleteInv'
  <2>. SUFFICES ASSUME NEW k \in Deletes
                PROVE  /\ pc'[k] # "idle" => \A p \in holders'[k] : file'[p] \in victim'[k].tags
                       /\ pc'[k] = "remove" => holders'[k] = {}
    BY DEF DeleteInv
  <2>1. CASE k # d
    BY <1>1, <2>1, OtherDeletionKept DEF DelScan, Inv, Typed
  <2>2. CASE k = d /\ there = "remove"
    <3>1. pc[d] = "scan" /\ victim'[d] = victim[d] /\ holders'[d] \subseteq holders[d]
      BY <1>1, <2>2, DeleteKept DEF DelScan, Inv, Typed
    <3>2. \A p \in holders[d] : p \in Projects /\ file[p] \in victim[d].tags
      BY <3>1 DEF Inv, DeleteInv, Typed, TypeOK
    <3>3. holders'[d] = {}
      BY <1>1, <2>2, <3>1, <3>2 DEF Named
    <3>. QED BY <2>2, <3>3
  <2>3. CASE k = d /\ there = "idle"
    BY <1>1, <2>3 DEF Inv, Typed
  <2>. QED BY <2>1, <2>2, <2>3
<1>. QED BY <1>4, <1>5, <1>6 DEF Inv

\* The daemon removes the image and every reference to it, or nothing.
LEMMA DelRemoveKeeps ==
  ASSUME Inv, NEW d \in Deletes, DelRemove(d)
  PROVE  Inv'
<1>1. pc' = [pc EXCEPT ![d] = "idle"] /\ victim' = [victim EXCEPT ![d] = NoVictim]
  BY DEF DelRemove
<1>2. victim' \in [Deletes -> Victims]
  BY <1>1 DEF Inv, Typed, Victims, NoVictim
<1>3. /\ images' \subseteq Digests
      /\ local' \in [Tags -> images' \cup {None}]
      /\ \A t \in Tags : Moves(t)
      /\ \A p \in Projects : container[p] # None => container[p].image \in images'
  <2>. DEFINE id == victim[d].id
  <2>1. CASE UNCHANGED <<images, local>>
    BY <2>1 DEF Inv, Typed, TypeOK, Moves
  <2>2. CASE /\ images' = images \ {id}
             /\ local' = [t \in Tags |-> IF local[t] = id THEN None ELSE local[t]]
             /\ \A p \in Projects : container[p] # None => container[p].image # id
    <3>1. images' \subseteq Digests /\ local' \in [Tags -> images' \cup {None}]
      BY <2>2 DEF Inv, Typed, TypeOK
    <3>2. \A t \in Tags : Moves(t)
      BY <2>2 DEF Moves
    <3>3. \A p \in Projects : container[p] # None => container[p].image \in images'
      BY <2>2 DEF Inv, Typed, TypeOK
    <3>. QED BY <3>1, <3>2, <3>3
  <2>. QED BY <2>1, <2>2 DEF DelRemove
<1>4. Typed'
  BY <1>1, <1>2, <1>3, StatusAssumption, ObservedTypes
  DEF DelRemove, Inv, Typed, TypeOK, Both, Places, Victims
<1>5. Now' /\ CheckInv' /\ UpdateInv'
  BY <1>1, <1>3, DeletionKeepsOthers DEF DelRemove
<1>6. DeleteInv'
  BY <1>1, OtherDeletionKept DEF DelRemove, DeleteInv, Inv, Typed
<1>. QED BY <1>4, <1>5, <1>6 DEF Inv

\* A step that changes nothing.
LEMMA StutterKeeps == Inv /\ UNCHANGED vars => Inv'
  BY DEF vars, Inv, Typed, TypeOK, Now, SoNow, CheckInv, CheckOf, UpdateInv, DeleteInv

\* Every step of the specification keeps the invariant.
LEMMA StepKeeps == Inv /\ [Next]_vars => Inv'
<1>. SUFFICES ASSUME Inv, [Next]_vars PROVE Inv'
  OBVIOUS
<1>1. CASE World
  BY <1>1, PushKeeps, EditKeeps, DiscardKeeps DEF World
<1>2. ASSUME NEW c \in Checks, Check(c) PROVE Inv'
  BY <1>2, CheckImagesKeeps, DigestKeeps, CheckWriteKeeps DEF Check
<1>3. ASSUME NEW p \in Projects, Update(p) PROVE Inv'
  BY <1>3, BeginKeeps, PullKeeps, ApplyKeeps, InspectKeeps, MarkKeeps DEF Update
<1>4. ASSUME NEW d \in Deletes, Delete(d) PROVE Inv'
  BY <1>4, DelImagesKeeps, DelContainersKeeps, DelScanKeeps, DelRemoveKeeps DEF Delete
<1>. QED BY <1>1, <1>2, <1>3, <1>4, StutterKeeps DEF Next

\* The invariant holds in every state of the specification.
THEOREM InvHolds == Spec => []Inv
  BY InitInv, StepKeeps, PTL DEF Spec

\* Every variable keeps its type: each reference names an image the daemon has,
\* and no container outlives its image (docker/engine.go, service.go 418-517).
THEOREM StatusTypes == Spec => []TypeOK
<1>1. Inv => TypeOK
  BY DEF Inv, Typed
<1>. QED BY <1>1, InvHolds, PTL

-----------------------------------------------------------------------------
(* The properties.                                                         *)

\* A check writes only what it was told, and that has been true.
LEMMA CheckWritesTruth ==
  ASSUME Inv, NEW c \in Checks, CheckWrite(c), NEW t \in Asked(c),
         updateMap'[t] \in Both
  PROVE  updateMap'[t] \in truths[c][t]
<1>1. t \in Tags /\ snap[c][t] # None /\ pc[c] = "ask"
  BY DEF Asked, CheckWrite
<1>2. updateMap'[t] = result[c][t]
  BY <1>1 DEF CheckWrite
<1>. QED BY <1>1, <1>2 DEF Inv, CheckInv, CheckOf

\* An update writes "current" of the references it marks, and that was so.
LEMMA MarkWritesTruth ==
  ASSUME Inv, NEW p \in Projects, Mark(p), NEW t \in marks[p], ~edited[p]
  PROVE  updateMap'[t] \in truths[p][t]
<1>1. t \in Tags
  BY DEF Inv, Typed, TypeOK
<1>. QED BY <1>1 DEF Mark, Inv, UpdateInv

\* Whoever writes a status in a step is the one that takes it.
LEMMA WriterSteps ==
  ASSUME Inv, Next, NEW w \in Writers, NEW t \in Written(w)
  PROVE  \/ w \in Checks /\ CheckWrite(w) /\ t \in Asked(w)
         \/ w \in Projects /\ Mark(w) /\ t \in marks[w]
<1>1. pc'[w] = "idle" /\ pc[w] \in {"ask", "mark"}
  BY DEF Written
<1>2. /\ pc[w] = "ask" => t \in Asked(w) /\ w \in Checks
      /\ pc[w] = "mark" => t \in marks[w] /\ w \in Projects
  BY <1>1 DEF Written, Inv, Typed
<1>3. CASE World
  BY <1>1, <1>3 DEF World, Push, Edit, Discard
<1>4. ASSUME NEW c \in Checks, Check(c) PROVE w = c /\ CheckWrite(c)
  <2>1. CASE CheckImages(c)
    BY <1>1, <2>1 DEF CheckImages, Inv, Typed
  <2>2. CASE \E u \in Tags : CheckDigest(c, u)
    BY <1>1, <2>2 DEF CheckDigest
  <2>3. CASE CheckWrite(c)
    BY <1>1, <2>3 DEF CheckWrite, Inv, Typed
  <2>. QED BY <1>4, <2>1, <2>2, <2>3 DEF Check
<1>5. ASSUME NEW p \in Projects, Update(p) PROVE w = p /\ Mark(p)
  <2>1. CASE Begin(p)
    BY <1>1, <2>1 DEF Begin, Inv, Typed
  <2>2. CASE Pull(p)
    BY <1>1, <2>2 DEF Pull, Inv, Typed
  <2>3. CASE Apply(p)
    BY <1>1, <2>3 DEF Apply, Inv, Typed
  <2>4. CASE Inspect(p)
    BY <1>1, <2>4 DEF Inspect, Inv, Typed
  <2>5. CASE Mark(p)
    BY <1>1, <2>5 DEF Mark, Inv, Typed
  <2>. QED BY <1>5, <2>1, <2>2, <2>3, <2>4, <2>5 DEF Update
<1>6. ASSUME NEW d \in Deletes, Delete(d) PROVE FALSE
  <2>1. w # d
    BY StatusAssumption
  <2>2. pc'[w] = pc[w]
    BY <1>6, <2>1
    DEF Delete, DelImages, DelContainers, DelScan, DelRemove, Inv, Typed
  <2>. QED BY <1>1, <2>2
<1>7. CASE \E c \in Checks : Check(c)
  <2>1. w \in Checks /\ CheckWrite(w)
    BY <1>4, <1>7
  <2>. QED BY <1>2, <2>1 DEF CheckWrite
<1>8. CASE \E p \in Projects : Update(p)
  <2>1. w \in Projects /\ Mark(w)
    BY <1>5, <1>8
  <2>. QED BY <1>2, <2>1 DEF Mark
<1>. QED BY <1>3, <1>6, <1>7, <1>8 DEF Next

\* Every status that is written was so of some endpoint at some moment since its
\* writer began (service.go 519-564, 588-607, 683-695): for any number of
\* checks, updates, deletions and mirrors at work at once.
THEOREM StatusesWereTrue == Spec => StatusWasTrue
<1>1. Inv /\ [Next]_vars =>
        [\A w \in Writers : \A t \in Written(w) :
           /\ updateMap'[t] \in {"current", "available"}
           /\ w \in Projects => ~edited[w]
           => updateMap'[t] \in truths[w][t]]_vars
  <2>. SUFFICES ASSUME Inv, Next, NEW w \in Writers, NEW t \in Written(w),
                       updateMap'[t] \in Both, w \in Projects => ~edited[w]
                PROVE  updateMap'[t] \in truths[w][t]
    BY DEF Both
  <2>1. CASE w \in Checks /\ CheckWrite(w) /\ t \in Asked(w)
    BY <2>1, CheckWritesTruth
  <2>2. CASE w \in Projects /\ Mark(w) /\ t \in marks[w]
    BY <2>2, MarkWritesTruth
  <2>. QED BY <2>1, <2>2, WriterSteps
<1>. QED BY <1>1, InvHolds, PTL DEF Spec, StatusWasTrue

\* An image that a Compose file has named all along is not deleted, whatever
\* moves between the reads and the removal, and whichever read fails
\* (service.go 434-437, 475-517): for any number of projects and deletions.
THEOREM NamedImagesAreKept == Spec => NamedImageIsKept
<1>1. Inv /\ [Next]_vars =>
        [\A d \in Deletes :
           pc[d] = "remove" /\ victim[d].id \notin images' => holders[d] = {}]_vars
  BY DEF Inv, DeleteInv
<1>. QED BY <1>1, InvHolds, PTL DEF Spec, NamedImageIsKept

=============================================================================
