----------------------------- MODULE WebAccess -----------------------------
(***************************************************************************)
(* The web entry of one project: the published TCP ports that may be it,   *)
(* the detection that asks each of them for a page, the entry an           *)
(* administrator saved, and the address the project page shows.            *)
(*                                                                         *)
(* A port stands for a published mapping on the NAS address: service,      *)
(* container port and host port, which is what identifies an entry.  The   *)
(* NAS address is the one in force, which only a start changes.            *)
(***************************************************************************)
EXTENDS Settings, FiniteSets

CONSTANTS
  Ports,
  App,       \* what each port answers to each scheme
  NasIP,     \* the setting that says where the NAS is
  Addresses  \* values of it that are addresses

Schemes  == {"http", "https"}
Statuses == {"web", "auth", "redirect", "certificate", "http", "unreachable"}

ASSUME WebAssumption ==
  /\ None \notin Ports \cup Requests /\ App \in [Ports -> [Schemes -> Statuses]]
  /\ NasIP \in Keys \ LiveKeys

VARIABLES
  published,  \* ports that the project's containers publish
  saved,      \* its row in project_web_access, or None
  scanMu,     \* the request that detects, or None
  seen,       \* per request: the ports it was told of
  entry,      \* per request: the entry it has read or is to save, or None
  shown       \* per request: ports whose address it has answered with

webVars == <<published, saved, scanMu, seen, entry, shown>>
requestVars == <<seen, entry, shown>>

\* What a request has read is gone with it.
Forget(r) == seen' = [seen EXCEPT ![r] = {}] /\ entry' = [entry EXCEPT ![r] = None]

WebTypeOK ==
  /\ published \subseteq Ports /\ saved \in Ports \cup {None}
  /\ scanMu \in Requests \cup {None}
  /\ seen \in [Requests -> SUBSET Ports] /\ shown \in [Requests -> SUBSET Ports]
  /\ entry \in [Requests -> Ports \cup {None}]

WebInit ==
  /\ published \in SUBSET Ports /\ saved = None /\ scanMu = None
  /\ seen = [r \in Requests |-> {}] /\ shown = seen
  /\ entry = [r \in Requests |-> None]

-----------------------------------------------------------------------------
(* Detect. The goroutines, of which six may ask at a time, share nothing   *)
(* but that limit: each writes its own candidate, and what they find does  *)
(* not depend on their order.                                              *)

webRank == [status \in Statuses |->
  CASE status = "web" -> 7 [] status = "auth" -> 6 [] status = "redirect" -> 5
    [] status = "certificate" -> 4 [] status = "http" -> 3 [] OTHER -> 0]

Other(scheme) == IF scheme = "http" THEN "https" ELSE "http"

\* One candidate, asked with its own scheme and then with the other unless the
\* first answer is a page; heard is what its port answers to each.
Probed(first, heard) ==
  LET one == heard[first]
      two == heard[Other(first)]
  IN  IF one = "web" \/ webRank[two] <= webRank[one] THEN one ELSE two

\* The address recommended is that of the only page.
Recommended(found) ==
  LET pages == {p \in DOMAIN found : found[p] = "web"}
  IN  IF Cardinality(pages) = 1 THEN pages ELSE {}

\* Whatever scheme comes first, a candidate gets the best of its two answers.
ASSUME ProbedIsBest ==
  \A first \in Schemes, heard \in [Schemes -> Statuses] :
    \A scheme \in Schemes : webRank[heard[scheme]] <= webRank[Probed(first, heard)]

-----------------------------------------------------------------------------

HasAddress == inForce[NasIP] \in Addresses

\* A container is created anew, starts or stops.
Recreate(ports) ==
  /\ ports # published /\ published' = ports
  /\ UNCHANGED <<saved, scanMu, seen, entry, shown>>

\* webScanMu.TryLock; who does not get it is refused.
ScanLock(r) ==
  /\ scanMu = None /\ scanMu' = r
  /\ UNCHANGED <<published, saved, requestVars>>

\* What the engine lists.
Containers(r) ==
  /\ seen' = [seen EXCEPT ![r] = published]
  /\ UNCHANGED <<published, saved, scanMu, entry, shown>>

\* Store.WebAccess and then Detect.  The scheme that goes first is that of the
\* saved entry, of the port number or of the settings.  A stopped container, and
\* a port that no goroutine reaches within 8 s, is "unreachable".
Detect(r) ==
  /\ scanMu = r /\ scanMu' = None
  /\ \E first \in [seen[r] -> Schemes], reached \in SUBSET seen[r] :
       LET found == [p \in seen[r] |-> IF p \in reached THEN Probed(first[p], App[p])
                                      ELSE "unreachable"]
       IN  shown' = [shown EXCEPT ![r] = Recommended(found)]
  /\ Forget(r) /\ UNCHANGED <<published, saved>>

\* Broken: the lock is kept.
ScanFailsLocked(r) == scanMu = r /\ UNCHANGED webVars

\* An error on the way to Detect.
ScanFails(r) ==
  /\ scanMu = r /\ scanMu' = None
  /\ Forget(r) /\ UNCHANGED <<published, saved, shown>>

\* Broken: the address of the saved entry, without a look at the containers.
ResolveSavedBlindly(r, e) == IF e = None THEN {} ELSE {e}

\* ResolveSaved: the address of the saved entry, if its port is published.
ResolveSaved(r, e) == {e} \cap seen[r]

\* The project page.
ShowPage(r) ==
  /\ shown' = [shown EXCEPT ![r] = ResolveSaved(r, saved)]
  /\ Forget(r) /\ UNCHANGED <<published, saved, scanMu>>

\* SaveProjectWebAccess: the entry must be one of the ports just listed.
SaveCheck(r, e) ==
  /\ ResolveSaved(r, e) # {} /\ entry' = [entry EXCEPT ![r] = e]
  /\ UNCHANGED <<published, saved, scanMu, seen, shown>>

SavePut(r) ==
  /\ saved' = entry[r]
  /\ Forget(r) /\ UNCHANGED <<published, scanMu, shown>>

=============================================================================
