------------------------------ MODULE Console ------------------------------
(***************************************************************************)
(* Requests of a signed-in administrator, from the authentication in front *)
(* of every handler to the handlers that keep their state in the store:    *)
(* settings (Settings) and web entries (WebAccess), logins and logouts     *)
(* (Sessions).  Any session ever opened may be presented at any time, and  *)
(* a request goes on after the session that admitted it has ended.         *)
(*                                                                         *)
(* Requests make one call each: their number bounds the state space.      *)
(* CSRF tokens are those of the session and are right.                     *)
(***************************************************************************)
EXTENDS Sessions, WebAccess

VARIABLES
  up,        \* the server runs
  pc,        \* per request: where its handler is
  token,     \* per request: the session it presents
  taken      \* per request: the time it looks its session up for

consoleVars == <<up, pc, token, taken>>
vars == <<sessionVars, settingVars, webVars, consoleVars>>

Pcs == {"new", "lookup", "admitted", "apply", "scanList", "detect", "page",
        "saveCheck", "savePut", "refused", "done"}

TypeOK ==
  /\ SessionTypeOK /\ SettingsTypeOK /\ WebTypeOK
  /\ up \in BOOLEAN /\ pc \in [Requests -> Pcs]
  /\ token \in [Requests -> Tokens] /\ taken \in [Requests -> 0..MaxTime]
  /\ \A r \in Requests : /\ scanMu = r <=> pc[r] \in {"scanList", "detect"}
                         /\ toApply[r] # {} => pc[r] = "apply"

Init ==
  /\ SessionInit /\ SettingsInit /\ WebInit
  /\ up = TRUE /\ pc = [r \in Requests |-> "new"]
  /\ token = [r \in Requests |-> First] /\ taken = [r \in Requests |-> 0]

Step(r, from, to) ==
  /\ up /\ pc[r] = from /\ pc' = [pc EXCEPT ![r] = to]

-----------------------------------------------------------------------------
(* authenticate, login and logout.                                         *)

\* A request arrives with a session's token; the clock is read.
Arrive(r) ==
  /\ Step(r, "new", "lookup")
  /\ \E t \in issued : token' = [token EXCEPT ![r] = t]
  /\ taken' = [taken EXCEPT ![r] = now]
  /\ UNCHANGED <<sessionVars, settingVars, webVars, up>>

\* Broken: the lookup does not ask when the session ends.
LookupForever(r) ==
  /\ IF token[r] \in rows THEN Step(r, "lookup", "admitted")
     ELSE Step(r, "lookup", "refused")
  /\ taken' = [taken EXCEPT ![r] = 0]
  /\ UNCHANGED <<sessionVars, settingVars, webVars, up, token>>

\* SessionByTokenHash. Whoever has no session is turned away, and so is, in the
\* same words, whoever meets an error of the database.
Lookup(r) ==
  /\ IF Valid(token[r], taken[r]) THEN Step(r, "lookup", "admitted")
     ELSE Step(r, "lookup", "refused")
  /\ taken' = [taken EXCEPT ![r] = 0]
  /\ UNCHANGED <<sessionVars, settingVars, webVars, up, token>>

LookupFails(r) ==
  /\ Step(r, "lookup", "done") /\ taken' = [taken EXCEPT ![r] = 0]
  /\ UNCHANGED <<sessionVars, settingVars, webVars, up, token>>

\* authLogin, whose limiter is Access's.
Login(r) ==
  /\ Step(r, "new", "done") /\ (\E t \in Tokens : CreateSession(t))
  /\ UNCHANGED <<settingVars, webVars, up, token, taken>>

\* authLogout: the row goes, or the database fails and that is not said.
Logout(r) ==
  /\ Step(r, "admitted", "done")
  /\ DeleteSession(token[r]) \/ UNCHANGED sessionVars
  /\ UNCHANGED <<settingVars, webVars, up, token, taken>>

-----------------------------------------------------------------------------
(* Settings. *)

PutSettings(r) ==
  /\ Step(r, "admitted", "apply") /\ (\E s \in Saves : Commit(r, s))
  /\ UNCHANGED <<sessionVars, webVars, up, token, taken>>

ApplySetting(r) ==
  /\ Step(r, "apply", "apply") /\ Apply(r)
  /\ UNCHANGED <<sessionVars, webVars, up, token, taken>>

\* PutSettings has returned.
PutSettingsEnd(r) ==
  /\ Step(r, "apply", "done") /\ SaveEnd(r)
  /\ UNCHANGED <<sessionVars, webVars, up, token, taken>>

-----------------------------------------------------------------------------
(* Web entries. *)

Quiet == UNCHANGED <<sessionVars, settingVars, up, token, taken>>

\* ProjectWebAccess.
Scan(r) == Step(r, "admitted", "scanList") /\ ScanLock(r) /\ Quiet
ScanList(r) == Step(r, "scanList", "detect") /\ HasAddress /\ Containers(r) /\ Quiet
ScanEnd(r) ==
  /\ \/ Step(r, "detect", "done") /\ Detect(r)
     \/ \E at \in {"scanList", "detect"} : Step(r, at, "done") /\ ScanFails(r)
  /\ Quiet

\* The project page: containers first, then the saved entries.  Without an
\* address of the NAS there is no URL.
Page(r) == Step(r, "admitted", "page") /\ Containers(r) /\ Quiet
PageEnd(r) ==
  /\ Step(r, "page", "done")
  /\ IF HasAddress THEN ShowPage(r)
     ELSE Forget(r) /\ UNCHANGED <<published, saved, scanMu, shown>>
  /\ Quiet

\* SaveProjectWebAccess.
SaveEntry(r) == Step(r, "admitted", "saveCheck") /\ HasAddress /\ Containers(r) /\ Quiet
SaveEntryCheck(r) ==
  /\ \E e \in Ports : SaveCheck(r, e)
  /\ Step(r, "saveCheck", "savePut") /\ Quiet
SaveEntryEnd(r) == Step(r, "savePut", "done") /\ SavePut(r) /\ Quiet

\* What is asked for is refused, or the engine or the store fails: no change.  A
\* detection that is under way has ScanEnd for that.
HandlerFails(r) ==
  /\ \E at \in {"admitted", "page", "saveCheck", "savePut"} : Step(r, at, "done")
  /\ Forget(r) /\ UNCHANGED <<published, saved, scanMu, shown>> /\ Quiet

-----------------------------------------------------------------------------
(* Time, the world and restarts. *)

Clock == Tick /\ UNCHANGED <<settingVars, webVars, consoleVars>>

World ==
  /\ \E ports \in SUBSET Ports : Recreate(ports)
  /\ UNCHANGED <<sessionVars, settingVars, consoleVars>>

\* The process ends, and its requests with it.
Crash ==
  /\ up /\ up' = FALSE
  /\ pc' = [r \in Requests |-> IF pc[r] \in {"new", "refused"} THEN pc[r] ELSE "done"]
  /\ scanMu' = None /\ seen' = [r \in Requests |-> {}] /\ entry' = [r \in Requests |-> None]
  /\ toApply' = [r \in Requests |-> {}] /\ saving' = [r \in Requests |-> None]
  /\ UNCHANGED <<sessionVars, stored, inForce, parted, published, saved, shown,
                 token, taken>>

\* main: the settings are read, or a warning says that they could not be.
Boot ==
  /\ ~up /\ up' = TRUE
  /\ \E read \in BOOLEAN : ApplySettings(read)
  /\ UNCHANGED <<sessionVars, webVars, pc, token, taken>>

Handle(r) ==
  \/ Arrive(r) \/ Lookup(r) \/ LookupFails(r) \/ Login(r) \/ Logout(r)
  \/ PutSettings(r) \/ ApplySetting(r) \/ PutSettingsEnd(r)
  \/ Scan(r) \/ ScanList(r) \/ ScanEnd(r) \/ Page(r) \/ PageEnd(r)
  \/ SaveEntry(r) \/ SaveEntryCheck(r) \/ SaveEntryEnd(r) \/ HandlerFails(r)

Next == (\E r \in Requests : Handle(r)) \/ Clock \/ World \/ Crash \/ Boot

Spec == Init /\ [][Next]_vars

-----------------------------------------------------------------------------
(* Properties. *)

\* Sessions end when they should, although their end is compared as text and
\* the time to compare with is taken before the database is free: nobody is
\* admitted in a later second than the session's last one, or after a logout
\* has deleted it, and nobody is turned away in an earlier second unless a
\* logout has; a login's clean-up takes nobody's session (store.go 292-322,
\* server.go 566-596, manager.go 166-207).
SessionsEndInTime ==
  [][\A r \in Requests : pc[r] = "lookup" =>
       LET t == token[r] IN
       /\ pc'[r] = "admitted" => t \notin revoked /\ Second(taken[r]) <= Second(expires[t])
       /\ pc'[r] = "refused" => t \in revoked \/ Second(now) >= Second(expires[t])]_vars

\* TASKS.md 81: what was saved is in force at once.  It is, once nobody is
\* saving, unless two saves of the same setting stored and applied it at the
\* same time or the last start could not read the table; a later save or start
\* heals both, and so does a kill between storing and applying (service.go
\* 836-871, main.go 44-48, config.go 48-70).
SavedIsInForce ==
  up => \A k \in LiveKeys \ parted :
          (\A r \in Requests : k \notin toApply[r]) => InForce(k)

\* An address that is shown, recommended or saved is that of a port which the
\* engine listed for this very request, although containers are created anew and
\* entries saved between the reads, and a saved entry outlives its port
\* (web_access.go 40-82, web.go 113-120, service.go 126-141).
AddressWasListed ==
  [][\A r \in Requests : pc[r] # "done" /\ pc'[r] = "done" /\ up' =>
       /\ shown'[r] \subseteq seen[r]
       /\ pc[r] = "savePut" /\ saved' # saved => saved' \in seen[r]]_vars

=============================================================================
