---------------------------- MODULE ConsoleProofs ----------------------------
(***************************************************************************)
(* Proofs about Console, for any number of requests, sessions, settings    *)
(* and ports, any lifetime of a session and any values.  Each of the three *)
(* parts that Console composes has an invariant of its own; none needs the *)
(* others'.                                                                *)
(***************************************************************************)
EXTENDS Console, TLAPS

Typed ==
  /\ TypeOK
  /\ \A r \in Requests : /\ token[r] \in issued
                         /\ saving[r] # None => toApply[r] \subseteq DOMAIN saving[r]

\* A row goes by a logout, or because its session is over.
SessionInv ==
  /\ rows \cap revoked = {}
  /\ \A t \in issued : t \in rows \/ t \in revoked \/ Second(expires[t]) <= Second(now)
  /\ \A r \in Requests : taken[r] <= now

\* At most one request is yet to give a setting on, and it will give on what is
\* stored; when there is none, what is stored is in force.
Agree(k) ==
  /\ \A r \in Requests : k \in toApply[r] => saving[r][k] = stored[k]
  /\ \A r, q \in Requests : k \in toApply[r] /\ k \in toApply[q] => r = q
  /\ (\A r \in Requests : k \notin toApply[r]) => InForce(k)

SettingInv ==
  /\ up => \A k \in LiveKeys \ parted : Agree(k)
  /\ ~up => \A r \in Requests : toApply[r] = {}

\* A request has shown nothing before it answers, and saves what it was told of.
WebInv ==
  \A r \in Requests : /\ pc[r] # "done" => shown[r] = {}
                      /\ pc[r] = "savePut" => entry[r] \in seen[r]

USE DEF sessionVars, settingVars, webVars, consoleVars, requestVars, Quiet, Step, Forget

-----------------------------------------------------------------------------
(* Times and their texts.                                                  *)

\* A text begins with its second.
LEMMA TextSecond ==
  ASSUME NEW time \in Nat
  PROVE  /\ 1 \in DOMAIN Text(time) /\ Text(time)[1] = Second(time)
         /\ DOMAIN Text(time) \subseteq Nat \ {0} /\ Second(time) \in Nat
<1>1. Second(time) \in Nat
  BY DEF Second
<1>2. Fraction(time) \in Seq(Int)
  BY DEF Fraction, Point
<1>3. <<Second(time)>> \in Seq(Int) /\ <<Zulu>> \in Seq(Int)
  BY <1>1 DEF Zulu
<1>. DEFINE F == Fraction(time)
<1>. HIDE DEF F
<1>4. Text(time) = (<<Second(time)>> \o F) \o <<Zulu>>
  BY DEF Text, F
<1>5. F \in Seq(Int)
  BY <1>2 DEF F
<1>. QED BY <1>1, <1>3, <1>4, <1>5

\* The order of texts is that of times, as far as seconds go (store.go 299-304).
LEMMA TextOrder ==
  ASSUME NEW s \in Nat, NEW t \in Nat
  PROVE  /\ Before(Text(s), Text(t)) => Second(s) <= Second(t)
         /\ Second(s) < Second(t) => Before(Text(s), Text(t))
<1>1. ASSUME Before(Text(s), Text(t)) PROVE Second(s) <= Second(t)
  <2>1. PICK i \in DOMAIN Text(s) \cap DOMAIN Text(t) :
          Text(s)[i] < Text(t)[i] /\ \A j \in 1..(i - 1) : Text(s)[j] = Text(t)[j]
    BY <1>1 DEF Before
  <2>2. i \in Nat /\ i >= 1
    BY TextSecond
  <2>3. CASE i = 1
    BY <2>1, <2>3, TextSecond
  <2>4. CASE i > 1
    <3>1. 1 \in 1..(i - 1)
      BY <2>2, <2>4
    <3>. QED BY <2>1, <3>1, TextSecond
  <2>. QED BY <2>2, <2>3, <2>4
<1>2. ASSUME Second(s) < Second(t) PROVE Before(Text(s), Text(t))
  <2>1. \A j \in 1..(1 - 1) : Text(s)[j] = Text(t)[j]
    OBVIOUS
  <2>. QED BY <1>2, <2>1, TextSecond DEF Before
<1>. QED BY <1>1, <1>2

LEMMA SecondOrder ==
  ASSUME NEW s \in Nat, NEW t \in Nat, s <= t
  PROVE  Second(s) <= Second(t) /\ Second(s) \in Nat /\ Second(t) \in Nat
  BY DEF Second

\* Who is over is so, and who is not has not been over for a whole second.
LEMMA ExpiredSecond ==
  ASSUME NEW t, NEW time \in Nat, expires[t] \in Nat
  PROVE  /\ ~Expired(t, time) => Second(time) <= Second(expires[t])
         /\ Expired(t, time) => Second(expires[t]) <= Second(time)
  BY TextOrder, SecondOrder DEF Expired

-----------------------------------------------------------------------------
(* Types.                                                                  *)

LEMMA SessionTypes ==
  ASSUME Typed,
         \/ Tick \/ UNCHANGED sessionVars
         \/ \E t \in Tokens : CreateSession(t)
         \/ \E r \in Requests : DeleteSession(token[r])
  PROVE  SessionTypeOK' /\ issued \subseteq issued'
<1>. SessionTypeOK /\ \A r \in Requests : token[r] \in issued
  BY DEF Typed, TypeOK
<1>. USE SessionAssumption DEF SessionTypeOK
<1>1. CASE Tick
  BY <1>1 DEF Tick
<1>2. CASE UNCHANGED sessionVars
  BY <1>2
<1>3. ASSUME NEW t \in Tokens, CreateSession(t) PROVE SessionTypeOK' /\ issued \subseteq issued'
  <2>1. now + TTL \in 0..(MaxTime + TTL)
    OBVIOUS
  <2>. QED BY <1>3, <2>1 DEF CreateSession
<1>4. ASSUME NEW r \in Requests, DeleteSession(token[r]) PROVE SessionTypeOK' /\ issued \subseteq issued'
  BY <1>4 DEF DeleteSession
<1>. QED BY <1>1, <1>2, <1>3, <1>4

\* The end of all requests, as a kill leaves it.
NoRequests ==
  /\ scanMu' = None /\ seen' = [r \in Requests |-> {}] /\ entry' = [r \in Requests |-> None]
  /\ toApply' = [r \in Requests |-> {}] /\ saving' = [r \in Requests |-> None]
  /\ UNCHANGED <<stored, inForce, parted, published, saved, shown>>

Given(r) == saving[r] # None => toApply[r] \subseteq DOMAIN saving[r]

LEMMA SettingTypes ==
  ASSUME Typed,
         \/ \E r \in Requests, s \in Saves : Commit(r, s)
         \/ \E r \in Requests : Apply(r) \/ SaveEnd(r)
         \/ \E read \in BOOLEAN : ApplySettings(read)
         \/ NoRequests \/ UNCHANGED settingVars
  PROVE  SettingsTypeOK' /\ \A r \in Requests : Given(r)'
<1>. SettingsTypeOK /\ \A r \in Requests : Given(r)
  BY DEF Typed, TypeOK, Given
<1>. USE SettingsAssumption DEF SettingsTypeOK, Given
<1>1. ASSUME NEW r \in Requests, NEW s \in Saves, Commit(r, s)
      PROVE  SettingsTypeOK' /\ \A q \in Requests : Given(q)'
  <2>1. stored' \in [Keys -> Values \cup {None}]
    BY <1>1 DEF Commit
  <2>2. /\ UNCHANGED inForce /\ parted' \subseteq LiveKeys
        /\ saving' = [saving EXCEPT ![r] = s]
        /\ toApply' = [toApply EXCEPT ![r] = LiveKeys \cap DOMAIN s]
    BY <1>1 DEF Commit
  <2>. QED BY <2>1, <2>2
<1>2. ASSUME NEW r \in Requests, Apply(r)
      PROVE  SettingsTypeOK' /\ \A q \in Requests : Given(q)'
  <2>1. PICK i \in DOMAIN Live :
          /\ IsNext(r, i)
          /\ inForce' = [inForce EXCEPT ![Live[i]] = saving[r][Live[i]]]
          /\ toApply' = [toApply EXCEPT ![r] = @ \ {Live[i]}]
          /\ UNCHANGED <<stored, saving, parted>>
    BY <1>2 DEF Apply
  <2>2. saving[r] \in Saves /\ Live[i] \in DOMAIN saving[r]
    BY <2>1 DEF IsNext
  <2>3. saving[r][Live[i]] \in Values
    BY <2>2
  <2>. QED BY <2>1, <2>3
<1>3. ASSUME NEW r \in Requests, SaveEnd(r)
      PROVE  SettingsTypeOK' /\ \A q \in Requests : Given(q)'
  BY <1>3 DEF SaveEnd
<1>4. ASSUME NEW read \in BOOLEAN, ApplySettings(read)
      PROVE  SettingsTypeOK' /\ \A q \in Requests : Given(q)'
  <2>1. inForce' \in [Keys -> Values]
    BY <1>4 DEF ApplySettings
  <2>. QED BY <1>4, <2>1 DEF ApplySettings
<1>5. CASE NoRequests
  BY <1>5 DEF NoRequests
<1>6. CASE UNCHANGED settingVars
  BY <1>6
<1>. QED BY <1>1, <1>2, <1>3, <1>4, <1>5, <1>6

\* Only ports that were asked are recommended.
LEMMA RecommendedAsked == \A f : Recommended(f) \subseteq DOMAIN f
  BY DEF Recommended

\* Detect answers with ports it was told of.
LEMMA DetectShows ==
  ASSUME WebTypeOK, NEW r \in Requests, Detect(r)
  PROVE  /\ shown'[r] \subseteq seen[r]
         /\ shown' \in [Requests -> SUBSET Ports]
         /\ \A q \in Requests \ {r} : shown'[q] = shown[q]
<1>1. PICK first \in [seen[r] -> Schemes], reached \in SUBSET seen[r] :
        shown' = [shown EXCEPT ![r] =
          Recommended([p \in seen[r] |-> IF p \in reached THEN Probed(first[p], App[p]) ELSE "unreachable"])]
  BY DEF Detect
<1>. DEFINE R == Recommended([p \in seen[r] |-> IF p \in reached THEN Probed(first[p], App[p]) ELSE "unreachable"])
<1>2. R \subseteq seen[r]
  BY RecommendedAsked
<1>. HIDE DEF R
<1>. QED BY <1>1, <1>2 DEF R, WebTypeOK

LEMMA WebTypes ==
  ASSUME Typed,
         \/ \E ports \in SUBSET Ports : Recreate(ports)
         \/ \E r \in Requests :
              \/ ScanLock(r) \/ Containers(r) \/ Detect(r) \/ ScanFails(r) \/ ShowPage(r)
              \/ (\E e \in Ports : SaveCheck(r, e))
              \/ SavePut(r)
              \/ Forget(r) /\ UNCHANGED <<published, saved, scanMu, shown>>
         \/ NoRequests \/ UNCHANGED webVars
  PROVE  WebTypeOK'
<1>. WebTypeOK
  BY DEF Typed, TypeOK
<1>. USE WebAssumption DEF WebTypeOK
<1>1. ASSUME NEW ports \in SUBSET Ports, Recreate(ports) PROVE WebTypeOK'
  BY <1>1 DEF Recreate
<1>2. ASSUME NEW r \in Requests, ScanLock(r) \/ Containers(r) PROVE WebTypeOK'
  BY <1>2 DEF ScanLock, Containers
<1>3. ASSUME NEW r \in Requests, Detect(r) PROVE WebTypeOK'
  <2>1. /\ scanMu' = None /\ UNCHANGED <<published, saved>>
        /\ seen' = [seen EXCEPT ![r] = {}] /\ entry' = [entry EXCEPT ![r] = None]
    BY <1>3 DEF Detect
  <2>. QED BY <1>3, <2>1, DetectShows
<1>4. ASSUME NEW r \in Requests, ScanFails(r) \/ SavePut(r) \/ (Forget(r) /\ UNCHANGED <<published, saved, scanMu, shown>>)
      PROVE  WebTypeOK'
  BY <1>4 DEF ScanFails, SavePut
<1>5. ASSUME NEW r \in Requests, ShowPage(r) PROVE WebTypeOK'
  <2>1. ResolveSaved(r, saved) \subseteq Ports
    BY DEF ResolveSaved
  <2>. QED BY <1>5, <2>1 DEF ShowPage
<1>6. ASSUME NEW r \in Requests, NEW e \in Ports, SaveCheck(r, e) PROVE WebTypeOK'
  BY <1>6 DEF SaveCheck
<1>7. CASE NoRequests
  BY <1>7 DEF NoRequests
<1>8. CASE UNCHANGED webVars
  BY <1>8
<1>. QED BY <1>1, <1>2, <1>3, <1>4, <1>5, <1>6, <1>7, <1>8

\* The mutex is held by who detects, and only a save has values to give on.
Links == \A r \in Requests : /\ scanMu = r <=> pc[r] \in {"scanList", "detect"}
                             /\ toApply[r] # {} => pc[r] = "apply"

LEMMA TypeStep == Typed /\ [Next]_vars => Typed'
<1>. SUFFICES ASSUME Typed, [Next]_vars PROVE Typed'
  OBVIOUS
<1>. /\ up \in BOOLEAN /\ pc \in [Requests -> Pcs] /\ Links
     /\ token \in [Requests -> Tokens] /\ \A r \in Requests : token[r] \in issued
     /\ taken \in [Requests -> 0..MaxTime]
     /\ issued \subseteq Tokens /\ now \in 0..MaxTime /\ 0 \in 0..MaxTime
  BY SessionAssumption DEF Typed, TypeOK, SessionTypeOK, Links
<1>. USE WebAssumption DEF Pcs
<1>1. ASSUME SessionTypeOK' /\ issued \subseteq issued', SettingsTypeOK' /\ \A r \in Requests : Given(r)',
             WebTypeOK',
             up' \in BOOLEAN, pc' \in [Requests -> Pcs], Links', token' \in [Requests -> Tokens],
             \A r \in Requests : token'[r] \in issued', taken' \in [Requests -> 0..MaxTime]
      PROVE  Typed'
  BY <1>1 DEF Typed, TypeOK, Links, Given
<1>2. ASSUME NEW r \in Requests,
             Arrive(r) \/ Lookup(r) \/ LookupFails(r) \/ Login(r) \/ Logout(r)
      PROVE  Typed'
  <2>1. UNCHANGED <<settingVars, webVars, up>>
    BY <1>2 DEF Arrive, Lookup, LookupFails, Login, Logout
  <2>2. SettingsTypeOK' /\ (\A q \in Requests : Given(q)') /\ WebTypeOK'
    BY <2>1, SettingTypes, WebTypes
  <2>3. SessionTypeOK' /\ issued \subseteq issued'
    <3>1. CASE Arrive(r) \/ Lookup(r) \/ LookupFails(r)
      BY <3>1, SessionTypes DEF Arrive, Lookup, LookupFails
    <3>2. CASE Login(r)
      BY <3>2, SessionTypes DEF Login
    <3>3. CASE Logout(r)
      BY <3>3, SessionTypes DEF Logout
    <3>. QED BY <1>2, <3>1, <3>2, <3>3
  <2>4. token' \in [Requests -> Tokens] /\ \A q \in Requests : token'[q] \in issued'
    BY <1>2, <2>3 DEF Arrive, Lookup, LookupFails, Login, Logout
  <2>5. taken' \in [Requests -> 0..MaxTime]
    BY <1>2 DEF Arrive, Lookup, LookupFails, Login, Logout
  <2>6. pc' \in [Requests -> Pcs] /\ Links'
    BY <1>2, <2>1 DEF Arrive, Lookup, LookupFails, Login, Logout, Links
  <2>. QED BY <1>1, <2>1, <2>2, <2>3, <2>4, <2>5, <2>6
<1>3. ASSUME NEW r \in Requests, PutSettings(r) \/ ApplySetting(r) \/ PutSettingsEnd(r)
      PROVE  Typed'
  <2>1. UNCHANGED <<sessionVars, webVars, up, token, taken>>
    BY <1>3 DEF PutSettings, ApplySetting, PutSettingsEnd
  <2>2. SessionTypeOK' /\ issued \subseteq issued' /\ WebTypeOK'
    BY <2>1, SessionTypes, WebTypes
  <2>3. SettingsTypeOK' /\ \A q \in Requests : Given(q)'
    BY <1>3, SettingTypes DEF PutSettings, ApplySetting, PutSettingsEnd
  <2>4. pc' \in [Requests -> Pcs] /\ Links'
    <3>1. CASE PutSettings(r)
      BY <2>1, <3>1 DEF PutSettings, Commit, Links, Typed, TypeOK, SettingsTypeOK
    <3>2. CASE ApplySetting(r)
      BY <2>1, <3>2 DEF ApplySetting, Apply, Links, Typed, TypeOK, SettingsTypeOK
    <3>3. CASE PutSettingsEnd(r)
      BY <2>1, <3>3 DEF PutSettingsEnd, SaveEnd, Links
    <3>. QED BY <1>3, <3>1, <3>2, <3>3
  <2>. QED BY <1>1, <2>1, <2>2, <2>3, <2>4
<1>4. ASSUME NEW r \in Requests,
             \/ Scan(r) \/ ScanList(r) \/ ScanEnd(r) \/ Page(r) \/ PageEnd(r)
             \/ SaveEntry(r) \/ SaveEntryCheck(r) \/ SaveEntryEnd(r) \/ HandlerFails(r)
      PROVE  Typed'
  <2>1. UNCHANGED <<sessionVars, settingVars, up, token, taken>>
    BY <1>4 DEF Scan, ScanList, ScanEnd, Page, PageEnd, SaveEntry, SaveEntryCheck, SaveEntryEnd, HandlerFails
  <2>2. SessionTypeOK' /\ issued \subseteq issued' /\ SettingsTypeOK' /\ \A q \in Requests : Given(q)'
    BY <2>1, SessionTypes, SettingTypes
  <2>3. WebTypeOK'
    <3>1. CASE Scan(r) \/ ScanList(r) \/ Page(r) \/ SaveEntry(r) \/ SaveEntryEnd(r) \/ HandlerFails(r)
      BY <3>1, WebTypes DEF Scan, ScanList, Page, SaveEntry, SaveEntryEnd, HandlerFails
    <3>2. CASE ScanEnd(r) \/ PageEnd(r)
      BY <3>2, WebTypes DEF ScanEnd, PageEnd
    <3>3. CASE SaveEntryCheck(r)
      BY <3>3, WebTypes DEF SaveEntryCheck
    <3>. QED BY <1>4, <3>1, <3>2, <3>3
  <2>4. pc' \in [Requests -> Pcs] /\ Links'
    <3>1. CASE Scan(r) \/ ScanList(r) \/ Page(r) \/ SaveEntry(r) \/ SaveEntryEnd(r) \/ HandlerFails(r)
      BY <2>1, <3>1 DEF Scan, ScanList, Page, SaveEntry, SaveEntryEnd, HandlerFails, ScanLock, Containers, SavePut, Links
    <3>2. CASE ScanEnd(r)
      <4>1. /\ scanMu = r /\ scanMu' = None /\ UNCHANGED toApply
            /\ pc[r] \in {"scanList", "detect"} /\ pc' = [pc EXCEPT ![r] = "done"]
        BY <2>1, <3>2 DEF ScanEnd, ScanFails, Detect
      <4>. QED BY <4>1 DEF Links
    <3>3. CASE PageEnd(r)
      BY <2>1, <3>3 DEF PageEnd, ShowPage, Links
    <3>4. CASE SaveEntryCheck(r)
      BY <2>1, <3>4 DEF SaveEntryCheck, SaveCheck, Links
    <3>. QED BY <1>4, <3>1, <3>2, <3>3, <3>4
  <2>. QED BY <1>1, <2>1, <2>2, <2>3, <2>4
<1>5. CASE World
  <2>1. UNCHANGED <<sessionVars, settingVars, consoleVars, scanMu>> /\ \E ports \in SUBSET Ports : Recreate(ports)
    BY <1>5 DEF World, Recreate
  <2>2. SessionTypeOK' /\ issued \subseteq issued' /\ SettingsTypeOK' /\ (\A q \in Requests : Given(q)') /\ WebTypeOK'
    BY <2>1, SessionTypes, SettingTypes, WebTypes
  <2>. QED BY <1>1, <2>1, <2>2 DEF Links
<1>6. CASE Crash
  <2>1. NoRequests /\ UNCHANGED <<sessionVars, token, taken>> /\ up' = FALSE
    BY <1>6 DEF Crash, NoRequests
  <2>2. SessionTypeOK' /\ issued \subseteq issued' /\ SettingsTypeOK' /\ (\A q \in Requests : Given(q)') /\ WebTypeOK'
    BY <2>1, SessionTypes, SettingTypes, WebTypes
  <2>3. pc' \in [Requests -> Pcs] /\ Links'
    BY <1>6 DEF Crash, Links
  <2>. QED BY <1>1, <2>1, <2>2, <2>3
<1>7. CASE Boot
  <2>1. UNCHANGED <<sessionVars, webVars, pc, token, taken, toApply>> /\ up' = TRUE
    BY <1>7 DEF Boot, ApplySettings
  <2>2. SessionTypeOK' /\ issued \subseteq issued' /\ WebTypeOK'
    BY <2>1, SessionTypes, WebTypes
  <2>3. SettingsTypeOK' /\ \A q \in Requests : Given(q)'
    BY <1>7, SettingTypes DEF Boot
  <2>. QED BY <1>1, <2>1, <2>2, <2>3 DEF Links
<1>8. CASE UNCHANGED vars
  <2>1. UNCHANGED <<sessionVars, settingVars, webVars, consoleVars>>
    BY <1>8 DEF vars
  <2>2. SessionTypeOK' /\ issued \subseteq issued' /\ SettingsTypeOK' /\ (\A q \in Requests : Given(q)') /\ WebTypeOK'
    BY <2>1, SessionTypes, SettingTypes, WebTypes
  <2>. QED BY <1>1, <2>1, <2>2 DEF Links
<1>9. CASE Clock
  <2>1. UNCHANGED <<settingVars, webVars, consoleVars>> /\ Tick
    BY <1>9 DEF Clock
  <2>2. SessionTypeOK' /\ issued \subseteq issued' /\ SettingsTypeOK' /\ (\A q \in Requests : Given(q)') /\ WebTypeOK'
    BY <2>1, SessionTypes, SettingTypes, WebTypes
  <2>. QED BY <1>1, <2>1, <2>2 DEF Links
<1>. QED BY <1>2, <1>3, <1>4, <1>5, <1>6, <1>7, <1>8, <1>9 DEF Next, Handle

LEMMA TypedHolds == Spec => []Typed
<1>1. Init => Typed
  <2>. SUFFICES ASSUME Init PROVE Typed
    OBVIOUS
  <2>1. SessionTypeOK /\ First \in issued /\ 0 \in 0..MaxTime
    BY SessionAssumption DEF Init, SessionInit, SessionTypeOK
  <2>2. SettingsTypeOK /\ \A r \in Requests : toApply[r] = {}
    BY SettingsAssumption DEF Init, SettingsInit, SettingsTypeOK
  <2>3. WebTypeOK
    BY WebAssumption DEF Init, WebInit, WebTypeOK
  <2>. QED BY <2>1, <2>2, <2>3, WebAssumption, SessionAssumption DEF Init, WebInit, Typed, TypeOK, Pcs
<1>. QED BY <1>1, TypeStep, PTL DEF Spec

\* Every variable of sessions, settings, web entries and requests keeps its type,
\* and the detection's mutex is held by exactly who detects, on every way out
\* (web_access.go 20-61).
THEOREM ConsoleTypes == Spec => []TypeOK
<1>1. Typed => TypeOK
  BY DEF Typed
<1>. QED BY <1>1, TypedHolds, PTL

-----------------------------------------------------------------------------
(* Sessions.                                                               *)

LEMMA SessionStep == Typed /\ SessionInv /\ [Next]_vars => SessionInv'
<1>. SUFFICES ASSUME Typed, SessionInv, [Next]_vars PROVE SessionInv'
  OBVIOUS
<1>. /\ now \in Nat /\ rows \subseteq issued /\ issued \subseteq Tokens /\ TTL \in Nat
     /\ expires \in [Tokens -> 0..(MaxTime + TTL)] /\ MaxTime \in Nat
     /\ taken \in [Requests -> 0..MaxTime] /\ token \in [Requests -> Tokens]
     /\ \A t \in Tokens : expires[t] \in Nat
  BY SessionAssumption DEF Typed, TypeOK, SessionTypeOK
<1>1. ASSUME NEW r \in Requests, Arrive(r) PROVE SessionInv'
  BY <1>1 DEF Arrive, SessionInv
<1>2. ASSUME NEW r \in Requests, Lookup(r) \/ LookupFails(r) PROVE SessionInv'
  BY <1>2 DEF Lookup, LookupFails, SessionInv
<1>3. ASSUME NEW r \in Requests, NEW t \in Tokens, CreateSession(t), UNCHANGED taken
      PROVE  SessionInv'
  <2>1. /\ t \notin issued /\ issued' = issued \cup {t} /\ UNCHANGED <<now, revoked>>
        /\ rows' = {s \in rows : ~Expired(s, now)} \cup {t}
        /\ \A s \in issued : expires'[s] = expires[s]
    BY <1>3 DEF CreateSession
  <2>2. \A s \in issued : Expired(s, now) => Second(expires[s]) <= Second(now)
    BY ExpiredSecond
  <2>3. t \notin revoked
    BY <2>1 DEF Typed, TypeOK, SessionTypeOK
  <2>. QED BY <1>3, <2>1, <2>2, <2>3 DEF SessionInv
<1>4. ASSUME NEW r \in Requests, Logout(r) PROVE SessionInv'
  BY <1>4 DEF Logout, DeleteSession, SessionInv
<1>5. CASE Clock
  <2>1. now' = now + 1 /\ UNCHANGED <<rows, issued, expires, revoked, taken>>
    BY <1>5 DEF Clock, Tick
  <2>2. Second(now) <= Second(now + 1)
    BY SecondOrder
  <2>3. \A t \in Tokens : Second(expires[t]) \in Nat
    BY SecondOrder
  <2>4. Second(now) \in Nat /\ Second(now + 1) \in Nat
    BY SecondOrder
  <2>. QED BY <2>1, <2>2, <2>3, <2>4 DEF SessionInv
<1>6. CASE UNCHANGED <<sessionVars, taken>>
  BY <1>6 DEF SessionInv
<1>7. ASSUME NEW r \in Requests, Login(r) PROVE SessionInv'
  BY <1>3, <1>7 DEF Login
<1>8. ASSUME NEW r \in Requests,
             \/ PutSettings(r) \/ ApplySetting(r) \/ PutSettingsEnd(r)
             \/ Scan(r) \/ ScanList(r) \/ ScanEnd(r) \/ Page(r) \/ PageEnd(r)
             \/ SaveEntry(r) \/ SaveEntryCheck(r) \/ SaveEntryEnd(r) \/ HandlerFails(r)
      PROVE  SessionInv'
  BY <1>6, <1>8 DEF PutSettings, ApplySetting, PutSettingsEnd, Scan, ScanList, ScanEnd, Page, PageEnd,
                    SaveEntry, SaveEntryCheck, SaveEntryEnd, HandlerFails
<1>9. CASE World \/ Crash \/ Boot \/ UNCHANGED vars
  BY <1>6, <1>9 DEF World, Crash, Boot, vars
<1>. QED BY <1>1, <1>2, <1>4, <1>5, <1>7, <1>8, <1>9 DEF Next, Handle

\* Sessions end within their last second, or with a logout, and not before, for
\* any lifetime and however long a request waits for the database (store.go
\* 292-322, server.go 566-596, manager.go 166-207).
THEOREM SessionsEnd == Spec => SessionsEndInTime
<1>. DEFINE InTime(r) == LET t == token[r] IN
              /\ pc'[r] = "admitted" => t \notin revoked /\ Second(taken[r]) <= Second(expires[t])
              /\ pc'[r] = "refused" => t \in revoked \/ Second(now) >= Second(expires[t])
<1>1. Typed /\ SessionInv /\ [Next]_vars => [\A r \in Requests : pc[r] = "lookup" => InTime(r)]_vars
  <2>. SUFFICES ASSUME Typed, SessionInv, [Next]_vars, NEW r \in Requests, pc[r] = "lookup",
                       pc'[r] \in {"admitted", "refused"}
                PROVE  InTime(r)
    OBVIOUS
  <2>. /\ now \in Nat /\ token[r] \in issued /\ taken[r] \in Nat /\ taken[r] <= now
       /\ expires[token[r]] \in Nat
    BY SessionAssumption DEF Typed, TypeOK, SessionTypeOK, SessionInv
  <2>1. Lookup(r)
    BY DEF Next, Handle, vars, Arrive, Lookup, LookupFails, Login, Logout, PutSettings, ApplySetting,
           PutSettingsEnd, Scan, ScanList, ScanEnd, Page, PageEnd, SaveEntry, SaveEntryCheck,
           SaveEntryEnd, HandlerFails, Clock, World, Crash, Boot, Typed, TypeOK
  <2>2. /\ Second(taken[r]) <= Second(now) /\ Second(taken[r]) \in Nat /\ Second(now) \in Nat
        /\ Second(expires[token[r]]) \in Nat
    BY SecondOrder
  <2>3. CASE Valid(token[r], taken[r])
    <3>1. pc'[r] = "admitted"
      BY <2>1, <2>3 DEF Lookup, Typed, TypeOK
    <3>. QED BY <2>3, <3>1, ExpiredSecond DEF Valid, SessionInv
  <2>4. CASE ~Valid(token[r], taken[r])
    <3>1. pc'[r] = "refused"
      BY <2>1, <2>4 DEF Lookup, Typed, TypeOK
    <3>2. \/ token[r] \in revoked
          \/ Second(expires[token[r]]) <= Second(now)
          \/ Expired(token[r], taken[r])
      BY <2>4 DEF Valid, SessionInv
    <3>. QED BY <2>2, <3>1, <3>2, ExpiredSecond
  <2>. QED BY <2>3, <2>4
<1>2. Init => SessionInv
  BY DEF Init, SessionInit, SessionInv
<1>. QED BY <1>1, <1>2, SessionStep, TypedHolds, PTL DEF Spec, SessionsEndInTime

-----------------------------------------------------------------------------
(* Settings.                                                               *)

\* A request that has just been admitted has nothing to give on.
LEMMA SettingStep == Typed /\ SettingInv /\ [Next]_vars => SettingInv'
<1>. SUFFICES ASSUME Typed, SettingInv, [Next]_vars PROVE SettingInv'
  OBVIOUS
<1>. USE SettingsAssumption
<1>. /\ \A r \in Requests : toApply[r] # {} => pc[r] = "apply"
     /\ \A r \in Requests : toApply[r] \subseteq LiveKeys
     /\ toApply \in [Requests -> SUBSET LiveKeys] /\ saving \in [Requests -> Saves \cup {None}]
     /\ stored \in [Keys -> Values \cup {None}] /\ inForce \in [Keys -> Values]
     /\ LiveKeys \subseteq Keys
  BY DEF Typed, TypeOK, SettingsTypeOK, LiveKeys, Range
<1>1. ASSUME NEW r \in Requests, PutSettings(r) PROVE SettingInv'
  <2>1. PICK s \in Saves : Commit(r, s)
    BY <1>1 DEF PutSettings
  <2>2. up /\ up' /\ toApply[r] = {}
    BY <1>1 DEF PutSettings
  <2>3. /\ \A k \in LiveKeys : stored'[k] = IF k \in DOMAIN s THEN s[k] ELSE stored[k]
        /\ saving'[r] = s /\ toApply'[r] = LiveKeys \cap DOMAIN s /\ UNCHANGED inForce
        /\ \A q \in Requests \ {r} : toApply'[q] = toApply[q] /\ saving'[q] = saving[q]
    BY <2>1 DEF Commit
  <2>4. ASSUME NEW k \in LiveKeys, k \notin parted', k \in DOMAIN s PROVE Agree(k)'
    <3>1. \A q \in Requests \ {r} : k \notin toApply[q]
      BY <2>1, <2>4 DEF Commit, Applying
    <3>. QED BY <2>3, <2>4, <3>1 DEF Agree
  <2>5. ASSUME NEW k \in LiveKeys, k \notin parted', k \notin DOMAIN s PROVE Agree(k)'
    <3>1. k \notin parted
      BY <2>1, <2>5 DEF Commit
    <3>2. Agree(k) /\ k \notin toApply[r] /\ k \notin toApply'[r]
      BY <2>2, <2>3, <2>5, <3>1 DEF SettingInv
    <3>. QED BY <2>3, <2>5, <3>2 DEF Agree, InForce
  <2>. QED BY <2>2, <2>4, <2>5 DEF SettingInv
<1>2. ASSUME NEW r \in Requests, ApplySetting(r) PROVE SettingInv'
  <2>1. PICK i \in DOMAIN Live :
          /\ IsNext(r, i)
          /\ inForce' = [inForce EXCEPT ![Live[i]] = saving[r][Live[i]]]
          /\ toApply' = [toApply EXCEPT ![r] = @ \ {Live[i]}]
          /\ UNCHANGED <<stored, saving, parted>>
    BY <1>2 DEF ApplySetting, Apply
  <2>2. up /\ up' /\ Live[i] \in toApply[r]
    BY <1>2, <2>1 DEF ApplySetting, IsNext
  <2>3. ASSUME NEW k \in LiveKeys, k \notin parted' PROVE Agree(k)'
    <3>1. Agree(k)
      BY <2>1, <2>2, <2>3 DEF SettingInv
    <3>2. /\ \A q \in Requests : toApply'[q] \subseteq toApply[q]
          /\ k # Live[i] => inForce'[k] = inForce[k] /\ \A q \in Requests : k \in toApply[q] => k \in toApply'[q]
      BY <2>1
    <3>3. CASE k = Live[i]
      <4>1. inForce'[k] = stored[k]
        BY <2>1, <2>2, <3>1, <3>3 DEF Agree
      <4>. QED BY <2>1, <2>2, <3>1, <3>2, <3>3, <4>1 DEF Agree, InForce
    <3>4. CASE k # Live[i]
      BY <2>1, <3>1, <3>2, <3>4 DEF Agree, InForce
    <3>. QED BY <3>3, <3>4
  <2>. QED BY <2>2, <2>3 DEF SettingInv
<1>3. ASSUME NEW r \in Requests, PutSettingsEnd(r) PROVE SettingInv'
  <2>1. /\ up /\ up' /\ toApply[r] = {} /\ UNCHANGED <<stored, inForce, toApply, parted>>
        /\ \A q \in Requests \ {r} : saving'[q] = saving[q]
    BY <1>3 DEF PutSettingsEnd, SaveEnd
  <2>2. ASSUME NEW k \in LiveKeys, k \notin parted PROVE Agree(k)'
    <3>1. Agree(k)
      BY <2>1, <2>2 DEF SettingInv
    <3>. QED BY <2>1, <3>1 DEF Agree, InForce
  <2>. QED BY <2>1, <2>2 DEF SettingInv
<1>4. CASE Crash
  BY <1>4 DEF Crash, SettingInv
<1>5. CASE Boot
  <2>1. PICK read \in BOOLEAN : ApplySettings(read)
    BY <1>5 DEF Boot
  <2>2. up' /\ \A r \in Requests : toApply'[r] = {}
    BY <1>5, <2>1 DEF Boot, ApplySettings, SettingInv
  <2>3. ASSUME NEW k \in LiveKeys, k \notin parted' PROVE InForce(k)'
    BY <2>1, <2>3 DEF ApplySettings, InForce
  <2>. QED BY <2>2, <2>3 DEF SettingInv, Agree
<1>6. CASE UNCHANGED <<settingVars, up>>
  BY <1>6 DEF SettingInv, Agree, InForce
<1>7. ASSUME NEW r \in Requests,
             \/ Arrive(r) \/ Lookup(r) \/ LookupFails(r) \/ Login(r) \/ Logout(r)
             \/ Scan(r) \/ ScanList(r) \/ ScanEnd(r) \/ Page(r) \/ PageEnd(r)
             \/ SaveEntry(r) \/ SaveEntryCheck(r) \/ SaveEntryEnd(r) \/ HandlerFails(r)
      PROVE  SettingInv'
  BY <1>6, <1>7 DEF Arrive, Lookup, LookupFails, Login, Logout, Scan, ScanList, ScanEnd, Page, PageEnd,
                    SaveEntry, SaveEntryCheck, SaveEntryEnd, HandlerFails
<1>8. CASE Clock \/ World \/ UNCHANGED vars
  BY <1>6, <1>8 DEF Clock, World, vars
<1>. QED BY <1>1, <1>2, <1>3, <1>4, <1>5, <1>7, <1>8 DEF Next, Handle

\* What was saved is in force once nobody is saving, for any number of saves and
\* of settings that take effect at once (service.go 836-871, main.go 44-48,
\* config.go 48-70).
THEOREM SavedTakesEffect == Spec => []SavedIsInForce
<1>1. Init => SettingInv
  BY SettingsAssumption DEF Init, SettingsInit, SettingInv, Agree, InForce, LiveKeys, Range
<1>2. SettingInv => SavedIsInForce
  BY DEF SettingInv, Agree, SavedIsInForce
<1>. QED BY <1>1, <1>2, SettingStep, TypedHolds, PTL DEF Spec

-----------------------------------------------------------------------------
(* Web entries.                                                            *)

LEMMA WebStep == Typed /\ WebInv /\ [Next]_vars => WebInv'
<1>. SUFFICES ASSUME Typed, WebInv, [Next]_vars PROVE WebInv'
  OBVIOUS
<1>. /\ pc \in [Requests -> Pcs] /\ shown \in [Requests -> SUBSET Ports]
     /\ seen \in [Requests -> SUBSET Ports] /\ entry \in [Requests -> Ports \cup {None}]
     /\ WebTypeOK
  BY DEF Typed, TypeOK, WebTypeOK
<1>1. ASSUME NEW r \in Requests,
             \A q \in Requests \ {r} :
               pc'[q] = pc[q] /\ shown'[q] = shown[q] /\ seen'[q] = seen[q] /\ entry'[q] = entry[q],
             pc[r] # "done", pc'[r] # "savePut",
             pc'[r] = "done" \/ shown'[r] = shown[r]
      PROVE  WebInv'
  BY <1>1 DEF WebInv
<1>2. ASSUME NEW r \in Requests,
             \/ Arrive(r) \/ Lookup(r) \/ LookupFails(r) \/ Login(r) \/ Logout(r)
             \/ PutSettings(r) \/ ApplySetting(r) \/ PutSettingsEnd(r)
      PROVE  WebInv'
  BY <1>1, <1>2 DEF Arrive, Lookup, LookupFails, Login, Logout, PutSettings, ApplySetting, PutSettingsEnd
<1>3. ASSUME NEW r \in Requests, Scan(r) \/ ScanList(r) \/ Page(r) \/ SaveEntry(r) PROVE WebInv'
  BY <1>1, <1>3 DEF Scan, ScanList, Page, SaveEntry, ScanLock, Containers
<1>4. ASSUME NEW r \in Requests, ScanEnd(r) PROVE WebInv'
  <2>1. /\ pc[r] # "done" /\ pc' = [pc EXCEPT ![r] = "done"]
        /\ seen' = [seen EXCEPT ![r] = {}] /\ entry' = [entry EXCEPT ![r] = None]
    BY <1>4 DEF ScanEnd, Detect, ScanFails
  <2>2. \A q \in Requests \ {r} : shown'[q] = shown[q]
    BY <1>4, DetectShows DEF ScanEnd, ScanFails
  <2>. QED BY <1>1, <2>1, <2>2
<1>5. ASSUME NEW r \in Requests, PageEnd(r) \/ SaveEntryEnd(r) \/ HandlerFails(r) PROVE WebInv'
  BY <1>1, <1>5 DEF PageEnd, SaveEntryEnd, HandlerFails, ShowPage, SavePut
<1>6. ASSUME NEW r \in Requests, SaveEntryCheck(r) PROVE WebInv'
  BY <1>6 DEF SaveEntryCheck, SaveCheck, ResolveSaved, WebInv
<1>7. CASE Crash
  BY <1>7 DEF Crash, WebInv
<1>8. CASE World \/ Clock \/ Boot \/ UNCHANGED vars
  BY <1>8 DEF World, Recreate, Clock, Boot, vars, WebInv
<1>. QED BY <1>2, <1>3, <1>4, <1>5, <1>6, <1>7, <1>8 DEF Next, Handle

\* An address that is shown, recommended or saved is that of a port the engine
\* listed for this very request, for any number of requests, ports and changes
\* in between (web_access.go 40-82, web.go 113-120, service.go 126-141).
THEOREM AddressesListed == Spec => AddressWasListed
<1>. DEFINE Listed(r) == /\ shown'[r] \subseteq seen[r]
                         /\ pc[r] = "savePut" /\ saved' # saved => saved' \in seen[r]
<1>1. Typed /\ WebInv /\ [Next]_vars =>
        [\A r \in Requests : pc[r] # "done" /\ pc'[r] = "done" /\ up' => Listed(r)]_vars
  <2>. SUFFICES ASSUME Typed, WebInv, [Next]_vars, NEW r \in Requests,
                       pc[r] # "done", pc'[r] = "done", up'
                PROVE  Listed(r)
    OBVIOUS
  <2>. /\ pc \in [Requests -> Pcs] /\ WebTypeOK /\ shown[r] = {}
       /\ pc[r] = "savePut" => entry[r] \in seen[r]
    BY DEF Typed, TypeOK, WebInv
  <2>1. CASE UNCHANGED <<shown, saved>>
    BY <2>1
  <2>2. CASE ScanEnd(r)
    BY <2>2, DetectShows DEF ScanEnd, ScanFails
  <2>3. CASE PageEnd(r)
    BY <2>3 DEF PageEnd, ShowPage, ResolveSaved, WebTypeOK
  <2>4. CASE SaveEntryEnd(r)
    BY <2>4 DEF SaveEntryEnd, SavePut
  <2>5. ASSUME NEW q \in Requests, Handle(q) PROVE q = r
    <3>1. ASSUME NEW from, NEW to, Step(q, from, to) PROVE q = r
      BY <3>1 DEF Step
    <3>. QED BY <2>5, <3>1 DEF Handle, Arrive, Lookup, LookupFails, Login, Logout, PutSettings, ApplySetting,
             PutSettingsEnd, Scan, ScanList, ScanEnd, Page, PageEnd, SaveEntry, SaveEntryCheck,
             SaveEntryEnd, HandlerFails
  <2>6. CASE Arrive(r) \/ Lookup(r) \/ LookupFails(r) \/ Login(r) \/ Logout(r)
    BY <2>1, <2>6 DEF Arrive, Lookup, LookupFails, Login, Logout, webVars
  <2>7. CASE PutSettings(r) \/ ApplySetting(r) \/ PutSettingsEnd(r)
    BY <2>1, <2>7 DEF PutSettings, ApplySetting, PutSettingsEnd, webVars
  <2>8. CASE Scan(r) \/ ScanList(r) \/ Page(r) \/ SaveEntry(r) \/ SaveEntryCheck(r) \/ HandlerFails(r)
    BY <2>1, <2>8 DEF Scan, ScanList, Page, SaveEntry, SaveEntryCheck, HandlerFails, ScanLock, Containers,
       SaveCheck, requestVars
  <2>9. CASE Clock \/ World \/ Crash \/ Boot \/ UNCHANGED vars
    BY <2>1, <2>9 DEF Clock, World, Recreate, Crash, Boot, consoleVars, webVars, vars
  <2>10. CASE \E q \in Requests : Handle(q)
    BY <2>2, <2>3, <2>4, <2>5, <2>6, <2>7, <2>8, <2>10 DEF Handle
  <2>. QED BY <2>9, <2>10 DEF Next
<1>2. Init => WebInv
  BY DEF Init, WebInit, WebInv
<1>. QED BY <1>1, <1>2, WebStep, TypedHolds, PTL DEF Spec, AddressWasListed

=============================================================================
