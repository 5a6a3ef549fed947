------------------------------ MODULE Settings ------------------------------
(***************************************************************************)
(* The settings: PutSettings stores values in one transaction and then     *)
(* gives those that take effect at once to the registry client (SetProxy)  *)
(* and to the Compose runner (SetTimeout), each under a lock of its own.   *)
(* A start takes all of them over the environment's values.  What          *)
(* PutSettings refuses, it refuses before it stores anything.              *)
(***************************************************************************)
EXTENDS Naturals, Sequences, Functions

CONSTANTS
  Requests, \* handlers of requests
  Keys,     \* names of settings
  Live,     \* those applied by PutSettings, in its order
  Values,
  Env,      \* the values of the environment
  Saves,    \* what requests save: functions from some keys to values
  None

ASSUME SettingsAssumption ==
  /\ Live \in Seq(Keys) /\ Env \in [Keys -> Values] /\ None \notin Values \cup Saves
  /\ \A s \in Saves : DOMAIN s \subseteq Keys /\ \A k \in DOMAIN s : s[k] \in Values

VARIABLES
  stored,   \* the settings table; None without a row
  inForce,  \* Service.config, the proxy of the checker, the timeout of the runner
  saving,   \* per request: what it saves, None when it does not
  toApply,  \* per request: live settings it has stored and not yet applied
  parted    \* ghost: live settings that two saves stored and applied at once,
            \* or that a start could not read

settingVars == <<stored, inForce, saving, toApply, parted>>

LiveKeys == Range(Live)

SettingsTypeOK ==
  /\ stored \in [Keys -> Values \cup {None}] /\ inForce \in [Keys -> Values]
  /\ saving \in [Requests -> Saves \cup {None}] /\ parted \subseteq LiveKeys
  /\ toApply \in [Requests -> SUBSET LiveKeys]
  /\ \A r \in Requests : toApply[r] # {} => saving[r] # None

SettingsInit ==
  /\ stored = [k \in Keys |-> None] /\ inForce = Env /\ parted = {}
  /\ saving = [r \in Requests |-> None] /\ toApply = [r \in Requests |-> {}]

\* Others that have yet to apply k.
Applying(k, r) == \E q \in Requests \ {r} : k \in toApply[q]

\* The transaction. It may fail, which is no step.
Commit(r, values) ==
  /\ stored' = [k \in Keys |-> IF k \in DOMAIN values THEN values[k] ELSE stored[k]]
  /\ saving' = [saving EXCEPT ![r] = values]
  /\ toApply' = [toApply EXCEPT ![r] = LiveKeys \cap DOMAIN values]
  /\ parted' = {k \in LiveKeys : IF k \in DOMAIN values THEN Applying(k, r) ELSE k \in parted}
  /\ UNCHANGED inForce

\* Whether i is the place of the next value that r gives on.
IsNext(r, i) ==
  /\ i \in DOMAIN Live /\ Live[i] \in toApply[r]
  /\ \A j \in DOMAIN Live : j < i => Live[j] \notin toApply[r]

\* Broken: the function returns what the first call returned.
ApplyFirstOnly(r) ==
  \E i \in DOMAIN Live :
    /\ IsNext(r, i)
    /\ inForce' = [inForce EXCEPT ![Live[i]] = saving[r][Live[i]]]
    /\ toApply' = [toApply EXCEPT ![r] = {}]
    /\ UNCHANGED <<stored, saving, parted>>

\* SetProxy, then SetTimeout. Their values have been checked: they do not fail.
Apply(r) ==
  \E i \in DOMAIN Live :
    /\ IsNext(r, i)
    /\ inForce' = [inForce EXCEPT ![Live[i]] = saving[r][Live[i]]]
    /\ toApply' = [toApply EXCEPT ![r] = @ \ {Live[i]}]
    /\ UNCHANGED <<stored, saving, parted>>

\* The call returns.
SaveEnd(r) ==
  /\ toApply[r] = {} /\ saving' = [saving EXCEPT ![r] = None]
  /\ UNCHANGED <<stored, inForce, toApply, parted>>

\* A start reads the table, or goes on without it when that fails.
ApplySettings(read) ==
  /\ inForce' = [k \in Keys |-> IF read /\ stored[k] # None THEN stored[k] ELSE Env[k]]
  /\ parted' = IF read THEN {} ELSE LiveKeys
  /\ UNCHANGED <<stored, saving, toApply>>

\* What PutSettings promises while nobody is in it.
InForce(k) == stored[k] = None \/ inForce[k] = stored[k]

=============================================================================
