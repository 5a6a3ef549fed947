------------------------------- MODULE Access -------------------------------
(***************************************************************************)
(* First-run setup and the login limiter: auth.Manager New and Setup,      *)
(* auth.Limiter, and the handlers authSetup and authLogin.  The server     *)
(* starts, may be killed at any step and is started again; handlers run    *)
(* concurrently.  Users and the setup-token file survive a restart, the    *)
(* token in memory and the limiters' counters do not.                      *)
(***************************************************************************)
EXTENDS Naturals, FiniteSets

CONSTANTS
  Clients,       \* handlers running at the same time
  Addresses,     \* where logins come from
  Names,         \* user names tried
  AddressLimit,  \* failures after which an address is refused (30)
  AccountLimit,  \* failures after which an address and a name are (8)
  CleanAt,       \* entries at which Failure removes the old ones (4096)
  MaxFailures,   \* failures counted for a key: a bound for TLC
  None

Keys == Addresses \cup Addresses \X Names
Limit(k) == IF k \in Addresses THEN AddressLimit ELSE AccountLimit

ASSUME AccessAssumption ==
  /\ AddressLimit \in Nat \ {0} /\ AccountLimit \in Nat \ {0}
  /\ CleanAt \in Nat /\ MaxFailures \in Nat
  /\ IsFiniteSet(Clients) /\ IsFiniteSet(Keys)
  /\ Addresses \cap (Addresses \X Names) = {}  \* two limiters, see authLogin

VARIABLES
  users,       \* rows of the users table
  tokenFile,   \* content of the setup-token file
  server,      \* "down", where New is, or "up"
  setupToken,  \* Manager.setupToken
  answered,    \* ghost: a setup has been answered with success
  pc,          \* per client: where its handler is
  key,         \* per login: its address key and its account key
  failures,    \* per key: failures counted, 0 without an entry
  window       \* per key: "none" without an entry, "open", or "over"

vars    == <<users, tokenFile, server, setupToken, answered, pc, key, failures, window>>
disk    == <<users, tokenFile>>
memory  == <<server, setupToken>>
limiter == <<failures, window>>

\* A file may be there and hold nothing, or a part of the token under 20
\* characters, when its write was cut short.
Texts == {"none", "empty", "part", "whole"}
Pcs   == {"idle", "create", "session", "clear", "unlink",
          "verify", "countAddress", "countAccount", "resetAddress", "resetAccount"}

TypeOK ==
  /\ users \in Nat
  /\ tokenFile \in Texts /\ setupToken \in Texts \ {"empty"}
  /\ server \in {"down", "read", "create", "write", "up"}
  /\ answered \in BOOLEAN
  /\ pc \in [Clients -> Pcs]
  /\ key \in [Clients -> (Addresses \X (Addresses \X Names)) \cup {None}]
  /\ failures \in [Keys -> Nat] /\ window \in [Keys -> {"none", "open", "over"}]
  /\ \A k \in Keys : failures[k] = 0 <=> window[k] = "none"

Init ==
  /\ users = 0 /\ tokenFile = "none" /\ answered = FALSE
  /\ server = "down" /\ setupToken = "none"
  /\ pc = [c \in Clients |-> "idle"] /\ key = [c \in Clients |-> None]
  /\ failures = [k \in Keys |-> 0] /\ window = [k \in Keys |-> "none"]

-----------------------------------------------------------------------------
(* New, without CM_SETUP_TOKEN. An error in it ends the process.           *)

\* Broken: New does not ask whether there is an administrator.
BootUnchecked ==
  /\ server = "down"
  /\ server' = "read" /\ UNCHANGED <<tokenFile, setupToken>>
  /\ UNCHANGED <<users, answered, pc, key, limiter>>

\* With an administrator the file goes, errors ignored, and there is no token.
Boot ==
  /\ server = "down"
  /\ IF users > 0 THEN server' = "up" /\ tokenFile' \in {tokenFile, "none"}
     ELSE server' = "read" /\ UNCHANGED tokenFile
  /\ UNCHANGED <<users, setupToken, answered, pc, key, limiter>>

\* loadOrCreateSetupToken: a file of 20 characters or more is the token.
LoadToken ==
  /\ server = "read"
  /\ IF tokenFile = "whole" THEN server' = "up" /\ setupToken' = "whole"
     ELSE server' = "create" /\ UNCHANGED setupToken
  /\ UNCHANGED <<disk, answered, pc, key, limiter>>

Trimmed(text) == IF text = "empty" THEN "none" ELSE text

\* O_EXCL: an existing file is read as it is, whatever its length.
CreateToken ==
  /\ server = "create"
  /\ IF tokenFile = "none" THEN tokenFile' = "empty" /\ server' = "write" /\ UNCHANGED setupToken
     ELSE setupToken' = Trimmed(tokenFile) /\ server' = "up" /\ UNCHANGED tokenFile
  /\ UNCHANGED <<users, answered, pc, key, limiter>>

\* The write may fall short and end the process.
WriteToken ==
  /\ server = "write"
  /\ \/ tokenFile' = "whole" /\ setupToken' = "whole" /\ server' = "up"
     \/ tokenFile' \in {"empty", "part"} /\ UNCHANGED setupToken /\ server' = "down"
  /\ UNCHANGED <<users, answered, pc, key, limiter>>

\* The process is killed; its handlers and its memory are gone.
Crash ==
  /\ server # "down"
  /\ server' = "down" /\ setupToken' = "none"
  /\ pc' = [c \in Clients |-> "idle"] /\ key' = [c \in Clients |-> None]
  /\ failures' = [k \in Keys |-> 0] /\ window' = [k \in Keys |-> "none"]
  /\ UNCHANGED <<disk, answered>>

-----------------------------------------------------------------------------
(* authSetup. A wrong token or bad credentials change nothing.             *)

Go(c, there) == pc' = [pc EXCEPT ![c] = there]

SetupCheck(c) ==
  /\ server = "up" /\ pc[c] = "idle"
  /\ setupToken # "none"
  /\ Go(c, "create")
  /\ UNCHANGED <<disk, memory, answered, key, limiter>>

\* Broken: the transaction does not count the users first.
SetupCreateUncounted(c) ==
  /\ pc[c] = "create"
  /\ \/ users' = users + 1 /\ Go(c, "session")
     \/ UNCHANGED users /\ Go(c, "idle")
  /\ UNCHANGED <<tokenFile, memory, answered, key, limiter>>

\* CreateInitialUser: count and insert in one transaction of the only
\* connection; a second administrator is refused, or the database fails.
SetupCreate(c) ==
  /\ pc[c] = "create"
  /\ \/ users = 0 /\ users' = 1 /\ Go(c, "session")
     \/ UNCHANGED users /\ Go(c, "idle")
  /\ UNCHANGED <<tokenFile, memory, answered, key, limiter>>

\* newSession; when it fails the administrator is there and the token too.
SetupSession(c) ==
  /\ pc[c] = "session"
  /\ Go(c, "clear") \/ Go(c, "idle")
  /\ UNCHANGED <<disk, memory, answered, key, limiter>>

SetupClear(c) ==
  /\ pc[c] = "clear"
  /\ setupToken' = "none" /\ Go(c, "unlink")
  /\ UNCHANGED <<disk, server, answered, key, limiter>>

\* os.Remove of the file, whose error is logged, and the answer.
SetupUnlink(c) ==
  /\ pc[c] = "unlink"
  /\ tokenFile' \in {tokenFile, "none"}
  /\ answered' = TRUE /\ Go(c, "idle")
  /\ UNCHANGED <<users, memory, key, limiter>>

-----------------------------------------------------------------------------
(* authLogin: Allow for both keys, verify, then Failure or Success for     *)
(* both.  Each call locks its limiter for itself.                          *)

\* Broken: one failure too many.
AllowedOnceMore(k) == window[k] # "open" \/ failures[k] <= Limit(k)

Allowed(k) == window[k] # "open" \/ failures[k] < Limit(k)

\* Allow forgets an entry whose window is over, of both keys in any case.
LoginAllow(c, a, n) ==
  LET both == {a, <<a, n>>}
  IN  /\ server = "up" /\ pc[c] = "idle"
      /\ failures' = [k \in Keys |-> IF k \in both /\ window[k] = "over" THEN 0 ELSE failures[k]]
      /\ window' = [k \in Keys |-> IF k \in both /\ window[k] = "over" THEN "none" ELSE window[k]]
      /\ IF \A k \in both : Allowed(k)
         THEN Go(c, "verify") /\ key' = [key EXCEPT ![c] = <<a, <<a, n>>>>]
         ELSE UNCHANGED <<pc, key>>
      /\ UNCHANGED <<disk, memory, answered>>

\* Manager.Login: without a user every password is wrong; an error of the
\* database or of newSession counts as a failure.
LoginVerify(c) ==
  /\ pc[c] = "verify"
  /\ Go(c, "countAddress") \/ (users > 0 /\ Go(c, "resetAddress"))
  /\ UNCHANGED <<disk, memory, answered, key, limiter>>

\* The keys of the limiter that k belongs to.
Peers(k) == IF k \in Addresses THEN Addresses ELSE Keys \ Addresses

\* Old entries go when there are too many.
Cleaned(k) ==
  IF Cardinality({j \in Peers(k) : window[j] # "none"}) < CleanAt THEN {}
  ELSE {j \in Peers(k) : window[j] = "over"}

\* Broken: every entry goes.
FailurePurgesAll(k) ==
  LET crowded == Cardinality({j \in Peers(k) : window[j] # "none"}) >= CleanAt
      kept(j) == failures[j] > 0 /\ ~(crowded /\ j \in Peers(k))
  IN  /\ failures[k] < MaxFailures
      /\ failures' = [j \in Keys |-> IF j = k THEN (IF kept(k) THEN failures[k] + 1 ELSE 1)
                                     ELSE IF kept(j) THEN failures[j] ELSE 0]
      /\ window' = [j \in Keys |-> IF j = k THEN "open" ELSE IF kept(j) THEN window[j] ELSE "none"]

\* Broken: a new entry gets no end of its window.
FailureNoWindow(k) ==
  /\ failures[k] < MaxFailures
  /\ failures' = [failures EXCEPT ![k] = @ + 1]
  /\ UNCHANGED window

\* Failure: the first one, or the first after the window, opens a window.
Failure(k) ==
  /\ failures[k] < MaxFailures
  /\ failures' = [j \in Keys |-> IF j = k THEN (IF window[k] = "open" THEN failures[k] + 1 ELSE 1)
                                 ELSE IF j \in Cleaned(k) THEN 0 ELSE failures[j]]
  /\ window' = [j \in Keys |-> IF j = k THEN "open"
                               ELSE IF j \in Cleaned(k) THEN "none" ELSE window[j]]

Success(k) ==
  /\ failures' = [failures EXCEPT ![k] = 0]
  /\ window' = [window EXCEPT ![k] = "none"]

Return(c) == Go(c, "idle") /\ key' = [key EXCEPT ![c] = None]

CountAddress(c) ==
  /\ pc[c] = "countAddress" /\ Failure(key[c][1])
  /\ Go(c, "countAccount")
  /\ UNCHANGED <<disk, memory, answered, key>>

CountAccount(c) ==
  /\ pc[c] = "countAccount" /\ Failure(key[c][2])
  /\ Return(c)
  /\ UNCHANGED <<disk, memory, answered>>

ResetAddress(c) ==
  /\ pc[c] = "resetAddress" /\ Success(key[c][1])
  /\ Go(c, "resetAccount")
  /\ UNCHANGED <<disk, memory, answered, key>>

ResetAccount(c) ==
  /\ pc[c] = "resetAccount" /\ Success(key[c][2])
  /\ Return(c)
  /\ UNCHANGED <<disk, memory, answered>>

\* Fifteen minutes have passed since the entry's first failure.
Elapse(k) ==
  /\ window[k] = "open"
  /\ window' = [window EXCEPT ![k] = "over"]
  /\ UNCHANGED <<disk, memory, answered, pc, key, failures>>

Setup(c) == \/ SetupCheck(c) \/ SetupCreate(c) \/ SetupSession(c)
            \/ SetupClear(c) \/ SetupUnlink(c)

Login(c) ==
  \/ \E a \in Addresses, n \in Names : LoginAllow(c, a, n)
  \/ LoginVerify(c) \/ CountAddress(c) \/ CountAccount(c)
  \/ ResetAddress(c) \/ ResetAccount(c)

Next ==
  \/ Boot \/ LoadToken \/ CreateToken \/ WriteToken \/ Crash
  \/ \E c \in Clients : Setup(c) \/ Login(c)
  \/ \E k \in Keys : Elapse(k)

Spec == Init /\ [][Next]_vars

-----------------------------------------------------------------------------
(* Properties. *)

\* Whoever got a session as the first administrator is the only one, although
\* several setups pass the token check together and the token is cleared only
\* after the user is stored: at most one handler is ever beyond the insert
\* (manager.go 109-140, store.go 259-285).
OneAdministrator ==
  /\ users <= 1
  /\ \A c, d \in Clients :
       pc[c] \in {"session", "clear", "unlink"} /\ pc[d] \in {"session", "clear", "unlink"} => c = d

\* README.md 83: once a setup was answered with success its token is void, for
\* good: neither a failed removal of the file nor a kill brings it back at the
\* next start (manager.go 76-79, 132-137).
TokenIsSpent == answered => setupToken = "none" /\ users = 1

\* Failures are counted after the password was verified, so handlers that
\* passed Allow together overshoot the limit, but by no more than their number
\* less one (server.go 149-160, limiter.go 26-58).
OvershootBounded ==
  \A k \in Keys : failures[k] <= Limit(k) + Cardinality(Clients) - 1

Succeeds(k) == \E c \in Clients : pc[c] \in {"resetAddress", "resetAccount"}
                                    /\ pc'[c] # pc[c] /\ \E i \in 1..2 : key[c][i] = k

\* Who is locked out stays so until the window ends, a login for the same key
\* succeeds or the server restarts; failures of others and their clean-up do
\* not let him in (limiter.go 26-65).
LockoutHolds ==
  [][\A k \in Keys :
       ~Allowed(k) /\ window'[k] # "over" /\ ~Succeeds(k) /\ server' # "down"
         => failures'[k] >= failures[k] /\ window'[k] = "open"]_vars

\* ARCHITECTURE.md 183: "the first start generates a 192-bit one-time setup
\* token in /data/setup-token".  A server without an administrator that is up
\* has a whole one.
SetupIsPossible == server = "up" /\ users = 0 => setupToken = "whole"

=============================================================================
