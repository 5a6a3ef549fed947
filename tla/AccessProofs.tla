---------------------------- MODULE AccessProofs ----------------------------
(***************************************************************************)
(* Proofs about Access, for any number of handlers, addresses and names    *)
(* and any limits above 0.  The invariant has two parts that need nothing  *)
(* of each other: SetupInv for the first administrator and the token,      *)
(* LoginInv for the limiter.                                               *)
(***************************************************************************)
EXTENDS Access, FiniteSetTheorems, TLAPS

LoginKeys == Addresses \X (Addresses \X Names)
Beyond    == {"session", "clear", "unlink"}

\* Only an up server has handlers and a token; it asked for a token because
\* there was no administrator, and only a handler stores one.  Whoever is beyond
\* the insert is alone there, and the token is gone before he answers.
SetupInv ==
  /\ users \in {0, 1}
  /\ server # "up" => setupToken = "none" /\ \A c \in Clients : pc[c] = "idle"
  /\ server \in {"read", "create", "write"} => users = 0
  /\ answered => users = 1 /\ setupToken = "none"
  /\ \A c \in Clients : pc[c] \in Beyond => users = 1
  /\ \A c, d \in Clients : pc[c] \in Beyond /\ pc[d] \in Beyond => c = d
  /\ \A c \in Clients : pc[c] = "unlink" => setupToken = "none"

\* Whoever has passed Allow for a key and may yet count a failure of it.
Counts(c, k) ==
  \/ pc[c] \in {"verify", "countAddress"} /\ (key[c][1] = k \/ key[c][2] = k)
  \/ pc[c] = "countAccount" /\ key[c][2] = k
InFlight(k) == {c \in Clients : Counts(c, k)}

\* Allow lets in below the limit only, and then all others may be in flight; each
\* failure that is counted has left the flight.
Bound(k) == failures[k] + Cardinality(InFlight(k)) <= Limit(k) + Cardinality(Clients) - 1

LoginPcs == {"verify", "countAddress", "countAccount", "resetAddress", "resetAccount"}

LoginInv ==
  /\ \A c \in Clients : pc[c] \in LoginPcs => key[c] \in LoginKeys
  /\ \A k \in Keys : Bound(k)

USE DEF Go, Return, disk, memory, limiter

-----------------------------------------------------------------------------
(* Types.                                                                  *)

\* Failure and Success keep an entry and its window together.
LEMMA CounterTypes ==
  ASSUME TypeOK, NEW k, Failure(k) \/ Success(k)
  PROVE  /\ failures' \in [Keys -> Nat] /\ window' \in [Keys -> {"none", "open", "over"}]
         /\ \A j \in Keys : failures'[j] = 0 <=> window'[j] = "none"
<1>. failures \in [Keys -> Nat] /\ window \in [Keys -> {"none", "open", "over"}]
     /\ \A j \in Keys : failures[j] = 0 <=> window[j] = "none"
  BY DEF TypeOK
<1>1. CASE Failure(k)
  <2>. DEFINE C == Cleaned(k)
  <2>. HIDE DEF C
  <2>1. /\ failures' = [j \in Keys |-> IF j = k THEN (IF window[k] = "open" THEN failures[k] + 1 ELSE 1)
                                       ELSE IF j \in C THEN 0 ELSE failures[j]]
        /\ window' = [j \in Keys |-> IF j = k THEN "open"
                                     ELSE IF j \in C THEN "none" ELSE window[j]]
    BY <1>1 DEF Failure, C
  <2>. QED BY <2>1
<1>2. CASE Success(k)
  BY <1>2 DEF Success
<1>. QED BY <1>1, <1>2

LEMMA TypeStep == TypeOK /\ [Next]_vars => TypeOK'
<1>. SUFFICES ASSUME TypeOK, [Next]_vars PROVE TypeOK'
  OBVIOUS
<1>1. CASE Boot
  BY <1>1 DEF TypeOK, Texts, Boot
<1>2. CASE LoadToken
  BY <1>2 DEF TypeOK, Texts, LoadToken
<1>3. CASE CreateToken
  BY <1>3 DEF TypeOK, Texts, CreateToken, Trimmed
<1>4. CASE WriteToken
  BY <1>4 DEF TypeOK, Texts, WriteToken
<1>5. CASE Crash
  <2>1. pc' \in [Clients -> Pcs] /\ key' \in [Clients -> LoginKeys \cup {None}]
    BY <1>5 DEF Pcs, Crash
  <2>2. /\ failures' \in [Keys -> Nat] /\ window' \in [Keys -> {"none", "open", "over"}]
        /\ \A k \in Keys : failures'[k] = 0 <=> window'[k] = "none"
    BY <1>5 DEF Crash
  <2>. QED BY <1>5, <2>1, <2>2 DEF TypeOK, Texts, Crash, LoginKeys
<1>6. ASSUME NEW c \in Clients, Setup(c) PROVE TypeOK'
  <2>1. CASE SetupCheck(c)
    BY <2>1 DEF TypeOK, Pcs, SetupCheck
  <2>2. CASE SetupCreate(c)
    BY <2>2 DEF TypeOK, Pcs, SetupCreate
  <2>3. CASE SetupSession(c)
    BY <2>3 DEF TypeOK, Pcs, SetupSession
  <2>4. CASE SetupClear(c)
    BY <2>4 DEF TypeOK, Pcs, Texts, SetupClear
  <2>5. CASE SetupUnlink(c)
    BY <2>5 DEF TypeOK, Pcs, Texts, SetupUnlink
  <2>. QED BY <1>6, <2>1, <2>2, <2>3, <2>4, <2>5 DEF Setup
<1>7. ASSUME NEW c \in Clients, Login(c) PROVE TypeOK'
  <2>1. ASSUME NEW a \in Addresses, NEW n \in Names, LoginAllow(c, a, n) PROVE TypeOK'
    <3>1. pc' \in [Clients -> Pcs] /\ key' \in [Clients -> LoginKeys \cup {None}]
      BY <2>1 DEF TypeOK, Pcs, LoginAllow, LoginKeys
    <3>2. /\ failures' \in [Keys -> Nat] /\ window' \in [Keys -> {"none", "open", "over"}]
          /\ \A k \in Keys : failures'[k] = 0 <=> window'[k] = "none"
      BY <2>1 DEF TypeOK, LoginAllow
    <3>. QED BY <2>1, <3>1, <3>2 DEF TypeOK, LoginAllow, LoginKeys
  <2>2. CASE LoginVerify(c)
    BY <2>2 DEF TypeOK, Pcs, LoginVerify
  <2>3. CASE CountAddress(c)
    BY <2>3, CounterTypes DEF TypeOK, Pcs, CountAddress
  <2>4. CASE CountAccount(c)
    BY <2>4, CounterTypes DEF TypeOK, Pcs, CountAccount
  <2>5. CASE ResetAddress(c)
    BY <2>5, CounterTypes DEF TypeOK, Pcs, ResetAddress
  <2>6. CASE ResetAccount(c)
    BY <2>6, CounterTypes DEF TypeOK, Pcs, ResetAccount
  <2>. QED BY <1>7, <2>1, <2>2, <2>3, <2>4, <2>5, <2>6 DEF Login
<1>8. ASSUME NEW k \in Keys, Elapse(k) PROVE TypeOK'
  BY <1>8 DEF TypeOK, Elapse
<1>9. CASE UNCHANGED vars
  BY <1>9 DEF TypeOK, vars
<1>. QED BY <1>1, <1>2, <1>3, <1>4, <1>5, <1>6, <1>7, <1>8, <1>9 DEF Next

\* Every variable of the server, its handlers and its limiters keeps its type;
\* an entry of a limiter has a window as long as it counts (manager.go 60-140,
\* limiter.go 26-75).
THEOREM AccessTypes == Spec => []TypeOK
<1>1. Init => TypeOK
  <2>. SUFFICES ASSUME Init PROVE TypeOK
    OBVIOUS
  <2>1. pc \in [Clients -> Pcs] /\ key \in [Clients -> LoginKeys \cup {None}]
    BY DEF Init, Pcs
  <2>2. /\ failures \in [Keys -> Nat] /\ window \in [Keys -> {"none", "open", "over"}]
        /\ \A k \in Keys : failures[k] = 0 <=> window[k] = "none"
    BY DEF Init
  <2>. QED BY <2>1, <2>2 DEF Init, TypeOK, Texts, LoginKeys
<1>. QED BY <1>1, TypeStep, PTL DEF Spec

-----------------------------------------------------------------------------
(* The first administrator and the setup token.                            *)

\* A step of a login leaves users and token alone, and no handler beyond the
\* insert takes one.
LEMMA LoginKeepsSetup ==
  ASSUME TypeOK, SetupInv, NEW c \in Clients, Login(c)
  PROVE  SetupInv'
<1>1. /\ UNCHANGED <<users, server, setupToken, answered>>
      /\ server = "up"
      /\ pc[c] \notin Beyond /\ pc'[c] \notin Beyond /\ pc'[c] # "unlink"
      /\ \A d \in Clients \ {c} : pc'[d] = pc[d]
  <2>1. pc[c] # "idle" => server = "up"
    BY DEF SetupInv
  <2>. QED BY <2>1 DEF Login, LoginAllow, LoginVerify, CountAddress, CountAccount,
                   ResetAddress, ResetAccount, TypeOK, Beyond
<1>. QED BY <1>1 DEF SetupInv, Beyond

LEMMA SetupStep == TypeOK /\ SetupInv /\ [Next]_vars => SetupInv'
<1>. SUFFICES ASSUME TypeOK, SetupInv, [Next]_vars PROVE SetupInv'
  OBVIOUS
<1>1. CASE Boot
  BY <1>1 DEF SetupInv, Boot, Beyond
<1>2. CASE LoadToken
  BY <1>2 DEF SetupInv, LoadToken, Beyond
<1>3. CASE CreateToken
  BY <1>3 DEF SetupInv, CreateToken, Beyond
<1>4. CASE WriteToken
  BY <1>4 DEF SetupInv, WriteToken, Beyond
<1>5. CASE Crash
  BY <1>5 DEF SetupInv, Crash, Beyond
<1>6. ASSUME NEW c \in Clients, Setup(c) PROVE SetupInv'
  <2>. server = "up" \/ pc[c] = "idle"
    BY DEF SetupInv
  <2>1. CASE SetupCheck(c)
    BY <2>1 DEF TypeOK, SetupInv, SetupCheck, Beyond
  <2>2. CASE SetupCreate(c)
    BY <2>2 DEF TypeOK, SetupInv, SetupCreate, Beyond
  <2>3. CASE SetupSession(c)
    BY <2>3 DEF TypeOK, SetupInv, SetupSession, Beyond
  <2>4. CASE SetupClear(c)
    BY <2>4 DEF TypeOK, SetupInv, SetupClear, Beyond
  <2>5. CASE SetupUnlink(c)
    BY <2>5 DEF TypeOK, SetupInv, SetupUnlink, Beyond
  <2>. QED BY <1>6, <2>1, <2>2, <2>3, <2>4, <2>5 DEF Setup
<1>7. ASSUME NEW c \in Clients, Login(c) PROVE SetupInv'
  BY <1>7, LoginKeepsSetup
<1>8. ASSUME NEW k \in Keys, Elapse(k) PROVE SetupInv'
  BY <1>8 DEF SetupInv, Elapse
<1>9. CASE UNCHANGED vars
  BY <1>9 DEF SetupInv, vars
<1>. QED BY <1>1, <1>2, <1>3, <1>4, <1>5, <1>6, <1>7, <1>8, <1>9 DEF Next

LEMMA SetupHolds == Spec => []SetupInv
<1>1. Init => SetupInv
  BY DEF Init, SetupInv, Beyond
<1>. QED BY <1>1, SetupStep, AccessTypes, PTL DEF Spec

\* There is never a second administrator, and of the handlers that pass the
\* token check together one gets beyond the insert (manager.go 109-140,
\* store.go 259-285).
THEOREM FirstAdministrator == Spec => []OneAdministrator
<1>1. SetupInv => OneAdministrator
  BY DEF SetupInv, OneAdministrator, Beyond
<1>. QED BY <1>1, SetupHolds, PTL

\* A setup that was answered with success has voided the token for good, over
\* any number of kills and starts (manager.go 76-79, 132-137).
THEOREM SpentToken == Spec => []TokenIsSpent
<1>1. SetupInv => TokenIsSpent
  BY DEF SetupInv, TokenIsSpent
<1>. QED BY <1>1, SetupHolds, PTL

-----------------------------------------------------------------------------
(* The limiter.                                                            *)

\* The size of the flight.
LEMMA FlightSize ==
  ASSUME NEW S \in SUBSET Clients
  PROVE  /\ IsFiniteSet(S) /\ Cardinality(S) \in Nat
         /\ Cardinality(Clients) \in Nat /\ Cardinality(S) <= Cardinality(Clients)
  BY AccessAssumption, FS_Subset, FS_CardinalityType

\* Limits are numbers above 0.
LEMMA LimitType == ASSUME NEW k \in Keys PROVE Limit(k) \in Nat \ {0}
  BY AccessAssumption DEF Limit

\* Nobody joins the flight and no failure is counted.
LEMMA BoundKept ==
  ASSUME TypeOK, TypeOK', NEW k \in Keys, Bound(k),
         failures'[k] <= failures[k], InFlight(k)' \subseteq InFlight(k)
  PROVE  Bound(k)'
<1>1. InFlight(k) \in SUBSET Clients
  BY DEF InFlight
<1>. DEFINE F == InFlight(k)
            G == InFlight(k)'
<1>2. IsFiniteSet(F) /\ Cardinality(F) \in Nat
  BY <1>1, FlightSize
<1>3. Cardinality(G) \in Nat /\ Cardinality(G) <= Cardinality(F)
  BY <1>2, FS_Subset, FS_CardinalityType
<1>4. failures[k] \in Nat /\ failures'[k] \in Nat
  BY DEF TypeOK
<1>5. Cardinality(Clients) \in Nat /\ Limit(k) \in Nat
  BY <1>1, FlightSize, LimitType
<1>. HIDE DEF F, G
<1>6. failures[k] + Cardinality(F) <= Limit(k) + Cardinality(Clients) - 1
  BY DEF Bound, F
<1>7. failures'[k] + Cardinality(G) <= Limit(k) + Cardinality(Clients) - 1
  BY <1>2, <1>3, <1>4, <1>5, <1>6
<1>. QED BY <1>7 DEF Bound, G

\* Below the limit everybody may be in flight.
LEMMA BoundFresh ==
  ASSUME TypeOK', NEW k \in Keys, failures'[k] < Limit(k)
  PROVE  Bound(k)'
<1>. DEFINE G == InFlight(k)'
<1>1. G \in SUBSET Clients
  BY DEF InFlight
<1>2. Cardinality(G) \in Nat /\ Cardinality(Clients) \in Nat /\ Cardinality(G) <= Cardinality(Clients)
  BY <1>1, FlightSize
<1>3. failures'[k] \in Nat /\ Limit(k) \in Nat
  BY LimitType DEF TypeOK
<1>. HIDE DEF G
<1>4. failures'[k] + Cardinality(G) <= Limit(k) + Cardinality(Clients) - 1
  BY <1>2, <1>3
<1>. QED BY <1>4 DEF Bound, G

\* A handler that counts a failure leaves the flight.
LEMMA BoundCounted ==
  ASSUME TypeOK, TypeOK', NEW k \in Keys, Bound(k), NEW c \in InFlight(k),
         failures'[k] <= failures[k] + 1, InFlight(k)' \subseteq InFlight(k) \ {c}
  PROVE  Bound(k)'
<1>. DEFINE F == InFlight(k)
            G == InFlight(k)'
<1>1. IsFiniteSet(F) /\ Cardinality(F) \in Nat /\ Cardinality(Clients) \in Nat
  <2>. F \in SUBSET Clients
    BY DEF InFlight
  <2>. QED BY FlightSize
<1>2. IsFiniteSet(F \ {c}) /\ Cardinality(F \ {c}) = Cardinality(F) - 1
  BY <1>1, FS_RemoveElement
<1>3. Cardinality(G) \in Nat /\ Cardinality(G) <= Cardinality(F) - 1
  BY <1>2, FS_Subset, FS_CardinalityType
<1>4. failures[k] \in Nat /\ failures'[k] \in Nat /\ Limit(k) \in Nat
  BY LimitType DEF TypeOK
<1>. HIDE DEF F, G
<1>5. failures[k] + Cardinality(F) <= Limit(k) + Cardinality(Clients) - 1
  BY DEF Bound, F
<1>6. failures'[k] + Cardinality(G) <= Limit(k) + Cardinality(Clients) - 1
  BY <1>1, <1>3, <1>4, <1>5
<1>. QED BY <1>6 DEF Bound, G

\* What Failure does to each key.
LEMMA FailureCounts ==
  ASSUME TypeOK, NEW k \in Keys, Failure(k)
  PROVE  /\ failures'[k] <= failures[k] + 1
         /\ \A j \in Keys \ {k} : failures'[j] <= failures[j]
<1>. DEFINE C == Cleaned(k)
<1>. HIDE DEF C
<1>1. failures' = [j \in Keys |-> IF j = k THEN (IF window[k] = "open" THEN failures[k] + 1 ELSE 1)
                                  ELSE IF j \in C THEN 0 ELSE failures[j]]
  BY DEF Failure, C
<1>2. failures \in [Keys -> Nat]
  BY DEF TypeOK
<1>. QED BY <1>1, <1>2

\* What Success does to each key.
LEMMA SuccessCounts ==
  ASSUME TypeOK, NEW k, Success(k)
  PROVE  \A j \in Keys : failures'[j] <= failures[j]
<1>1. failures' = [failures EXCEPT ![k] = 0] /\ failures \in [Keys -> Nat]
  BY DEF Success, TypeOK
<1>. QED BY <1>1

\* A step of a handler, or of none, that starts no login.
LEMMA Leaves ==
  ASSUME NEW k \in Keys,
         \A c \in Clients : Counts(c, k)' => Counts(c, k)
  PROVE  InFlight(k)' \subseteq InFlight(k)
  BY DEF InFlight

LEMMA LoginStep == TypeOK /\ TypeOK' /\ LoginInv /\ [Next]_vars => LoginInv'
<1>. SUFFICES ASSUME TypeOK, TypeOK', LoginInv, [Next]_vars PROVE LoginInv'
  OBVIOUS
<1>. pc \in [Clients -> Pcs] /\ key \in [Clients -> LoginKeys \cup {None}]
  BY DEF TypeOK, LoginKeys
<1>. \A k \in Keys : failures[k] \in Nat /\ Limit(k) \in Nat \ {0}
  BY LimitType DEF TypeOK
<1>1. CASE Boot \/ LoadToken \/ CreateToken \/ WriteToken \/ UNCHANGED vars
  <2>1. UNCHANGED <<pc, key, failures>>
    BY <1>1 DEF Boot, LoadToken, CreateToken, WriteToken, vars
  <2>. QED BY <2>1 DEF LoginInv, Bound, InFlight, Counts
<1>2. CASE Crash
  <2>1. \A k \in Keys : failures'[k] = 0
    BY <1>2 DEF Crash
  <2>2. \A c \in Clients : pc'[c] = "idle"
    BY <1>2 DEF Crash
  <2>. QED BY <2>1, <2>2, BoundFresh DEF LoginInv, LoginPcs
<1>3. ASSUME NEW k \in Keys, Elapse(k) PROVE LoginInv'
  <2>1. UNCHANGED <<pc, key, failures>>
    BY <1>3 DEF Elapse
  <2>. QED BY <2>1 DEF LoginInv, Bound, InFlight, Counts
<1>4. ASSUME NEW c \in Clients, Setup(c) PROVE LoginInv'
  <2>1. /\ UNCHANGED <<key, failures>>
        /\ pc[c] \notin LoginPcs /\ pc'[c] \notin LoginPcs
        /\ \A d \in Clients \ {c} : pc'[d] = pc[d]
    BY <1>4 DEF Setup, SetupCheck, SetupCreate, SetupSession, SetupClear, SetupUnlink, LoginPcs
  <2>2. \A k \in Keys : InFlight(k)' \subseteq InFlight(k)
    BY <2>1 DEF InFlight, Counts, LoginPcs
  <2>3. \A k \in Keys : Bound(k)'
    BY <2>1, <2>2, BoundKept DEF LoginInv
  <2>. QED BY <2>1, <2>3 DEF LoginInv, LoginPcs
<1>5. ASSUME NEW c \in Clients, NEW a \in Addresses, NEW n \in Names, LoginAllow(c, a, n)
      PROVE  LoginInv'
  <2>. DEFINE both == {a, <<a, n>>}
  <2>1. failures' = [k \in Keys |-> IF k \in both /\ window[k] = "over" THEN 0 ELSE failures[k]]
    BY <1>5 DEF LoginAllow
  <2>2. ASSUME \A k \in both : Allowed(k), pc' = [pc EXCEPT ![c] = "verify"],
               key' = [key EXCEPT ![c] = <<a, <<a, n>>>>]
        PROVE  LoginInv'
    <3>1. ASSUME NEW k \in both, k \in Keys PROVE Bound(k)'
      <4>1. window[k] # "open" => window[k] = "over" \/ failures[k] = 0
        BY <3>1 DEF TypeOK
      <4>2. failures'[k] < Limit(k)
        BY <2>1, <2>2, <3>1, <4>1 DEF Allowed
      <4>. QED BY <3>1, <4>2, BoundFresh
    <3>2. ASSUME NEW k \in Keys \ both PROVE Bound(k)'
      <4>1. InFlight(k)' \subseteq InFlight(k)
        BY <2>2, <3>2 DEF InFlight, Counts
      <4>2. failures'[k] <= failures[k]
        BY <2>1, <3>2
      <4>. QED BY <3>2, <4>1, <4>2, BoundKept DEF LoginInv
    <3>3. \A d \in Clients : pc'[d] \in LoginPcs => key'[d] \in LoginKeys
      BY <2>2 DEF LoginInv, LoginPcs, LoginKeys
    <3>. QED BY <3>1, <3>2, <3>3 DEF LoginInv
  <2>3. CASE UNCHANGED <<pc, key>>
    <3>1. ASSUME NEW k \in Keys PROVE Bound(k)'
      <4>1. failures'[k] <= failures[k]
        BY <2>1
      <4>2. InFlight(k)' \subseteq InFlight(k)
        BY <2>3 DEF InFlight, Counts
      <4>. QED BY <4>1, <4>2, BoundKept DEF LoginInv
    <3>. QED BY <2>3, <3>1 DEF LoginInv
  <2>. QED BY <1>5, <2>2, <2>3 DEF LoginAllow
<1>6. ASSUME NEW c \in Clients, LoginVerify(c) PROVE LoginInv'
  <2>1. /\ pc[c] = "verify" /\ pc'[c] \in {"countAddress", "resetAddress"}
        /\ UNCHANGED <<key, failures>> /\ \A d \in Clients \ {c} : pc'[d] = pc[d]
    BY <1>6 DEF LoginVerify
  <2>2. \A k \in Keys : InFlight(k)' \subseteq InFlight(k)
    BY <2>1 DEF InFlight, Counts
  <2>3. \A k \in Keys : Bound(k)'
    BY <2>1, <2>2, BoundKept DEF LoginInv
  <2>. QED BY <2>1, <2>3 DEF LoginInv, LoginPcs
<1>7. ASSUME NEW c \in Clients, CountAddress(c) PROVE LoginInv'
  <2>1. /\ pc[c] = "countAddress" /\ pc'[c] = "countAccount" /\ key' = key
        /\ \A d \in Clients \ {c} : pc'[d] = pc[d]
    BY <1>7 DEF CountAddress
  <2>2. key[c] \in LoginKeys
    BY <2>1 DEF LoginInv, LoginPcs
  <2>3. key[c][1] \in Keys /\ key[c][1] # key[c][2]
    BY <2>2, AccessAssumption DEF LoginKeys, Keys
  <2>4. \A k \in Keys : InFlight(k)' \subseteq InFlight(k)
    BY <2>1 DEF InFlight, Counts
  <2>5. ASSUME NEW k \in Keys, k = key[c][1]
        PROVE  c \in InFlight(k) /\ InFlight(k)' \subseteq InFlight(k) \ {c}
    BY <2>1, <2>3, <2>4, <2>5 DEF InFlight, Counts
  <2>6. \A k \in Keys : Bound(k)'
    <3>. USE FailureCounts DEF CountAddress
    <3>1. ASSUME NEW k \in Keys, k = key[c][1] PROVE Bound(k)'
      BY <1>7, <2>5, <3>1, BoundCounted DEF LoginInv
    <3>2. ASSUME NEW k \in Keys \ {key[c][1]} PROVE Bound(k)'
      BY <1>7, <2>3, <2>4, <3>2, BoundKept DEF LoginInv
    <3>. QED BY <3>1, <3>2
  <2>. QED BY <2>1, <2>2, <2>6 DEF LoginInv, LoginPcs
<1>8. ASSUME NEW c \in Clients, CountAccount(c) PROVE LoginInv'
  <2>1. /\ pc[c] = "countAccount" /\ pc'[c] = "idle"
        /\ \A d \in Clients \ {c} : pc'[d] = pc[d] /\ key'[d] = key[d]
    BY <1>8 DEF CountAccount
  <2>2. key[c] \in LoginKeys
    BY <2>1 DEF LoginInv, LoginPcs
  <2>3. key[c][2] \in Keys
    BY <2>2 DEF LoginKeys, Keys
  <2>4. \A k \in Keys : InFlight(k)' \subseteq InFlight(k) \ {c}
    BY <2>1 DEF InFlight, Counts
  <2>5. ASSUME NEW k \in Keys, k = key[c][2] PROVE c \in InFlight(k)
    BY <2>1, <2>5 DEF InFlight, Counts
  <2>6. \A k \in Keys : Bound(k)'
    <3>. USE FailureCounts DEF CountAccount
    <3>1. ASSUME NEW k \in Keys, k = key[c][2] PROVE Bound(k)'
      BY <1>8, <2>4, <2>5, <3>1, BoundCounted DEF LoginInv
    <3>2. ASSUME NEW k \in Keys \ {key[c][2]} PROVE Bound(k)'
      BY <1>8, <2>3, <2>4, <3>2, BoundKept DEF LoginInv
    <3>. QED BY <3>1, <3>2
  <2>. QED BY <2>1, <2>6 DEF LoginInv, LoginPcs
<1>9. ASSUME NEW c \in Clients, ResetAddress(c) \/ ResetAccount(c) PROVE LoginInv'
  <2>1. /\ pc[c] \in {"resetAddress", "resetAccount"}
        /\ pc'[c] # "resetAccount" => pc'[c] = "idle"
        /\ pc'[c] = "resetAccount" => key'[c] = key[c]
        /\ \A d \in Clients \ {c} : pc'[d] = pc[d] /\ key'[d] = key[d]
    BY <1>9 DEF ResetAddress, ResetAccount
  <2>2. \A k \in Keys : InFlight(k)' \subseteq InFlight(k)
    BY <2>1 DEF InFlight, Counts
  <2>3. \A k \in Keys : failures'[k] <= failures[k]
    BY <1>9, SuccessCounts DEF ResetAddress, ResetAccount
  <2>4. \A k \in Keys : Bound(k)'
    BY <2>2, <2>3, BoundKept DEF LoginInv
  <2>. QED BY <2>1, <2>4 DEF LoginInv, LoginPcs
<1>. QED BY <1>1, <1>2, <1>3, <1>4, <1>5, <1>6, <1>7, <1>8, <1>9 DEF Next, Login

\* Handlers that passed Allow together overshoot a limit by less than their
\* number, for any limits and any number of them (server.go 149-160, limiter.go
\* 26-58).
THEOREM Overshoot == Spec => []OvershootBounded
<1>1. Init => LoginInv
  <2>. SUFFICES ASSUME Init PROVE LoginInv
    OBVIOUS
  <2>1. ASSUME NEW k \in Keys PROVE Bound(k)
    <3>1. InFlight(k) = {}
      BY DEF Init, InFlight, Counts
    <3>2. failures[k] = 0 /\ Limit(k) \in Nat \ {0} /\ Cardinality(Clients) \in Nat
      BY LimitType, FlightSize DEF Init
    <3>. QED BY <3>1, <3>2, FS_EmptySet DEF Bound
  <2>. QED BY <2>1 DEF Init, LoginInv, LoginPcs
<1>2. TypeOK /\ LoginInv => OvershootBounded
  <2>. SUFFICES ASSUME TypeOK, LoginInv, NEW k \in Keys
                PROVE  failures[k] <= Limit(k) + Cardinality(Clients) - 1
    BY DEF OvershootBounded
  <2>1. InFlight(k) \in SUBSET Clients
    BY DEF InFlight
  <2>2. Cardinality(InFlight(k)) \in Nat /\ Cardinality(Clients) \in Nat
    BY <2>1, FlightSize
  <2>. QED BY <2>2, LimitType DEF LoginInv, Bound, TypeOK
<1>. QED BY <1>1, <1>2, LoginStep, AccessTypes, PTL DEF Spec

\* A key that is locked out stays so, whatever others count, clean up or succeed
\* with (limiter.go 26-65).
THEOREM LockoutKept == Spec => LockoutHolds
<1>. DEFINE Holds(k) == ~Allowed(k) /\ window'[k] # "over" /\ ~Succeeds(k) /\ server' # "down"
                          => failures'[k] >= failures[k] /\ window'[k] = "open"
<1>1. TypeOK /\ [Next]_vars => [\A k \in Keys : Holds(k)]_vars
  <2>. SUFFICES ASSUME TypeOK, [Next]_vars, NEW k \in Keys,
                       ~Allowed(k), window'[k] # "over", ~Succeeds(k), server' # "down"
                PROVE  failures'[k] >= failures[k] /\ window'[k] = "open"
    OBVIOUS
  <2>. /\ window[k] = "open" /\ failures \in [Keys -> Nat]
       /\ window \in [Keys -> {"none", "open", "over"}] /\ pc \in [Clients -> Pcs]
       /\ failures[k] >= failures[k]
    BY DEF Allowed, TypeOK
  <2>1. CASE UNCHANGED limiter
    BY <2>1
  <2>2. ASSUME NEW j \in Keys, Elapse(j) PROVE failures'[k] >= failures[k] /\ window'[k] = "open"
    BY <2>2 DEF Elapse
  <2>3. ASSUME NEW c \in Clients, NEW a \in Addresses, NEW n \in Names, LoginAllow(c, a, n)
        PROVE  failures'[k] >= failures[k] /\ window'[k] = "open"
    BY <2>3 DEF LoginAllow
  <2>4. ASSUME NEW j, Failure(j) PROVE failures'[k] >= failures[k] /\ window'[k] = "open"
    <3>1. k \notin Cleaned(j)
      BY DEF Cleaned
    <3>. DEFINE C == Cleaned(j)
    <3>. HIDE DEF C
    <3>2. /\ failures' = [i \in Keys |-> IF i = j THEN (IF window[j] = "open" THEN failures[j] + 1 ELSE 1)
                                         ELSE IF i \in C THEN 0 ELSE failures[i]]
          /\ window' = [i \in Keys |-> IF i = j THEN "open" ELSE IF i \in C THEN "none" ELSE window[i]]
      BY <2>4 DEF Failure, C
    <3>. QED BY <3>1, <3>2 DEF C
  <2>5. ASSUME NEW c \in Clients, ResetAddress(c) \/ ResetAccount(c)
        PROVE  failures'[k] >= failures[k] /\ window'[k] = "open"
    <3>1. /\ pc[c] \in {"resetAddress", "resetAccount"} /\ pc'[c] # pc[c]
      BY <2>5 DEF ResetAddress, ResetAccount
    <3>2. k # key[c][1] /\ k # key[c][2]
      BY <3>1 DEF Succeeds
    <3>. QED BY <2>5, <3>2 DEF ResetAddress, ResetAccount, Success
  <2>6. CASE Crash
    BY <2>6 DEF Crash
  <2>7. ASSUME NEW c \in Clients, CountAddress(c) \/ CountAccount(c)
        PROVE  failures'[k] >= failures[k] /\ window'[k] = "open"
    BY <2>4, <2>7 DEF CountAddress, CountAccount
  <2>8. \/ UNCHANGED limiter \/ Crash
        \/ \E j \in Keys : Elapse(j)
        \/ \E c \in Clients : \/ \E a \in Addresses, n \in Names : LoginAllow(c, a, n)
                              \/ CountAddress(c) \/ CountAccount(c)
                              \/ ResetAddress(c) \/ ResetAccount(c)
    BY DEF Next, vars, Setup, Login, Boot, LoadToken, CreateToken, WriteToken, SetupCheck,
           SetupCreate, SetupSession, SetupClear, SetupUnlink, LoginVerify
  <2>. QED BY <2>1, <2>2, <2>3, <2>5, <2>6, <2>7, <2>8
<1>. QED BY <1>1, AccessTypes, PTL DEF Spec, LockoutHolds

=============================================================================
