--------------------------- MODULE ReadCacheProofs ---------------------------
(***************************************************************************)
(* Proofs about ReadCache, for any number of lists, changers and           *)
(* containers.  Inv is the inductive invariant: what is kept, or is about  *)
(* to be kept by whoever holds the mutex, is as new as all that is owed.   *)
(***************************************************************************)
EXTENDS ReadCache, TLAPS

\* Nobody is owed more than is so.
Past ==
  \A o \in Objects :
    /\ answered[o] <= now[o]
    /\ \A l \in Lists : floor[l][o] <= now[o]
    /\ \A c \in Changers : mine[c].object = o => mine[c].version <= now[o]

\* What a snapshot must show at least: what was answered, what a changer that
\* has cleared the snapshot will answer, and what the lists under way owe.
FileDebt(v) ==
  /\ answered[Files] <= v
  /\ \A c \in Changers : pc[c] = "clearStats" /\ mine[c].object = Files => mine[c].version <= v
  /\ \A l \in Lists : pc[l] \notin {"idle", "clear"} => floor[l][Files] <= v

FileInv ==
  /\ cached # None => FileDebt(cached)
  /\ \A l \in Lists : pc[l] = "keep" => shown[l][Files] # None /\ FileDebt(shown[l][Files])

\* What a sample must show at least: clearing and answering are one step.
SampleDebt(k, v) ==
  /\ answered[k] <= v
  /\ \A l \in Lists : pc[l] \notin {"idle", "clear", "clearStats"} => floor[l][k] <= v

SampleInv ==
  \A k \in Containers :
    /\ samples[k] # None => SampleDebt(k, samples[k])
    /\ \A l \in Lists : IF pc[l] = "sample" THEN shown[l][k] # None => SampleDebt(k, shown[l][k])
                        ELSE shown[l][k] = None

\* What a list has so far is not older than what it owes.
ShownInv ==
  \A l \in Lists :
    /\ shown[l][Files] # None => shown[l][Files] >= floor[l][Files]
    /\ pc[l] \in {"idle", "clear", "clearStats", "wait", "scan"} => shown[l][Files] = None

Inv == TypeOK /\ Past /\ FileInv /\ SampleInv /\ ShownInv

USE DEF Go, caches, ghosts

\* Each mutex is held by exactly who scans or samples.
Mutexed ==
  \A a \in Actors : /\ pc[a] \in Walking <=> cacheMu = a
                    /\ pc[a] = "sample" <=> statsMu = a

Answers == [Objects -> Versions \cup {None}]

-----------------------------------------------------------------------------
(* Facts about one state.                                                  *)

\* The types, as the provers use them.
LEMMA Types ==
  ASSUME TypeOK
  PROVE  /\ MaxVersion \in Nat /\ None \notin Versions /\ None \notin Actors
         /\ \A o \in Objects : now[o] \in Nat /\ answered[o] \in Nat
         /\ \A l \in Lists : \A o \in Objects : floor[l][o] \in Nat /\ shown[l][o] \in Nat \cup {None}
         /\ \A c \in Changers : mine[c].object \in Objects /\ mine[c].version \in Nat
         /\ cached \in Nat \cup {None}
         /\ \A k \in Containers : samples[k] \in Nat \cup {None}
  BY CacheAssumption DEF TypeOK, Versions

\* While nobody holds a mutex nobody scans, nobody samples.
LEMMA Mutexes ==
  ASSUME TypeOK
  PROVE  /\ cacheMu = None => \A a \in Actors : pc[a] \notin {"scan", "keep"}
         /\ statsMu = None => \A a \in Actors : pc[a] # "sample"
         /\ \A a, b \in Actors : pc[a] \in {"scan", "keep"} /\ pc[b] \in {"scan", "keep"} => a = b
         /\ \A a, b \in Actors : pc[a] = "sample" /\ pc[b] = "sample" => a = b
  BY CacheAssumption DEF TypeOK, Walking

\* What is so now is as new as any debt.
LEMMA NowPays ==
  ASSUME TypeOK, Past
  PROVE  FileDebt(now[Files]) /\ \A k \in Containers : SampleDebt(k, now[k])
  BY DEF Past, FileDebt, SampleDebt, Objects

-----------------------------------------------------------------------------
(* Types.                                                                  *)

LEMMA NothingTypes == Nothing \in Answers /\ Unowed \in [Objects -> Versions]
  BY CacheAssumption DEF Nothing, Unowed, Answers, Versions

LEMMA TypeStep == TypeOK /\ [Next]_vars => TypeOK'
<1>. SUFFICES ASSUME TypeOK, [Next]_vars PROVE TypeOK'
  OBVIOUS
<1>. USE CacheAssumption DEF TypeOK, Versions, Pcs, Walking
<1>1. ASSUME NEW l \in Lists, List(l) PROVE TypeOK'
  BY <1>1 DEF List, Actors
<1>2. ASSUME NEW l \in Lists, Refresh(l) PROVE TypeOK'
  BY <1>2 DEF Refresh, Actors
<1>3. ASSUME NEW c \in Changers, NEW o \in Objects, Change(c, o) PROVE TypeOK'
  BY <1>3 DEF Change, Actors
<1>4. ASSUME NEW o \in Objects, Outside(o) PROVE TypeOK'
  BY <1>4 DEF Outside
<1>5. ASSUME NEW a \in Actors, Invalidate(a) PROVE TypeOK'
  BY <1>5 DEF Invalidate
<1>6. ASSUME NEW a \in Actors, InvalidateStats(a) PROVE TypeOK'
  <2>1. CASE a \in Lists
    BY <1>6, <2>1 DEF InvalidateStats, AfterInvalidate
  <2>2. CASE a \in Changers /\ a \notin Lists
    <3>1. /\ pc[a] = "clearStats" /\ pc' = [pc EXCEPT ![a] = "idle"]
          /\ mine' = [mine EXCEPT ![a] = NoChange]
          /\ samples' = [k \in Containers |-> None]
          /\ UNCHANGED <<now, cached, cacheMu, statsMu, shown, pending, floor>>
      BY <1>6, <2>2 DEF InvalidateStats, AfterInvalidate
    <3>2. NoChange \in [object : Objects, version : Versions]
      BY DEF NoChange, Objects
    <3>3. answered' \in [Objects -> Versions]
      BY <1>6, <2>2 DEF InvalidateStats, AfterInvalidate
    <3>4. pc' \in [Actors -> Pcs] /\ Mutexed'
      BY <3>1 DEF Mutexed
    <3>. QED BY <2>2, <3>1, <3>2, <3>3, <3>4 DEF Mutexed
  <2>. QED BY <2>1, <2>2 DEF Actors
<1>7. ASSUME NEW l \in Lists, Hit(l) PROVE TypeOK'
  BY <1>7 DEF Hit, Show, Actors, Objects
<1>8. ASSUME NEW l \in Lists, Miss(l) PROVE TypeOK'
  BY <1>8 DEF Miss, Actors
<1>9. ASSUME NEW l \in Lists, GiveUp(l) PROVE TypeOK'
  BY <1>9 DEF GiveUp, Release, Actors
<1>10. ASSUME NEW l \in Lists, Scan(l) PROVE TypeOK'
  BY <1>10 DEF Scan, Show, Actors, Objects
<1>11. ASSUME NEW l \in Lists, Keep(l) PROVE TypeOK'
  <2>1. shown[l][Files] \in Versions \cup {None}
    BY DEF Objects
  <2>2. pc' \in [Actors -> Pcs] /\ Mutexed'
    BY <1>11 DEF Keep, Release, Actors, Mutexed
  <2>3. /\ cached' \in Versions \cup {None} /\ cacheMu' \in Actors \cup {None}
        /\ UNCHANGED <<now, samples, statsMu, shown, pending, answered, mine, floor>>
    BY <1>11, <2>1 DEF Keep, Release
  <2>. QED BY <2>2, <2>3 DEF Mutexed
<1>12. ASSUME NEW l \in Lists, NoContainers(l) PROVE TypeOK'
  <2>1. pc' \in [Actors -> Pcs] /\ Mutexed'
    BY <1>12 DEF NoContainers, Reply, Actors, Mutexed
  <2>2. shown' \in [Lists -> Answers] /\ floor' \in [Lists -> [Objects -> Versions]]
    BY <1>12, NothingTypes DEF NoContainers, Reply, Answers
  <2>. QED BY <1>12, <2>1, <2>2 DEF NoContainers, Mutexed, Answers
<1>13. ASSUME NEW l \in Lists, LockStats(l) PROVE TypeOK'
  <2>1. pc' \in [Actors -> Pcs] /\ Mutexed'
    BY <1>13 DEF LockStats, Actors, Mutexed
  <2>2. PICK running \in SUBSET Containers :
          /\ samples' = [k \in Containers |-> IF k \in running THEN samples[k] ELSE None]
          /\ \E fresh \in SUBSET {k \in running : samples[k] # None} :
               /\ shown' = [shown EXCEPT ![l] = [o \in Objects |-> IF o \in fresh THEN samples[o] ELSE @[o]]]
               /\ pending' = [pending EXCEPT ![l] = running \ fresh]
    BY <1>13 DEF LockStats
  <2>3. PICK fresh \in SUBSET {k \in running : samples[k] # None} :
          /\ shown' = [shown EXCEPT ![l] = [o \in Objects |-> IF o \in fresh THEN samples[o] ELSE shown[l][o]]]
          /\ pending' = [pending EXCEPT ![l] = running \ fresh]
    BY <2>2
  <2>4. [o \in Objects |-> IF o \in fresh THEN samples[o] ELSE shown[l][o]] \in Answers
    BY DEF Answers
  <2>5. shown' \in [Lists -> Answers]
    BY <2>3, <2>4 DEF Answers
  <2>6. samples' \in [Containers -> Versions \cup {None}] /\ pending' \in [Lists -> SUBSET Containers]
    BY <2>2, <2>3
  <2>. QED BY <1>13, <2>1, <2>5, <2>6 DEF LockStats, Mutexed, Answers
<1>14. ASSUME NEW l \in Lists, NEW k \in Containers, Read(l, k) PROVE TypeOK'
  <2>1. shown' \in [Lists -> Answers]
    <3>1. now[k] \in Versions
      BY DEF Objects
    <3>2. shown' = shown \/ shown' = [shown EXCEPT ![l][k] = now[k]]
      BY <1>14 DEF Read, Show
    <3>. QED BY <3>1, <3>2 DEF Answers, Objects
  <2>. QED BY <1>14, <2>1 DEF Read, Answers
<1>15. ASSUME NEW l \in Lists, Store(l) PROVE TypeOK'
  <2>1. pc' \in [Actors -> Pcs] /\ Mutexed'
    BY <1>15 DEF Store, Reply, Actors, Mutexed
  <2>2. shown' \in [Lists -> Answers] /\ floor' \in [Lists -> [Objects -> Versions]]
    BY <1>15, NothingTypes DEF Store, Reply, Answers
  <2>3. samples' \in [Containers -> Versions \cup {None}]
    BY <1>15 DEF Store, Objects
  <2>4. statsMu' = None /\ UNCHANGED <<now, cached, cacheMu, pending, answered, mine>>
    BY <1>15 DEF Store
  <2>. QED BY <2>1, <2>2, <2>3, <2>4 DEF Mutexed, Answers
<1>16. CASE UNCHANGED vars
  BY <1>16 DEF vars
<1>. QED BY <1>1, <1>2, <1>3, <1>4, <1>5, <1>6, <1>7, <1>8, <1>9, <1>10, <1>11, <1>12,
            <1>13, <1>14, <1>15, <1>16 DEF Next, ListStep, Actors

\* Whatever fails or is cancelled, each mutex is held by exactly who scans or
\* samples, and every variable keeps its type (discovery.go 52-76,
\* stats_cache.go 23-92).
THEOREM CacheTypes == Spec => []TypeOK
<1>1. Init => TypeOK
  BY CacheAssumption DEF Init, TypeOK, Versions, Pcs, Walking, Nothing, Unowed, NoChange, Objects
<1>. QED BY <1>1, TypeStep, PTL DEF Spec

-----------------------------------------------------------------------------
(* The past.                                                               *)

LEMMA PastStep == TypeOK /\ Past /\ [Next]_vars => Past'
<1>. SUFFICES ASSUME TypeOK, Past, [Next]_vars PROVE Past'
  OBVIOUS
<1>. USE Types DEF Past
<1>1. ASSUME NEW l \in Lists, List(l) \/ Refresh(l) PROVE Past'
  <2>1. /\ UNCHANGED <<now, answered, mine>>
        /\ \A m \in Lists : \A o \in Objects : floor'[m][o] \in {floor[m][o], answered[o], now[o]}
    BY <1>1 DEF List, Refresh, TypeOK
  <2>. QED BY <2>1
<1>2. ASSUME NEW c \in Changers, NEW o \in Objects, Change(c, o) PROVE Past'
  <2>1. /\ UNCHANGED <<answered, floor>>
        /\ \A q \in Objects : now'[q] = IF q = o THEN now[q] + 1 ELSE now[q]
        /\ \A b \in Changers \ {c} : mine'[b] = mine[b]
        /\ mine'[c].object = o /\ mine'[c].version = now[o] + 1
    BY <1>2 DEF Change, TypeOK
  <2>. QED BY <2>1
<1>3. ASSUME NEW o \in Objects, Outside(o) PROVE Past'
  <2>1. /\ UNCHANGED <<answered, mine, floor>>
        /\ \A q \in Objects : now'[q] = IF q = o THEN now[q] + 1 ELSE now[q]
    BY <1>3 DEF Outside, TypeOK
  <2>. QED BY <2>1
<1>4. ASSUME NEW a \in Actors, InvalidateStats(a) PROVE Past'
  <2>1. CASE a \in Lists
    BY <1>4, <2>1 DEF InvalidateStats, AfterInvalidate
  <2>2. CASE a \in Changers /\ a \notin Lists
    <3>1. /\ UNCHANGED <<now, floor>>
          /\ \A b \in Changers \ {a} : mine'[b] = mine[b]
          /\ mine'[a].object = Files /\ mine'[a].version = 0
          /\ \A o \in Objects : answered'[o] \in {answered[o], IF mine[a].object = o THEN mine[a].version ELSE answered[o]}
      BY <1>4, <2>2 DEF InvalidateStats, AfterInvalidate, NoChange, TypeOK
    <3>. QED BY <2>2, <3>1
  <2>. QED BY <2>1, <2>2 DEF Actors
<1>5. ASSUME NEW l \in Lists, NoContainers(l) \/ Store(l) PROVE Past'
  <2>1. /\ UNCHANGED <<now, answered, mine>>
        /\ \A m \in Lists : \A o \in Objects : floor'[m][o] \in {floor[m][o], 0}
    BY <1>5 DEF NoContainers, Store, Reply, Unowed, TypeOK
  <2>. QED BY <2>1
<1>6. CASE UNCHANGED <<now, answered, mine, floor>>
  BY <1>6
<1>7. ASSUME NEW a \in Actors,
             \/ Invalidate(a)
             \/ a \in Lists /\ \/ Hit(a) \/ Miss(a) \/ GiveUp(a) \/ Scan(a) \/ Keep(a)
                               \/ LockStats(a) \/ \E k \in Containers : Read(a, k)
      PROVE  Past'
  BY <1>6, <1>7 DEF Invalidate, Hit, Miss, GiveUp, Scan, Keep, LockStats, Read
<1>. QED BY <1>1, <1>2, <1>3, <1>4, <1>5, <1>6, <1>7 DEF Next, ListStep, Actors, vars

-----------------------------------------------------------------------------
(* The snapshot.                                                           *)

\* No new debt.
LEMMA FileDebtKept ==
  ASSUME NEW v \in Nat, FileDebt(v), TypeOK, answered' = answered,
         \A c \in Changers : mine'[c] = mine[c] /\ (pc'[c] = "clearStats" => pc[c] = "clearStats"),
         \A l \in Lists : pc'[l] \notin {"idle", "clear"} =>
           \/ pc[l] \notin {"idle", "clear"} /\ floor'[l][Files] = floor[l][Files]
           \/ floor'[l][Files] = answered[Files]
  PROVE  FileDebt(v)'
  BY DEF FileDebt

LEMMA FileStep == TypeOK /\ Past /\ FileInv /\ [Next]_vars => FileInv'
<1>. SUFFICES ASSUME TypeOK, Past, FileInv, [Next]_vars PROVE FileInv'
  OBVIOUS
<1>. USE Types, CacheAssumption DEF Actors
<1>. pc \in [Actors -> Pcs] /\ Files \in Objects
  BY DEF TypeOK, Objects
<1>1. ASSUME UNCHANGED cached,
             \A l \in Lists : pc'[l] = "keep" => pc[l] = "keep" /\ shown'[l][Files] = shown[l][Files],
             \A v \in Nat : FileDebt(v) => FileDebt(v)'
      PROVE  FileInv'
  BY <1>1 DEF FileInv, FileDebt
<1>2. ASSUME NEW l \in Lists, List(l) \/ Refresh(l) PROVE FileInv'
  <2>1. /\ UNCHANGED <<cached, shown, answered, mine>>
        /\ \A m \in Actors \ {l} : pc'[m] = pc[m]
        /\ \A m \in Lists \ {l} : floor'[m] = floor[m]
        /\ pc'[l] # "keep" /\ (pc'[l] # "clear" => floor'[l][Files] = answered[Files])
    BY <1>2 DEF List, Refresh, TypeOK
  <2>2. \A v \in Nat : FileDebt(v) => FileDebt(v)'
    BY <2>1, FileDebtKept
  <2>. QED BY <1>1, <2>1, <2>2
<1>3. ASSUME NEW c \in Changers, NEW o \in Objects, Change(c, o) PROVE FileInv'
  <2>1. /\ UNCHANGED <<cached, shown, answered, floor>> /\ pc'[c] = "clear"
        /\ \A a \in Actors \ {c} : pc'[a] = pc[a]
        /\ \A b \in Changers \ {c} : mine'[b] = mine[b]
    BY <1>3 DEF Change, TypeOK
  <2>2. \A v \in Nat : FileDebt(v) => FileDebt(v)'
    BY <2>1 DEF FileDebt
  <2>. QED BY <1>1, <2>1, <2>2
<1>4. ASSUME NEW a \in Actors, Invalidate(a) PROVE FileInv'
  <2>1. cached' = None /\ \A l \in Lists : pc'[l] # "keep"
    BY <1>4, Mutexes DEF Invalidate
  <2>. QED BY <2>1 DEF FileInv
<1>5. ASSUME NEW a \in Actors, InvalidateStats(a) PROVE FileInv'
  <2>1. CASE a \in Lists
    <3>1. /\ pc[a] = "clearStats" /\ pc'[a] = "wait" /\ UNCHANGED <<cached, shown, answered, mine, floor>>
          /\ \A b \in Actors \ {a} : pc'[b] = pc[b]
      BY <1>5, <2>1 DEF InvalidateStats, AfterInvalidate
    <3>2. \A v \in Nat : FileDebt(v) => FileDebt(v)'
      BY <3>1, FileDebtKept
    <3>. QED BY <1>1, <3>1, <3>2
  <2>2. CASE a \in Changers /\ a \notin Lists
    <3>1. /\ pc[a] = "clearStats" /\ pc'[a] = "idle" /\ UNCHANGED <<cached, shown, floor>>
          /\ \A b \in Actors \ {a} : pc'[b] = pc[b]
          /\ \A b \in Changers \ {a} : mine'[b] = mine[b]
          /\ answered'[Files] \in {answered[Files], IF mine[a].object = Files THEN mine[a].version ELSE answered[Files]}
      BY <1>5, <2>2 DEF InvalidateStats, AfterInvalidate, TypeOK
    <3>2. \A v \in Nat : FileDebt(v) => FileDebt(v)'
      BY <2>2, <3>1 DEF FileDebt
    <3>. QED BY <1>1, <2>2, <3>1, <3>2
  <2>. QED BY <2>1, <2>2
<1>6. ASSUME NEW l \in Lists, Scan(l) PROVE FileInv'
  <2>1. /\ pc[l] = "scan" /\ pc'[l] = "keep" /\ UNCHANGED <<cached, answered, mine, floor>>
        /\ \A a \in Actors \ {l} : pc'[a] = pc[a]
        /\ shown'[l][Files] = now[Files] /\ \A m \in Lists \ {l} : shown'[m] = shown[m]
    BY <1>6 DEF Scan, Show, TypeOK
  <2>2. \A v \in Nat : FileDebt(v) => FileDebt(v)'
    BY <2>1, FileDebtKept
  <2>3. FileDebt(now[Files])
    BY NowPays
  <2>. QED BY <2>1, <2>2, <2>3 DEF FileInv, FileDebt
<1>7. ASSUME NEW l \in Lists, Keep(l) PROVE FileInv'
  <2>1. /\ pc[l] = "keep" /\ pc'[l] = "daemon" /\ UNCHANGED <<shown, answered, mine, floor>>
        /\ \A a \in Actors \ {l} : pc'[a] = pc[a]
        /\ cached' = shown[l][Files]
    BY <1>7 DEF Keep, Release
  <2>2. \A v \in Nat : FileDebt(v) => FileDebt(v)'
    BY <2>1, FileDebtKept
  <2>. QED BY <2>1, <2>2 DEF FileInv, FileDebt
<1>8. ASSUME NEW l \in Lists, Hit(l) \/ Miss(l) \/ GiveUp(l) \/ LockStats(l) \/ \E k \in Containers : Read(l, k)
      PROVE  FileInv'
  <2>1. /\ UNCHANGED <<cached, answered, mine, floor>> /\ pc[l] \notin {"idle", "clear", "keep"} /\ pc'[l] # "keep"
        /\ \A a \in Actors \ {l} : pc'[a] = pc[a]
        /\ \A m \in Lists \ {l} : shown'[m] = shown[m]
    BY <1>8 DEF Hit, Miss, GiveUp, LockStats, Read, Release, Show, TypeOK
  <2>2. \A v \in Nat : FileDebt(v) => FileDebt(v)'
    BY <2>1, FileDebtKept
  <2>. QED BY <1>1, <2>1, <2>2
<1>9. ASSUME NEW l \in Lists, NoContainers(l) \/ Store(l) PROVE FileInv'
  <2>1. /\ UNCHANGED <<cached, answered, mine>> /\ pc'[l] = "idle"
        /\ \A a \in Actors \ {l} : pc'[a] = pc[a]
        /\ \A m \in Lists \ {l} : shown'[m] = shown[m] /\ floor'[m] = floor[m]
    BY <1>9 DEF NoContainers, Store, Reply, TypeOK
  <2>2. \A v \in Nat : FileDebt(v) => FileDebt(v)'
    BY <2>1, FileDebtKept
  <2>. QED BY <1>1, <2>1, <2>2
<1>10. ASSUME UNCHANGED <<cached, shown, pc, answered, mine, floor>> PROVE FileInv'
  BY <1>10 DEF FileInv, FileDebt
<1>11. ASSUME NEW o \in Objects, Outside(o) PROVE FileInv'
  BY <1>10, <1>11 DEF Outside
<1>. QED BY <1>2, <1>3, <1>4, <1>5, <1>6, <1>7, <1>8, <1>9, <1>10, <1>11 DEF Next, ListStep, vars

-----------------------------------------------------------------------------
(* The samples.                                                            *)

\* No new debt.
LEMMA SampleDebtKept ==
  ASSUME NEW k \in Containers, NEW v \in Nat, SampleDebt(k, v), TypeOK, answered'[k] = answered[k],
         \A l \in Lists : pc'[l] \notin {"idle", "clear", "clearStats"} =>
           \/ pc[l] \notin {"idle", "clear", "clearStats"} /\ floor'[l][k] = floor[l][k]
           \/ floor'[l][k] = answered[k]
  PROVE  SampleDebt(k, v)'
  BY DEF SampleDebt

LEMMA SampleStep == TypeOK /\ Past /\ SampleInv /\ [Next]_vars => SampleInv'
<1>. SUFFICES ASSUME TypeOK, Past, SampleInv, [Next]_vars PROVE SampleInv'
  OBVIOUS
<1>. USE Types, CacheAssumption DEF Actors
<1>. pc \in [Actors -> Pcs] /\ \A k \in Containers : k \in Objects
  BY DEF TypeOK, Objects
<1>1. ASSUME UNCHANGED samples,
             \A l \in Lists : \A k \in Containers : shown'[l][k] = shown[l][k],
             \A l \in Lists : pc'[l] = "sample" <=> pc[l] = "sample",
             \A k \in Containers : \A v \in Nat : SampleDebt(k, v) => SampleDebt(k, v)'
      PROVE  SampleInv'
  BY <1>1 DEF SampleInv, SampleDebt
<1>2. ASSUME NEW l \in Lists, List(l) \/ Refresh(l) PROVE SampleInv'
  <2>1. /\ UNCHANGED <<samples, shown, answered>> /\ pc[l] = "idle" /\ pc'[l] # "sample"
        /\ \A m \in Actors \ {l} : pc'[m] = pc[m]
        /\ \A m \in Lists \ {l} : floor'[m] = floor[m]
        /\ pc'[l] # "clear" => floor'[l] = answered
    BY <1>2 DEF List, Refresh, TypeOK
  <2>2. \A k \in Containers : \A v \in Nat : SampleDebt(k, v) => SampleDebt(k, v)'
    BY <2>1, SampleDebtKept
  <2>. QED BY <1>1, <2>1, <2>2
<1>3. ASSUME NEW a \in Actors,
             \/ \E o \in Objects : a \in Changers /\ Change(a, o)
             \/ Invalidate(a)
             \/ a \in Lists /\ (Hit(a) \/ Miss(a) \/ GiveUp(a) \/ Scan(a) \/ Keep(a))
      PROVE  SampleInv'
  <2>1. /\ UNCHANGED <<samples, answered, floor>> /\ pc[a] # "sample" /\ pc'[a] # "sample"
        /\ \A b \in Actors \ {a} : pc'[b] = pc[b]
        /\ pc[a] \in {"idle", "clear"} => pc'[a] \in {"clear", "clearStats"}
    BY <1>3 DEF Change, Invalidate, Hit, Miss, GiveUp, Scan, Keep, Release
  <2>. \A l \in Lists : \A k \in Containers : shown'[l][k] = shown[l][k]
    <3>1. CASE UNCHANGED shown
      BY <3>1
    <3>2. CASE a \in Lists /\ (Hit(a) \/ Scan(a))
      <4>1. PICK v : shown' = [shown EXCEPT ![a][Files] = v]
        BY <3>2 DEF Hit, Scan, Show
      <4>2. shown \in [Lists -> [Objects -> Versions \cup {None}]] /\ \A k \in Containers : k # Files
        BY DEF TypeOK
      <4>. QED BY <3>2, <4>1, <4>2
    <3>. QED BY <1>3, <3>1, <3>2 DEF Change, Invalidate, Miss, GiveUp, Keep
  <2>2. pc[a] = "clearStats" => pc'[a] = "clearStats"
    BY <1>3 DEF Change, Invalidate, Hit, Miss, GiveUp, Scan, Keep
  <2>3. \A k \in Containers : \A v \in Nat : SampleDebt(k, v) => SampleDebt(k, v)'
    BY <2>1, <2>2, SampleDebtKept
  <2>. QED BY <1>1, <2>1, <2>3
<1>4. ASSUME NEW a \in Actors, InvalidateStats(a) PROVE SampleInv'
  <2>1. /\ \A k \in Containers : samples'[k] = None
        /\ \A l \in Lists : pc[l] # "sample" /\ pc'[l] # "sample"
        /\ UNCHANGED shown
    BY <1>4, Mutexes DEF InvalidateStats, AfterInvalidate
  <2>. QED BY <2>1 DEF SampleInv
<1>5. ASSUME NEW l \in Lists, LockStats(l) PROVE SampleInv'
  <2>1. PICK running \in SUBSET Containers :
          /\ samples' = [k \in Containers |-> IF k \in running THEN samples[k] ELSE None]
          /\ \E fresh \in SUBSET {k \in running : samples[k] # None} :
               shown' = [shown EXCEPT ![l] = [o \in Objects |-> IF o \in fresh THEN samples[o] ELSE @[o]]]
    BY <1>5 DEF LockStats
  <2>2. PICK fresh \in SUBSET {k \in running : samples[k] # None} :
          shown' = [shown EXCEPT ![l] = [o \in Objects |-> IF o \in fresh THEN samples[o] ELSE shown[l][o]]]
    BY <2>1
  <2>3. /\ pc[l] = "daemon" /\ pc'[l] = "sample" /\ UNCHANGED <<answered, floor>>
        /\ \A m \in Actors \ {l} : pc'[m] = pc[m]
    BY <1>5 DEF LockStats
  <2>4. \A k \in Containers : \A v \in Nat : SampleDebt(k, v) => SampleDebt(k, v)'
    BY <2>3, SampleDebtKept
  <2>5. \A k \in Containers : shown'[l][k] # None => shown'[l][k] = samples[k]
    BY <2>2, <2>3 DEF SampleInv, TypeOK
  <2>6. \A m \in Lists \ {l} : shown'[m] = shown[m]
    BY <2>2 DEF TypeOK
  <2>7. \A k \in Containers : samples'[k] # None => samples'[k] = samples[k]
    BY <2>1
  <2>. QED BY <2>3, <2>4, <2>5, <2>6, <2>7 DEF SampleInv, SampleDebt
<1>6. ASSUME NEW l \in Lists, NEW k \in Containers, Read(l, k) PROVE SampleInv'
  <2>1. /\ pc[l] = "sample" /\ UNCHANGED <<samples, pc, answered, floor>>
        /\ \A m \in Lists : \A j \in Containers :
             shown'[m][j] = shown[m][j] \/ (m = l /\ j = k /\ shown'[m][j] = now[k])
    BY <1>6 DEF Read, Show, TypeOK
  <2>2. \A j \in Containers : \A v \in Nat : SampleDebt(j, v) => SampleDebt(j, v)'
    BY <2>1, SampleDebtKept
  <2>3. SampleDebt(k, now[k])
    BY NowPays
  <2>. QED BY <2>1, <2>2, <2>3 DEF SampleInv, SampleDebt
<1>7. ASSUME NEW l \in Lists, Store(l) PROVE SampleInv'
  <2>1. /\ pc[l] = "sample" /\ pc'[l] = "idle" /\ UNCHANGED answered
        /\ \A m \in Actors \ {l} : pc'[m] = pc[m]
        /\ \A m \in Lists \ {l} : shown'[m] = shown[m] /\ floor'[m] = floor[m]
        /\ \A k \in Containers : shown'[l][k] = None
        /\ \A k \in Containers : samples'[k] \in {samples[k], shown[l][k]}
    BY <1>7 DEF Store, Reply, Nothing, TypeOK
  <2>2. \A k \in Containers : \A v \in Nat : SampleDebt(k, v) => SampleDebt(k, v)'
    BY <2>1, SampleDebtKept
  <2>. QED BY <2>1, <2>2 DEF SampleInv, SampleDebt
<1>8. ASSUME NEW l \in Lists, NoContainers(l) PROVE SampleInv'
  <2>1. /\ pc[l] = "daemon" /\ pc'[l] = "idle" /\ UNCHANGED <<samples, answered>>
        /\ \A m \in Actors \ {l} : pc'[m] = pc[m]
        /\ \A m \in Lists \ {l} : shown'[m] = shown[m] /\ floor'[m] = floor[m]
        /\ \A k \in Containers : shown'[l][k] = None
    BY <1>8 DEF NoContainers, Reply, Nothing, TypeOK
  <2>2. \A k \in Containers : \A v \in Nat : SampleDebt(k, v) => SampleDebt(k, v)'
    BY <2>1, SampleDebtKept
  <2>3. \A k \in Containers : shown[l][k] = None
    BY <2>1 DEF SampleInv
  <2>. QED BY <1>1, <2>1, <2>2, <2>3
<1>9. ASSUME UNCHANGED <<samples, shown, pc, answered, floor>> PROVE SampleInv'
  BY <1>9 DEF SampleInv, SampleDebt
<1>10. ASSUME NEW o \in Objects, Outside(o) PROVE SampleInv'
  BY <1>9, <1>10 DEF Outside
<1>. QED BY <1>2, <1>3, <1>4, <1>5, <1>6, <1>7, <1>8, <1>9, <1>10 DEF Next, ListStep, vars

-----------------------------------------------------------------------------
(* What the lists have.                                                    *)

LEMMA ShownStep == Inv /\ [Next]_vars => ShownInv'
<1>. SUFFICES ASSUME TypeOK, Past, FileInv, ShownInv, [Next]_vars PROVE ShownInv'
  BY DEF Inv
<1>. USE Types, CacheAssumption DEF Actors
<1>. pc \in [Actors -> Pcs] /\ Files \in Objects /\ \A k \in Containers : k # Files
  BY DEF TypeOK, Objects
<1>. DEFINE Early == {"idle", "clear", "clearStats", "wait", "scan"}
<1>1. ASSUME \A l \in Lists : /\ shown'[l][Files] = shown[l][Files]
                              /\ shown[l][Files] # None => floor'[l][Files] = floor[l][Files]
                              /\ pc'[l] \in Early => pc[l] \in Early
      PROVE  ShownInv'
  BY <1>1 DEF ShownInv
<1>2. ASSUME NEW l \in Lists, List(l) \/ Refresh(l) PROVE ShownInv'
  <2>1. /\ UNCHANGED shown /\ pc[l] = "idle"
        /\ \A m \in Lists \ {l} : pc'[m] = pc[m] /\ floor'[m] = floor[m]
    BY <1>2 DEF List, Refresh, TypeOK
  <2>. QED BY <1>1, <2>1 DEF ShownInv
<1>3. ASSUME NEW a \in Actors,
             \/ \E o \in Objects : a \in Changers /\ Change(a, o)
             \/ Invalidate(a) \/ InvalidateStats(a)
             \/ a \in Lists /\ (Miss(a) \/ GiveUp(a) \/ Keep(a) \/ \E k \in Containers : Read(a, k))
      PROVE  ShownInv'
  <2>1. /\ UNCHANGED floor /\ \A l \in Lists : shown'[l][Files] = shown[l][Files]
        /\ \A b \in Actors \ {a} : pc'[b] = pc[b]
        /\ a \in Lists /\ pc'[a] \in Early => pc[a] \in Early
    BY <1>3 DEF Change, Invalidate, InvalidateStats, AfterInvalidate, Miss, GiveUp, Keep, Read,
                Release, Show, TypeOK
  <2>. QED BY <1>1, <2>1
<1>4. ASSUME NEW l \in Lists, Hit(l) \/ Scan(l) PROVE ShownInv'
  <2>1. /\ pc[l] \in {"wait", "scan"} /\ pc'[l] \notin Early /\ UNCHANGED floor
        /\ \A m \in Lists \ {l} : pc'[m] = pc[m] /\ shown'[m] = shown[m]
        /\ shown'[l][Files] = now[Files] \/ (cached # None /\ shown'[l][Files] = cached)
    BY <1>4 DEF Hit, Scan, Show, TypeOK
  <2>2. floor[l][Files] <= now[Files] /\ (cached # None => floor[l][Files] <= cached)
    BY <2>1 DEF Past, FileInv, FileDebt
  <2>. QED BY <2>1, <2>2 DEF ShownInv
<1>5. ASSUME NEW l \in Lists, LockStats(l) PROVE ShownInv'
  <2>1. PICK running \in SUBSET Containers :
          \E fresh \in SUBSET {k \in running : samples[k] # None} :
            shown' = [shown EXCEPT ![l] = [o \in Objects |-> IF o \in fresh THEN samples[o] ELSE @[o]]]
    BY <1>5 DEF LockStats
  <2>2. PICK fresh \in SUBSET {k \in running : samples[k] # None} :
          shown' = [shown EXCEPT ![l] = [o \in Objects |-> IF o \in fresh THEN samples[o] ELSE shown[l][o]]]
    BY <2>1
  <2>3. \A m \in Lists : shown'[m][Files] = shown[m][Files]
    BY <2>2 DEF TypeOK
  <2>4. /\ pc'[l] = "sample" /\ UNCHANGED floor /\ \A m \in Actors \ {l} : pc'[m] = pc[m]
    BY <1>5 DEF LockStats
  <2>. QED BY <1>1, <2>3, <2>4
<1>6. ASSUME NEW l \in Lists, NoContainers(l) \/ Store(l) PROVE ShownInv'
  <2>1. /\ shown'[l][Files] = None
        /\ \A m \in Lists \ {l} : pc'[m] = pc[m] /\ shown'[m] = shown[m] /\ floor'[m] = floor[m]
    BY <1>6 DEF NoContainers, Store, Reply, Nothing, TypeOK
  <2>. QED BY <2>1 DEF ShownInv
<1>7. ASSUME UNCHANGED <<shown, pc, floor>> PROVE ShownInv'
  BY <1>7 DEF ShownInv
<1>8. ASSUME NEW o \in Objects, Outside(o) PROVE ShownInv'
  BY <1>7, <1>8 DEF Outside
<1>. QED BY <1>2, <1>3, <1>4, <1>5, <1>6, <1>7, <1>8 DEF Next, ListStep, vars

-----------------------------------------------------------------------------

LEMMA InvHolds == Spec => []Inv
<1>1. Init => Inv
  <2>. SUFFICES ASSUME Init PROVE Inv
    OBVIOUS
  <2>1. TypeOK
    BY CacheAssumption DEF Init, TypeOK, Versions, Pcs, Walking, Nothing, Unowed, NoChange, Objects
  <2>2. Past
    BY DEF Init, Past, Unowed, NoChange
  <2>3. FileInv /\ SampleInv /\ ShownInv
    BY DEF Init, FileInv, SampleInv, ShownInv, Nothing, Objects, Actors
  <2>. QED BY <2>1, <2>2, <2>3 DEF Inv
<1>2. Inv /\ [Next]_vars => Inv'
  BY TypeStep, PastStep, FileStep, SampleStep, ShownStep DEF Inv
<1>. QED BY <1>1, <1>2, PTL DEF Spec

\* No list hides a change that was answered before it was asked for, and no
\* refresh one that was made before, for any number of lists, changers and
\* containers (discovery.go 52-76, stats_cache.go 23-92, service.go 68-85).
THEOREM NoStaleAnswer == Spec => ShowsWhatWasAnswered
<1>. DEFINE Fresh(l, o) == pc[l] # "idle" /\ pc'[l] = "idle" /\ shown[l][o] # None
                             => shown[l][o] >= floor[l][o]
<1>1. Inv /\ [Next]_vars => [\A l \in Lists, o \in Objects : Fresh(l, o)]_vars
  <2>. SUFFICES ASSUME Inv, [Next]_vars, NEW l \in Lists, NEW o \in Objects,
                       pc[l] # "idle", pc'[l] = "idle", shown[l][o] # None
                PROVE  shown[l][o] >= floor[l][o]
    OBVIOUS
  <2>1. CASE o = Files
    BY <2>1 DEF Inv, ShownInv
  <2>2. CASE o \in Containers
    <3>1. pc[l] = "sample"
      BY <2>2 DEF Inv, SampleInv
    <3>2. floor[l][o] <= shown[l][o]
      BY <2>2, <3>1 DEF Inv, SampleInv, SampleDebt
    <3>. QED BY <3>2, Types DEF Inv
  <2>. QED BY <2>1, <2>2 DEF Objects
<1>. QED BY <1>1, InvHolds, PTL DEF Spec, ShowsWhatWasAnswered

=============================================================================
