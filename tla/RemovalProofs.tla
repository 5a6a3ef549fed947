---------------------------- MODULE RemovalProofs ----------------------------
(***************************************************************************)
(* Proofs about Removal, for any tokens, containers, images, volumes and   *)
(* contents, any limit on tickets and any number of moves of the world.    *)
(* IInv is the inductive invariant: a part for the types and the plan, one *)
(* for what was removed, one for its trace, one for what the last look     *)
(* found in use, one for the tickets.                                      *)
(***************************************************************************)
EXTENDS Removal, FiniteSetTheorems, TLAPS

Before   == {"files", "docker", "confirm", "backup"}
Emptying == {"containers", "remove"}
Looking  == {"freshDocker", "erase"}
Dropping == {"useDocker", "useFiles", "drop"}
After    == Dropping \cup {"resources"}
Working  == {"backup", "close"} \cup Emptying \cup Looking \cup After

\* The deletion works off the plan that its user saw.
InHand ==
  /\ pc # "idle" => paper \in Plans \ {None}
  /\ pc \in {"docker", "freshDocker"} => read \in Inventory
  /\ pc = "confirm" => plan \in Plans
  /\ pc \in Working => plan = paper
  /\ pc \in Emptying => todo \subseteq Own
  /\ pc \in After => todo \subseteq Resources
  /\ pc \in Dropping \cup {"remove"} => item \in todo

Typed == TypeOK /\ IsFiniteSet(Table) /\ InHand

\* The containers that the user saw.
Planned == {c \in Own : paper.own[c] # "gone"}

\* What is removed at each point, and what is left to remove.
DoneInv ==
  /\ pc \in Before => erased = {}
  /\ pc \in Emptying => erased \subseteq Own /\ todo \subseteq Planned /\ Planned \subseteq erased \cup todo
  /\ pc \in Looking => erased \subseteq Own /\ Planned \subseteq erased
  /\ pc \in After => "file" \in erased /\ todo \subseteq paper.items
  /\ pc \in Dropping => item \in Selected \ paper.kept
  /\ erased # {} =>
       /\ erased \cap Own \subseteq Planned
       /\ "file" \in erased => Planned \subseteq erased
       /\ erased \cap Resources # {} => "file" \in erased
       /\ erased \cap Resources \subseteq (paper.items \ paper.kept) \cap Selected

\* A file nobody edits is the one the plan was made from, and then the backup.
Stored == backup # None /\ (~edited => backup = paper.sha)

TraceInv ==
  /\ pc = "docker" /\ ~edited => file = read.sha
  /\ pc \in {"confirm", "backup"} /\ ~edited => file = plan.sha
  /\ pc \in Working => audit # "none"
  /\ pc \in Working \ {"backup", "close"} => Stored
  /\ erased # {} => audit # "none" /\ Stored

\* What was in use at the last look is still in use, unless held has lost it;
\* and each further step of the deletion has found it free.
HeldInv ==
  /\ pc \in Before \cup Emptying => held = {}
  /\ pc \in Looking => held \cap Resources = {}
  /\ pc = "freshDocker" => held \cap Own \subseteq OwnLive /\ ("directory" \in held => shared)
  /\ pc = "erase" => held \cap Own = {} /\ (want.directory => "directory" \notin held)
  /\ pc \in After => held \cap Resources \subseteq refs
  /\ pc = "drop" => item \notin held
  /\ "file" \in erased => held \cap Own = {}
  /\ "directory" \in erased => "directory" \notin held
  /\ held \cap Resources \cap erased = {}

\* A token that was used is in no ticket, and no preview is to give it one.
TicketInv == \A t \in Tokens : tickets[t] # None \/ drafts[t] # None => t \notin used

IInv == Typed /\ DoneInv /\ TraceInv /\ HeldInv /\ TicketInv

USE DEF world, preview, request, locals, result, progress, ghosts, Go, Return, Stop, Skip, Move, Still,
        Before, Emptying, Looking, Dropping, After, Working

\* The tickets and the used tokens stay.
SameTickets == UNCHANGED <<tickets, expired, drafts, used>>

\* Neither the steps of a deletion that has begun nor the world, short of a kill,
\* touch them.
LEMMA DeletionTickets == ASSUME Deletion PROVE SameTickets
<1>1. CASE Refuse \/ PlanFiles \/ PlanDocker \/ Confirm \/ Backup
  BY <1>1 DEF SameTickets, Refuse, PlanFiles, PlanDocker, Confirm, Backup
<1>2. ASSUME NEW c \in Own, StopContainer(c) PROVE SameTickets
  BY <1>2 DEF SameTickets, StopContainer
<1>3. CASE RemoveContainer \/ FreshFiles \/ FreshDocker \/ Erase
  BY <1>3 DEF SameTickets, RemoveContainer, FreshFiles, FreshDocker, Erase
<1>4. ASSUME NEW r \in Resources, NextResource(r) PROVE SameTickets
  BY <1>4 DEF SameTickets, NextResource
<1>5. CASE RecheckContainers \/ RecheckFiles \/ DropResource \/ AllDone \/ Close
  BY <1>5 DEF SameTickets, RecheckContainers, RecheckFiles, DropResource, AllDone, Close
<1>. QED BY <1>1, <1>2, <1>3, <1>4, <1>5 DEF Deletion

LEMMA OutsideTickets == ASSUME Outside, ~Crash PROVE SameTickets
<1>1. ASSUME NEW c, Edit(c) PROVE SameTickets
  BY <1>1 DEF SameTickets, Edit
<1>2. ASSUME NEW c, NEW s, Handle(c, s) PROVE SameTickets
  BY <1>2 DEF SameTickets, Handle
<1>3. ASSUME NEW r, Refer(r) PROVE SameTickets
  BY <1>3 DEF SameTickets, Refer
<1>4. CASE Share
  BY <1>4 DEF SameTickets, Share
<1>. QED BY <1>1, <1>2, <1>3, <1>4 DEF Outside

-----------------------------------------------------------------------------
(* Types.                                                                  *)

\* A plan that is made from an inventory is one.
LEMMA PlanTypes ==
  ASSUME TypeOK, NEW inv \in Inventory
  PROVE  PlanFrom(inv) \in Plans /\ PlanFrom(inv).sha = inv.sha
<1>. /\ [c \in Own |-> live[c]] \in [Own -> States]
     /\ have \subseteq Resources /\ shared \in BOOLEAN
     /\ inv.sha \in Contents
  BY DEF TypeOK, Containers, Inventory
<1>. QED BY DEF PlanFrom, Plans

\* What is not there cannot be read.
LEMMA FilesTypes == ASSUME TypeOK, file # None PROVE Files \in Inventory /\ Files.sha = file
  BY DEF TypeOK, Files, Inventory

\* The table holds at most TicketLimit tickets: a preview adds one when fewer
\* are left after the purge, everything else takes tickets away.
LEMMA TableStep ==
  ASSUME Typed, [Next]_vars
  PROVE  IsFiniteSet(Table)' /\ Cardinality(Table') <= TicketLimit
<1>. /\ IsFiniteSet(Table) /\ Cardinality(Table) <= TicketLimit
     /\ TicketLimit \in Nat /\ tickets \in [Tokens -> Plans \cup {None}]
  BY RemovalAssumption DEF Typed, TypeOK, Table
<1>1. ASSUME Table' \subseteq Table PROVE IsFiniteSet(Table)' /\ Cardinality(Table') <= TicketLimit
  BY <1>1, FS_Subset, FS_CardinalityType
<1>2. CASE tickets' = tickets
  BY <1>1, <1>2 DEF Table
<1>3. ASSUME NEW t \in Tokens, PreviewTicket(t)
      PROVE  IsFiniteSet(Table)' /\ Cardinality(Table') <= TicketLimit
  <2>. DEFINE Left == Table \ expired
  <2>1. IsFiniteSet(Left) /\ Cardinality(Left) <= Cardinality(Table) /\ Cardinality(Left) \in Nat
    BY FS_Subset, FS_CardinalityType
  <2>2. CASE Cardinality(Left) < TicketLimit
    <3>1. Table' \subseteq Left \cup {t}
      BY <1>3 DEF PreviewTicket, Table
    <3>2. /\ IsFiniteSet(Left \cup {t})
          /\ Cardinality(Left \cup {t}) <= Cardinality(Left) + 1
      BY <2>1, FS_AddElement
    <3>3. IsFiniteSet(Table') /\ Cardinality(Table') <= Cardinality(Left \cup {t})
      BY <3>1, <3>2, FS_Subset
    <3>. QED BY <2>1, <2>2, <3>2, <3>3, FS_CardinalityType
  <2>3. CASE ~(Cardinality(Left) < TicketLimit)
    <3>1. Table' \subseteq Table
      BY <1>3, <2>3 DEF PreviewTicket, Table
    <3>. QED BY <1>1, <3>1
  <2>. QED BY <2>2, <2>3
<1>4. ASSUME NEW t \in Tokens, NEW w \in Wants, Delete(t, w)
      PROVE  IsFiniteSet(Table)' /\ Cardinality(Table') <= TicketLimit
  BY <1>1, <1>4 DEF Delete, Begin, Table
<1>5. CASE Crash
  BY <1>1, <1>5 DEF Crash, Table
<1>6. ASSUME NEW t \in Tokens, PreviewFiles(t) \/ PreviewFails(t) \/ Expire(t) PROVE tickets' = tickets
  BY <1>6 DEF PreviewFiles, PreviewFails, Expire
<1>7. CASE Deletion \/ (Outside /\ ~Crash) \/ UNCHANGED vars
  BY <1>2, <1>7, DeletionTickets, OutsideTickets DEF SameTickets, vars
<1>. QED BY <1>2, <1>3, <1>4, <1>5, <1>6, <1>7 DEF Next, Preview

LEMMA TypeStep == Typed /\ [Next]_vars => TypeOK'
<1>. SUFFICES ASSUME Typed, [Next]_vars PROVE TypeOK'
  OBVIOUS
<1>1. Cardinality({t \in Tokens : tickets'[t] # None}) <= TicketLimit
  BY TableStep DEF Table
<1>. TypeOK
  BY DEF Typed
<1>2. ASSUME NEW t \in Tokens, Preview(t) PROVE TypeOK'
  <2>1. CASE PreviewFiles(t)
    <3>1. Files \in Inventory
      BY <2>1, FilesTypes DEF PreviewFiles
    <3>. QED BY <1>1, <2>1, <3>1 DEF PreviewFiles, TypeOK
  <2>2. CASE PreviewTicket(t)
    <3>1. PlanFrom(drafts[t]) \in Plans
      BY <2>2, PlanTypes DEF PreviewTicket, TypeOK
    <3>. HIDE DEF Plans, Inventory
    <3>2. tickets' \in [Tokens -> Plans \cup {None}] /\ drafts' \in [Tokens -> Inventory \cup {None}]
      BY <2>2, <3>1 DEF PreviewTicket, TypeOK
    <3>3. UNCHANGED <<world, expired, pc, request, progress, ghosts>>
      BY <2>2 DEF PreviewTicket
    <3>. QED BY <1>1, <3>2, <3>3 DEF TypeOK
  <2>3. CASE PreviewFails(t) \/ Expire(t)
    BY <1>1, <2>3 DEF PreviewFails, Expire, TypeOK
  <2>. QED BY <1>2, <2>1, <2>2, <2>3 DEF Preview
<1>3. ASSUME NEW t \in Tokens, NEW w \in Wants, Delete(t, w) PROVE TypeOK'
  <2>1. tickets' \in [Tokens -> Plans \cup {None}]
    BY <1>3 DEF Delete, Begin, TypeOK
  <2>2. tickets[t] \in Plans
    BY <1>3 DEF Delete, Begin, TypeOK
  <2>3. CASE t \in expired
    BY <1>1, <1>3, <2>1, <2>3 DEF Delete, Begin, TypeOK
  <2>4. CASE t \notin expired
    BY <1>1, <1>3, <2>1, <2>2, <2>4 DEF Delete, Begin, TypeOK, Pcs
  <2>. QED BY <2>3, <2>4
<1>4. CASE Refuse
  BY <1>1, <1>4 DEF Refuse, TypeOK, Pcs
<1>5. CASE PlanFiles
  <2>1. Files \in Inventory
    BY <1>5, FilesTypes DEF PlanFiles
  <2>. QED BY <1>1, <1>5, <2>1 DEF PlanFiles, TypeOK, Pcs
<1>6. CASE PlanDocker
  <2>1. PlanFrom(read) \in Plans
    BY <1>6, PlanTypes DEF PlanDocker, Typed, InHand
  <2>. QED BY <1>1, <1>6, <2>1 DEF PlanDocker, TypeOK, Pcs
<1>7. CASE Confirm
  BY <1>1, <1>7 DEF Confirm, TypeOK, Pcs
<1>8. CASE Backup
  <2>1. /\ pc' \in Pcs /\ errors' \in BOOLEAN /\ backup' \in Contents \cup {None}
        /\ todo' \in SUBSET (Own \cup Resources)
    BY <1>8 DEF Backup, TypeOK, Pcs
  <2>2. UNCHANGED <<world, preview, request, read, plan, item, audit, ghosts>>
    BY <1>8 DEF Backup
  <2>. QED BY <1>1, <2>1, <2>2 DEF TypeOK
<1>9. ASSUME NEW c \in Own, StopContainer(c) PROVE TypeOK'
  <2>1. live' \in [Containers -> States]
    BY <1>9 DEF StopContainer, TypeOK, States
  <2>2. pc' \in Pcs /\ errors' \in BOOLEAN /\ item' \in Own
    BY <1>9 DEF StopContainer, TypeOK, Pcs
  <2>3. UNCHANGED <<file, have, refs, shared, moves, preview, request, read, plan, todo, backup, audit, ghosts>>
    BY <1>9 DEF StopContainer
  <2>. QED BY <1>1, <2>1, <2>2, <2>3 DEF TypeOK
<1>10. CASE RemoveContainer
  <2>1. live' \in [Containers -> States] /\ item \in Own \cup Resources
    BY <1>10 DEF RemoveContainer, Typed, InHand, TypeOK, States
  <2>2. /\ pc' \in Pcs /\ errors' \in BOOLEAN /\ todo' \in SUBSET (Own \cup Resources)
        /\ erased' \in SUBSET (Own \cup Resources \cup {"file", "directory"})
    BY <1>10, <2>1 DEF RemoveContainer, TypeOK, Pcs
  <2>3. UNCHANGED <<file, have, refs, shared, moves, preview, request, read, plan, item, backup, audit,
                    held, used, edited>>
    BY <1>10 DEF RemoveContainer
  <2>. QED BY <1>1, <2>1, <2>2, <2>3 DEF TypeOK
<1>11. CASE FreshFiles
  <2>1. file # None => Files \in Inventory
    BY FilesTypes
  <2>2. /\ pc' \in Pcs /\ errors' \in BOOLEAN /\ read' \in Inventory \cup {None}
        /\ held' \in SUBSET (Own \cup Resources \cup {"directory"})
    BY <1>11, <2>1 DEF FreshFiles, TypeOK, Pcs, OwnLive
  <2>3. UNCHANGED <<world, preview, request, plan, todo, item, backup, audit, erased, used, edited>>
    BY <1>11 DEF FreshFiles
  <2>. QED BY <1>1, <2>2, <2>3 DEF TypeOK
<1>12. CASE FreshDocker
  <2>1. pc' \in Pcs /\ errors' \in BOOLEAN
    BY <1>12 DEF FreshDocker, TypeOK, Pcs
  <2>2. UNCHANGED <<world, preview, request, locals, backup, audit, ghosts>>
    BY <1>12 DEF FreshDocker
  <2>. QED BY <1>1, <2>1, <2>2 DEF TypeOK
<1>13. CASE Erase
  <2>1. plan.items \subseteq Resources
    BY <1>13 DEF Erase, Typed, InHand, Plans
  <2>2. /\ pc' \in Pcs /\ errors' \in BOOLEAN /\ file' \in Contents \cup {None}
        /\ todo' \in SUBSET (Own \cup Resources)
    BY <1>13, <2>1 DEF Erase, TypeOK, Pcs
  <2>3. /\ held' \in SUBSET (Own \cup Resources \cup {"directory"})
        /\ erased' \in SUBSET (Own \cup Resources \cup {"file", "directory"})
    BY <1>13 DEF Erase, TypeOK
  <2>4. UNCHANGED <<live, have, refs, shared, moves, preview, request, read, plan, item, backup, audit,
                    used, edited>>
    BY <1>13 DEF Erase
  <2>. QED BY <1>1, <2>2, <2>3, <2>4 DEF TypeOK
<1>14. ASSUME NEW r \in Resources, NextResource(r) PROVE TypeOK'
  BY <1>1, <1>14 DEF NextResource, TypeOK, Pcs
<1>15. CASE RecheckContainers \/ RecheckFiles
  BY <1>1, <1>15 DEF RecheckContainers, RecheckFiles, TypeOK, Pcs
<1>16. CASE DropResource
  <2>1. item \in Own \cup Resources
    BY <1>16 DEF DropResource, Typed, InHand, TypeOK
  <2>2. /\ pc' \in Pcs /\ errors' \in BOOLEAN /\ have' \subseteq Resources
        /\ todo' \in SUBSET (Own \cup Resources)
        /\ erased' \in SUBSET (Own \cup Resources \cup {"file", "directory"})
    BY <1>16, <2>1 DEF DropResource, TypeOK, Pcs
  <2>3. UNCHANGED <<file, live, refs, shared, moves, preview, request, read, plan, item, backup, audit,
                    held, used, edited>>
    BY <1>16 DEF DropResource
  <2>. QED BY <1>1, <2>2, <2>3 DEF TypeOK
<1>17. CASE AllDone
  BY <1>1, <1>17 DEF AllDone, TypeOK, Pcs
<1>18. CASE Close
  BY <1>1, <1>18 DEF Close, TypeOK, Pcs
<1>19. CASE Outside
  <2>. Move => moves' \in 0..MaxMoves
    BY RemovalAssumption DEF TypeOK
  <2>1. ASSUME NEW c \in Contents \cup {None}, Edit(c) PROVE TypeOK'
    BY <1>1, <2>1 DEF Edit, TypeOK
  <2>2. ASSUME NEW c \in Containers, NEW s \in States, Handle(c, s) PROVE TypeOK'
    <3>1. Uses[c] \subseteq Resources
      BY RemovalAssumption
    <3>2. live' \in [Containers -> States] /\ have' \subseteq Resources
      BY <2>2, <3>1 DEF Handle, TypeOK
    <3>. QED BY <1>1, <2>2, <3>2 DEF Handle, TypeOK
  <2>3. ASSUME NEW r \in Resources, Refer(r) PROVE TypeOK'
    BY <1>1, <2>3 DEF Refer, TypeOK
  <2>4. CASE Share
    BY <1>1, <2>4 DEF Share, TypeOK
  <2>5. CASE Crash
    BY <1>1, <2>5 DEF Crash, TypeOK, Pcs
  <2>. QED BY <1>19, <2>1, <2>2, <2>3, <2>4, <2>5 DEF Outside
<1>20. CASE UNCHANGED vars
  BY <1>1, <1>20 DEF vars, TypeOK
<1>. QED BY <1>2, <1>3, <1>4, <1>5, <1>6, <1>7, <1>8, <1>9, <1>10, <1>11, <1>12, <1>13, <1>14, <1>15,
            <1>16, <1>17, <1>18, <1>19, <1>20 DEF Next, Deletion

-----------------------------------------------------------------------------
(* What a preview, a request and the world leave alone.                    *)

LEMMA PreviewRest ==
  ASSUME NEW t, Preview(t) PROVE UNCHANGED <<world, pc, request, progress, ghosts>>
  BY DEF Preview, PreviewFiles, PreviewTicket, PreviewFails, Expire

\* A request with an old ticket is refused, any other begins a deletion.
Begun ==
  /\ pc' = "files" /\ paper' \in Plans \ {None}
  /\ errors' = FALSE /\ backup' = None /\ audit' = "none"
  /\ erased' = {} /\ held' = {} /\ edited' = FALSE
  /\ UNCHANGED <<world, locals>>

LEMMA DeleteRest ==
  ASSUME TypeOK, NEW t \in Tokens, NEW w, Delete(t, w)
  PROVE  pc = "idle" /\ (Begun \/ UNCHANGED <<world, pc, request, progress, ghosts>>)
<1>1. tickets[t] \in Plans \ {None}
  BY DEF Delete, Begin, TypeOK
<1>. QED BY <1>1 DEF Delete, Begin, Begun

LEMMA OutsideRest ==
  ASSUME Outside, ~Crash
  PROVE  UNCHANGED <<preview, pc, request, progress, erased, used>> /\ held' \subseteq held
<1>1. ASSUME NEW c, Edit(c) PROVE UNCHANGED Still /\ held' \subseteq held
  BY <1>1 DEF Edit
<1>2. ASSUME NEW c, NEW s, Handle(c, s) PROVE UNCHANGED Still /\ held' \subseteq held
  BY <1>2 DEF Handle
<1>3. ASSUME NEW r, Refer(r) PROVE UNCHANGED Still /\ held' \subseteq held
  BY <1>3 DEF Refer
<1>4. CASE Share
  BY <1>4 DEF Share
<1>. QED BY <1>1, <1>2, <1>3, <1>4 DEF Outside

-----------------------------------------------------------------------------
(* The plan in hand.                                                       *)

LEMMA TypedStep == Typed /\ [Next]_vars => Typed'
<1>. SUFFICES ASSUME Typed, [Next]_vars PROVE Typed'
  OBVIOUS
<1>1. TypeOK' /\ IsFiniteSet(Table)'
  BY TypeStep, TableStep
<1>. SUFFICES InHand'
  BY <1>1 DEF Typed
<1>. TypeOK /\ InHand
  BY DEF Typed
<1>2. CASE UNCHANGED <<pc, request, progress>>
  BY <1>2 DEF InHand
<1>3. CASE pc' = "idle"
  BY <1>3 DEF InHand
<1>4. ASSUME NEW t \in Tokens, NEW w, Delete(t, w) PROVE InHand'
  BY <1>2, <1>4, DeleteRest DEF Begun, InHand
<1>5. CASE PlanFiles
  <2>1. read' \in Inventory
    BY <1>5, FilesTypes DEF PlanFiles
  <2>. QED BY <1>5, <2>1 DEF PlanFiles, InHand
<1>6. CASE PlanDocker
  <2>1. plan' \in Plans
    BY <1>6, PlanTypes DEF PlanDocker, InHand
  <2>. QED BY <1>6, <2>1 DEF PlanDocker, InHand
<1>7. CASE Confirm \/ Backup
  BY <1>7 DEF Confirm, Backup, InHand
<1>8. ASSUME NEW c \in Own, StopContainer(c) PROVE InHand'
  BY <1>8 DEF StopContainer, InHand
<1>9. CASE RemoveContainer
  BY <1>9 DEF RemoveContainer, InHand
<1>10. CASE FreshFiles
  <2>1. file # None => Files \in Inventory
    BY FilesTypes
  <2>. QED BY <1>10, <2>1 DEF FreshFiles, InHand
<1>11. CASE FreshDocker
  BY <1>11 DEF FreshDocker, InHand
<1>12. CASE Erase
  <2>1. plan.items \subseteq Resources
    BY <1>12 DEF Erase, Plans, InHand
  <2>. QED BY <1>12, <2>1 DEF Erase, InHand
<1>13. ASSUME NEW r \in Resources, NextResource(r) PROVE InHand'
  BY <1>13 DEF NextResource, InHand
<1>14. CASE RecheckContainers \/ RecheckFiles \/ DropResource \/ AllDone
  BY <1>14 DEF RecheckContainers, RecheckFiles, DropResource, AllDone, InHand
<1>15. CASE Refuse \/ Close \/ Crash
  BY <1>3, <1>15 DEF Refuse, Close, Crash
<1>. QED BY <1>2, <1>4, <1>5, <1>6, <1>7, <1>8, <1>9, <1>10, <1>11, <1>12, <1>13, <1>14, <1>15,
            PreviewRest, OutsideRest DEF Next, Deletion, vars

-----------------------------------------------------------------------------
(* What was removed.                                                       *)

LEMMA DoneStep == Typed /\ DoneInv /\ [Next]_vars => DoneInv'
<1>. SUFFICES ASSUME Typed, DoneInv, [Next]_vars PROVE DoneInv'
  OBVIOUS
<1>. Own \cap Resources = {} /\ {"file", "directory"} \cap (Own \cup Resources) = {}
  BY RemovalAssumption DEF Containers
<1>1. ASSUME UNCHANGED <<paper, want, erased>>, pc' = "idle" \/ UNCHANGED <<pc, todo, item>>
      PROVE  DoneInv'
  BY <1>1 DEF DoneInv, Planned, Selected
<1>2. ASSUME NEW t \in Tokens, NEW w, Delete(t, w) PROVE DoneInv'
  <2>1. TypeOK
    BY DEF Typed
  <2>2. CASE Begun
    BY <2>2 DEF Begun, DoneInv
  <2>. QED BY <1>1, <1>2, <2>1, <2>2, DeleteRest
<1>3. CASE PlanFiles \/ PlanDocker \/ Confirm
  BY <1>3 DEF PlanFiles, PlanDocker, Confirm, DoneInv, Planned, Selected
<1>4. CASE Backup
  <2>1. plan = paper
    BY <1>4 DEF Backup, Typed, InHand
  <2>. QED BY <1>4, <2>1 DEF Backup, DoneInv, Planned, Selected
<1>5. ASSUME NEW c \in Own, StopContainer(c) PROVE DoneInv'
  BY <1>5 DEF StopContainer, DoneInv, Planned, Selected
<1>6. CASE RemoveContainer
  <2>1. item \in todo /\ todo \subseteq Own
    BY <1>6 DEF RemoveContainer, Typed, InHand
  <2>. QED BY <1>6, <2>1 DEF RemoveContainer, DoneInv, Planned, Selected
<1>7. CASE FreshFiles \/ FreshDocker
  BY <1>7 DEF FreshFiles, FreshDocker, DoneInv, Planned, Selected
<1>8. CASE Erase
  <2>1. plan = paper
    BY <1>8 DEF Erase, Typed, InHand
  <2>2. /\ erased' \cap Own = erased \cap Own /\ erased' \cap Resources = {}
        /\ Planned \subseteq erased /\ erased \subseteq erased'
        /\ pc' \in {"resources", "close"} /\ (pc' = "resources" => "file" \in erased' /\ todo' = plan.items)
        /\ UNCHANGED <<paper, want>>
    BY <1>8 DEF Erase, DoneInv
  <2>. QED BY <2>1, <2>2 DEF DoneInv, Planned, Selected
<1>9. ASSUME NEW r \in Resources, NextResource(r) PROVE DoneInv'
  <2>1. plan = paper
    BY <1>9 DEF NextResource, Typed, InHand
  <2>. QED BY <1>9, <2>1 DEF NextResource, DoneInv, Planned, Selected
<1>10. CASE RecheckContainers \/ RecheckFiles \/ AllDone
  BY <1>10 DEF RecheckContainers, RecheckFiles, AllDone, DoneInv, Planned, Selected
<1>11. CASE DropResource
  <2>1. item \in todo /\ todo \subseteq Resources
    BY <1>11 DEF DropResource, Typed, InHand
  <2>2. item \in (paper.items \ paper.kept) \cap Selected /\ "file" \in erased
    BY <1>11, <2>1 DEF DropResource, DoneInv
  <2>3. /\ erased' = erased \/ erased' = erased \cup {item}
        /\ pc' = "resources" /\ todo' \subseteq todo /\ UNCHANGED <<paper, want>>
    BY <1>11 DEF DropResource
  <2>. QED BY <1>11, <2>1, <2>2, <2>3 DEF DropResource, DoneInv, Planned, Selected
<1>12. CASE Refuse \/ Close \/ Crash \/ UNCHANGED vars
  BY <1>1, <1>12 DEF Refuse, Close, Crash, vars
<1>. QED BY <1>1, <1>2, <1>3, <1>4, <1>5, <1>6, <1>7, <1>8, <1>9, <1>10, <1>11, <1>12,
            PreviewRest, OutsideRest DEF Next, Deletion

-----------------------------------------------------------------------------
(* The trace.                                                              *)

LEMMA TraceStep == Typed /\ DoneInv /\ TraceInv /\ [Next]_vars => TraceInv'
<1>. SUFFICES ASSUME Typed, DoneInv, TraceInv, [Next]_vars PROVE TraceInv'
  OBVIOUS
<1>1. ASSUME UNCHANGED <<paper, erased, audit, backup, edited>>, pc' = "idle" \/ UNCHANGED <<pc, file, read, plan>>
      PROVE  TraceInv'
  BY <1>1 DEF TraceInv, Stored
<1>2. ASSUME NEW t \in Tokens, NEW w, Delete(t, w) PROVE TraceInv'
  <2>1. TypeOK
    BY DEF Typed
  <2>2. CASE Begun
    BY <2>2 DEF Begun, TraceInv
  <2>. QED BY <1>1, <1>2, <2>1, <2>2, DeleteRest
<1>3. CASE PlanFiles
  BY <1>3 DEF PlanFiles, Files, TraceInv, Stored
<1>4. CASE PlanDocker
  BY <1>4 DEF PlanDocker, PlanFrom, TraceInv, Stored
<1>5. CASE Confirm
  BY <1>5 DEF Confirm, TraceInv, Stored, DoneInv
<1>6. CASE Backup
  <2>1. plan = paper /\ erased = {}
    BY <1>6 DEF Backup, Typed, InHand, DoneInv
  <2>. QED BY <1>6, <2>1 DEF Backup, TraceInv, Stored
<1>7. ASSUME NEW c \in Own, StopContainer(c) PROVE TraceInv'
  BY <1>7 DEF StopContainer, TraceInv, Stored
<1>8. CASE RemoveContainer \/ FreshFiles \/ FreshDocker \/ Erase
  BY <1>8 DEF RemoveContainer, FreshFiles, FreshDocker, Erase, TraceInv, Stored
<1>9. ASSUME NEW r \in Resources, NextResource(r) PROVE TraceInv'
  BY <1>9 DEF NextResource, TraceInv, Stored
<1>10. CASE RecheckContainers \/ RecheckFiles \/ DropResource \/ AllDone
  BY <1>10 DEF RecheckContainers, RecheckFiles, DropResource, AllDone, TraceInv, Stored
<1>11. CASE Close
  BY <1>11 DEF Close, TraceInv, Stored
<1>12. CASE Outside /\ ~Crash
  <2>1. (file' = file /\ edited' = edited) \/ edited' = TRUE
    BY <1>12 DEF Outside, Edit, Handle, Refer, Share
  <2>. QED BY <1>12, <2>1, OutsideRest DEF TraceInv, Stored
<1>13. CASE Refuse \/ Crash \/ UNCHANGED vars
  BY <1>1, <1>13 DEF Refuse, Crash, vars
<1>. QED BY <1>1, <1>2, <1>3, <1>4, <1>5, <1>6, <1>7, <1>8, <1>9, <1>10, <1>11, <1>12, <1>13,
            PreviewRest DEF Next, Deletion

-----------------------------------------------------------------------------
(* What others use.                                                        *)

LEMMA HeldStep == Typed /\ DoneInv /\ HeldInv /\ [Next]_vars => HeldInv'
<1>. SUFFICES ASSUME Typed, DoneInv, HeldInv, [Next]_vars PROVE HeldInv'
  OBVIOUS
<1>. Own \cap Resources = {} /\ {"file", "directory"} \cap (Own \cup Resources) = {} /\ TypeOK
  BY RemovalAssumption DEF Containers, Typed
<1>1. ASSUME UNCHANGED <<erased, held>>, pc' = "idle" \/ UNCHANGED <<pc, item, want, live, refs, shared>>
      PROVE  HeldInv'
  BY <1>1 DEF HeldInv, OwnLive
<1>2. ASSUME NEW t \in Tokens, NEW w, Delete(t, w) PROVE HeldInv'
  <2>1. CASE Begun
    BY <2>1 DEF Begun, HeldInv
  <2>. QED BY <1>1, <1>2, <2>1, DeleteRest
<1>3. CASE PlanFiles \/ PlanDocker \/ Confirm
  BY <1>3 DEF PlanFiles, PlanDocker, Confirm, HeldInv
<1>4. CASE Backup
  BY <1>4 DEF Backup, HeldInv
<1>5. ASSUME NEW c \in Own, StopContainer(c) PROVE HeldInv'
  BY <1>5 DEF StopContainer, HeldInv
<1>6. CASE RemoveContainer
  BY <1>6 DEF RemoveContainer, HeldInv
<1>7. CASE FreshFiles
  <2>1. erased \subseteq Own
    BY <1>7 DEF FreshFiles, DoneInv
  <2>. QED BY <1>7, <2>1 DEF FreshFiles, HeldInv, OwnLive
<1>8. CASE FreshDocker
  BY <1>8 DEF FreshDocker, HeldInv
<1>9. CASE Erase
  <2>1. erased \subseteq Own /\ refs \subseteq Resources /\ held \subseteq Own \cup Resources \cup {"directory"}
    BY <1>9 DEF Erase, DoneInv, TypeOK
  <2>2. CASE UNCHANGED <<erased, held>> /\ pc' = "close"
    BY <2>2 DEF HeldInv
  <2>3. CASE held' = held \cup refs
    <3>1. /\ held' \cap Own = {} /\ held' \cap Resources = refs
          /\ want.directory => "directory" \notin held'
      BY <1>9, <2>1, <2>3 DEF Erase, HeldInv
    <3>2. /\ erased' \subseteq Own \cup {"file", "directory"} /\ ("directory" \in erased' => want.directory)
          /\ pc' \in {"resources", "close"} /\ UNCHANGED <<refs, want>>
      BY <1>9, <2>1 DEF Erase
    <3>. QED BY <3>1, <3>2 DEF HeldInv
  <2>. QED BY <1>9, <2>2, <2>3 DEF Erase
<1>10. ASSUME NEW r \in Resources, NextResource(r) PROVE HeldInv'
  BY <1>10 DEF NextResource, HeldInv
<1>11. CASE RecheckContainers \/ AllDone \/ Close
  BY <1>11 DEF RecheckContainers, AllDone, Close, HeldInv
<1>12. CASE RecheckFiles
  <2>1. item \in Resources
    BY <1>12 DEF RecheckFiles, Typed, InHand
  <2>. QED BY <1>12, <2>1 DEF RecheckFiles, HeldInv
<1>13. CASE DropResource
  <2>1. item \in Resources
    BY <1>13 DEF DropResource, Typed, InHand
  <2>. QED BY <1>13, <2>1 DEF DropResource, HeldInv
<1>14. CASE Outside /\ ~Crash
  <2>1. /\ UNCHANGED <<pc, want, item, erased>> /\ held' \subseteq held
    BY <1>14, OutsideRest
  <2>2. held' \cap Resources \subseteq refs' \/ ~(held \cap Resources \subseteq refs)
    BY <1>14 DEF Outside, Edit, Handle, Refer, Share
  <2>3. held' \cap Own \subseteq OwnLive' \/ ~(held \cap Own \subseteq OwnLive)
    BY <1>14 DEF Outside, Edit, Handle, Refer, Share, OwnLive, TypeOK, Containers
  <2>4. "directory" \in held' => shared' = shared
    BY <1>14 DEF Outside, Edit, Handle, Refer, Share
  <2>. QED BY <2>1, <2>2, <2>3, <2>4 DEF HeldInv
<1>15. CASE Refuse \/ Crash \/ UNCHANGED vars
  BY <1>1, <1>15 DEF Refuse, Crash, vars
<1>. QED BY <1>1, <1>2, <1>3, <1>4, <1>5, <1>6, <1>7, <1>8, <1>9, <1>10, <1>11, <1>12, <1>13, <1>14,
            <1>15, PreviewRest DEF Next, Deletion

-----------------------------------------------------------------------------
(* Tickets.                                                                *)

\* A ticket that begins a deletion was never used, and leaves the table.
LEMMA TicketStep == TypeOK /\ TicketInv /\ [Next]_vars => TicketInv'
<1>. SUFFICES ASSUME TypeOK, TicketInv, [Next]_vars PROVE TicketInv'
  OBVIOUS
<1>. tickets \in [Tokens -> Plans \cup {None}] /\ drafts \in [Tokens -> Inventory \cup {None}]
  BY DEF TypeOK
<1>1. ASSUME NEW t \in Tokens, Preview(t) PROVE TicketInv'
  BY <1>1 DEF Preview, PreviewFiles, PreviewTicket, PreviewFails, Expire, TicketInv
<1>2. ASSUME NEW t \in Tokens, NEW w \in Wants, Delete(t, w) PROVE TicketInv'
  BY <1>2 DEF Delete, Begin, TicketInv
<1>3. CASE Crash
  BY <1>3 DEF Crash, TicketInv
<1>4. CASE SameTickets \/ UNCHANGED vars
  BY <1>4 DEF SameTickets, vars, TicketInv
<1>. QED BY <1>1, <1>2, <1>3, <1>4, DeletionTickets, OutsideTickets DEF Next

-----------------------------------------------------------------------------
(* The theorems.                                                           *)

LEMMA IInvHolds == Spec => []IInv
<1>1. Init => IInv
  <2>. SUFFICES ASSUME Init PROVE IInv
    OBVIOUS
  <2>1. Table = {} /\ IsFiniteSet(Table) /\ Cardinality(Table) = 0
    BY FS_EmptySet DEF Init, Table
  <2>2. TypeOK
    <3>1. /\ tickets \in [Tokens -> Plans \cup {None}] /\ drafts \in [Tokens -> Inventory \cup {None}]
          /\ want \in Wants /\ moves \in 0..MaxMoves
      BY RemovalAssumption DEF Init, Nothing, Wants
    <3>2. Cardinality({t \in Tokens : tickets[t] # None}) <= TicketLimit
      BY <2>1, RemovalAssumption DEF Table
    <3>. QED BY <3>1, <3>2 DEF Init, TypeOK, Pcs
  <2>3. InHand /\ DoneInv /\ TraceInv
    BY DEF Init, InHand, DoneInv, TraceInv
  <2>4. HeldInv /\ TicketInv
    BY DEF Init, HeldInv, TicketInv
  <2>. QED BY <2>1, <2>2, <2>3, <2>4 DEF IInv, Typed
<1>2. IInv /\ [Next]_vars => IInv'
  BY TypedStep, DoneStep, TraceStep, HeldStep, TicketStep DEF IInv, Typed
<1>. QED BY <1>1, <1>2, PTL DEF Spec

\* Every variable of the deletion, its tickets and the world keeps its type, and
\* the table never holds more than its limit (project_removal.go 84-86).
THEOREM RemovalTypes == Spec => []TypeOK
<1>1. IInv => TypeOK
  BY DEF IInv, Typed
<1>. QED BY <1>1, IInvHolds, PTL

\* Nothing is removed that the user's preview did not show as about to go, for
\* any number of changes between any two calls (project_removal.go 360-372,
\* 402-418, 460-481).
THEOREM OnlyConfirmedGoes == Spec => []OnlyConfirmed
<1>1. IInv => OnlyConfirmed
  BY DEF IInv, DoneInv, Planned, OnlyConfirmed
<1>. QED BY <1>1, IInvHolds, PTL

\* Each stage is complete before the next begins, wherever the deletion ends
\* (project_removal.go 402-481).
THEOREM StagesInOrder == Spec => []RemovedInOrder
<1>1. IInv => RemovedInOrder
  BY DEF IInv, DoneInv, Planned, RemovedInOrder
<1>. QED BY <1>1, IInvHolds, PTL

\* Whatever was removed has its audit row and its backup, through failures and
\* kills (project_removal.go 373-400).
THEOREM TraceIsLeft == Spec => []LeavesTrace
<1>1. IInv => LeavesTrace
  BY DEF IInv, TraceInv, Stored, LeavesTrace
<1>. QED BY <1>1, IInvHolds, PTL

\* A container that the second look finds, and that stays, saves the file
\* (project_removal.go 419-434).
THEOREM NewContainersKeepFiles == Spec => []NewContainerKeepsFile
<1>1. IInv => NewContainerKeepsFile
  BY DEF IInv, HeldInv, NewContainerKeepsFile
<1>. QED BY <1>1, IInvHolds, PTL

\* A directory that somebody else uses at the second look, and uses on, stays
\* (project_removal.go 370-372, 435-440).
THEOREM SharedDirectoriesStay == Spec => []SharedDirectoryIsKept
<1>1. IInv => SharedDirectoryIsKept
  BY DEF IInv, HeldInv, SharedDirectoryIsKept
<1>. QED BY <1>1, IInvHolds, PTL

\* What another Compose file has referred to since the project's own file went
\* is never dropped (project_removal.go 473-477, 491-544).
THEOREM ReferencedStay == Spec => []ReferencedIsKept
<1>1. IInv => ReferencedIsKept
  BY DEF IInv, HeldInv, ReferencedIsKept
<1>. QED BY <1>1, IInvHolds, PTL

\* A ticket authorises one deletion, however that ended.
TicketUsedOnce == [][pc = "idle" /\ pc' = "files" => token' \notin used]_vars

\* A ticket begins one deletion at most, over any kills and refusals
\* (project_removal.go 353-359).
THEOREM TicketsAreSpent == Spec => TicketUsedOnce
<1>1. IInv /\ [Next]_vars => [pc = "idle" /\ pc' = "files" => token' \notin used]_vars
  <2>. SUFFICES ASSUME TypeOK, TicketInv, Next, pc = "idle", pc' = "files" PROVE token' \notin used
    BY DEF IInv, Typed, vars
  <2>1. PICK t \in Tokens : \E w \in Wants : Delete(t, w)
    BY PreviewRest, OutsideRest DEF Next, Deletion, Refuse, PlanFiles, PlanDocker, Confirm, Backup,
       StopContainer, RemoveContainer, FreshFiles, FreshDocker, Erase, NextResource, RecheckContainers,
       RecheckFiles, DropResource, AllDone, Close, Crash
  <2>. QED BY <2>1 DEF Delete, Begin, TicketInv
<1>. QED BY <1>1, IInvHolds, PTL DEF Spec, TicketUsedOnce

-----------------------------------------------------------------------------
(* A deletion implements the contract.                                     *)

\* What the contract sees of a step that is not one of its own.
Quiet == UNCHANGED <<paper, want, used, erased, audit, backup>> /\ (pc' = "idle" <=> pc = "idle")

LEMMA QuietStutters == ASSUME Quiet PROVE UNCHANGED Contract!vars
<1>1. Agreed' = Agreed
  BY DEF Quiet, Agreed, Selected
<1>. QED BY <1>1 DEF Quiet, Contract!vars

\* Docker containers, resources and the two files are told apart.
LEMMA AgreedParts ==
  ASSUME paper \in Plans \ {None}, want \in Wants
  PROVE  /\ Agreed \subseteq Own \cup Resources \cup {"file", "directory"}
         /\ "file" \in Agreed /\ (want.directory => "directory" \in Agreed)
         /\ Agreed \cap Own = Planned
         /\ Agreed \cap Resources = (paper.items \ paper.kept) \cap Selected
<1>1. paper # None
  OBVIOUS
<1>2. paper.items \subseteq Resources
  BY DEF Plans
<1>3. Selected \subseteq Resources
  BY DEF Selected, Resources
<1>. QED BY <1>1, <1>2, <1>3, RemovalAssumption DEF Agreed, Planned, Containers

\* A request begins the deletion of a ticket that was never used.
LEMMA BeginMeets ==
  ASSUME IInv, NEW t \in Tokens, NEW w \in Wants, Delete(t, w)
  PROVE  Contract!Begin(t) \/ UNCHANGED Contract!vars
<1>1. CASE t \in expired
  BY <1>1, QuietStutters DEF Delete, Begin, Quiet
<1>2. CASE t \notin expired
  <2>1. tickets[t] \in Plans \ {None} /\ t \notin used
    BY DEF Delete, Begin, IInv, Typed, TypeOK, TicketInv
  <2>2. paper' \in Plans \ {None} /\ want' \in Wants
    BY <1>2, <2>1 DEF Delete, Begin
  <2>3. Agreed' \in SUBSET Contract!Things
    BY <2>2 DEF Agreed, Plans, Selected, Resources, Contract!Things
  <2>. QED BY <1>2, <2>1, <2>3 DEF Delete, Begin, Contract!Begin
<1>. QED BY <1>1, <1>2

\* A refusal, the last step and a kill end the deletion as far as it has come.
LEMMA EndMeets ==
  ASSUME IInv, Refuse \/ Close \/ Crash
  PROVE  Contract!End \/ UNCHANGED Contract!vars
<1>1. UNCHANGED <<paper, want, used, erased, backup>> /\ pc' = "idle"
  BY DEF Refuse, Close, Crash
<1>2. (audit' # "none") = (audit # "none")
  BY DEF Refuse, Close, Crash, IInv, TraceInv
<1>3. Agreed' = Agreed
  BY <1>1 DEF Agreed, Selected
<1>. QED BY <1>1, <1>2, <1>3 DEF Contract!End, Contract!vars

\* The audit row is written, then the backup: before anything is removed.
LEMMA LogMeets ==
  ASSUME IInv, Confirm \/ Backup
  PROVE  Contract!Log \/ UNCHANGED Contract!vars
<1>1. /\ UNCHANGED <<paper, want, used, erased>> /\ pc # "idle" /\ pc' # "idle"
      /\ erased = {}
  BY DEF Confirm, Backup, IInv, DoneInv
<1>2. audit # "none" /\ backup # None => audit' # "none" /\ backup' # None
  BY DEF Confirm, Backup
<1>3. Agreed' = Agreed
  BY <1>1 DEF Agreed, Selected
<1>. QED BY <1>1, <1>2, <1>3 DEF Contract!Log, Contract!vars

\* A removal takes a container that was agreed on, before the file goes.
LEMMA RemoveContainerMeets ==
  ASSUME IInv, RemoveContainer
  PROVE  Contract!Next \/ UNCHANGED Contract!vars
<1>1. CASE erased' = erased
  BY <1>1, QuietStutters DEF RemoveContainer, Quiet
<1>2. CASE erased' = erased \cup {item}
  <2>1. item \in todo /\ todo \subseteq Planned /\ erased \subseteq Own /\ Planned \subseteq Own
    BY DEF RemoveContainer, IInv, Typed, InHand, DoneInv, Planned
  <2>2. paper \in Plans \ {None} /\ want \in Wants /\ Stored /\ audit # "none"
    BY DEF RemoveContainer, IInv, Typed, TypeOK, InHand, TraceInv
  <2>3. item \in Agreed /\ "file" \notin erased
    BY <2>1, <2>2, AgreedParts, RemovalAssumption DEF Containers
  <2>4. Agreed' = Agreed
    BY DEF RemoveContainer, Agreed, Selected
  <2>5. Contract!TakeContainer(item)
    BY <1>2, <2>2, <2>3, <2>4 DEF RemoveContainer, Stored, Contract!TakeContainer, Contract!Take
  <2>. QED BY <2>1, <2>5 DEF Contract!Next
<1>. QED BY <1>1, <1>2 DEF RemoveContainer

\* The file goes when every agreed container has gone, and the directory only
\* when that was agreed on.
LEMMA EraseMeets ==
  ASSUME IInv, Erase
  PROVE  Contract!TakeFile \/ UNCHANGED Contract!vars
<1>1. CASE erased' = erased
  BY <1>1, QuietStutters DEF Erase, Quiet
<1>2. CASE erased' # erased
  <2>1. \/ erased' = erased \cup {"file"}
        \/ want.directory /\ erased' = erased \cup {"file", "directory"}
    BY <1>2 DEF Erase
  <2>2. paper \in Plans \ {None} /\ want \in Wants /\ Stored /\ audit # "none"
    BY DEF Erase, IInv, Typed, TypeOK, InHand, TraceInv
  <2>3. erased \subseteq Own /\ Planned \subseteq erased
    BY DEF Erase, IInv, DoneInv
  <2>4. "file" \notin erased /\ Agreed \cap Own \subseteq erased
    BY <2>2, <2>3, AgreedParts, RemovalAssumption DEF Containers
  <2>5. "file" \in Agreed /\ (want.directory => "directory" \in Agreed)
    BY <2>2, AgreedParts
  <2>6. Agreed' = Agreed
    BY DEF Erase, Agreed, Selected
  <2>. QED BY <2>1, <2>2, <2>4, <2>5, <2>6 DEF Erase, Stored, Contract!TakeFile, Contract!Take
<1>. QED BY <1>1, <1>2

\* An image or a volume goes after the file, and only one that was agreed on.
LEMMA DropMeets ==
  ASSUME IInv, DropResource
  PROVE  Contract!Next \/ UNCHANGED Contract!vars
<1>1. CASE erased' = erased
  BY <1>1, QuietStutters DEF DropResource, Quiet
<1>2. CASE erased' = erased \cup {item}
  <2>1. /\ item \in Resources /\ item \in paper.items /\ item \in Selected \ paper.kept
        /\ "file" \in erased
    BY DEF DropResource, IInv, Typed, InHand, DoneInv
  <2>2. paper \in Plans \ {None} /\ want \in Wants /\ Stored /\ audit # "none"
    BY DEF DropResource, IInv, Typed, TypeOK, InHand, TraceInv
  <2>3. item \in Agreed
    BY <2>1, <2>2, AgreedParts
  <2>4. Agreed' = Agreed
    BY DEF DropResource, Agreed, Selected
  <2>5. Contract!TakeResource(item)
    BY <1>2, <2>1, <2>2, <2>3, <2>4 DEF DropResource, Stored, Contract!TakeResource, Contract!Take
  <2>. QED BY <2>1, <2>5 DEF Contract!Next
<1>. QED BY <1>1, <1>2 DEF DropResource

\* The other steps of a deletion are not seen.
LEMMA OthersQuiet ==
  ASSUME Deletion, ~Refuse, ~Confirm, ~Backup, ~RemoveContainer, ~Erase, ~DropResource, ~Close
  PROVE  Quiet
<1>1. ASSUME NEW c \in Own, StopContainer(c) PROVE Quiet
  BY <1>1 DEF StopContainer, Quiet
<1>2. ASSUME NEW r \in Resources, NextResource(r) PROVE Quiet
  BY <1>2 DEF NextResource, Quiet
<1>3. CASE PlanFiles \/ PlanDocker \/ FreshFiles \/ FreshDocker
  BY <1>3 DEF PlanFiles, PlanDocker, FreshFiles, FreshDocker, Quiet
<1>4. CASE RecheckContainers \/ RecheckFiles \/ AllDone
  BY <1>4 DEF RecheckContainers, RecheckFiles, AllDone, Quiet
<1>. QED BY <1>1, <1>2, <1>3, <1>4 DEF Deletion

\* Previews, the deletion, kills and the world implement the contract: whatever
\* changes between two calls, each step is one of the contract's or not seen by
\* it (project_removal.go 353-359, 373-481).
THEOREM MeetsContract == Spec => ImplementsContract
<1>1. Init => Contract!Init
  BY DEF Init, Agreed, Contract!Init
<1>2. IInv /\ [Next]_vars => [Contract!Next]_(Contract!vars)
  <2>. SUFFICES ASSUME IInv, [Next]_vars PROVE Contract!Next \/ UNCHANGED Contract!vars
    OBVIOUS
  <2>1. CASE UNCHANGED vars
    BY <2>1, QuietStutters DEF vars, Quiet
  <2>2. ASSUME NEW t \in Tokens, Preview(t) PROVE UNCHANGED Contract!vars
    BY <2>2, PreviewRest, QuietStutters DEF Quiet
  <2>3. ASSUME NEW t \in Tokens, NEW w \in Wants, Delete(t, w)
        PROVE  Contract!Next \/ UNCHANGED Contract!vars
    BY <2>3, BeginMeets DEF Contract!Next
  <2>4. CASE Refuse \/ Close \/ Crash
    BY <2>4, EndMeets DEF Contract!Next
  <2>5. CASE Confirm \/ Backup
    BY <2>5, LogMeets DEF Contract!Next
  <2>6. CASE Erase
    BY <2>6, EraseMeets DEF Contract!Next
  <2>7. CASE Deletion
    BY <2>4, <2>5, <2>6, <2>7, RemoveContainerMeets, DropMeets, OthersQuiet, QuietStutters
  <2>8. CASE Outside
    BY <2>4, <2>8, OutsideRest, QuietStutters DEF Quiet
  <2>. QED BY <2>1, <2>2, <2>3, <2>7, <2>8 DEF Next
<1>. QED BY <1>1, <1>2, IInvHolds, PTL DEF Spec, ImplementsContract, Contract!Spec

=============================================================================
