------------------------- MODULE SaveRecoveryProofs -------------------------
(***************************************************************************)
(* What SaveRecovery's runs check of saving, autosaving and recovery on    *)
(* two documents, proved for any ids, paths, edits, launches and failures. *)
(*                                                                         *)
(* Each property has the rare circumstances that break it excluded, and no *)
(* others: CleanMeansSaved survives copies, torn saves, lost markers,      *)
(* blind opens and late arrivals at the lane; NothingLost survives copies, *)
(* torn saves and promotions during a save; OfferHoldsSavedWork survives   *)
(* lost markers and promotions during a save.                              *)
(***************************************************************************)
EXTENDS SaveRecovery, TLAPS

(* Between its payload and the end of its critical section.                *)
Busy(t) == at[t] \in {"built", "wrote"}

(* Of two busy tasks, which one writes first where it makes a difference.  *)
Prior(t, u) == t \in ahead[u] \/ (lane = t /\ at[u] = "built")

-----------------------------------------------------------------------------
(* The parts of the inductive invariants.                                  *)

TypeInv ==
    /\ file \in [Paths -> Containers \cup {None}]
    /\ auto \in [Ids -> Works \cup {None}]
    /\ marker \in [Ids -> Markers \cup {None}]
    /\ offers \in [Ids -> Markers \cup {None}]
    /\ promised \in [Ids -> Works]
    /\ rt \in Runtimes \cup {None}
    /\ load \in [Tasks -> Payloads \cup {None}]
    /\ tick \in BOOLEAN
    /\ made \in 0 .. MaxEdits
    /\ at \in [Tasks -> {"idle", "armed", "admitted", "built", "wrote", "cleared"}]
    /\ \A t \in Tasks : at[t] \in {"admitted", "cleared"} => t = "save"
    /\ \A t \in Tasks : at[t] = "armed" => t = "loop"
    /\ \A t \in Tasks : (at[t] \in {"idle", "armed"}) <=> (load[t] = None)
    /\ load["save"] # None => load["save"].path \in Paths

(* The lane has one holder, and of two payloads of a document that await   *)
(* it with different contents, one is known to be the earlier.             *)
LaneInv ==
    /\ lane \in Tasks \cup {None}
    /\ ahead \in [Tasks -> SUBSET Tasks]
    /\ \A t \in Tasks : at[t] = "wrote" <=> lane = t
    /\ \A t, u \in Tasks : u \in ahead[t] => t # u /\ at[t] = "built" /\ at[u] = "built"
    /\ \A t, u \in Tasks :
         /\ t # u /\ at[t] = "built" /\ at[u] = "built" /\ Differs(load[t], load[u])
         => t \in ahead[u] \/ u \in ahead[t]

(* The n-th edit is no part of anything before it was made.                *)
MadeInv ==
    /\ rt # None => rt.work \subseteq 1 .. made /\ rt.rev <= made
    /\ \A t \in Tasks : load[t] # None => load[t].work \subseteq 1 .. made
    /\ \A d \in Ids : auto[d] # None => auto[d] \subseteq 1 .. made
    /\ \A p \in Paths : file[p] # None => file[p].work \subseteq 1 .. made

SaveInv == TypeInv /\ LaneInv /\ MadeInv

(* A save has its payload, and may have written it.                        *)
Built   == at["save"] \in {"built", "wrote", "cleared"}
Written == at["save"] \in {"wrote", "cleared"}

(* The open document while a save of it, or of another one, is under way.  *)
UnderSave ==
    /\ Built /\ SameDocument => load["save"].work \subseteq rt.work
    /\ ~Free /\ rt # None /\ ~SameDocument =>
         rt.path = None /\ \A p \in Paths : file[p] # None => file[p].id # rt.id

CleanInv ==
    /\ UnderSave
    /\ Built /\ SameDocument =>
         \/ load["save"].rev = rt.rev /\ load["save"].work = rt.work
         \/ load["save"].rev < rt.rev /\ rt.dirty
    /\ Written => file[load["save"].path] = [id |-> load["save"].id, work |-> load["save"].work]
    /\ CleanMeansSaved

(* An autosave that will be reported as protecting the open document.      *)
Mine(t) == load[t] # None /\ Concerns(t)

(* Of one document, whoever built later carries more, and writes later.    *)
Ordered ==
    \A t, u \in Tasks :
        Prior(t, u) /\ load[t].id = load[u].id =>
            /\ t = "save" \/ Mine(t) => load[t].work \subseteq load[u].work
            /\ Prior("save", t) /\ load[t].id = load["save"].id =>
                 load[t].work \subseteq load[u].work

(* What was built after a save is no newer than the open document.         *)
Follows ==
    \A t \in Tasks :
        Prior("save", t) /\ SameDocument /\ load[t].id = rt.id => load[t].work \subseteq rt.work

(* An offered document is nobody's, and its container is there.            *)
OffersApart ==
    \A d \in Ids : offers[d] # None =>
        /\ auto[d] # None
        /\ rt # None => rt.id # d
        /\ \A t \in Tasks : load[t] # None => load[t].id # d

(* What was promised is in the autosave container.                         *)
PromisesHeld ==
    \A d \in Ids : promised[d] # {} =>
        /\ auto[d] # None /\ promised[d] \subseteq auto[d]
        /\ offers[d] # None \/ (rt # None /\ rt.id = d /\ promised[d] \subseteq rt.work)

(* Nobody is about to write less than was promised.                        *)
QueueKeeps ==
    /\ \A t \in Tasks : Busy(t) => promised[load[t].id] \subseteq load[t].work
    /\ at["save"] = "wrote" => promised[load["save"].id] = {}

(* The container an autosave is about to vouch for is still there.         *)
Vouched == \A t \in Tasks \ {"save"} : at[t] = "wrote" /\ Mine(t) => auto[load[t].id] = load[t].work

LostInv == UnderSave /\ Ordered /\ Follows /\ OffersApart /\ PromisesHeld /\ QueueKeeps /\ Vouched

(* All files of a document hold the same work, and a save is to the only.  *)
Alike ==
    /\ \A p, q \in Paths : file[p] # None /\ file[q] # None /\ file[p].id = file[q].id =>
         file[p].work = file[q].work
    /\ ~Free => \A q \in Paths \ {load["save"].path} : file[q] # None => file[q].id # load["save"].id

(* The document's autosaves built after a save carry what it carries.      *)
Later ==
    \A t \in Tasks : Prior("save", t) /\ load[t].id = load["save"].id =>
        load["save"].work \subseteq load[t].work

(* Nothing of a document is behind its file: not what is open, not what a  *)
(* task carries, nor, but for a save that has not cleared it, its autosave.*)
Covered ==
    \A p \in Paths : file[p] # None =>
        /\ rt # None /\ rt.id = file[p].id => file[p].work \subseteq rt.work
        /\ \A t \in Tasks : Busy(t) /\ load[t].id = file[p].id => file[p].work \subseteq load[t].work
        /\ \/ auto[file[p].id] = None
           \/ at["save"] = "wrote" /\ load["save"].id = file[p].id
           \/ file[p].work \subseteq auto[file[p].id]

OfferInv == UnderSave /\ OffersApart /\ Alike /\ Later /\ Covered

-----------------------------------------------------------------------------
(* Types.                                                                  *)

(* What the records are made of, and that none of them is None.            *)
LEMMA Records ==
    /\ \A r \in Runtimes :
         /\ r # None /\ r.id \in Ids /\ r.work \in Works /\ r.rev \in 0 .. MaxEdits
         /\ r.path \in Paths \cup {None} /\ r.dirty \in BOOLEAN
    /\ \A l \in Payloads :
         /\ l # None /\ l.id \in Ids /\ l.work \in Works /\ l.rev \in 0 .. MaxEdits
         /\ l.path \in Paths \cup {None}
    /\ \A c \in Containers : c # None /\ c.id \in Ids /\ c.work \in Works
    /\ \A m \in Markers : m # None /\ m.path \in Paths \cup {None}
    /\ \A w \in Works : w # None
    /\ {} \in Works
  BY SaveAssumption DEF Runtimes, Payloads, Containers, Markers, Works

(* The steps that change the open document and keep it, and the one that   *)
(* restores it.                                                            *)
LEMMA Opened ==
    ASSUME SaveInv
    PROVE  /\ Edit \/ Promote =>
                /\ rt # None /\ rt' \in Runtimes /\ rt'.id = rt.id /\ rt'.path = rt.path
                /\ rt'.work = rt.work \cup {made'}
           /\ MarkSaved /\ rt # None =>
                rt' \in Runtimes /\ rt'.id = rt.id /\ rt'.work = rt.work /\ rt'.rev = rt.rev
           /\ \A d \in Ids : Restore(d) => rt' \in Runtimes
  <1> USE SaveAssumption, Records DEF SaveInv, TypeInv, MadeInv, Tasks
  <1>1. ASSUME Edit \/ Promote
        PROVE  /\ rt # None /\ rt' \in Runtimes /\ rt'.id = rt.id /\ rt'.path = rt.path
               /\ rt'.work = rt.work \cup {made'}
    <2>1. rt \in Runtimes /\ rt.rev + 1 \in 0 .. MaxEdits /\ made' \in 1 .. MaxEdits
      BY <1>1 DEF Edit, Promote
    <2>2. rt.work \cup {made'} \in Works
      BY <2>1 DEF Works
    <2>3. PICK n \in 0 .. MaxEdits :
            rt' = [id |-> rt.id, work |-> rt.work \cup {made'}, rev |-> n, path |-> rt.path, dirty |-> TRUE]
      <3>1. CASE Edit
        <4>1. rt' = [id |-> rt.id, work |-> rt.work \cup {made'}, rev |-> rt.rev + 1, path |-> rt.path,
                     dirty |-> TRUE]
          BY <2>1, <3>1 DEF Edit, Runtimes
        <4> QED
          BY <2>1, <4>1
      <3>2. CASE Promote
        <4>1. rt' = [id |-> rt.id, work |-> rt.work \cup {made'}, rev |-> rt.rev, path |-> rt.path,
                     dirty |-> TRUE]
          BY <2>1, <3>2 DEF Promote, Runtimes
        <4> QED
          BY <2>1, <4>1
      <3> QED
        BY <1>1, <3>1, <3>2
    <2> QED
      BY <2>1, <2>2, <2>3 DEF Runtimes
  <1>2. ASSUME MarkSaved, rt # None
        PROVE  rt' \in Runtimes /\ rt'.id = rt.id /\ rt'.work = rt.work /\ rt'.rev = rt.rev
    <2>1. CASE SameDocument
      <3>1. rt \in Runtimes /\ load["save"] \in Payloads /\ load["save"].path \in Paths
        BY <1>2 DEF MarkSaved
      <3>2. rt' = [id |-> rt.id, work |-> rt.work, rev |-> rt.rev, path |-> load["save"].path,
                   dirty |-> rt.dirty /\ rt.rev # load["save"].rev]
        BY <1>2, <2>1, <3>1 DEF MarkSaved, Runtimes
      <3>3. (rt.dirty /\ rt.rev # load["save"].rev) \in BOOLEAN
        BY <3>1
      <3> QED
        BY <3>1, <3>2, <3>3 DEF Runtimes
    <2>2. CASE ~SameDocument
      BY <1>2, <2>2 DEF MarkSaved
    <2> QED
      BY <2>1, <2>2
  <1>3. ASSUME NEW d \in Ids, Restore(d) PROVE rt' \in Runtimes
    <2>1. auto[d] \in Works /\ offers[d] \in Markers /\ offers[d].path \in Paths \cup {None}
      BY <1>3 DEF Restore
    <2> QED
      BY <1>3, <2>1 DEF Restore, Runtimes
  <1> QED
    BY <1>1, <1>2, <1>3

(* Every step keeps every variable of its kind.                            *)
LEMMA TypeStep ==
    ASSUME SaveInv, Next
    PROVE  TypeInv'
  <1> USE SaveAssumption, Records DEF SaveInv, TypeInv, MadeInv, Tasks
  <1>1. ASSUME NEW d \in Ids, NewDocument(d) PROVE TypeInv'
    <2>1. rt' \in Runtimes
      BY <1>1 DEF NewDocument, Replace, Runtimes
    <2> QED
      BY <1>1, <2>1 DEF NewDocument, Replace, Released, disk, process
  <1>2. ASSUME NEW d \in Ids, Restore(d) PROVE TypeInv'
    <2>1. rt' \in Runtimes
      BY <1>2, Opened
    <2>2. promised' \in [Ids -> Works]
      BY <1>2 DEF Restore, Released
    <2> QED
      BY <1>2, <2>1, <2>2 DEF Restore, disk, process
  <1>3. ASSUME NEW d \in Ids, DiscardOffer(d) PROVE TypeInv'
    BY <1>3 DEF DiscardOffer, ClearRecovery, Released, disk, process
  <1>4. ASSUME Edit PROVE TypeInv'
    <2>1. rt' \in Runtimes /\ made' \in 0 .. MaxEdits
      BY <1>4, Opened DEF Edit
    <2> QED
      BY <1>4, <2>1 DEF Edit, disk, process
  <1>5. ASSUME Promote PROVE TypeInv'
    <2>1. rt' \in Runtimes /\ made' \in 0 .. MaxEdits
      BY <1>5, Opened DEF Promote
    <2> QED
      BY <1>5, <2>1 DEF Promote, disk, process
  <1>6. ASSUME Close PROVE TypeInv'
    BY <1>6 DEF Close, ClearRecovery, Released, disk, process
  <1>7. ASSUME NEW p \in Paths, Open(p) PROVE TypeInv'
    <2>1. file[p] \in Containers
      BY <1>7 DEF Open
    <2>2. rt' \in Runtimes
      BY <1>7, <2>1 DEF Open, Replace, Loaded, Runtimes
    <2> QED
      BY <1>7, <2>2 DEF Open, Replace, Released, disk, process
  <1>8. ASSUME NEW p \in Paths, NEW d \in Ids, OpenSaved(p, d) PROVE TypeInv'
    <2>1. file[p] \in Containers
      BY <1>8 DEF OpenSaved
    <2>2. rt' \in Runtimes
      BY <1>8, <2>1 DEF OpenSaved, Loaded, Runtimes
    <2>3. promised' \in [Ids -> Works]
      BY <1>8 DEF OpenSaved
    <2>4. /\ offers' \in [Ids -> Markers \cup {None}] /\ marker' \in [Ids -> Markers \cup {None}]
          /\ auto' \in [Ids -> Works \cup {None}]
      BY <1>8 DEF OpenSaved
    <2> QED
      BY <1>8, <2>2, <2>3, <2>4 DEF OpenSaved, disk, process
  <1>9. ASSUME NEW p \in Paths, SaveStarts(p) PROVE TypeInv'
    <2>1. rt \in Runtimes
      BY <1>9 DEF SaveStarts
    <2>2. [id |-> rt.id, work |-> {}, rev |-> 0, path |-> p] \in Payloads
      BY <2>1 DEF Payloads
    <2> QED
      BY <1>9, <2>2 DEF SaveStarts, disk, process
  <1>10. ASSUME LoopArms PROVE TypeInv'
    BY <1>10 DEF LoopArms, disk, process
  <1>11. ASSUME LoopFires PROVE TypeInv'
    <2>1. CASE rt # None /\ rt.dirty
      <3>1. [id |-> rt.id, work |-> rt.work, rev |-> 0, path |-> rt.path] \in Payloads
        BY <2>1 DEF Payloads
      <3> QED
        BY <1>11, <2>1, <3>1 DEF LoopFires, Snapshot, Build, disk, process
    <2>2. CASE ~(rt # None /\ rt.dirty)
      BY <1>11, <2>2 DEF LoopFires, Snapshot, disk, process
    <2> QED
      BY <2>1, <2>2
  <1>12. ASSUME BlurFires PROVE TypeInv'
    <2>1. rt # None /\ rt.dirty
      BY <1>12 DEF BlurFires
    <2>2. [id |-> rt.id, work |-> rt.work, rev |-> 0, path |-> rt.path] \in Payloads
      BY <2>1 DEF Payloads
    <2> QED
      BY <1>12, <2>1, <2>2 DEF BlurFires, Snapshot, Build, disk, process
  <1>13. ASSUME NEW t \in Tasks, WriteAutosave(t) PROVE TypeInv'
    BY <1>13 DEF WriteAutosave, EnterLane, disk, process
  <1>14. ASSUME NEW t \in Tasks, WriteMarker(t) PROVE TypeInv'
    BY <1>14 DEF WriteMarker, Leave, Concerns, Markers, disk, process
  <1>15. ASSUME NEW t \in Tasks, MarkerFails(t) PROVE TypeInv'
    BY <1>15 DEF MarkerFails, Leave, disk, process
  <1>16. ASSUME NEW t \in Tasks, WriteFails(t) PROVE TypeInv'
    BY <1>16 DEF WriteFails, Leave, disk, process
  <1>17. ASSUME SaveBuilds PROVE TypeInv'
    <2>1. load["save"] \in Payloads /\ load["save"].path \in Paths
      BY <1>17 DEF SaveBuilds
    <2>2. CASE SameDocument
      <3>1. rt \in Runtimes
        BY <2>2 DEF SameDocument
      <3>2. load' = [load EXCEPT !["save"] = [load["save"] EXCEPT !.work = rt.work, !.rev = rt.rev]]
        BY <1>17, <2>2 DEF SaveBuilds, Build
      <3>3. load'["save"] = [id |-> load["save"].id, work |-> rt.work, rev |-> rt.rev,
                             path |-> load["save"].path]
        <4>1. load'["save"] = [load["save"] EXCEPT !.work = rt.work, !.rev = rt.rev]
          BY <3>2
        <4>2. rt.work \in Works /\ rt.rev \in 0 .. MaxEdits
          BY <3>1
        <4> HIDE DEF SaveInv
        <4> QED
          BY <2>1, <4>1, <4>2 DEF Payloads
      <3>4. /\ load'["save"] \in Payloads /\ load'["save"].path \in Paths
            /\ load' \in [Tasks -> Payloads \cup {None}]
            /\ \A t \in Tasks \ {"save"} : load'[t] = load[t]
        BY <2>1, <3>1, <3>2, <3>3 DEF Payloads
      <3> QED
        BY <1>17, <2>2, <3>4 DEF SaveBuilds, Build, disk, process
    <2>3. CASE ~SameDocument
      BY <1>17, <2>3 DEF SaveBuilds, Leave, disk, process
    <2> QED
      BY <2>2, <2>3
  <1>18. ASSUME SaveWrites PROVE TypeInv'
    <2>1. /\ load["save"] \in Payloads /\ load["save"].path \in Paths
          /\ [id |-> load["save"].id, work |-> load["save"].work] \in Containers
      BY <1>18 DEF SaveWrites, EnterLane, Containers
    <2>2. file' \in [Paths -> Containers \cup {None}] /\ promised' \in [Ids -> Works]
      BY <1>18, <2>1 DEF SaveWrites, Released
    <2> QED
      BY <1>18, <2>2 DEF SaveWrites, EnterLane, disk, process
  <1>19. ASSUME SaveClears PROVE TypeInv'
    BY <1>19 DEF SaveClears, ClearRecovery, disk, process
  <1>20. ASSUME MarkSaved PROVE TypeInv'
    <2>1. rt' \in Runtimes \cup {None}
      BY <1>20, Opened DEF MarkSaved, SameDocument
    <2> QED
      BY <1>20, <2>1 DEF MarkSaved, Leave, disk, process
  <1>21. ASSUME Crash PROVE TypeInv'
    <2>1. [path |-> None] \in Markers
      BY DEF Markers
    <2>2. offers' \in [Ids -> Markers \cup {None}]
      BY <1>21, <2>1 DEF Crash, Launch
    <2> QED
      BY <1>21, <2>2 DEF Crash, Launch, disk, process
  <1>22. ASSUME Exit PROVE TypeInv'
    <2>1. promised' \in [Ids -> Works]
      <3>1. CASE rt = None
        BY <1>22, <3>1 DEF Exit
      <3>2. CASE rt # None
        <4>1. promised' = Released(rt.id)
          BY <1>22, <3>2 DEF Exit
        <4> QED
          BY <4>1 DEF Released
      <3> QED
        BY <3>1, <3>2
    <2>2. auto' \in [Ids -> Works \cup {None}] /\ marker' \in [Ids -> Markers \cup {None}]
      BY <1>22 DEF Exit, Launch
    <2>3. offers' \in [Ids -> Markers \cup {None}]
      <3>1. [path |-> None] \in Markers
        BY DEF Markers
      <3>2. CASE rt = None
        BY <1>22, <2>2, <3>1, <3>2 DEF Exit, Launch
      <3>3. CASE rt # None
        BY <1>22, <2>2, <3>1, <3>3 DEF Exit, Launch
      <3> QED
        BY <3>2, <3>3
    <2>4. /\ file' = file /\ made' = made /\ rt' = None /\ tick' = FALSE
          /\ at' = [t \in Tasks |-> "idle"] /\ load' = [t \in Tasks |-> None]
      BY <1>22 DEF Exit, Launch
    <2> QED
      BY <2>1, <2>2, <2>3, <2>4
  <1> QED
    BY <1>1, <1>2, <1>3, <1>4, <1>5, <1>6, <1>7, <1>8, <1>9, <1>10, <1>11, <1>12, <1>13, <1>14, <1>15, <1>16, <1>17, <1>18, <1>19, <1>20, <1>21, <1>22 DEF Next, Loop, Autosave, Save

-----------------------------------------------------------------------------
(* The persistence lane.                                                   *)

(* What a step does to the lane and those that await it: nothing they      *)
(* would notice, or one of them builds, enters, or leaves, or all are gone.*)
Stays ==
    /\ lane' = lane
    /\ \A t \in Tasks : ahead'[t] = ahead[t] /\ (Busy(t)' <=> Busy(t))
    /\ \A t \in Tasks : Busy(t) => at'[t] = at[t] /\ load'[t] = load[t]

(* The open document, and no other step, is behind a new payload.          *)
Arrived(x) ==
    /\ ~Busy(x)
    /\ rt # None /\ load'[x].id = rt.id /\ load'[x].work = rt.work
    /\ UNCHANGED <<file, auto, offers, rt, promised, lane>>

Builds(x) ==
    /\ Arrived(x) /\ at'[x] = "built"
    /\ ahead'[x] = {u \in Tasks : at[u] = "built" /\ Differs(load[u], load'[x])}
    /\ \A t \in Tasks \ {x} : at'[t] = at[t] /\ load'[t] = load[t] /\ ahead'[t] = ahead[t]

(* The task is in nobody's way any more.                                   *)
Gone(x) == \A t \in Tasks : ahead'[t] = IF t = x THEN {} ELSE ahead[t] \ {x}

Enters(x) ==
    /\ at[x] = "built" /\ lane = None /\ (ahead[x] = {} \/ May("late_arrival"))
    /\ at'[x] = "wrote" /\ lane' = x /\ load' = load /\ rt' = rt
    /\ \A t \in Tasks \ {x} : at'[t] = at[t]
    /\ Gone(x)

Leaves(x) ==
    /\ Busy(x) /\ ~Busy(x)'
    /\ lane' = IF lane = x THEN None ELSE lane
    /\ \A t \in Tasks \ {x} : at'[t] = at[t] /\ load'[t] = load[t]
    /\ Gone(x)

Dies == lane' = None /\ \A t \in Tasks : at'[t] = "idle" /\ ahead'[t] = {}

LaneMoves ==
    /\ ahead' \in [Tasks -> SUBSET Tasks]
    /\ Stays \/ Dies \/ \E x \in Tasks : Builds(x) \/ Enters(x) \/ Leaves(x)

(* A task that is not busy is no holder and awaits nothing, so that its    *)
(* end is nothing to the others.                                           *)
LEMMA Idling ==
    ASSUME TypeInv, LaneInv, NEW x \in Tasks, ~Busy(x), Leave(x)
    PROVE  LaneMoves
  <1>1. lane # x /\ ahead[x] = {} /\ \A t \in Tasks : x \notin ahead[t]
    BY DEF LaneInv, Busy
  <1>2. lane' = lane /\ ahead' \in [Tasks -> SUBSET Tasks] /\ \A t \in Tasks : ahead'[t] = ahead[t]
    BY <1>1 DEF Leave, Passed, LaneInv
  <1>3. \A t \in Tasks : (Busy(t)' <=> Busy(t)) /\ (Busy(t) => at'[t] = at[t] /\ load'[t] = load[t])
    BY DEF Leave, Busy, TypeInv
  <1> QED
    BY <1>2, <1>3 DEF LaneMoves, Stays

(* The end of a task that was busy.                                        *)
LEMMA Leaving ==
    ASSUME TypeInv, LaneInv, NEW x \in Tasks, Busy(x), Leave(x)
    PROVE  LaneMoves
  <1>1. ahead' \in [Tasks -> SUBSET Tasks] /\ Gone(x)
    BY DEF Leave, Passed, LaneInv, Gone
  <1>2. ~Busy(x)' /\ \A t \in Tasks \ {x} : at'[t] = at[t] /\ load'[t] = load[t]
    BY DEF Leave, Busy, TypeInv
  <1> QED
    BY <1>1, <1>2 DEF LaneMoves, Leaves, Leave

(* A payload of what is open.                                              *)
LEMMA Building ==
    ASSUME TypeInv, LaneInv, NEW x \in Tasks, ~Busy(x), rt # None, NEW payload, Build(x, payload),
           payload.id = rt.id, payload.work = rt.work,
           UNCHANGED <<file, auto, offers, rt, promised>>
    PROVE  LaneMoves
  <1>1. load'[x] = payload /\ at'[x] = "built" /\ lane' = lane
    BY DEF Build, TypeInv
  <1>2. Arrived(x)
    BY <1>1 DEF Arrived
  <1>3. \A t \in Tasks \ {x} : at'[t] = at[t] /\ load'[t] = load[t] /\ ahead'[t] = ahead[t]
    BY DEF Build, TypeInv, LaneInv
  <1>4. /\ ahead' \in [Tasks -> SUBSET Tasks]
        /\ ahead'[x] = {u \in Tasks : at[u] = "built" /\ Differs(load[u], payload)}
    BY DEF Build, LaneInv
  <1> QED
    BY <1>1, <1>2, <1>3, <1>4 DEF LaneMoves, Builds

(* The first half of a critical section.                                   *)
LEMMA Entering ==
    ASSUME TypeInv, LaneInv, NEW x \in Tasks, EnterLane(x), UNCHANGED <<load, rt>>
    PROVE  LaneMoves
  <1>1. ahead' \in [Tasks -> SUBSET Tasks] /\ Gone(x)
    BY DEF EnterLane, Passed, LaneInv, Gone
  <1>2. Enters(x)
    BY <1>1 DEF EnterLane, Enters, TypeInv
  <1> QED
    BY <1>1, <1>2 DEF LaneMoves

(* Every step of the system is one of these to the lane.                   *)
LEMMA LaneMoving ==
    ASSUME SaveInv, Next
    PROVE  LaneMoves
  <1> USE DEF SaveInv, Tasks
  <1>0. TypeInv /\ LaneInv
    OBVIOUS
  <1>1. CASE UNCHANGED <<at, load, lane, ahead>>
    BY <1>1 DEF LaneMoves, Stays, LaneInv, Busy
  <1>2. ASSUME NEW p \in Paths, SaveStarts(p) PROVE LaneMoves
    BY <1>2 DEF SaveStarts, LaneMoves, Stays, LaneInv, TypeInv, Busy
  <1>3. CASE LoopArms
    BY <1>3 DEF LoopArms, LaneMoves, Stays, LaneInv, TypeInv, Busy
  <1>4. ASSUME NEW t \in {"loop", "blur"}, at[t] \in {"idle", "armed"}, Snapshot(t),
               UNCHANGED <<disk, rt, offers, promised>>
        PROVE  LaneMoves
    <2>1. CASE rt # None /\ rt.dirty
      BY <1>4, <2>1, Building DEF Snapshot, Busy, disk
    <2>2. CASE ~(rt # None /\ rt.dirty)
      BY <1>4, <2>2 DEF Snapshot, LaneMoves, Stays, LaneInv, TypeInv, Busy
    <2> QED
      BY <2>1, <2>2
  <1>5. CASE LoopFires \/ BlurFires
    BY <1>4, <1>5 DEF LoopFires, BlurFires
  <1>6. ASSUME NEW t \in Tasks, WriteAutosave(t) \/ (t = "save" /\ SaveWrites) PROVE LaneMoves
    BY <1>6, Entering DEF WriteAutosave, SaveWrites
  <1>7. ASSUME NEW t \in Tasks, WriteMarker(t) \/ MarkerFails(t) \/ WriteFails(t) PROVE LaneMoves
    BY <1>7, Leaving DEF WriteMarker, MarkerFails, WriteFails, Busy
  <1>8. CASE SaveBuilds
    <2>1. at["save"] = "admitted" /\ ~Busy("save")
      BY <1>8 DEF SaveBuilds, Busy
    <2>2. CASE SameDocument
      <3> DEFINE payload == [load["save"] EXCEPT !.work = rt.work, !.rev = rt.rev]
      <3>1. load["save"] \in Payloads /\ rt # None /\ rt.id = load["save"].id
        BY <2>1, <2>2 DEF SameDocument, TypeInv
      <3>2. payload.id = rt.id /\ payload.work = rt.work
        BY <3>1 DEF Payloads
      <3>3. Build("save", payload) /\ UNCHANGED <<file, auto, offers, rt, promised>>
        BY <1>8, <2>2 DEF SaveBuilds, disk
      <3> HIDE DEF payload
      <3> QED
        BY <2>1, <3>1, <3>2, <3>3, Building
    <2>3. CASE ~SameDocument
      BY <1>8, <2>1, <2>3, Idling DEF SaveBuilds
    <2> QED
      BY <2>2, <2>3
  <1>9. CASE SaveClears
    <2>1. lane = "save" /\ ahead["save"] = {} /\ \A t \in Tasks : "save" \notin ahead[t]
      BY <1>9 DEF SaveClears, LaneInv
    <2>2. Gone("save") /\ ahead' \in [Tasks -> SUBSET Tasks]
      BY <1>9, <2>1 DEF SaveClears, LaneInv, Gone
    <2>3. Leaves("save")
      BY <1>9, <2>1, <2>2 DEF SaveClears, Leaves, Busy, TypeInv
    <2> QED
      BY <2>2, <2>3 DEF LaneMoves
  <1>10. CASE MarkSaved
    BY <1>10, Idling DEF MarkSaved, Busy
  <1>11. CASE Crash \/ Exit
    <2>1. at' = [t \in Tasks |-> "idle"] /\ lane' = None /\ ahead' = [t \in Tasks |-> {}]
      BY <1>11 DEF Crash, Exit, Launch
    <2> QED
      BY <2>1 DEF LaneMoves, Dies
  <1>12. ASSUME NEW d \in Ids, NewDocument(d) \/ Restore(d) \/ DiscardOffer(d) PROVE LaneMoves
    BY <1>1, <1>12 DEF NewDocument, Restore, DiscardOffer
  <1>13. ASSUME NEW p \in Paths, Open(p) \/ \E d \in Ids : OpenSaved(p, d) PROVE LaneMoves
    BY <1>1, <1>13 DEF Open, OpenSaved
  <1>14. CASE Edit \/ Promote \/ Close
    BY <1>1, <1>14 DEF Edit, Promote, Close
  <1> QED
    <2> HIDE DEF SaveInv
    <2> QED
      BY <1>2, <1>3, <1>5, <1>6, <1>7, <1>8, <1>9, <1>10, <1>11, <1>12, <1>13, <1>14
      DEF Next, Loop, Autosave, Save

(* Whoever writes holds the lane, and the order of those that await it is  *)
(* known, through every step.                                              *)
LEMMA LaneStep ==
    ASSUME SaveInv, Next
    PROVE  LaneInv'
  <1> USE SaveAssumption
  <1>0. TypeInv /\ LaneInv /\ ahead' \in [Tasks -> SUBSET Tasks] /\ \A t \in Tasks : t # None
    BY LaneMoving DEF SaveInv, LaneMoves
  <1>1. CASE Stays
    BY <1>0, <1>1 DEF Stays, LaneInv, Busy
  <1>2. CASE Dies
    BY <1>0, <1>2 DEF Dies, LaneInv
  <1>3. ASSUME NEW x \in Tasks, Builds(x) PROVE LaneInv'
    <2>1. /\ lane' = lane /\ at[x] # "built" /\ at[x] # "wrote" /\ at'[x] = "built"
          /\ ahead'[x] = {u \in Tasks : at[u] = "built" /\ Differs(load[u], load'[x])}
          /\ \A t \in Tasks \ {x} : at'[t] = at[t] /\ load'[t] = load[t] /\ ahead'[t] = ahead[t]
      BY <1>3 DEF Builds, Arrived, Busy
    <2>2. \A t \in Tasks : at'[t] = "wrote" <=> lane' = t
      BY <1>0, <2>1 DEF LaneInv
    <2>3. \A t, u \in Tasks : u \in ahead'[t] => t # u /\ at'[t] = "built" /\ at'[u] = "built"
      BY <1>0, <2>1 DEF LaneInv
    <2>4. ASSUME NEW t \in Tasks, NEW u \in Tasks, t # u, at'[t] = "built", at'[u] = "built",
                 Differs(load'[t], load'[u])
          PROVE  t \in ahead'[u] \/ u \in ahead'[t]
      <3>1. CASE t = x
        BY <2>1, <2>4, <3>1 DEF Differs
      <3>2. CASE u = x
        BY <2>1, <2>4, <3>2 DEF Differs
      <3>3. CASE t # x /\ u # x
        BY <1>0, <2>1, <2>4, <3>3 DEF LaneInv
      <3> QED
        BY <3>1, <3>2, <3>3
    <2> QED
      BY <1>0, <2>1, <2>2, <2>3, <2>4 DEF LaneInv
  <1>4. ASSUME NEW x \in Tasks, Enters(x) PROVE LaneInv'
    BY <1>0, <1>4 DEF Enters, Gone, LaneInv
  <1>5. ASSUME NEW x \in Tasks, Leaves(x) PROVE LaneInv'
    BY <1>0, <1>5 DEF Leaves, Gone, LaneInv, Busy
  <1> QED
    BY <1>1, <1>2, <1>3, <1>4, <1>5, LaneMoving DEF LaneMoves

(* Whoever is busy after a step was so before it, or has just built.       *)
LEMMA Queuers ==
    ASSUME SaveInv, Next, NEW t \in Tasks, Busy(t)'
    PROVE  (Busy(t) /\ load'[t] = load[t]) \/ Arrived(t)
  <1>1. CASE Stays
    BY <1>1 DEF Stays
  <1>2. CASE Dies
    BY <1>2 DEF Dies, Busy
  <1>3. ASSUME NEW x \in Tasks, Builds(x) \/ Enters(x) \/ Leaves(x)
        PROVE  (Busy(t) /\ load'[t] = load[t]) \/ Arrived(t)
    BY <1>3 DEF Builds, Enters, Leaves, Busy
  <1> QED
    BY <1>1, <1>2, <1>3, LaneMoving DEF LaneMoves

(* Alike payloads.                                                         *)
Same(t, u) == load[t].id = load[u].id => load[t].work = load[u].work

(* And whoever writes before somebody did so before, or that one has just  *)
(* built, or he enters the lane before one that carries nothing else.      *)
LEMMA Pairs ==
    ASSUME SaveInv, Next, ~May("late_arrival"), NEW t \in Tasks, NEW u \in Tasks, Prior(t, u)'
    PROVE  /\ t # u
           /\ Busy(t) /\ load'[t] = load[t]
           /\ \/ Prior(t, u) /\ Busy(u) /\ load'[u] = load[u]
              \/ Arrived(u)
              \/ Busy(u) /\ Same(t, u) /\ Enters(t)
  <1>0. LaneInv /\ LaneInv' /\ \A x \in Tasks : x # None
    BY LaneStep, SaveAssumption DEF SaveInv
  <1>1. t # u /\ Busy(t)' /\ at'[u] = "built" /\ Busy(u)'
    BY <1>0 DEF LaneInv, Prior, Busy
  <1>2. CASE Stays
    <2>1. Prior(t, u) /\ Busy(u) /\ Busy(t)
      BY <1>1, <1>2 DEF Stays, Prior, Busy
    <2> QED
      BY <1>1, <1>2, <2>1 DEF Stays
  <1>3. CASE Dies
    BY <1>1, <1>3 DEF Dies, Busy
  <1>4. ASSUME NEW x \in Tasks, Builds(x)
        PROVE  /\ Busy(t) /\ load'[t] = load[t]
               /\ (Prior(t, u) /\ Busy(u) /\ load'[u] = load[u]) \/ Arrived(u)
    <2>1. CASE u = x
      <3>1. at[t] = "built" \/ lane = t
        BY <1>4, <2>1 DEF Builds, Arrived, Prior
      <3>2. Busy(t)
        BY <1>0, <3>1 DEF LaneInv, Busy
      <3> QED
        BY <1>1, <1>4, <2>1, <3>2 DEF Builds
    <2>2. CASE u # x
      <3>1. Prior(t, u) /\ Busy(u) /\ load'[u] = load[u]
        BY <1>1, <1>4, <2>2 DEF Builds, Arrived, Prior, Busy
      <3>2. Busy(t)
        BY <1>0, <3>1 DEF LaneInv, Prior, Busy
      <3>3. t # x
        BY <1>4, <3>2 DEF Builds, Arrived
      <3> QED
        BY <1>4, <3>1, <3>2, <3>3 DEF Builds
    <2> QED
      BY <2>1, <2>2
  <1>5. ASSUME NEW x \in Tasks, Enters(x)
        PROVE  /\ Busy(t) /\ load'[t] = load[t] /\ Busy(u) /\ load'[u] = load[u]
               /\ Prior(t, u) \/ (Same(t, u) /\ Enters(t))
    <2>1. /\ load' = load /\ lane' = x /\ lane = None /\ at[x] = "built" /\ ahead[x] = {} /\ u # x
          /\ at[u] = "built" /\ Busy(t) /\ Busy(u)
      BY <1>1, <1>5 DEF Enters, Busy
    <2>2. CASE t = x
      BY <1>0, <1>1, <1>5, <2>1, <2>2 DEF LaneInv, Prior, Same, Differs
    <2>3. CASE t # x
      BY <1>5, <2>1, <2>3 DEF Enters, Gone, Prior
    <2> QED
      BY <2>1, <2>2, <2>3
  <1>6. ASSUME NEW x \in Tasks, Leaves(x)
        PROVE  Busy(t) /\ load'[t] = load[t] /\ Prior(t, u) /\ Busy(u) /\ load'[u] = load[u]
    <2>1. t # x /\ u # x
      BY <1>1, <1>6 DEF Leaves
    <2> QED
      BY <1>0, <1>1, <1>6, <2>1 DEF Leaves, Gone, Prior, Busy
  <1> QED
    BY <1>1, <1>2, <1>3, <1>4, <1>5, <1>6, LaneMoving DEF LaneMoves

(* The number of the next edit is still unused.                            *)
LEMMA MadeStep ==
    ASSUME SaveInv, Next
    PROVE  MadeInv'
  <1> USE Records DEF SaveInv, MadeInv, TypeInv, Tasks
  <1>1. ASSUME NEW d \in Ids, NewDocument(d) PROVE MadeInv'
    BY <1>1 DEF NewDocument, Replace, disk
  <1>2. ASSUME NEW d \in Ids, Restore(d) PROVE MadeInv'
    BY <1>2 DEF Restore
  <1>3. ASSUME NEW d \in Ids, DiscardOffer(d) PROVE MadeInv'
    BY <1>3 DEF DiscardOffer, ClearRecovery
  <1>4. CASE Edit
    <2>1. /\ rt \in Runtimes /\ made' = made + 1
          /\ rt'.work = rt.work \cup {made'} /\ rt'.rev = rt.rev + 1
      BY <1>4 DEF Edit, Runtimes
    <2>2. rt'.work \subseteq 1 .. made' /\ rt'.rev <= made' /\ 1 .. made \subseteq 1 .. made'
      BY <2>1
    <2> QED
      BY <1>4, <2>2 DEF Edit, disk
  <1>5. CASE Promote
    <2>1. /\ rt \in Runtimes /\ made' = made + 1
          /\ rt'.work = rt.work \cup {made'} /\ rt'.rev = rt.rev
      BY <1>5 DEF Promote, Runtimes
    <2>2. rt'.work \subseteq 1 .. made' /\ rt'.rev <= made' /\ 1 .. made \subseteq 1 .. made'
      BY <2>1
    <2> QED
      BY <1>5, <2>2 DEF Promote, disk
  <1>6. CASE Close
    BY <1>6 DEF Close, ClearRecovery
  <1>7. ASSUME NEW p \in Paths, Open(p) PROVE MadeInv'
    BY <1>7 DEF Open, Replace, Loaded, disk
  <1>8. ASSUME NEW p \in Paths, NEW d \in Ids, OpenSaved(p, d) PROVE MadeInv'
    BY <1>8 DEF OpenSaved, Loaded
  <1>9. ASSUME NEW p \in Paths, SaveStarts(p) PROVE MadeInv'
    BY <1>9 DEF SaveStarts, disk
  <1>10. CASE LoopArms
    BY <1>10 DEF LoopArms, disk
  <1>11. CASE LoopFires
    BY <1>11 DEF LoopFires, Snapshot, Build, disk
  <1>12. CASE BlurFires
    BY <1>12 DEF BlurFires, Snapshot, Build, disk
  <1>13. ASSUME NEW t \in Tasks, WriteAutosave(t) PROVE MadeInv'
    BY <1>13 DEF WriteAutosave, EnterLane
  <1>14. ASSUME NEW t \in Tasks, WriteMarker(t) \/ MarkerFails(t) \/ WriteFails(t) PROVE MadeInv'
    BY <1>14 DEF WriteMarker, MarkerFails, WriteFails, Leave, disk
  <1>15. CASE SaveBuilds
    <2>1. CASE SameDocument
      <3>1. load' = [load EXCEPT !["save"] = [load["save"] EXCEPT !.work = rt.work, !.rev = rt.rev]]
        BY <1>15, <2>1 DEF SaveBuilds, Build
      <3>2. load["save"] \in Payloads /\ rt \in Runtimes
        BY <1>15, <2>1 DEF SaveBuilds, SameDocument
      <3>3. load'["save"].work = rt.work
        BY <3>1, <3>2 DEF Payloads
      <3> QED
        BY <1>15, <3>1, <3>2, <3>3 DEF SaveBuilds, disk
    <2>2. CASE ~SameDocument
      BY <1>15, <2>2 DEF SaveBuilds, Leave, disk
    <2> QED
      BY <2>1, <2>2
  <1>16. CASE SaveWrites
    BY <1>16 DEF SaveWrites, EnterLane
  <1>17. CASE SaveClears
    BY <1>17 DEF SaveClears, ClearRecovery
  <1>18. CASE MarkSaved
    <2>1. rt' # None => rt \in Runtimes /\ rt'.work = rt.work /\ rt'.rev = rt.rev
      BY <1>18 DEF MarkSaved, SameDocument, Runtimes
    <2> QED
      BY <1>18, <2>1 DEF MarkSaved, Leave, disk
  <1>19. CASE Crash \/ Exit
    <2>1. /\ file' = file /\ made' = made /\ rt' = None /\ load' = [t \in Tasks |-> None]
          /\ \A d \in Ids : auto'[d] = None \/ auto'[d] = auto[d]
      BY <1>19 DEF Crash, Exit, Launch
    <2> QED
      BY <2>1
  <1> QED
    BY <1>1, <1>2, <1>3, <1>4, <1>5, <1>6, <1>7, <1>8, <1>9, <1>10, <1>11, <1>12, <1>13, <1>14, <1>15,
       <1>16, <1>17, <1>18, <1>19
    DEF Next, Loop, Autosave, Save

(* A first launch satisfies the invariant.                                 *)
LEMMA SaveInit ==
    ASSUME Init
    PROVE  SaveInv
  <1> USE SaveAssumption DEF Init
  <1>1. file \in [Paths -> Containers \cup {None}] /\ \A p \in Paths : file[p] # None => file[p].work = {}
    <2>1. file \in [Paths -> [id : Ids, work : {{}}] \cup {None}]
      OBVIOUS
    <2>2. [id : Ids, work : {{}}] \subseteq Containers
      BY Records DEF Containers
    <2>3. \A c \in [id : Ids, work : {{}}] : c.work = {}
      OBVIOUS
    <2> QED
      BY <2>1, <2>2, <2>3
  <1>2. TypeInv
    <2>1. /\ auto \in [Ids -> Works \cup {None}] /\ marker \in [Ids -> Markers \cup {None}]
          /\ offers \in [Ids -> Markers \cup {None}] /\ promised \in [Ids -> Works]
      BY Records
    <2>2. at = [t \in Tasks |-> "idle"] /\ load = [t \in Tasks |-> None]
      OBVIOUS
    <2>3. made \in 0 .. MaxEdits
      OBVIOUS
    <2>4. tick \in BOOLEAN
      OBVIOUS
    <2>5. load["save"] = None
      BY <2>2 DEF Tasks
    <2> QED
      BY <1>1, <2>1, <2>2, <2>3, <2>4, <2>5 DEF TypeInv
  <1>3. LaneInv
    BY SaveAssumption DEF LaneInv
  <1>4. MadeInv
    BY <1>1 DEF MadeInv
  <1> QED
    BY <1>2, <1>3, <1>4 DEF SaveInv

(* Every step keeps the invariant.                                         *)
LEMMA SaveStep ==
    ASSUME SaveInv, [Next]_vars
    PROVE  SaveInv'
  <1>1. CASE Next
    BY <1>1, TypeStep, LaneStep, MadeStep DEF SaveInv
  <1>2. CASE UNCHANGED vars
    BY <1>2
    DEF SaveInv, TypeInv, LaneInv, MadeInv, vars, disk, process
  <1> QED
    BY <1>1, <1>2

(* The invariant holds in every reachable state.                           *)
LEMMA SaveInvariance == Spec => []SaveInv
  <1>1. Init => SaveInv
    BY SaveInit
  <1>2. SaveInv /\ [Next]_vars => SaveInv'
    BY SaveStep
  <1> QED
    BY <1>1, <1>2, PTL DEF Spec

(* Every variable keeps its kind, and whoever is inside its critical       *)
(* section holds the lane, whoever fails, crashes or is superseded.        *)
THEOREM SaveTypes == Spec => []SaveTypeOK
  <1>1. SaveInv => SaveTypeOK
    <2> SUFFICES ASSUME SaveInv PROVE SaveTypeOK
      OBVIOUS
    <2> QED
      BY Records DEF SaveInv, TypeInv, LaneInv, SaveTypeOK
  <1> QED
    BY <1>1, SaveInvariance, PTL

-----------------------------------------------------------------------------
(* CleanMeansSaved.                                                        *)

(* Nobody replaces the open document by one that has a file while a save   *)
(* is under way: what the save carries is no more than what is open.       *)
LEMMA UnderSaveStep ==
    ASSUME SaveInv, UnderSave, Next, ~May("reopen_mid_save")
    PROVE  UnderSave'
  <1> USE Records DEF UnderSave, SaveInv, TypeInv, Tasks, Built, Free, SameDocument
  <1>1. ASSUME NEW d \in Ids, NewDocument(d) PROVE UnderSave'
    BY <1>1 DEF NewDocument, Fresh, Replace, disk
  <1>2. ASSUME NEW d \in Ids, Restore(d) PROVE UnderSave'
    BY <1>2 DEF Restore
  <1>3. ASSUME NEW d \in Ids, DiscardOffer(d) PROVE UnderSave'
    BY <1>3 DEF DiscardOffer
  <1>4. CASE Edit \/ Promote
    <2>1. rt'.id = rt.id /\ rt'.path = rt.path /\ rt.work \subseteq rt'.work
      <3> HIDE DEF UnderSave, SaveInv, TypeInv
      <3> QED
        BY <1>4, Opened
    <2>2. rt # None /\ file' = file /\ at' = at /\ load' = load
      BY <1>4 DEF Edit, Promote, disk
    <2>3. SameDocument' => SameDocument
      BY <2>1, <2>2
    <2>4. Built /\ SameDocument' => load["save"].work \subseteq rt'.work
      BY <2>1, <2>2, <2>3
    <2> QED
      BY <2>1, <2>2, <2>3, <2>4
  <1>5. CASE Close
    BY <1>5 DEF Close
  <1>6. ASSUME NEW p \in Paths, Open(p) \/ \E d \in Ids : OpenSaved(p, d) PROVE UnderSave'
    BY <1>6 DEF Open, OpenSaved
  <1>7. ASSUME NEW p \in Paths, SaveStarts(p) PROVE UnderSave'
    BY <1>7 DEF SaveStarts, disk
  <1>8. CASE LoopArms \/ LoopFires \/ BlurFires
    <2>1. at'["save"] = at["save"] /\ load'["save"] = load["save"] /\ file' = file /\ rt' = rt
      BY <1>8 DEF LoopArms, LoopFires, BlurFires, Snapshot, Build, disk
    <2> QED
      BY <2>1
  <1>9. ASSUME NEW t \in Tasks, WriteAutosave(t) \/ WriteMarker(t) \/ MarkerFails(t) \/ WriteFails(t)
        PROVE  UnderSave'
    <2>1. /\ at'["save"] = "idle" \/ (at'["save"] = at["save"] /\ load'["save"] = load["save"])
          /\ file' = file /\ rt' = rt
      BY <1>9 DEF WriteAutosave, EnterLane, WriteMarker, MarkerFails, WriteFails, Leave, disk
    <2> QED
      BY <2>1
  <1>10. CASE SaveBuilds
    <2>1. CASE SameDocument
      <3>1. load' = [load EXCEPT !["save"] = [load["save"] EXCEPT !.work = rt.work, !.rev = rt.rev]]
        BY <1>10, <2>1 DEF SaveBuilds, Build
      <3>2. load["save"] \in Payloads
        BY <1>10 DEF SaveBuilds
      <3>3. load'["save"].work = rt.work /\ load'["save"].id = load["save"].id
        BY <3>1, <3>2 DEF Payloads
      <3> QED
        BY <1>10, <2>1, <3>3 DEF SaveBuilds, disk
    <2>2. CASE ~SameDocument
      BY <1>10, <2>2 DEF SaveBuilds, Leave, disk
    <2> QED
      BY <2>1, <2>2
  <1>11. CASE SaveWrites
    BY <1>11 DEF SaveWrites, EnterLane
  <1>12. CASE SaveClears
    BY <1>12 DEF SaveClears
  <1>13. CASE MarkSaved
    BY <1>13 DEF MarkSaved, Leave
  <1>14. CASE Crash \/ Exit
    BY <1>14 DEF Crash, Exit, Launch
  <1> QED
    BY <1>1, <1>2, <1>3, <1>4, <1>5, <1>6, <1>7, <1>8, <1>9, <1>10, <1>11, <1>12, <1>13, <1>14
    DEF Next, Loop, Autosave, Save

(* What CleanInv adds to UnderSave.                                        *)
LEMMA CleanStep ==
    ASSUME SaveInv, CleanInv, Next, ~May("reopen_mid_save"), ~May("promote_mid_save")
    PROVE  CleanInv'
  <1> USE Records DEF CleanInv, SaveInv, TypeInv, Tasks, Built, Written, Free, SameDocument, CleanMeansSaved
  <1>0. UnderSave'
    BY UnderSaveStep
  <1>1. ASSUME NEW d \in Ids, NewDocument(d) PROVE CleanInv'
    BY <1>0, <1>1 DEF NewDocument, Fresh, Replace, disk
  <1>2. ASSUME NEW d \in Ids, Restore(d) PROVE CleanInv'
    BY <1>0, <1>2 DEF Restore
  <1>3. ASSUME NEW d \in Ids, DiscardOffer(d) PROVE CleanInv'
    BY <1>0, <1>3 DEF DiscardOffer
  <1>4. CASE Edit
    <2>1. /\ rt \in Runtimes /\ rt'.id = rt.id /\ rt'.rev = rt.rev + 1 /\ rt'.dirty
          /\ rt.rev \in Nat /\ rt # None
      BY <1>4, SaveAssumption DEF Edit, Runtimes
    <2>2. Built => load["save"].rev \in Nat
      BY SaveAssumption
    <2> QED
      BY <1>0, <1>4, <2>1, <2>2 DEF Edit, disk
  <1>5. CASE Promote
    <2>1. rt'.dirty /\ Free
      BY <1>5 DEF Promote, Runtimes
    <2> QED
      BY <1>0, <1>5, <2>1 DEF Promote, disk
  <1>6. CASE Close
    BY <1>0, <1>6 DEF Close
  <1>7. ASSUME NEW p \in Paths, Open(p) \/ \E d \in Ids : OpenSaved(p, d) PROVE CleanInv'
    <2>1. Free /\ at' = at /\ load' = load /\ file' = file /\ rt' = Loaded(p) /\ file[p] \in Containers
      BY <1>7 DEF Open, OpenSaved, Replace, disk
    <2>2. file[p] = [id |-> file[p].id, work |-> file[p].work]
      BY <2>1 DEF Containers
    <2> QED
      BY <1>0, <2>1, <2>2 DEF Loaded
  <1>8. ASSUME NEW p \in Paths, SaveStarts(p) PROVE CleanInv'
    BY <1>0, <1>8 DEF SaveStarts, disk
  <1>9. CASE LoopArms \/ LoopFires \/ BlurFires
    <2>1. at'["save"] = at["save"] /\ load'["save"] = load["save"] /\ file' = file /\ rt' = rt
      BY <1>9 DEF LoopArms, LoopFires, BlurFires, Snapshot, Build, disk
    <2> QED
      BY <1>0, <2>1
  <1>10. ASSUME NEW t \in Tasks, WriteAutosave(t) \/ WriteMarker(t) \/ MarkerFails(t) \/ WriteFails(t)
         PROVE  CleanInv'
    <2>1. /\ at'["save"] = "idle" \/ (at'["save"] = at["save"] /\ load'["save"] = load["save"])
          /\ file' = file /\ rt' = rt
      BY <1>10 DEF WriteAutosave, EnterLane, WriteMarker, MarkerFails, WriteFails, Leave, disk
    <2> QED
      BY <1>0, <2>1
  <1>11. CASE SaveBuilds
    <2>1. CASE SameDocument
      <3>1. load' = [load EXCEPT !["save"] = [load["save"] EXCEPT !.work = rt.work, !.rev = rt.rev]]
        BY <1>11, <2>1 DEF SaveBuilds, Build
      <3>2. load["save"] \in Payloads
        BY <1>11 DEF SaveBuilds
      <3>3. load'["save"].work = rt.work /\ load'["save"].rev = rt.rev
        BY <3>1, <3>2 DEF Payloads
      <3> QED
        BY <1>0, <1>11, <2>1, <3>3 DEF SaveBuilds, Build, disk
    <2>2. CASE ~SameDocument
      BY <1>0, <1>11, <2>2 DEF SaveBuilds, Leave, disk
    <2> QED
      BY <2>1, <2>2
  <1>12. CASE SaveWrites
    <2>1. /\ file' = [file EXCEPT ![load["save"].path] = [id |-> load["save"].id, work |-> load["save"].work]]
          /\ load["save"].path \in Paths /\ Built /\ rt' = rt /\ load' = load /\ at'["save"] = "wrote"
      BY <1>12 DEF SaveWrites, EnterLane
    <2>2. rt # None /\ ~rt.dirty /\ rt.path # None => file'[rt.path] = [id |-> rt.id, work |-> rt.work]
      BY <2>1 DEF UnderSave
    <2> QED
      BY <1>0, <2>1, <2>2
  <1>13. CASE SaveClears
    BY <1>0, <1>13 DEF SaveClears
  <1>14. CASE MarkSaved
    <2>1. CASE SameDocument
      <3>1. /\ rt \in Runtimes /\ rt'.id = rt.id /\ rt'.work = rt.work /\ rt'.path = load["save"].path
            /\ rt'.dirty = (rt.dirty /\ rt.rev # load["save"].rev)
        BY <1>14, <2>1 DEF MarkSaved, Runtimes
      <3>2. ~rt'.dirty => rt.work = load["save"].work
        BY <1>14, <2>1, <3>1 DEF MarkSaved
      <3> QED
        BY <1>0, <1>14, <2>1, <3>1, <3>2 DEF MarkSaved, Leave, disk
    <2>2. CASE ~SameDocument
      BY <1>0, <1>14, <2>2 DEF MarkSaved, Leave, disk
    <2> QED
      BY <2>1, <2>2
  <1>15. CASE Crash \/ Exit
    BY <1>0, <1>15 DEF Crash, Exit, Launch
  <1> QED
    BY <1>1, <1>2, <1>3, <1>4, <1>5, <1>6, <1>7, <1>8, <1>9, <1>10, <1>11, <1>12, <1>13, <1>14, <1>15
    DEF Next, Loop, Autosave, Save

(* Unless a pick is promoted or a document is opened while a save is under *)
(* way, a clean document with a path is what the file there holds: a crash *)
(* between any two steps, failing writes and copies notwithstanding.       *)
THEOREM CleanIsSaved ==
    ASSUME ~May("promote_mid_save"), ~May("reopen_mid_save")
    PROVE  Spec => []CleanMeansSaved
  <1>1. Init => CleanInv
    BY DEF Init, CleanInv, UnderSave, Built, Written, Free, SameDocument, CleanMeansSaved, Tasks
  <1>2. SaveInv /\ CleanInv /\ [Next]_vars => CleanInv'
    <2> SUFFICES ASSUME SaveInv, CleanInv, [Next]_vars PROVE CleanInv'
      OBVIOUS
    <2>1. CASE Next
      BY <2>1, CleanStep
    <2>2. CASE UNCHANGED vars
      BY <2>2 DEF CleanInv, UnderSave, Built, Written, Free, SameDocument, CleanMeansSaved, vars, disk, process
    <2> QED
      BY <2>1, <2>2
  <1>3. CleanInv => CleanMeansSaved
    BY DEF CleanInv
  <1> QED
    BY <1>1, <1>2, <1>3, SaveInvariance, PTL DEF Spec

-----------------------------------------------------------------------------
(* NothingLost.                                                            *)

(* An autosave does not become one of the open document's: its work is not *)
(* part of it, or is on file -- unless a save ahead of it replaces a copy. *)
LEMMA MineStep ==
    ASSUME SaveInv, LostInv, Next, ~May("reopen_mid_save"), ~May("late_arrival"),
           NEW t \in Tasks, Busy(t), load'[t] = load[t], Mine(t)'
    PROVE  Mine(t) \/ (Prior("save", t) /\ load[t].id = load["save"].id)
  <1> USE Records DEF SaveInv, TypeInv, Mine, Concerns, OnFile
  <1>0. load[t] # None /\ load[t].work \subseteq 1 .. made /\ rt' # None /\ rt'.id = load[t].id
    BY DEF MadeInv, Busy
  <1>1. ASSUME NEW d \in Ids, NewDocument(d) PROVE Mine(t)
    BY <1>0, <1>1 DEF NewDocument, Fresh, Replace
  <1>2. ASSUME NEW d \in Ids, Restore(d) PROVE Mine(t)
    BY <1>0, <1>2 DEF Restore, LostInv, OffersApart
  <1>3. CASE rt' = rt /\ file' = file
    BY <1>0, <1>3
  <1>4. CASE Edit \/ Promote
    <2>1. rt'.id = rt.id /\ rt'.work = rt.work \cup {made'} /\ file' = file /\ made' = made + 1 /\ rt # None
      <3>1. rt # None /\ rt'.id = rt.id /\ rt'.work = rt.work \cup {made'}
        <4> HIDE DEF SaveInv, TypeInv
        <4> QED
          BY <1>4, Opened
      <3> QED
        BY <1>4, <3>1 DEF Edit, Promote, disk
    <2>2. made' \notin load[t].work
      BY <1>0, <2>1
    <2>3. load[t].work \subseteq rt.work
      BY <2>1, <2>2
    <2> QED
      BY <1>0, <2>1, <2>3
  <1>5. CASE Close
    BY <1>0, <1>5 DEF Close
  <1>6. ASSUME NEW p \in Paths, Open(p) \/ \E d \in Ids : OpenSaved(p, d) PROVE Mine(t)
    <2>1. rt' = Loaded(p) /\ file' = file /\ file[p] # None
      BY <1>6 DEF Open, OpenSaved, Replace, disk
    <2> QED
      BY <1>0, <2>1 DEF Loaded
  <1>7. CASE SaveWrites
    <2>1. /\ file' = [file EXCEPT ![load["save"].path] = [id |-> load["save"].id, work |-> load["save"].work]]
          /\ load["save"].path \in Paths /\ at["save"] = "built" /\ lane = None /\ ahead["save"] = {}
          /\ rt' = rt /\ load["save"] # None /\ ~Free /\ "save" \in Tasks
      BY <1>7 DEF SaveWrites, EnterLane, Free, Tasks
    <2>2. Prior("save", t) \/ (load[t].id = load["save"].id => load[t].work = load["save"].work)
      <3>1. t = "save" \/ at[t] = "built"
        BY <2>1, SaveAssumption DEF LaneInv, Busy
      <3> QED
        BY <2>1, <3>1 DEF LaneInv, Prior, Differs
    <2>3. CASE load[t].id = load["save"].id /\ Prior("save", t)
      BY <2>3
    <2>4. CASE load[t].id = load["save"].id /\ load[t].work = load["save"].work
      <3>1. [id |-> load["save"].id, work |-> load["save"].work] \in Containers
        BY <2>1 DEF Containers
      <3>2. /\ file'[load["save"].path] # None /\ file'[load["save"].path].id = rt'.id
            /\ load[t].work \subseteq file'[load["save"].path].work
        BY <1>0, <2>1, <2>4, <3>1
      <3>3. load'[t].work = load[t].work /\ ~OnFile(rt.id, load[t].work)'
        OBVIOUS
      <3> QED
        BY <2>1, <3>2, <3>3
    <2>5. CASE load[t].id # load["save"].id
      <3>1. \A p \in Paths : file[p] # None => file[p].id # rt.id
        BY <1>0, <2>1, <2>5 DEF LostInv, UnderSave, SameDocument
      <3> QED
        BY <1>0, <2>1, <3>1
    <2> QED
      BY <2>2, <2>3, <2>4, <2>5
  <1>8. CASE MarkSaved
    <2>1. rt'.id = rt.id /\ rt'.work = rt.work /\ rt # None /\ file' = file
      BY <1>0, <1>8 DEF MarkSaved, SameDocument, Runtimes, disk
    <2> QED
      BY <1>0, <2>1
  <1>9. CASE Crash \/ Exit
    BY <1>0, <1>9 DEF Crash, Exit, Launch
  <1>10. ASSUME NEW d \in Ids, DiscardOffer(d) PROVE rt' = rt /\ file' = file
    BY <1>10 DEF DiscardOffer
  <1>11. ASSUME NEW p \in Paths, SaveStarts(p) PROVE rt' = rt /\ file' = file
    BY <1>11 DEF SaveStarts, disk
  <1>12. ASSUME NEW u \in Tasks, WriteAutosave(u) \/ WriteMarker(u) \/ MarkerFails(u) \/ WriteFails(u)
         PROVE  rt' = rt /\ file' = file
    BY <1>12 DEF WriteAutosave, WriteMarker, MarkerFails, WriteFails, disk
  <1>13. CASE LoopArms \/ LoopFires \/ BlurFires \/ SaveBuilds \/ SaveClears
    BY <1>3, <1>13 DEF LoopArms, LoopFires, BlurFires, SaveBuilds, SaveClears, disk
  <1> QED
    <2> HIDE DEF SaveInv, TypeInv, Mine, Concerns, OnFile
    <2> QED
      BY <1>1, <1>2, <1>3, <1>4, <1>5, <1>6, <1>7, <1>8, <1>9, <1>10, <1>11, <1>12, <1>13
      DEF Next, Loop, Autosave, Save, Tasks

(* A new payload is what is open now, which has only grown since the       *)
(* others were built.                                                      *)
LEMMA OrderedStep ==
    ASSUME SaveInv, LostInv, Next, ~May("reopen_mid_save"), ~May("late_arrival")
    PROVE  Ordered'
  <1> DEFINE Carries(t, u) == load'[t].work \subseteq load'[u].work
             Behind(t)     == Prior("save", t)' /\ load'[t].id = load'["save"].id
  <1>0. "save" \in Tasks
    BY DEF Tasks
  <1> SUFFICES ASSUME NEW t \in Tasks, NEW u \in Tasks, Prior(t, u)', load'[t].id = load'[u].id,
                      t = "save" \/ Mine(t)' \/ Behind(t)
               PROVE  Carries(t, u)
    BY DEF Ordered
  <1>1. t # u /\ Busy(t) /\ load'[t] = load[t] /\ load[t] # None
    BY Pairs DEF SaveInv, TypeInv, Busy
  <1>2. Behind(t) =>
          /\ load'["save"] = load["save"] /\ load[t].id = load["save"].id /\ Busy("save")
          /\ Prior("save", t) \/ (load[t].work = load["save"].work /\ Enters("save"))
    <2> HAVE Behind(t)
    <2>1. ~Arrived(t)
      BY <1>1 DEF Arrived
    <2> QED
      BY <1>0, <1>1, <2>1, Pairs DEF Same
  <1>3. CASE Prior(t, u) /\ Busy(u) /\ load'[u] = load[u]
    <2>1. Mine(t)' => Mine(t) \/ (Prior("save", t) /\ load[t].id = load["save"].id)
      BY <1>1, MineStep
    <2>2. CASE Behind(t) /\ Enters("save") /\ load[t].work = load["save"].work
      <3>1. load["save"].id = load[u].id
        BY <1>1, <1>2, <1>3, <2>2
      <3>2. /\ at["save"] = "built" /\ at[u] = "built" /\ ahead["save"] = {} /\ "save" # u
        BY <1>0, <1>1, <1>3, <2>2, SaveAssumption DEF Enters, Prior, SaveInv, LaneInv, Busy
      <3>3. Prior("save", u) \/ load["save"].work = load[u].work
        BY <1>0, <3>1, <3>2 DEF SaveInv, LaneInv, Prior, Differs
      <3> QED
        BY <1>0, <1>1, <1>3, <2>2, <3>1, <3>3 DEF LostInv, Ordered
    <2> QED
      BY <1>1, <1>2, <1>3, <2>1, <2>2 DEF LostInv, Ordered
  <1>4. CASE Arrived(u)
    <2>1. load'[u].work = rt.work /\ load[t].id = rt.id /\ rt' = rt /\ rt # None
      BY <1>1, <1>4 DEF Arrived
    <2>2. CASE t = "save"
      BY <1>1, <2>1, <2>2 DEF LostInv, UnderSave, Built, Busy, SameDocument
    <2>3. CASE Mine(t)'
      BY <1>1, <2>1, <2>3 DEF Mine, Concerns
    <2>4. CASE Behind(t)
      <3>1. Prior("save", t)
        BY <1>0, <1>2, <1>4, <2>4, SaveAssumption DEF Arrived, Enters
      <3> QED
        BY <1>1, <1>2, <2>1, <2>4, <3>1 DEF LostInv, Follows, SameDocument
    <2> QED
      BY <2>2, <2>3, <2>4
  <1>5. CASE Busy(u) /\ Same(t, u) /\ Enters(t)
    BY <1>5 DEF Enters, Same
  <1> QED
    BY <1>3, <1>4, <1>5, Pairs

(* Behind a save, the open document keeps growing, and only by edits.      *)
LEMMA FollowsStep ==
    ASSUME SaveInv, LostInv, Next, ~May("reopen_mid_save"), ~May("late_arrival")
    PROVE  Follows'
  <1>0. "save" \in Tasks
    BY DEF Tasks
  <1> SUFFICES ASSUME NEW t \in Tasks, Prior("save", t)', SameDocument', load'[t].id = rt'.id
               PROVE  load'[t].work \subseteq rt'.work
    BY DEF Follows
  <1>1. CASE Arrived(t)
    BY <1>1 DEF Arrived
  <1>2. CASE /\ Busy("save") /\ Busy(t) /\ Prior("save", t)
             /\ load'["save"] = load["save"] /\ load'[t] = load[t]
    <2>0. /\ at["save"] # "idle" /\ at["save"] # "cleared" /\ load["save"] # None /\ load[t] # None
          /\ rt' # None /\ rt'.id = load["save"].id
      BY <1>0, <1>2 DEF Busy, SaveInv, TypeInv, SameDocument
    <2> SUFFICES rt # None /\ rt'.id = rt.id /\ rt.work \subseteq rt'.work
      BY <1>2, <2>0 DEF LostInv, Follows, SameDocument
    <2>1. ASSUME NEW d \in Ids, NewDocument(d) PROVE FALSE
      BY <2>0, <2>1 DEF NewDocument, Replace, Fresh, Tasks
    <2>2. CASE Edit \/ Promote
      <3>1. rt # None /\ rt'.work = rt.work \cup {made'} /\ rt'.id = rt.id
        BY <2>2 DEF Edit, Promote, SaveInv, TypeInv, Runtimes
      <3> QED
        BY <3>1
    <2>3. ASSUME NEW d \in Ids, Restore(d) \/ DiscardOffer(d) PROVE rt' = rt
      BY <2>0, <2>3 DEF Restore, DiscardOffer, Free
    <2>4. ASSUME NEW p \in Paths, Open(p) \/ SaveStarts(p) \/ \E d \in Ids : OpenSaved(p, d) PROVE rt' = rt
      BY <2>0, <2>4 DEF Open, OpenSaved, SaveStarts, Free
    <2>5. ASSUME NEW u \in Tasks, WriteAutosave(u) \/ WriteMarker(u) \/ MarkerFails(u) \/ WriteFails(u)
          PROVE  rt' = rt
      BY <2>5 DEF WriteAutosave, WriteMarker, MarkerFails, WriteFails
    <2>6. CASE LoopArms \/ LoopFires \/ BlurFires \/ SaveBuilds \/ SaveWrites \/ SaveClears
      BY <2>0, <2>6 DEF LoopArms, LoopFires, BlurFires, SaveBuilds, SaveWrites, SaveClears
    <2>7. CASE MarkSaved \/ Close \/ Crash \/ Exit
      BY <2>0, <2>7 DEF MarkSaved, Close, Crash, Exit, Launch
    <2>8. CASE rt' = rt
      BY <2>0, <2>8
    <2> QED
      BY <2>1, <2>2, <2>3, <2>4, <2>5, <2>6, <2>7, <2>8 DEF Next, Loop, Autosave, Save, Tasks
  <1>3. CASE Same("save", t) /\ Enters("save")
    BY <1>3 DEF Enters, Same, SameDocument, LostInv, UnderSave, Built
  <1> QED
    BY <1>0, <1>1, <1>2, <1>3, Pairs

(* An offer is made before a document is open and is gone before its       *)
(* document is, and nobody writes for it meanwhile.                        *)
LEMMA OffersApartStep ==
    ASSUME SaveInv, OffersApart, Next, ~May("blind_open")
    PROVE  OffersApart'
  <1> USE Records DEF SaveInv, TypeInv, OffersApart
  <1>0. OffersApart
    OBVIOUS
  <1>1. ASSUME NEW d \in Ids, NewDocument(d) PROVE OffersApart'
    BY <1>0, <1>1 DEF NewDocument, Fresh, Replace, disk
  <1>2. ASSUME NEW d \in Ids, Restore(d) PROVE OffersApart'
    BY <1>0, <1>2 DEF Restore
  <1>3. ASSUME NEW d \in Ids, DiscardOffer(d) PROVE OffersApart'
    BY <1>0, <1>3 DEF DiscardOffer, ClearRecovery
  <1>4. CASE Edit \/ Promote
    <2>1. rt # None /\ rt'.id = rt.id /\ UNCHANGED <<auto, offers, load>>
      BY <1>4 DEF Edit, Promote, Runtimes, disk
    <2> QED
      BY <1>0, <2>1
  <1>5. CASE Close
    BY <1>0, <1>5 DEF Close, ClearRecovery
  <1>6. ASSUME NEW p \in Paths, Open(p) PROVE OffersApart'
    BY <1>0, <1>6 DEF Open, Replace, Loaded, disk
  <1>7. ASSUME NEW p \in Paths, NEW d \in Ids, OpenSaved(p, d) PROVE OffersApart'
    BY <1>0, <1>7 DEF OpenSaved, Loaded
  <1>8. ASSUME NEW p \in Paths, SaveStarts(p) PROVE OffersApart'
    BY <1>0, <1>8 DEF SaveStarts, disk
  <1>9. CASE LoopArms \/ LoopFires \/ BlurFires
    <2>1. \A t \in Tasks : load'[t] = load[t] \/ (rt # None /\ load'[t].id = rt.id)
      BY <1>9 DEF LoopArms, LoopFires, BlurFires, Snapshot, Build
    <2>2. UNCHANGED <<auto, offers, rt>>
      BY <1>9 DEF LoopArms, LoopFires, BlurFires, disk
    <2> QED
      BY <1>0, <2>1, <2>2
  <1>10. ASSUME NEW t \in Tasks, WriteAutosave(t) PROVE OffersApart'
    BY <1>0, <1>10 DEF WriteAutosave, EnterLane
  <1>11. ASSUME NEW t \in Tasks, WriteMarker(t) \/ WriteFails(t) PROVE OffersApart'
    BY <1>0, <1>11 DEF WriteMarker, WriteFails, Leave, disk
  <1>12. ASSUME NEW t \in Tasks, MarkerFails(t) PROVE OffersApart'
    BY <1>0, <1>12 DEF MarkerFails, Leave
  <1>13. CASE SaveBuilds
    <2>1. \A t \in Tasks : load'[t] = load[t] \/ load'[t] = None \/ (rt # None /\ load'[t].id = rt.id)
      <3>1. CASE SameDocument
        <4>1. /\ load' = [load EXCEPT !["save"] = [load["save"] EXCEPT !.work = rt.work, !.rev = rt.rev]]
              /\ load["save"] \in Payloads /\ rt # None /\ rt.id = load["save"].id
          BY <1>13, <3>1 DEF SaveBuilds, Build, SameDocument, Tasks
        <4>2. load'["save"].id = load["save"].id
          BY <4>1 DEF Payloads, Tasks
        <4> QED
          BY <4>1, <4>2
      <3> QED
        BY <1>13, <3>1 DEF SaveBuilds, Leave
    <2>2. UNCHANGED <<auto, offers, rt>>
      BY <1>13 DEF SaveBuilds, disk
    <2> QED
      BY <1>0, <2>1, <2>2
  <1>14. CASE SaveWrites
    BY <1>0, <1>14 DEF SaveWrites
  <1>15. CASE SaveClears
    BY <1>0, <1>15 DEF SaveClears, ClearRecovery, Tasks
  <1>16. CASE MarkSaved
    <2>1. rt' # None => rt # None /\ rt'.id = rt.id
      BY <1>16 DEF MarkSaved, SameDocument, Runtimes
    <2> QED
      BY <1>0, <1>16, <2>1 DEF MarkSaved, Leave, disk
  <1>17. CASE Crash \/ Exit
    <2>1. /\ rt' = None /\ load' = [t \in Tasks |-> None]
          /\ \A d \in Ids : offers'[d] # None => auto'[d] # None
      BY <1>17 DEF Crash, Exit, Launch
    <2> QED
      BY <2>1
  <1> QED
    <2> HIDE DEF SaveInv, TypeInv, OffersApart
    <2> QED
      BY <1>1, <1>2, <1>3, <1>4, <1>5, <1>6, <1>7, <1>8, <1>9, <1>10, <1>11, <1>12, <1>13, <1>14, <1>15,
         <1>16, <1>17
      DEF Next, Loop, Autosave, Save, Tasks

(* A promised autosave stays until a save, a discard or a restart has      *)
(* taken it over.                                                          *)
LEMMA PromisesHeldStep ==
    ASSUME SaveInv, LostInv, Next, ~May("blind_open"), ~May("marker_lost")
    PROVE  PromisesHeld'
  <1> USE Records DEF SaveInv, TypeInv, PromisesHeld
  <1>0. PromisesHeld /\ OffersApart
    BY DEF LostInv
  <1>1. ASSUME NEW d \in Ids, NewDocument(d) PROVE PromisesHeld'
    BY <1>0, <1>1 DEF NewDocument, Fresh, Replace, Released, disk
  <1>2. ASSUME NEW d \in Ids, Restore(d) PROVE PromisesHeld'
    <2> SUFFICES ASSUME NEW e \in Ids, promised'[e] # {}
                 PROVE  /\ auto'[e] # None /\ promised'[e] \subseteq auto'[e]
                        /\ offers'[e] # None \/ (rt' # None /\ rt'.id = e /\ promised'[e] \subseteq rt'.work)
      BY DEF PromisesHeld
    <2>1. auto' = auto /\ offers' = [offers EXCEPT ![d] = None]
      BY <1>2 DEF Restore
    <2>2. rt' # None /\ rt'.id = d /\ rt'.work = auto[d]
      BY <1>2, Opened DEF Restore
    <2>3. promised'[e] = promised[e] /\ (rt = None \/ rt.id = d \/ rt.id # e)
      BY <1>2 DEF Restore, Released
    <2> QED
      BY <1>0, <2>1, <2>2, <2>3
  <1>3. ASSUME NEW d \in Ids, DiscardOffer(d) PROVE PromisesHeld'
    BY <1>0, <1>3 DEF DiscardOffer, ClearRecovery, Released
  <1>4. CASE Edit \/ Promote
    <2>1. /\ rt # None /\ rt' # None /\ rt'.id = rt.id /\ rt'.work = rt.work \cup {made'}
          /\ UNCHANGED <<auto, offers, promised>>
      BY <1>4, Opened DEF Edit, Promote, disk
    <2> QED
      BY <1>0, <2>1
  <1>5. CASE Close
    BY <1>0, <1>5 DEF Close, ClearRecovery, Released
  <1>6. ASSUME NEW p \in Paths, Open(p) PROVE PromisesHeld'
    BY <1>0, <1>6 DEF Open, Replace, Loaded, Released, disk
  <1>7. ASSUME NEW p \in Paths, NEW d \in Ids, OpenSaved(p, d) PROVE PromisesHeld'
    BY <1>0, <1>7 DEF OpenSaved, Loaded
  <1>8. ASSUME NEW p \in Paths, SaveStarts(p) PROVE PromisesHeld'
    BY <1>0, <1>8 DEF SaveStarts, disk
  <1>9. CASE LoopArms \/ LoopFires \/ BlurFires \/ SaveBuilds
    BY <1>0, <1>9 DEF LoopArms, LoopFires, BlurFires, SaveBuilds, disk
  <1>10. ASSUME NEW t \in Tasks, WriteAutosave(t) PROVE PromisesHeld'
    <2>1. /\ auto' = [auto EXCEPT ![load[t].id] = load[t].work]
          /\ load[t] \in Payloads /\ promised[load[t].id] \subseteq load[t].work
          /\ UNCHANGED <<rt, offers, promised>>
      BY <1>10 DEF WriteAutosave, EnterLane, LostInv, QueueKeeps, Busy
    <2> QED
      BY <1>0, <2>1
  <1>11. ASSUME NEW t \in Tasks, WriteMarker(t) PROVE PromisesHeld'
    <2>1. UNCHANGED <<auto, offers, rt>> /\ load[t] \in Payloads /\ t # "save" /\ at[t] = "wrote"
      BY <1>11 DEF WriteMarker
    <2>2. CASE Concerns(t)
      <3>1. rt # None /\ rt.id = load[t].id /\ load[t].work \subseteq rt.work
        BY <2>2 DEF Concerns
      <3>2. auto[rt.id] = load[t].work
        BY <2>1, <2>2, <3>1 DEF LostInv, Vouched, Mine
      <3>3. promised' = [promised EXCEPT ![rt.id] = load[t].work]
        BY <1>11, <2>2 DEF WriteMarker
      <3> QED
        BY <1>0, <2>1, <3>1, <3>2, <3>3
    <2>3. CASE ~Concerns(t)
      BY <1>0, <1>11, <2>1, <2>3 DEF WriteMarker
    <2> QED
      BY <2>2, <2>3
  <1>12. ASSUME NEW t \in Tasks, MarkerFails(t) PROVE PromisesHeld'
    BY <1>0, <1>12 DEF MarkerFails
  <1>13. ASSUME NEW t \in Tasks, WriteFails(t) PROVE PromisesHeld'
    BY <1>0, <1>13 DEF WriteFails, disk
  <1>14. CASE SaveWrites
    BY <1>0, <1>14 DEF SaveWrites, Released
  <1>15. CASE SaveClears
    <2>1. promised[load["save"].id] = {} /\ load["save"] \in Payloads
      BY <1>15 DEF SaveClears, LostInv, QueueKeeps, Tasks
    <2> QED
      BY <1>0, <1>15, <2>1 DEF SaveClears, ClearRecovery
  <1>16. CASE MarkSaved
    <2>1. rt # None => rt' # None /\ rt'.id = rt.id /\ rt'.work = rt.work
      BY <1>16, Opened
    <2> QED
      BY <1>0, <1>16, <2>1 DEF MarkSaved, disk
  <1>17. CASE Crash
    <2>1. promised' = promised /\ auto' = auto /\ \A d \in Ids : auto[d] # None => offers'[d] # None
      BY <1>17 DEF Crash, Launch, Markers
    <2> QED
      BY <1>0, <2>1
  <1>18. CASE Exit
    <2>1. CASE rt = None
      <3>1. promised' = promised /\ auto' = auto /\ \A d \in Ids : auto[d] # None => offers'[d] # None
        BY <1>18, <2>1 DEF Exit, Launch, Markers
      <3> QED
        BY <1>0, <3>1
    <2>2. CASE rt # None
      <3>1. /\ promised' = [promised EXCEPT ![rt.id] = {}] /\ auto' = [auto EXCEPT ![rt.id] = None]
            /\ \A d \in Ids : auto'[d] # None => offers'[d] # None
        BY <1>18, <2>2 DEF Exit, Launch, Markers, Released
      <3> QED
        BY <1>0, <2>2, <3>1
    <2> QED
      BY <2>1, <2>2
  <1> QED
    <2> HIDE DEF SaveInv, TypeInv, PromisesHeld
    <2> QED
      BY <1>1, <1>2, <1>3, <1>4, <1>5, <1>6, <1>7, <1>8, <1>9, <1>10, <1>11, <1>12, <1>13, <1>14, <1>15,
         <1>16, <1>17, <1>18
      DEF Next, Loop, Autosave, Save, Tasks

(* No step promises more of a document than its autosave carries, and no   *)
(* step but that one promises more than before.                            *)
LEMMA Promising ==
    ASSUME SaveInv, Next, NEW d \in Ids
    PROVE  \/ promised'[d] = promised[d] \/ promised'[d] = {}
           \/ \E t \in Tasks : /\ WriteMarker(t) /\ lane = t /\ t # "save" /\ at[t] = "wrote" /\ Mine(t)
                               /\ load[t].id = d /\ promised'[d] = load[t].work
  <1> DEFINE Goal == \/ promised'[d] = promised[d] \/ promised'[d] = {}
                     \/ \E t \in Tasks :
                          /\ WriteMarker(t) /\ lane = t /\ t # "save" /\ at[t] = "wrote" /\ Mine(t)
                          /\ load[t].id = d /\ promised'[d] = load[t].work
  <1> SUFFICES Goal
    OBVIOUS
  <1> USE DEF SaveInv, TypeInv
  <1>1. ASSUME NEW t \in Tasks, WriteMarker(t) PROVE Goal
    <2>1. at[t] = "wrote" /\ t # "save" /\ lane = t /\ load[t] # None
      BY <1>1 DEF WriteMarker, LaneInv
    <2>2. CASE Concerns(t)
      <3>1. promised' = [promised EXCEPT ![load[t].id] = load[t].work]
        BY <1>1, <2>2 DEF WriteMarker, Concerns
      <3> QED
        BY <1>1, <2>1, <2>2, <3>1 DEF Mine
    <2>3. CASE ~Concerns(t)
      BY <1>1, <2>3 DEF WriteMarker
    <2> QED
      BY <2>2, <2>3
  <1>2. ASSUME NEW e \in Ids, NewDocument(e) \/ Restore(e) \/ DiscardOffer(e) PROVE Goal
    BY <1>2 DEF NewDocument, Replace, Restore, DiscardOffer, Released
  <1>3. ASSUME NEW p \in Paths, Open(p) \/ SaveStarts(p) \/ \E e \in Ids : OpenSaved(p, e) PROVE Goal
    BY <1>3 DEF Open, Replace, SaveStarts, OpenSaved, Released
  <1>4. CASE Edit \/ Promote \/ Close \/ LoopArms \/ LoopFires \/ BlurFires
    BY <1>4 DEF Edit, Promote, Close, LoopArms, LoopFires, BlurFires, Released
  <1>5. ASSUME NEW t \in Tasks, WriteAutosave(t) \/ WriteFails(t) \/ MarkerFails(t) PROVE Goal
    BY <1>5 DEF WriteAutosave, WriteFails, MarkerFails
  <1>6. CASE SaveBuilds \/ SaveWrites \/ SaveClears \/ MarkSaved
    BY <1>6 DEF SaveBuilds, SaveWrites, SaveClears, MarkSaved, Released
  <1>7. CASE Crash \/ Exit
    BY <1>7 DEF Crash, Exit, Released
  <1> QED
    <2> HIDE DEF Goal, SaveInv, TypeInv
    <2> QED
      BY <1>1, <1>2, <1>3, <1>4, <1>5, <1>6, <1>7 DEF Next, Loop, Autosave, Save, Tasks

(* A task has written because it had, or because it just did.              *)
LEMMA Writing ==
    ASSUME SaveInv, Next, NEW t \in Tasks, at'[t] = "wrote"
    PROVE  \/ at[t] = "wrote"
           \/ t = "save" /\ SaveWrites
           \/ WriteAutosave(t)
  <1> USE DEF SaveInv, TypeInv
  <1> DEFINE Goal == at[t] = "wrote" \/ (t = "save" /\ SaveWrites) \/ WriteAutosave(t)
  <1> SUFFICES Goal
    OBVIOUS
  <1>1. ASSUME NEW e \in Ids, NewDocument(e) \/ Restore(e) \/ DiscardOffer(e) PROVE Goal
    BY <1>1 DEF NewDocument, Restore, DiscardOffer
  <1>2. ASSUME NEW p \in Paths, Open(p) \/ SaveStarts(p) \/ \E e \in Ids : OpenSaved(p, e) PROVE Goal
    BY <1>2 DEF Open, SaveStarts, OpenSaved
  <1>3. CASE Edit \/ Promote \/ Close
    BY <1>3 DEF Edit, Promote, Close
  <1>4. CASE LoopArms \/ LoopFires \/ BlurFires
    BY <1>4 DEF LoopArms, LoopFires, BlurFires, Snapshot, Build
  <1>5. ASSUME NEW u \in Tasks, WriteAutosave(u) \/ WriteMarker(u) \/ WriteFails(u) \/ MarkerFails(u) PROVE Goal
    BY <1>5 DEF WriteAutosave, EnterLane, WriteMarker, WriteFails, MarkerFails, Leave
  <1>6. CASE SaveBuilds \/ SaveWrites \/ SaveClears \/ MarkSaved
    BY <1>6 DEF SaveBuilds, SaveWrites, EnterLane, SaveClears, MarkSaved, Build, Leave
  <1>7. CASE Crash \/ Exit
    BY <1>7 DEF Crash, Exit, Launch
  <1> QED
    <2> HIDE DEF Goal, SaveInv, TypeInv
    <2> QED
      BY <1>1, <1>2, <1>3, <1>4, <1>5, <1>6, <1>7 DEF Next, Loop, Autosave, Save, Tasks

(* A promise is made of what was written, and whoever waits carries no     *)
(* less.                                                                   *)
LEMMA QueueKeepsStep ==
    ASSUME SaveInv, LostInv, Next
    PROVE  QueueKeeps'
  <1> USE DEF SaveInv, TypeInv
  <1>0. "save" \in Tasks
    BY DEF Tasks
  <1>1. ASSUME NEW t \in Tasks, Busy(t)' PROVE promised'[load'[t].id] \subseteq load'[t].work
    <2>1. CASE Arrived(t)
      <3>1. promised[rt.id] \subseteq rt.work
        BY <2>1, Records DEF Arrived, LostInv, PromisesHeld, OffersApart
      <3> QED
        BY <2>1, <3>1 DEF Arrived
    <2>2. CASE Busy(t) /\ load'[t] = load[t]
      <3>1. load[t] \in Payloads /\ load[t].id \in Ids /\ promised[load[t].id] \subseteq load[t].work
        BY <2>2, Records DEF Busy, LostInv, QueueKeeps
      <3>2. CASE promised'[load[t].id] = promised[load[t].id] \/ promised'[load[t].id] = {}
        BY <2>2, <3>1, <3>2
      <3>3. CASE \E u \in Tasks :
                   /\ WriteMarker(u) /\ lane = u /\ u # "save" /\ at[u] = "wrote" /\ Mine(u)
                   /\ load[u].id = load[t].id /\ promised'[load[t].id] = load[u].work
        <4>1. PICK u \in Tasks :
                   /\ WriteMarker(u) /\ lane = u /\ u # "save" /\ at[u] = "wrote" /\ Mine(u)
                   /\ load[u].id = load[t].id /\ promised'[load[t].id] = load[u].work
          BY <3>3
        <4>2. t # u
          BY <1>1, <4>1 DEF WriteMarker, Leave, Busy
        <4>3. Prior(u, t)
          BY <2>2, <4>1, <4>2 DEF LaneInv, Prior, Busy
        <4>4. load[u].work \subseteq load[t].work
          BY <4>1, <4>3 DEF LostInv, Ordered
        <4> QED
          BY <2>2, <4>1, <4>4
      <3> QED
        BY <3>1, <3>2, <3>3, Promising
    <2> QED
      BY <1>1, <2>1, <2>2, Queuers
  <1>2. ASSUME at'["save"] = "wrote" PROVE promised'[load'["save"].id] = {}
    <2>1. CASE SaveWrites
      <3>1. /\ load["save"] \in Payloads /\ load["save"].id \in Ids /\ load' = load
            /\ promised[load["save"].id] \subseteq load["save"].work
        BY <1>0, <2>1, Records DEF SaveWrites, EnterLane, LostInv, QueueKeeps, Busy
      <3> QED
        BY <2>1, <3>1 DEF SaveWrites, Released
    <2>2. CASE ~SaveWrites
      <3>1. at["save"] = "wrote" /\ load'["save"] = load["save"]
        <4>1. at["save"] = "wrote"
          BY <1>0, <1>2, <2>2, Writing DEF WriteAutosave
        <4> QED
          BY <1>0, <1>2, <4>1, Queuers DEF Busy, Arrived
      <3>2. load["save"] \in Payloads /\ load["save"].id \in Ids /\ promised[load["save"].id] = {}
        BY <1>0, <3>1, Records DEF LostInv, QueueKeeps
      <3>3. lane = "save"
        BY <1>0, <3>1 DEF LaneInv
      <3> QED
        BY <3>1, <3>2, <3>3, Promising
    <2> QED
      BY <2>1, <2>2
  <1> QED
    BY <1>1, <1>2 DEF QueueKeeps

(* Between its write and its word an autosave's container is nobody        *)
(* else's.                                                                 *)
LEMMA VouchedStep ==
    ASSUME SaveInv, LostInv, Next, ~May("reopen_mid_save"), ~May("late_arrival")
    PROVE  Vouched'
  <1> USE DEF SaveInv, TypeInv
  <1> SUFFICES ASSUME NEW t \in Tasks \ {"save"}, at'[t] = "wrote", Mine(t)'
               PROVE  auto'[load'[t].id] = load'[t].work
    BY DEF Vouched
  <1>0. /\ "save" \in Tasks /\ \A u \in Tasks : u # None
        /\ \A u \in Tasks : at[u] = "wrote" <=> lane = u
    BY SaveAssumption DEF LaneInv, Tasks
  <1>1. CASE WriteAutosave(t)
    <2>1. load[t] \in Payloads /\ load[t].id \in Ids
      BY <1>0, <1>1, Records DEF WriteAutosave, EnterLane
    <2> QED
      BY <1>1, <2>1 DEF WriteAutosave
  <1>2. CASE at[t] = "wrote"
    <2>1. load'[t] = load[t] /\ lane = t /\ Busy(t)
      BY <1>0, <1>2, Queuers DEF Busy, Arrived
    <2>2. ~Prior("save", t)
      BY <1>2 DEF Prior, LaneInv, Tasks
    <2>3. load[t] \in Payloads /\ load[t].id \in Ids /\ auto[load[t].id] = load[t].work
      BY <1>2, <2>1, <2>2, MineStep, Records DEF LostInv, Vouched, Mine
    <2>4. \A u \in Tasks : u # t => at[u] # "wrote" /\ ~EnterLane(u)
      BY <1>0, <2>1 DEF EnterLane
    <2>5. at'[t] # "idle" /\ rt' # None /\ rt'.id = load[t].id
      BY <2>1 DEF Mine, Concerns
    <2> SUFFICES auto'[load[t].id] = auto[load[t].id]
      BY <2>1, <2>3
    <2>6. ASSUME NEW d \in Ids, NewDocument(d) \/ Restore(d) \/ DiscardOffer(d)
          PROVE  auto'[load[t].id] = auto[load[t].id]
      BY <2>3, <2>6, Records DEF NewDocument, Restore, DiscardOffer, ClearRecovery, LostInv, OffersApart, disk
    <2>7. ASSUME NEW p \in Paths, Open(p) \/ SaveStarts(p) PROVE auto' = auto
      BY <2>7 DEF Open, SaveStarts, disk
    <2>8. ASSUME NEW p \in Paths, NEW d \in Ids, OpenSaved(p, d) PROVE auto'[load[t].id] = auto[load[t].id]
      BY <2>3, <2>8, Records DEF OpenSaved, Named, LostInv, OffersApart
    <2>9. CASE Edit \/ Promote \/ LoopArms \/ LoopFires \/ BlurFires \/ SaveBuilds \/ SaveWrites \/ MarkSaved
      BY <2>9 DEF Edit, Promote, LoopArms, LoopFires, BlurFires, SaveBuilds, SaveWrites, MarkSaved, disk
    <2>10. ASSUME NEW u \in Tasks, WriteMarker(u) \/ WriteFails(u) PROVE auto' = auto
      BY <2>10 DEF WriteMarker, WriteFails, disk
    <2>11. ASSUME NEW u \in Tasks, WriteAutosave(u) \/ MarkerFails(u) PROVE FALSE
      BY <1>0, <1>2, <2>1, <2>4, <2>5, <2>11 DEF WriteAutosave, EnterLane, MarkerFails, Leave
    <2>12. ~SaveClears
      BY <1>0, <2>4 DEF SaveClears
    <2>13. CASE Close \/ Crash \/ Exit
      BY <2>5, <2>13 DEF Close, Crash, Exit, Launch
    <2> QED
      <3> HIDE DEF SaveInv, TypeInv
      <3> QED
        BY <2>6, <2>7, <2>8, <2>9, <2>10, <2>11, <2>12, <2>13 DEF Next, Loop, Autosave, Save, Tasks
  <1>3. CASE t = "save" /\ SaveWrites
    BY <1>3
  <1> QED
    BY <1>1, <1>2, <1>3, Writing

(* Unless an offered document is opened under another name, the marker of  *)
(* an earlier autosave cannot be replaced, a document is opened while a    *)
(* save is under way, or a task reaches the lane past one that built other *)
(* content of the document first, work that was reported as protected      *)
(* stays on disk until it is saved or given up: whatever edits come        *)
(* between building and writing, and whatever failing writes, closes,      *)
(* crashes and recoveries do to the tasks of the lane.                     *)
THEOREM NothingIsLost ==
    ASSUME ~May("blind_open"), ~May("marker_lost"), ~May("reopen_mid_save"), ~May("late_arrival")
    PROVE  Spec => []NothingLost
  <1>1. SaveInv /\ Init => LostInv
    BY DEF SaveInv, TypeInv, Init, LostInv, UnderSave, Ordered, Follows, OffersApart, PromisesHeld, QueueKeeps,
           Vouched, Built, Free, SameDocument, Tasks, Busy, Prior
  <1>2. SaveInv /\ LostInv /\ [Next]_vars => LostInv'
    <2> SUFFICES ASSUME SaveInv, LostInv, [Next]_vars PROVE LostInv'
      OBVIOUS
    <2>1. CASE Next
      <3>1. UnderSave'
        BY <2>1, UnderSaveStep DEF LostInv
      <3> QED
        BY <2>1, <3>1, OrderedStep, FollowsStep, OffersApartStep, PromisesHeldStep, QueueKeepsStep, VouchedStep
        DEF LostInv
    <2>2. CASE UNCHANGED vars
      BY <2>2 DEF LostInv, UnderSave, Ordered, Follows, OffersApart, PromisesHeld, QueueKeeps, Vouched, Mine,
                  Concerns, OnFile, Built, Free, SameDocument, Busy, Prior, vars, disk, process
    <2> QED
      BY <2>1, <2>2
  <1>3. LostInv => NothingLost
    BY DEF LostInv, PromisesHeld, NothingLost
  <1> QED
    BY <1>1, <1>2, <1>3, SaveInvariance, PTL DEF Spec

-----------------------------------------------------------------------------
(* OfferHoldsSavedWork.                                                    *)

(* Only the save under way changes a file, the one at its target.          *)
LEMMA Filing ==
    ASSUME Next, ~SaveWrites
    PROVE  file' = file
  <1>1. ASSUME NEW d \in Ids, NewDocument(d) \/ Restore(d) \/ DiscardOffer(d) PROVE file' = file
    BY <1>1 DEF NewDocument, Restore, DiscardOffer, disk
  <1>2. ASSUME NEW p \in Paths, Open(p) \/ SaveStarts(p) \/ \E d \in Ids : OpenSaved(p, d) PROVE file' = file
    BY <1>2 DEF Open, SaveStarts, OpenSaved, disk
  <1>3. CASE Edit \/ Promote \/ Close \/ LoopArms \/ LoopFires \/ BlurFires
    BY <1>3 DEF Edit, Promote, Close, LoopArms, LoopFires, BlurFires, disk
  <1>4. ASSUME NEW t \in Tasks, WriteAutosave(t) \/ WriteMarker(t) \/ WriteFails(t) \/ MarkerFails(t)
        PROVE  file' = file
    BY <1>4 DEF WriteAutosave, WriteMarker, WriteFails, MarkerFails, disk
  <1>5. CASE SaveBuilds \/ SaveClears \/ MarkSaved
    BY <1>5 DEF SaveBuilds, SaveClears, MarkSaved, disk
  <1>6. CASE Crash \/ Exit
    BY <1>6 DEF Crash, Exit, Launch
  <1> QED
    BY <1>1, <1>2, <1>3, <1>4, <1>5, <1>6 DEF Next, Loop, Autosave, Save, Tasks

(* A save that is under way was, to the same target, or has just started.  *)
LEMMA Saving ==
    ASSUME SaveInv, Next, ~Free'
    PROVE  \/ /\ ~Free /\ load["save"] # None /\ load'["save"].id = load["save"].id
              /\ load'["save"].path = load["save"].path
           \/ \E p \in Paths : SaveStarts(p)
  <1> DEFINE Goal == \/ /\ ~Free /\ load["save"] # None /\ load'["save"].id = load["save"].id
                        /\ load'["save"].path = load["save"].path
                     \/ \E p \in Paths : SaveStarts(p)
  <1> SUFFICES Goal
    OBVIOUS
  <1> USE DEF SaveInv, TypeInv, Free, Tasks
  <1>0. ~Free => load["save"] # None
    OBVIOUS
  <1>1. ASSUME NEW d \in Ids, NewDocument(d) \/ Restore(d) \/ DiscardOffer(d) PROVE Goal
    BY <1>0, <1>1 DEF NewDocument, Restore, DiscardOffer
  <1>2. ASSUME NEW p \in Paths, Open(p) \/ SaveStarts(p) \/ \E d \in Ids : OpenSaved(p, d) PROVE Goal
    BY <1>0, <1>2 DEF Open, OpenSaved
  <1>3. CASE Edit \/ Promote \/ Close \/ LoopArms \/ LoopFires \/ BlurFires
    BY <1>0, <1>3 DEF Edit, Promote, Close, LoopArms, LoopFires, BlurFires, Snapshot, Build
  <1>4. ASSUME NEW t \in Tasks, WriteAutosave(t) \/ WriteMarker(t) \/ WriteFails(t) \/ MarkerFails(t)
        PROVE  Goal
    BY <1>0, <1>4 DEF WriteAutosave, EnterLane, WriteMarker, WriteFails, MarkerFails, Leave
  <1>5. CASE SaveBuilds
    <2>1. CASE SameDocument
      <3>1. /\ load' = [load EXCEPT !["save"] = [load["save"] EXCEPT !.work = rt.work, !.rev = rt.rev]]
            /\ load["save"] \in Payloads /\ ~Free
        BY <1>5, <2>1 DEF SaveBuilds, Build
      <3>2. load'["save"].id = load["save"].id /\ load'["save"].path = load["save"].path
        BY <3>1 DEF Payloads
      <3> QED
        BY <1>0, <3>1, <3>2
    <2>2. CASE ~SameDocument
      BY <1>5, <2>2 DEF SaveBuilds, Leave
    <2> QED
      BY <2>1, <2>2
  <1>6. CASE SaveWrites \/ SaveClears
    BY <1>0, <1>6 DEF SaveWrites, EnterLane, SaveClears
  <1>7. CASE MarkSaved \/ Crash \/ Exit
    BY <1>7 DEF MarkSaved, Leave, Crash, Exit, Launch
  <1> QED
    <2> HIDE DEF Goal, SaveInv, TypeInv, Free
    <2> QED
      BY <1>1, <1>2, <1>3, <1>4, <1>5, <1>6, <1>7 DEF Next, Loop, Autosave, Save, Tasks

(* A save writes the only file of its document, unless it makes a copy.    *)
LEMMA AlikeStep ==
    ASSUME SaveInv, OfferInv, Next, ~May("copy")
    PROVE  Alike'
  <1>1. CASE SaveWrites
    <2>1. /\ file' = [file EXCEPT ![load["save"].path] = [id |-> load["save"].id, work |-> load["save"].work]]
          /\ load["save"].path \in Paths /\ ~Free /\ load' = load /\ at'["save"] = "wrote"
      BY <1>1 DEF SaveWrites, EnterLane, SaveInv, TypeInv, Free, Tasks
    <2> QED
      BY <2>1 DEF OfferInv, Alike, SaveInv, TypeInv
  <1>2. CASE ~SaveWrites
    <2>1. file' = file
      BY <1>2, Filing
    <2>2. ASSUME ~Free', NEW q \in Paths \ {load'["save"].path}, file[q] # None
          PROVE  file[q].id # load'["save"].id
      <3>1. CASE ~Free /\ load'["save"].id = load["save"].id /\ load'["save"].path = load["save"].path
        BY <2>2, <3>1 DEF OfferInv, Alike
      <3>2. ASSUME NEW p \in Paths, SaveStarts(p) PROVE file[q].id # load'["save"].id
        BY <2>2, <3>2 DEF SaveStarts, SaveInv, TypeInv, Tasks
      <3> QED
        BY <2>2, <3>1, <3>2, Saving
    <2> QED
      BY <2>1, <2>2 DEF OfferInv, Alike
  <1> QED
    BY <1>1, <1>2

(* Whoever queues behind a save carries what the save carries.             *)
LEMMA LaterStep ==
    ASSUME SaveInv, OfferInv, Next, ~May("late_arrival")
    PROVE  Later'
  <1>0. "save" \in Tasks /\ (load["save"] = None => at["save"] = "idle")
    BY DEF SaveInv, TypeInv, Tasks
  <1> SUFFICES ASSUME NEW t \in Tasks, Prior("save", t)', load'[t].id = load'["save"].id
               PROVE  load'["save"].work \subseteq load'[t].work
    BY DEF Later
  <1>1. CASE Prior("save", t) /\ load'["save"] = load["save"] /\ load'[t] = load[t]
    BY <1>1 DEF OfferInv, Later
  <1>2. CASE Busy("save") /\ load'["save"] = load["save"] /\ Arrived(t)
    BY <1>0, <1>2 DEF Arrived, OfferInv, UnderSave, Built, Busy, SameDocument
  <1>3. CASE Same("save", t) /\ Enters("save")
    BY <1>3 DEF Enters, Same
  <1> QED
    BY <1>0, <1>1, <1>2, <1>3, Pairs

(* A file is written with what is open or was, and an autosave older than  *)
(* it is cleared under the same lock.                                      *)
LEMMA CoveredStep ==
    ASSUME SaveInv, OfferInv, Next, ~May("torn_save"), ~May("reopen_mid_save"), ~May("late_arrival")
    PROVE  Covered'
  <1> USE DEF SaveInv, TypeInv
  <1>0. /\ "save" \in Tasks /\ \A u \in Tasks : u # None
        /\ \A u \in Tasks : at[u] = "wrote" <=> lane = u
        /\ Covered /\ Alike /\ Later /\ UnderSave
    BY SaveAssumption DEF LaneInv, Tasks, OfferInv
  <1>1. CASE SaveWrites
    <2>1. /\ file' = [file EXCEPT ![load["save"].path] = [id |-> load["save"].id, work |-> load["save"].work]]
          /\ load["save"].path \in Paths /\ Built /\ Busy("save")
          /\ at["save"] = "built" /\ lane = None /\ ahead["save"] = {}
          /\ load' = load /\ at' = [at EXCEPT !["save"] = "wrote"]
          /\ UNCHANGED <<auto, rt>>
      BY <1>1 DEF SaveWrites, EnterLane, Built, Busy, Tasks
    <2> SUFFICES ASSUME NEW p \in Paths, file'[p] # None
                 PROVE  /\ rt' # None /\ rt'.id = file'[p].id => file'[p].work \subseteq rt'.work
                        /\ \A t \in Tasks : Busy(t)' /\ load'[t].id = file'[p].id =>
                             file'[p].work \subseteq load'[t].work
                        /\ \/ auto'[file'[p].id] = None
                           \/ at'["save"] = "wrote" /\ load'["save"].id = file'[p].id
                           \/ file'[p].work \subseteq auto'[file'[p].id]
      BY DEF Covered
    <2>2. \A t \in Tasks : Busy(t)' <=> Busy(t)
      BY <2>1 DEF Busy
    <2>3. CASE p = load["save"].path
      <3>1. file'[p].id = load["save"].id /\ file'[p].work = load["save"].work
        BY <2>1, <2>3
      <3>2. rt # None /\ rt.id = load["save"].id => load["save"].work \subseteq rt.work
        BY <1>0, <2>1 DEF UnderSave, SameDocument
      <3>3. ASSUME NEW t \in Tasks, Busy(t), load[t].id = load["save"].id
            PROVE  load["save"].work \subseteq load[t].work
        <4>1. Prior("save", t) \/ load[t].work = load["save"].work
          BY <1>0, <2>1, <3>3 DEF LaneInv, Busy, Prior, Differs
        <4> QED
          BY <1>0, <3>3, <4>1 DEF Later
      <3>4. ASSUME NEW t \in Tasks, Busy(t)', load'[t].id = file'[p].id
            PROVE  file'[p].work \subseteq load'[t].work
        BY <2>1, <2>2, <3>1, <3>3, <3>4
      <3>5. at'["save"] = "wrote" /\ load'["save"].id = file'[p].id
        BY <1>0, <2>1, <3>1
      <3>6. rt' # None /\ rt'.id = file'[p].id => file'[p].work \subseteq rt'.work
        BY <2>1, <3>1, <3>2
      <3> QED
        BY <3>4, <3>5, <3>6
    <2>4. CASE p # load["save"].path
      <3>1. file'[p] = file[p] /\ at["save"] # "wrote"
        BY <2>1, <2>4
      <3> QED
        BY <1>0, <2>1, <2>2, <3>1 DEF Covered
    <2> QED
      BY <2>3, <2>4
  <1>2. CASE ~SaveWrites
    <2>1. file' = file
      BY <1>2, Filing
    <2> SUFFICES ASSUME NEW p \in Paths, file[p] # None
                 PROVE  /\ rt' # None /\ rt'.id = file[p].id => file[p].work \subseteq rt'.work
                        /\ \A t \in Tasks : Busy(t)' /\ load'[t].id = file[p].id =>
                             file[p].work \subseteq load'[t].work
                        /\ \/ auto'[file[p].id] = None
                           \/ at'["save"] = "wrote" /\ load'["save"].id = file[p].id
                           \/ file[p].work \subseteq auto'[file[p].id]
      BY <2>1 DEF Covered
    <2>2. /\ file[p].id \in Ids
          /\ rt # None /\ rt.id = file[p].id => file[p].work \subseteq rt.work
          /\ \A t \in Tasks : Busy(t) /\ load[t].id = file[p].id => file[p].work \subseteq load[t].work
          /\ \/ auto[file[p].id] = None
             \/ at["save"] = "wrote" /\ load["save"].id = file[p].id
             \/ file[p].work \subseteq auto[file[p].id]
      BY <1>0, Records DEF Covered
    <2>3. ASSUME NEW t \in Tasks, Busy(t)', load'[t].id = file[p].id
          PROVE  file[p].work \subseteq load'[t].work
      BY <2>2, <2>3, Queuers DEF Arrived
    <2>4. rt' # None /\ rt'.id = file[p].id => file[p].work \subseteq rt'.work
      <3>1. ASSUME NEW d \in Ids, NewDocument(d), rt'.id = file[p].id PROVE FALSE
        BY <3>1 DEF NewDocument, Fresh, Replace
      <3>2. ASSUME NEW d \in Ids, Restore(d), rt'.id = file[p].id PROVE file[p].work \subseteq rt'.work
        BY <2>2, <3>2 DEF Restore, Free
      <3>3. ASSUME NEW q \in Paths, Open(q) \/ \E d \in Ids : OpenSaved(q, d), rt'.id = file[p].id
            PROVE  file[p].work \subseteq rt'.work
        <4>1. rt' = Loaded(q) /\ file[q] # None
          BY <3>3 DEF Open, OpenSaved, Replace
        <4>2. file[q].id = file[p].id => file[q].work = file[p].work
          BY <1>0, <4>1 DEF Alike
        <4> QED
          BY <3>3, <4>1, <4>2 DEF Loaded
      <3>4. CASE Edit \/ Promote
        <4>1. rt # None /\ rt'.id = rt.id /\ rt'.work = rt.work \cup {made'}
          BY <3>4, Opened
        <4> QED
          BY <2>2, <4>1
      <3>5. CASE MarkSaved
        <4>1. rt # None => rt'.id = rt.id /\ rt'.work = rt.work
          BY <3>5, Opened
        <4>2. rt = None => rt' = None
          BY <3>5 DEF MarkSaved, SameDocument
        <4> QED
          BY <2>2, <4>1, <4>2
      <3>6. CASE rt' = rt \/ rt' = None
        BY <2>2, <3>6
      <3>7. ASSUME NEW d \in Ids, DiscardOffer(d) PROVE rt' = rt
        BY <3>7 DEF DiscardOffer
      <3>8. ASSUME NEW q \in Paths, SaveStarts(q) PROVE rt' = rt
        BY <3>8 DEF SaveStarts
      <3>9. ASSUME NEW t \in Tasks, WriteAutosave(t) \/ WriteMarker(t) \/ WriteFails(t) \/ MarkerFails(t)
            PROVE  rt' = rt
        BY <3>9 DEF WriteAutosave, WriteMarker, WriteFails, MarkerFails
      <3>10. CASE LoopArms \/ LoopFires \/ BlurFires \/ SaveBuilds \/ SaveClears
        BY <3>6, <3>10 DEF LoopArms, LoopFires, BlurFires, SaveBuilds, SaveClears
      <3>11. CASE Close \/ Crash \/ Exit
        BY <3>6, <3>11 DEF Close, Crash, Exit, Launch
      <3> QED
        <4> HIDE DEF SaveInv, TypeInv
        <4> QED
          BY <1>2, <3>1, <3>2, <3>3, <3>4, <3>5, <3>6, <3>7, <3>8, <3>9, <3>10, <3>11
          DEF Next, Loop, Autosave, Save, Tasks
    <2>5. \/ auto'[file[p].id] = None
          \/ at'["save"] = "wrote" /\ load'["save"].id = file[p].id
          \/ file[p].work \subseteq auto'[file[p].id]
      <3> DEFINE Goal == \/ auto'[file[p].id] = None
                         \/ at'["save"] = "wrote" /\ load'["save"].id = file[p].id
                         \/ file[p].work \subseteq auto'[file[p].id]
      <3> SUFFICES Goal
        OBVIOUS
      <3>1. CASE /\ auto'[file[p].id] = auto[file[p].id] \/ auto'[file[p].id] = None
                 /\ at["save"] = "wrote" => at'["save"] = "wrote" /\ load'["save"] = load["save"]
        BY <2>2, <3>1
      <3>2. ASSUME NEW d \in Ids, NewDocument(d) \/ Restore(d) \/ DiscardOffer(d) PROVE Goal
        BY <2>2, <3>1, <3>2 DEF NewDocument, Restore, DiscardOffer, ClearRecovery, disk
      <3>3. ASSUME NEW q \in Paths, Open(q) \/ SaveStarts(q) \/ \E d \in Ids : OpenSaved(q, d) PROVE Goal
        BY <2>2, <3>1, <3>3 DEF Open, OpenSaved, SaveStarts, disk
      <3>4. CASE Edit \/ Promote \/ Close
        BY <2>2, <3>1, <3>4 DEF Edit, Promote, Close, ClearRecovery, disk
      <3>5. CASE LoopArms \/ LoopFires \/ BlurFires
        <4>1. auto' = auto /\ at'["save"] = at["save"] /\ load'["save"] = load["save"]
          BY <3>5 DEF LoopArms, LoopFires, BlurFires, Snapshot, Build, disk, Tasks
        <4> QED
          BY <3>1, <4>1
      <3>6. ASSUME NEW t \in Tasks, WriteAutosave(t) PROVE Goal
        <4>1. /\ auto' = [auto EXCEPT ![load[t].id] = load[t].work] /\ Busy(t) /\ lane = None /\ t # "save"
              /\ load' = load /\ at'["save"] = at["save"]
          BY <3>6 DEF WriteAutosave, EnterLane, Busy
        <4>2. at["save"] # "wrote"
          BY <1>0, <4>1
        <4> QED
          BY <2>2, <4>1, <4>2
      <3>7. ASSUME NEW t \in Tasks, WriteMarker(t) \/ WriteFails(t) \/ MarkerFails(t) PROVE Goal
        <4>1. t # "save" \/ at["save"] # "wrote"
          BY <3>7 DEF WriteMarker, WriteFails, MarkerFails
        <4>2. at["save"] = "wrote" => at'["save"] = "wrote" /\ load'["save"] = load["save"]
          BY <1>0, <3>7, <4>1 DEF WriteMarker, WriteFails, MarkerFails, Leave
        <4>3. auto'[file[p].id] = auto[file[p].id] \/ auto'[file[p].id] = None
          BY <2>2, <3>7 DEF WriteMarker, WriteFails, MarkerFails, disk
        <4> QED
          BY <3>1, <4>2, <4>3
      <3>8. CASE SaveBuilds \/ MarkSaved
        BY <2>2, <3>8 DEF SaveBuilds, MarkSaved, disk
      <3>9. CASE SaveClears
        BY <1>0, <2>2, <3>9 DEF SaveClears, ClearRecovery
      <3>10. CASE Crash \/ Exit
        <4>1. at["save"] # "wrote" /\ (auto'[file[p].id] = auto[file[p].id] \/ auto'[file[p].id] = None)
          BY <2>2, <3>10 DEF Crash, Exit, Launch
        <4> QED
          BY <2>2, <4>1
      <3> QED
        <4> HIDE DEF SaveInv, TypeInv, Goal
        <4> QED
          BY <1>2, <3>2, <3>3, <3>4, <3>5, <3>6, <3>7, <3>8, <3>9, <3>10 DEF Next, Loop, Autosave, Save, Tasks
    <2> QED
      BY <2>3, <2>4, <2>5
  <1> QED
    BY <1>1, <1>2

(* Unless documents have copies, the process dies between a save's write   *)
(* and its clear, a document is opened while a save is under way, one that *)
(* is itself on offer is opened from another path, or a task reaches the   *)
(* lane past one that built other content of the document first, the file  *)
(* at the path an offer names is not newer than the container on offer:    *)
(* what open_document's refusal takes for granted.                         *)
THEOREM OfferIsNewest ==
    ASSUME ~May("copy"), ~May("torn_save"), ~May("reopen_mid_save"), ~May("blind_open"),
           ~May("late_arrival")
    PROVE  Spec => []OfferHoldsSavedWork
  <1>1. SaveInv /\ Init => OfferInv
    <2> SUFFICES ASSUME SaveInv, Init PROVE OfferInv
      OBVIOUS
    <2>1. \A p \in Paths : file[p] # None => file[p].work = {}
      <3>1. file \in [Paths -> [id : Ids, work : {{}}] \cup {None}]
        BY SaveAssumption DEF Init
      <3>2. \A c \in [id : Ids, work : {{}}] : c.work = {}
        OBVIOUS
      <3> QED
        BY <3>1, <3>2
    <2> QED
      BY <2>1 DEF SaveInv, TypeInv, Init, OfferInv, UnderSave, OffersApart, Alike, Later, Covered, Built, Free,
                  SameDocument, Tasks, Busy, Prior
  <1>2. SaveInv /\ OfferInv /\ [Next]_vars => OfferInv'
    <2> SUFFICES ASSUME SaveInv, OfferInv, [Next]_vars PROVE OfferInv'
      OBVIOUS
    <2>1. CASE Next
      BY <2>1, UnderSaveStep, OffersApartStep, AlikeStep, LaterStep, CoveredStep DEF OfferInv
    <2>2. CASE UNCHANGED vars
      BY <2>2 DEF OfferInv, UnderSave, OffersApart, Alike, Later, Covered, Built, Free, SameDocument, Busy, Prior, vars, disk,
                  process
    <2> QED
      BY <2>1, <2>2
  <1>3. SaveInv /\ OfferInv => OfferHoldsSavedWork
    <2> SUFFICES ASSUME SaveInv, OfferInv, NEW d \in Ids, NEW p \in Paths,
                        d \in Named(p), auto[d] # None, file[p] # None, file[p].id = d
                 PROVE  file[p].work \subseteq auto[d]
      BY DEF OfferHoldsSavedWork
    <2>1. CASE ~(at["save"] = "wrote" /\ load["save"].id = d)
      BY <2>1 DEF OfferInv, Covered
    <2>2. CASE at["save"] = "wrote" /\ load["save"].id = d
      <3>1. "save" \in Tasks /\ load["save"] # None /\ offers[d] # None
        BY <2>2 DEF SaveInv, TypeInv, Tasks, Named
      <3> QED
        BY <2>2, <3>1 DEF OfferInv, OffersApart
    <2> QED
      BY <2>1, <2>2
  <1> QED
    BY <1>1, <1>2, <1>3, SaveInvariance, PTL DEF Spec

=============================================================================
