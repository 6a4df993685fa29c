---------------------------- MODULE SaveRecovery ----------------------------
(***************************************************************************)
(* Saving, autosaving and crash recovery of the open document.             *)
(*                                                                         *)
(* The runtime lock makes each command's steps on the document atomic.     *)
(* Containers are written outside of it, by three tasks -- the debounced   *)
(* autosave loop, the flush on window blur, save_document -- which build   *)
(* what they write under the runtime lock, let go of that lock, and hold   *)
(* the persistence lane, a fair mutex, across one critical section each.   *)
(* A task may arrive at the lane at any time after it has built, so that   *)
(* any order of holders is an order of arrivals: the model has the holder  *)
(* and no queue.                                                           *)
(* close_document, confirm_exit and the discard of a recovery offer clear  *)
(* recovery state without the lane.  The process may be killed at any      *)
(* moment; the next launch offers what the autosave directory holds.       *)
(*                                                                         *)
(* A document's content is the set of edits it holds.                      *)
(***************************************************************************)
EXTENDS Naturals

CONSTANTS
    Ids,            \* document ids, the key of the autosave directory
    Paths,          \* places the user saves to
    None,
    InitFiles,      \* the files a run finds there
    MaxEdits,       \* bound: edits and promotions made
    MaxLaunches,    \* bound: launches of the application
    MaxFails,       \* bound: writes that fail
    Rare            \* the rare circumstances a run permits, a subset of:

RareKinds == {
    "copy",             \* saving a document that has a file under a second path
    "blind_open",       \* opening a file whose document has an offer of another name
    "torn_save",        \* dying between a save's write and its clear
    "promote_mid_save", \* promoting a pick while a save is under way
    "reopen_mid_save",  \* opening a document while a save is under way
    "marker_lost",      \* failing to replace the marker of an earlier autosave
    "late_arrival"      \* reaching the lane past a task that built other content first
    }

Tasks == {"loop", "blur", "save"}

Works      == SUBSET (1 .. MaxEdits)
Containers == [id : Ids, work : Works]
Markers    == [path : Paths \cup {None}]
Payloads   == [id : Ids, work : Works, rev : 0 .. MaxEdits, path : Paths \cup {None}]
Runtimes   == [id : Ids, work : Works, rev : 0 .. MaxEdits, path : Paths \cup {None}, dirty : BOOLEAN]

(* None is none of the values it stands in for.  A run starts from the      *)
(* files of an earlier one, which hold no edit of this run.                 *)
ASSUME SaveAssumption ==
    /\ None \notin Ids /\ None \notin Paths /\ None \notin Tasks
    /\ \A w \in Works : w # None
    /\ None \notin Containers /\ None \notin Markers
    /\ None \notin Payloads /\ None \notin Runtimes
    /\ MaxEdits \in Nat /\ MaxLaunches \in Nat /\ MaxFails \in Nat
    /\ InitFiles \subseteq [Paths -> [id : Ids, work : {{}}] \cup {None}]
    /\ Rare \subseteq RareKinds

VARIABLES
    \* on disk
    file,       \* path -> the container there: document id and content
    auto,       \* id -> content of autosave/<id>.onecad
    marker,     \* id -> the session marker beside it, with the document's path
    \* the process
    rt,         \* the open document's runtime
    offers,     \* pending recovery offers: id -> the path the offer names
    tick,       \* the autosave loop has not yet seen the last mutation
    at,         \* where each of the three tasks stands
    load,       \* what each of them carries: target and SavePayload
    lane,       \* the task that holds the persistence lane
    ahead,      \* task -> those that built other content before it and had no lane yet
    \* bookkeeping
    made,       \* edits so far
    launches, fails,
    promised    \* id -> edits that an AUTOSAVE event reported as protected

disk    == <<file, auto, marker>>
process == <<rt, offers, tick, at, load, lane, ahead>>
vars    == <<disk, process, made, launches, fails, promised>>

Free == at["save"] = "idle"

May(kind) == kind \in Rare

(* Some file of the document holds this work.                              *)
OnFile(d, work) == \E p \in Paths : file[p] # None /\ file[p].id = d /\ work \subseteq file[p].work

(* The user keeps nothing of what this document had unsaved.               *)
Released(d) == [promised EXCEPT ![d] = {}]

-----------------------------------------------------------------------------
(* Commands under the runtime lock.                                        *)

(* A new document: a fresh id, no path, clean.                             *)
Fresh(d) ==
    /\ \A p \in Paths : file[p] # None => file[p].id # d
    /\ auto[d] = None /\ marker[d] = None
    /\ rt # None => rt.id # d
    /\ \A t \in Tasks : load[t] # None => load[t].id # d

(* The unsaved-changes prompt of the frontend stands before every          *)
(* replacement: what the replaced document had unsaved is given up.        *)
Replace(new) ==
    /\ rt' = new
    /\ promised' = IF rt = None THEN promised ELSE Released(rt.id)

NewDocument(d) ==
    /\ Fresh(d)
    /\ Replace([id |-> d, work |-> {}, rev |-> 0, path |-> None, dirty |-> FALSE])
    /\ UNCHANGED <<disk, offers, tick, at, load, lane, ahead, made, launches, fails>>

(* apply_edit_command and its note_mutation.                               *)
Edit ==
    /\ rt # None /\ made < MaxEdits
    /\ made' = made + 1
    /\ rt' = [rt EXCEPT !.work = @ \cup {made'}, !.rev = @ + 1, !.dirty = TRUE]
    /\ tick' = TRUE
    /\ UNCHANGED <<disk, offers, at, load, lane, ahead, launches, fails, promised>>

(* promote_selection: persisted and dirty, but no revision of its own.     *)
Promote ==
    /\ rt # None /\ made < MaxEdits
    /\ Free \/ May("promote_mid_save")
    /\ made' = made + 1
    /\ rt' = [rt EXCEPT !.work = @ \cup {made'}, !.dirty = TRUE]
    /\ tick' = TRUE
    /\ UNCHANGED <<disk, offers, at, load, lane, ahead, launches, fails, promised>>

(* The file at p, opened: clean, at revision 0.                            *)
Loaded(p) == [id |-> file[p].id, work |-> file[p].work, rev |-> 0, path |-> p, dirty |-> FALSE]

Named(p) == {d \in Ids : offers[d] # None /\ offers[d].path = p}

(* Mutant of Open: the pending offers are not consulted.                   *)
OpenUnguarded(p) ==
    /\ file[p] # None
    /\ Free \/ May("reopen_mid_save")
    /\ Replace(Loaded(p))
    /\ UNCHANGED <<disk, offers, tick, at, load, lane, ahead, made, launches, fails>>

(* open_document without onRecovery: refused if an offer names the path.   *)
Open(p) ==
    /\ file[p] # None
    /\ Named(p) = {}
    /\ offers[file[p].id] = None \/ May("blind_open")
    /\ Free \/ May("reopen_mid_save")
    /\ Replace(Loaded(p))
    /\ UNCHANGED <<disk, offers, tick, at, load, lane, ahead, made, launches, fails>>

(* open_document with "openSaved": the user discards the offer first.      *)
OpenSaved(p, d) ==
    /\ file[p] # None
    /\ d \in Named(p)
    /\ offers[file[p].id] = None \/ file[p].id = d \/ May("blind_open")
    /\ Free \/ May("reopen_mid_save")
    /\ rt' = Loaded(p)
    /\ offers' = [offers EXCEPT ![d] = None]
    /\ auto' = [auto EXCEPT ![d] = None]
    /\ marker' = [marker EXCEPT ![d] = None]
    /\ promised' = [e \in Ids |-> IF e = d \/ (rt # None /\ rt.id = e) THEN {} ELSE promised[e]]
    /\ UNCHANGED <<file, tick, at, load, lane, ahead, made, launches, fails>>

(* recover_document(accept): open the container, re-stamp the marker.      *)
Restore(d) ==
    /\ offers[d] # None /\ auto[d] # None
    /\ Free \/ May("reopen_mid_save")
    /\ rt' = [id |-> d, work |-> auto[d], rev |-> 0, path |-> offers[d].path, dirty |-> TRUE]
    /\ promised' = IF rt = None \/ rt.id = d THEN promised ELSE Released(rt.id)
    /\ offers' = [offers EXCEPT ![d] = None]
    /\ marker' = [marker EXCEPT ![d] = offers[d]]
    /\ tick' = TRUE
    /\ UNCHANGED <<file, auto, at, load, lane, ahead, made, launches, fails>>

(* clear_recovery_state.                                                   *)
ClearRecovery(d) ==
    /\ auto' = [auto EXCEPT ![d] = None]
    /\ marker' = [marker EXCEPT ![d] = None]

(* recover_document(discard).                                              *)
DiscardOffer(d) ==
    /\ offers[d] # None
    /\ offers' = [offers EXCEPT ![d] = None]
    /\ ClearRecovery(d)
    /\ promised' = Released(d)
    /\ UNCHANGED <<file, rt, tick, at, load, lane, ahead, made, launches, fails>>

(* close_document, confirmed by the user if there were unsaved changes.    *)
Close ==
    /\ rt # None
    /\ rt' = None
    /\ ClearRecovery(rt.id)
    /\ promised' = Released(rt.id)
    /\ UNCHANGED <<file, offers, tick, at, load, lane, ahead, made, launches, fails>>

-----------------------------------------------------------------------------
(* The autosave tasks.                                                     *)

(* Different contents of one document.                                     *)
Differs(a, b) == a.id = b.id /\ a.work # b.work

(* Under the runtime lock, which is released with it.                      *)
Build(t, payload) ==
    /\ at' = [at EXCEPT ![t] = "built"]
    /\ load' = [load EXCEPT ![t] = payload]
    /\ ahead' = [ahead EXCEPT ![t] = {u \in Tasks : at[u] = "built" /\ Differs(load[u], payload)}]
    /\ UNCHANGED lane

(* The task is no longer between its payload and its critical section.     *)
Passed(t) == ahead' = [u \in Tasks |-> IF u = t THEN {} ELSE ahead[u] \ {t}]

(* From the payload into the critical section, in any order.               *)
EnterLane(t) ==
    /\ at[t] = "built" /\ lane = None
    /\ ahead[t] = {} \/ May("late_arrival")
    /\ at' = [at EXCEPT ![t] = "wrote"]
    /\ lane' = t
    /\ Passed(t)

(* The task is over; its guard of the lane, if it has it, is dropped.      *)
Leave(t) ==
    /\ at' = [at EXCEPT ![t] = "idle"]
    /\ load' = [load EXCEPT ![t] = None]
    /\ lane' = IF lane = t THEN None ELSE lane
    /\ Passed(t)

(* run: a mutation starts the debounce, another one restarts it.           *)
LoopArms ==
    /\ at["loop"] \in {"idle", "armed"} /\ tick
    /\ tick' = FALSE
    /\ at' = [at EXCEPT !["loop"] = "armed"]
    /\ UNCHANGED <<disk, rt, offers, load, lane, ahead, made, launches, fails, promised>>

(* autosave_current's first half, under the runtime lock.                  *)
Snapshot(t) ==
    IF rt # None /\ rt.dirty
    THEN Build(t, [id |-> rt.id, work |-> rt.work, rev |-> 0, path |-> rt.path])
    ELSE at' = [at EXCEPT ![t] = "idle"] /\ UNCHANGED <<load, lane, ahead>>

(* The debounce is over, or its deadline.                                  *)
LoopFires ==
    /\ at["loop"] = "armed"
    /\ Snapshot("loop")
    /\ UNCHANGED <<disk, rt, offers, tick, made, launches, fails, promised>>

(* The window loses focus.                                                 *)
BlurFires ==
    /\ at["blur"] = "idle"
    /\ rt # None /\ rt.dirty
    /\ Snapshot("blur")
    /\ UNCHANGED <<disk, rt, offers, tick, made, launches, fails, promised>>

(* Its second half, holding the lane: first the container...               *)
WriteAutosave(t) ==
    /\ t # "save"
    /\ EnterLane(t)
    /\ auto' = [auto EXCEPT ![load[t].id] = load[t].work]
    /\ UNCHANGED <<file, marker, rt, offers, tick, load, made, launches, fails, promised>>

(* The event concerns the open document if it is still the one the         *)
(* snapshot was taken of; work that was saved meanwhile needs no promise.  *)
Concerns(t) ==
    /\ rt # None /\ rt.id = load[t].id /\ load[t].work \subseteq rt.work
    /\ ~OnFile(rt.id, load[t].work)

(* Mutant of WriteMarker: the loop takes ticks that came meanwhile as seen.*)
WriteMarkerSeesTicks(t) ==
    /\ t # "save" /\ at[t] = "wrote"
    /\ marker' = [marker EXCEPT ![load[t].id] = [path |-> load[t].path]]
    /\ Leave(t)
    /\ promised' = IF Concerns(t) THEN [promised EXCEPT ![rt.id] = load[t].work] ELSE promised
    /\ tick' = FALSE
    /\ UNCHANGED <<file, auto, rt, offers, made, launches, fails>>

(* ... then the marker, and the AUTOSAVE event.                            *)
WriteMarker(t) ==
    /\ t # "save" /\ at[t] = "wrote"
    /\ marker' = [marker EXCEPT ![load[t].id] = [path |-> load[t].path]]
    /\ Leave(t)
    /\ promised' = IF Concerns(t) THEN [promised EXCEPT ![rt.id] = load[t].work] ELSE promised
    /\ UNCHANGED <<file, auto, rt, offers, tick, made, launches, fails>>

(* The marker cannot be written: the container is taken back.              *)
MarkerFails(t) ==
    /\ t # "save" /\ at[t] = "wrote" /\ fails < MaxFails
    /\ promised[load[t].id] = {} \/ May("marker_lost")
    /\ auto' = [auto EXCEPT ![load[t].id] = None]
    /\ Leave(t)
    /\ fails' = fails + 1
    /\ UNCHANGED <<file, marker, rt, offers, tick, made, launches, promised>>

(* Mutant of WriteFails: a failed save clears the recovery state as well.  *)
WriteFailsClears(t) ==
    /\ at[t] = "built" /\ (t = "save" => lane = None) /\ fails < MaxFails
    /\ Leave(t)
    /\ fails' = fails + 1
    /\ IF t = "save" THEN ClearRecovery(load[t].id) ELSE UNCHANGED <<auto, marker>>
    /\ UNCHANGED <<file, rt, offers, tick, made, launches, promised>>

(* Mutant of WriteFails: the lane is not given back.                       *)
WriteFailsHoldsLane(t) ==
    /\ at[t] = "built" /\ lane = None /\ fails < MaxFails
    /\ at' = [at EXCEPT ![t] = "idle"]
    /\ load' = [load EXCEPT ![t] = None]
    /\ lane' = t
    /\ Passed(t)
    /\ fails' = fails + 1
    /\ UNCHANGED <<disk, rt, offers, tick, made, launches, promised>>

(* A container cannot be written, or the directory for an autosave cannot  *)
(* be created, which needs no lane: the target stays, nothing is cleared.  *)
WriteFails(t) ==
    /\ at[t] = "built" /\ (t = "save" => lane = None) /\ fails < MaxFails
    /\ Leave(t)
    /\ fails' = fails + 1
    /\ UNCHANGED <<disk, rt, offers, tick, made, launches, promised>>

-----------------------------------------------------------------------------
(* save_document.  One at a time; its five phases.                         *)

(* 1: the target is resolved.  A path other than the document's own, or    *)
(* any path for a document without one, is Save As.                        *)
SaveStarts(p) ==
    /\ at["save"] = "idle" /\ rt # None
    /\ (\E q \in Paths \ {p} : file[q] # None /\ file[q].id = rt.id) => May("copy")
    /\ at' = [at EXCEPT !["save"] = "admitted"]
    /\ load' = [load EXCEPT !["save"] = [id |-> rt.id, work |-> {}, rev |-> 0, path |-> p]]
    /\ UNCHANGED <<disk, rt, offers, tick, lane, ahead, made, launches, fails, promised>>

SameDocument == rt # None /\ rt.id = load["save"].id

(* 3: the payload and the revision it describes.                           *)
SaveBuilds ==
    /\ at["save"] = "admitted"
    /\ IF SameDocument
       THEN Build("save", [load["save"] EXCEPT !.work = rt.work, !.rev = rt.rev])
       ELSE Leave("save")
    /\ UNCHANGED <<disk, rt, offers, tick, made, launches, fails, promised>>

(* 4: holding the lane, the container -- an atomic replacement ...         *)
SaveWrites ==
    /\ EnterLane("save")
    /\ file' = [file EXCEPT ![load["save"].path] = [id |-> load["save"].id, work |-> load["save"].work]]
    /\ promised' = IF promised[load["save"].id] \subseteq load["save"].work
                   THEN Released(load["save"].id) ELSE promised
    /\ UNCHANGED <<auto, marker, rt, offers, tick, load, made, launches, fails>>

(* Mutant of SaveClears: the recovery state outlives the save.             *)
SaveKeepsRecovery ==
    /\ at["save"] = "wrote"
    /\ at' = [at EXCEPT !["save"] = "cleared"]
    /\ lane' = None
    /\ UNCHANGED <<disk, rt, offers, tick, load, ahead, made, launches, fails, promised>>

(* ... and the document's recovery state.                                  *)
SaveClears ==
    /\ at["save"] = "wrote"
    /\ ClearRecovery(load["save"].id)
    /\ at' = [at EXCEPT !["save"] = "cleared"]
    /\ lane' = None
    /\ UNCHANGED <<file, rt, offers, tick, load, ahead, made, launches, fails, promised>>

(* Mutant of MarkSaved: clean, whatever was edited meanwhile.              *)
MarkSavedAnyway ==
    /\ at["save"] = "cleared"
    /\ rt' = IF SameDocument THEN [rt EXCEPT !.path = load["save"].path, !.dirty = FALSE] ELSE rt
    /\ Leave("save")
    /\ UNCHANGED <<disk, offers, tick, made, launches, fails, promised>>

(* 5: adopt the path; clean only if the revision is still the payload's.   *)
MarkSaved ==
    /\ at["save"] = "cleared"
    /\ rt' = IF SameDocument
             THEN [rt EXCEPT !.path = load["save"].path,
                             !.dirty = @ /\ rt.rev # load["save"].rev]
             ELSE rt
    /\ Leave("save")
    /\ UNCHANGED <<disk, offers, tick, made, launches, fails, promised>>

-----------------------------------------------------------------------------
(* The process ends, and the next launch scans the autosave directory: no  *)
(* marker there has a living owner, so every container is on offer, under  *)
(* the path its marker names if there is one.                              *)
Launch(a, m) ==
    /\ launches < MaxLaunches
    /\ launches' = launches + 1
    /\ auto' = a
    /\ marker' = m
    /\ offers' = [d \in Ids |-> IF a[d] = None THEN None
                                ELSE IF m[d] = None THEN [path |-> None] ELSE m[d]]
    /\ rt' = None
    /\ tick' = FALSE
    /\ at' = [t \in Tasks |-> "idle"]
    /\ load' = [t \in Tasks |-> None]
    /\ lane' = None
    /\ ahead' = [t \in Tasks |-> {}]
    /\ UNCHANGED <<file, made, fails>>

Crash ==
    /\ at["save"] # "wrote" \/ May("torn_save")
    /\ Launch(auto, marker)
    /\ UNCHANGED promised

(* confirm_exit, after the same prompt.                                    *)
Exit ==
    /\ at["save"] # "wrote" \/ May("torn_save")
    /\ IF rt = None
       THEN Launch(auto, marker) /\ UNCHANGED promised
       ELSE /\ Launch([auto EXCEPT ![rt.id] = None], [marker EXCEPT ![rt.id] = None])
            /\ promised' = Released(rt.id)

-----------------------------------------------------------------------------
(* The first launch: some documents on disk, nothing to recover.           *)
Init ==
    /\ file \in InitFiles
    /\ auto = [d \in Ids |-> None] /\ marker = [d \in Ids |-> None]
    /\ rt = None
    /\ offers = [d \in Ids |-> None]
    /\ tick = FALSE
    /\ at = [t \in Tasks |-> "idle"] /\ load = [t \in Tasks |-> None] /\ lane = None
    /\ ahead = [t \in Tasks |-> {}]
    /\ made = 0 /\ launches = 0 /\ fails = 0
    /\ promised = [d \in Ids |-> {}]

Autosave(t) == WriteAutosave(t) \/ WriteMarker(t)

Loop == LoopArms \/ LoopFires \/ Autosave("loop")

Save == SaveBuilds \/ SaveWrites \/ SaveClears \/ MarkSaved

Next ==
    \/ \E d \in Ids : NewDocument(d) \/ Restore(d) \/ DiscardOffer(d)
    \/ Edit \/ Promote \/ Close
    \/ \E p \in Paths : Open(p) \/ SaveStarts(p) \/ \E d \in Ids : OpenSaved(p, d)
    \/ Loop \/ BlurFires \/ Autosave("blur") \/ Save
    \/ \E t \in Tasks : WriteFails(t) \/ MarkerFails(t)
    \/ Crash \/ Exit

(* The three tasks run on a fair runtime.  Nobody has to edit, to save, to *)
(* blur, to close or to crash; and no task is promised the lane for as     *)
(* long as others find it free first, though a fair mutex would.           *)
Spec == Init /\ [][Next]_vars /\ WF_vars(Loop) /\ WF_vars(Autosave("blur")) /\ WF_vars(Save)

-----------------------------------------------------------------------------
(* Properties.                                                             *)

(* Every variable holds a value of its kind; whoever is inside its         *)
(* critical section holds the lane, and nobody else does.                  *)
SaveTypeOK ==
    /\ \A p \in Paths : file[p] # None => file[p].id \in Ids /\ file[p].work \in Works
    /\ \A d \in Ids : auto[d] = None \/ auto[d] \in Works
    /\ \A d \in Ids : promised[d] \in Works
    /\ rt = None \/ rt \in Runtimes
    /\ \A t \in Tasks : load[t] = None \/ load[t] \in Payloads
    /\ tick \in BOOLEAN
    /\ \A t \in Tasks : at[t] = "wrote" <=> lane = t
    /\ \A t \in Tasks : ahead[t] \subseteq {u \in Tasks : at[u] = "built"}
    /\ \A t \in Tasks : (at[t] \in {"idle", "armed"}) <=> (load[t] = None)

(* is_dirty is the authority on unsaved work: a clean document with a path *)
(* is what the file at that path holds.                                    *)
CleanMeansSaved ==
    rt # None /\ ~rt.dirty /\ rt.path # None
        => file[rt.path] = [id |-> rt.id, work |-> rt.work]

(* What open_document's refusal takes for granted: when an offer names a   *)
(* path, the file there is not newer than the container on offer.          *)
OfferHoldsSavedWork ==
    \A d \in Ids, p \in Paths :
        d \in Named(p) /\ auto[d] # None /\ file[p] # None /\ file[p].id = d
            => file[p].work \subseteq auto[d]

(* Work that an AUTOSAVE event reported as protected stays on disk until   *)
(* the user saves it, or gives it up at a prompt.                          *)
NothingLost ==
    \A d \in Ids :
        \/ promised[d] = {}
        \/ auto[d] # None /\ promised[d] \subseteq auto[d]
        \/ OnFile(d, promised[d])

(* A pending offer stands for work the user has not decided about yet: all *)
(* of it is still in the container (open_document's recovery guard).       *)
OfferIntact ==
    \A d \in Ids :
        offers[d] # None /\ promised[d] # {} => auto[d] # None /\ promised[d] \subseteq auto[d]

AtRisk(n) ==
    /\ rt # None /\ n \in rt.work
    /\ auto[rt.id] = None \/ n \notin auto[rt.id]
    /\ ~OnFile(rt.id, {n})

(* Unless writes fail, no edit of the open document stays without a copy   *)
(* on disk, whatever saves and edits keep coming.                          *)
EventuallyProtected == \A n \in 1 .. MaxEdits : []<>(~AtRisk(n) \/ fails > 0)
=============================================================================
