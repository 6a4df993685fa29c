--------------------------- MODULE RegenPipeline ---------------------------
(***************************************************************************)
(* From an edit to the model on screen.                                    *)
(*                                                                         *)
(* Four actors share the state below.  Tauri commands edit the document    *)
(* under the runtime lock (DocumentRuntime::apply) and then, with the lock *)
(* released, hand a regen request to the scheduler.  The scheduler keeps   *)
(* one job in flight and one request pending, the latest.  The job -- the  *)
(* driver -- compiles a plan under the lock, drives the worker without it  *)
(* and commits under it again.  The worker (KernelSession) serves its      *)
(* queue in order and may be killed and replaced at any moment, upon which *)
(* a restart hook adopts the new epoch and asks for a full rebuild.  A     *)
(* fifth actor saves checkpoints of the worker's head.                     *)
(*                                                                         *)
(* A request [kind, at] is RegenRequest::ToEnd ("end") or ToStep ("step"). *)
(***************************************************************************)
EXTENDS KernelSession

CONSTANTS
    NoRequest, NoPlan, NoReply, NoSnap, NoTicket,
    InitDocs,           \* the documents a run opens
    MaxRev,             \* bound: edits
    MaxOutbox,          \* bound: commands between their two halves
    InOrder,            \* commands reach the scheduler in commit order
    EditKinds,          \* the commands a run may issue
    EditAboveBar,       \* edits may address records above the rollback bar
    Minting             \* checkpoints are saved

Requests == [kind : {"end", "step"}, at : 1 .. MaxLen + 1]

(* A committed snapshot: its bodies, the plan's last step, the steps it    *)
(* ran, and the revision and epoch it was current at.                      *)
Snapshots == [geom : Slices, upto : Nat, steps : Slices, rev : Nat, epoch : Nat]

(* A compiled plan: the fence it was cut under, the timeline it was cut    *)
(* from, the end of its slice, its base and the artifacts stored there,    *)
(* the steps the worker reported, and whether it only clears the screen.   *)
Plans ==
    [job : Jobs, rev : Nat, epoch : Nat, recs : Timelines, cursor : Nat, target : Nat,
     base : Nat, art : States, steps : Slices, clear : BOOLEAN]

ASSUME PipelineAssumption ==
    /\ InitDocs \subseteq Timelines
    /\ MaxRev \in Nat /\ MaxOutbox \in Nat
    /\ 1 .. MaxLen \subseteq Steps
    /\ NoRequest \notin Requests /\ NoSnap \notin Snapshots
    /\ NoTicket \notin [step : Nat, rev : Nat, epoch : Nat]
    /\ NoPlan \notin Plans /\ NoReply \notin [ok : BOOLEAN]

VARIABLES
    \* DocumentRuntime
    doc, cursor,        \* the session's timeline: records, applied prefix
    rev, epoch,         \* FencingCell: document revision, adopted worker epoch
    mirror,             \* regen.timeline, the copy plans are compiled from
    snap,               \* latest_snapshot with the revision it was committed at
    store,              \* the checkpoint store: step -> geometry and prefix hash
    \* commands and hooks on their way to the scheduler
    outbox, hooks,
    \* RegenScheduler and the job in flight
    pend, phase, req, cancelled, plan, after, outcome, reply,
    \* WorkerManager: connected to a live worker, and that worker's queue
    up, wq,
    \* save_document / mint_rollback_checkpoint
    ticket, saveReply

docVars   == <<doc, cursor, rev, mirror>>
shownVars == <<epoch, snap>>
sendVars  == <<outbox, hooks>>
schedVars == <<pend, req, cancelled>>
jobVars   == <<phase, plan, after, outcome, reply>>
mintVars  == <<ticket, saveReply>>
vars == <<docVars, shownVars, store, sendVars, schedVars, jobVars, up, wq, mintVars, sessionVars>>

ToEnd(i)  == [kind |-> "end", at |-> i]
ToStep(i) == [kind |-> "step", at |-> i]

Larger(a, b)  == IF a > b THEN a ELSE b
Smaller(a, b) == IF a < b THEN a ELSE b

(* What the viewport draws.                                                *)
Shown == IF snap = NoSnap THEN {} ELSE snap.geom

-----------------------------------------------------------------------------
(* Edits.                                                                  *)

(* Keep only the checkpoints below the dirty floor.                        *)
Evict(floor) == [s \in {t \in DOMAIN store : t < floor} |-> store[s]]

MayEdit(kind) == kind \in EditKinds /\ rev < MaxRev /\ Len(outbox) < MaxOutbox

(* DocumentRuntime::apply and after_mutation: the document changes, the    *)
(* mirror is rebuilt, the revision moves.                                  *)
Mutate(d, c) ==
    /\ doc' = d
    /\ cursor' = c
    /\ mirror' = [recs |-> d, cursor |-> c]
    /\ rev' = rev + 1
    /\ UNCHANGED <<shownVars, hooks, schedVars, jobVars, up, wq, mintVars, sessionVars>>

Post(r) == outbox' = Append(outbox, r)

Editable(i) == i \in DOMAIN doc /\ (EditAboveBar \/ i <= cursor)

(* The parameters of a suppressed record may be edited; it stays off.      *)
UpdateParams(i, op) ==
    /\ MayEdit("params")
    /\ Editable(i)
    /\ Mutate([doc EXCEPT ![i] = IF @ = Suppressed THEN Suppressed ELSE op], cursor)
    /\ store' = Evict(i)
    /\ Post(ToEnd(i))

SetSuppression(i, r) ==
    /\ MayEdit("suppress")
    /\ Editable(i)
    /\ (doc[i] = Suppressed) # (r = Suppressed)
    /\ Mutate([doc EXCEPT ![i] = r], cursor)
    /\ store' = Evict(i)
    /\ Post(ToEnd(i))

(* AddOperation at the rollback bar, which moves up past it.               *)
AddAtCursor(op) ==
    /\ MayEdit("add")
    /\ Len(doc) < MaxLen
    /\ Mutate(SubSeq(doc, 1, cursor) \o <<op>> \o SubSeq(doc, cursor + 1, Len(doc)), cursor + 1)
    /\ store' = Evict(cursor + 1)
    /\ Post(ToEnd(cursor + 1))

(* AddOperation at the end while rolled back: parked, no regen is asked.   *)
AppendParked(op) ==
    /\ MayEdit("park")
    /\ Len(doc) < MaxLen
    /\ cursor < Len(doc)
    /\ Mutate(Append(doc, op), cursor)
    /\ store' = Evict(Len(doc) + 1)
    /\ UNCHANGED outbox

WithoutStep(i) == SubSeq(doc, 1, i - 1) \o SubSeq(doc, i + 1, Len(doc))

(* RemoveOperation.                                                        *)
RemoveStep(i) ==
    /\ MayEdit(IF i = cursor THEN "remove_top" ELSE "remove")
    /\ Editable(i)
    /\ Mutate(WithoutStep(i), IF i <= cursor THEN cursor - 1 ELSE cursor)
    /\ store' = Evict(i)
    /\ Post(ToEnd(i))

(* Undo of an append: revert_report clamps the request into the prefix.    *)
UndoAppend ==
    /\ MayEdit("undo")
    /\ cursor > 0 /\ cursor = Len(doc)
    /\ Mutate(WithoutStep(cursor), cursor - 1)
    /\ store' = Evict(cursor)
    /\ Post(ToEnd(Larger(cursor - 1, 1)))

(* SetRollback: cursor motion evicts nothing.                              *)
SetRollback(c) ==
    /\ MayEdit("rollback")
    /\ c # cursor
    /\ Mutate(doc, c)
    /\ Post(ToStep(Larger(c, 1)))
    /\ UNCHANGED store

(* A rename or visibility change: a revision, no dirty range, no regen.    *)
MetaEdit ==
    /\ MayEdit("meta")
    /\ Mutate(doc, cursor)
    /\ UNCHANGED <<store, outbox>>

Edit ==
    \/ \E i \in 1 .. MaxLen, op \in Ops : UpdateParams(i, op)
    \/ \E i \in 1 .. MaxLen, r \in Records : SetSuppression(i, r)
    \/ \E op \in Ops : AddAtCursor(op) \/ AppendParked(op)
    \/ \E i \in 1 .. MaxLen : RemoveStep(i)
    \/ UndoAppend
    \/ \E c \in 0 .. Len(doc) : SetRollback(c)
    \/ MetaEdit

-----------------------------------------------------------------------------
(* The scheduler: single in-flight job, latest request wins.               *)

(* The second half of a command: SchedulerHandle::handle, then on_request. *)
(* Whatever was pending is replaced, and the running job is told to stop.  *)
Deliver(i) ==
    /\ i \in DOMAIN outbox
    /\ InOrder => i = 1
    /\ pend' = outbox[i]
    /\ outbox' = SubSeq(outbox, 1, i - 1) \o SubSeq(outbox, i + 1, Len(outbox))
    /\ cancelled' = (phase # "idle")
    /\ UNCHANGED <<docVars, shownVars, store, hooks, req, jobVars, up, wq, mintVars, sessionVars>>

(* try_start.  The debounce of a ToStep is time, and left out.             *)
StartJob ==
    /\ phase = "idle" /\ pend # NoRequest
    /\ req' = pend
    /\ pend' = NoRequest
    /\ phase' = "begin"
    /\ UNCHANGED <<docVars, shownVars, store, sendVars, cancelled,
                   plan, after, outcome, reply, up, wq, mintVars, sessionVars>>

(* Mutant of EndJob: the request of the finished job stays behind.         *)
EndJobKeepsRequest ==
    /\ phase' = "idle"
    /\ cancelled' = FALSE
    /\ plan' = NoPlan
    /\ after' = "none"
    /\ outcome' = "none"
    /\ reply' = NoReply
    /\ UNCHANGED <<pend, req>>

(* The job's future is gone, however it ended.                             *)
EndJob ==
    /\ phase' = "idle"
    /\ req' = NoRequest
    /\ cancelled' = FALSE
    /\ plan' = NoPlan
    /\ after' = "none"
    /\ outcome' = "none"
    /\ reply' = NoReply
    /\ UNCHANGED pend

(* on_cancel_timeout: five seconds after the cancel the scheduler drops a  *)
(* future that still waits, on the worker or on the runtime lock.  A future*)
(* waiting for the plan's answer reacts to the cancel itself (CancelSeen)  *)
(* and is past its two-second drain by then.                               *)
Abandon ==
    /\ cancelled
    /\ phase \in {"begin", "restore", "accept", "discard", "driven"}
    /\ EndJob
    /\ UNCHANGED <<docVars, shownVars, store, sendVars, up, wq, mintVars, sessionVars>>

-----------------------------------------------------------------------------
(* begin_regen, under the lock: compile a plan from the mirror.            *)

Applied == mirror.cursor

Target == IF req.kind = "step" THEN Smaller(req.at, Applied) ELSE Applied

(* The planner finds nothing to do past the applied prefix.                *)
PastEnd == req.at > Applied

(* Mutant of Usable: a checkpoint at the requested step will do.           *)
UsableAtStep == {s \in DOMAIN store : s <= req.at /\ store[s].hash = Lines(mirror.recs, 1, s)}

(* The bases on offer: replay from zero, or a checkpoint strictly below    *)
(* the requested step whose hash is the prefix's.  Which of them is taken  *)
(* also depends on envelopes and on where sketches are, so any may be.     *)
Usable == {s \in DOMAIN store : s < req.at /\ store[s].hash = Lines(mirror.recs, 1, s)}

PlannedFrom(base) == Lines(mirror.recs, base + 1, Target)

EmptyPlan == PastEnd \/ \E base \in Usable \cup {0} : PlannedFrom(base) = {}

(* Mutant of NothingLeft: only a request from the first step may clear.    *)
NothingLeftFromBase == req.at = 1 /\ Lines(mirror.recs, 1, IF PastEnd THEN Applied ELSE Target) = {}

(* fully_suppressed_target: the empty plan means "no geometry".            *)
NothingLeft == Lines(mirror.recs, 1, IF PastEnd THEN Applied ELSE Target) = {}

JobsInUse ==
    {wq[i].job : i \in {j \in DOMAIN wq : wq[j].kind # "Save"}}
        \cup (IF scratch = NoScratch THEN {} ELSE {scratch.job})

FreshJob == CHOOSE j \in Jobs : j \notin JobsInUse

(* base: the step restored from, 0 for none; art: its stored artifacts.    *)
PlanFor(base) ==
    [job |-> FreshJob, rev |-> rev, epoch |-> epoch,
     recs |-> mirror.recs, cursor |-> Applied, target |-> Target, base |-> base,
     art |-> IF base = 0 THEN EmptyHead ELSE store[base],
     steps |-> {}, clear |-> FALSE]

Message(kind, p) ==
    [kind |-> kind, job |-> p.job, epoch |-> p.epoch, cancel |-> FALSE,
     step |-> p.base, base |-> p.art.hash,
     ops |-> Lines(p.recs, p.base + 1, p.target)]

Send(m) == wq' = Append(wq, m)

BeginPlan(base) ==
    /\ phase = "begin"
    /\ ~PastEnd
    /\ base \in Usable \cup {0}
    /\ PlannedFrom(base) # {}
    /\ Jobs \ JobsInUse # {}
    /\ plan' = PlanFor(base)
    /\ phase' = IF base = 0 THEN "execute" ELSE "restore"
    /\ Send(Message(IF base = 0 THEN "Execute" ELSE "Restore", PlanFor(base)))
    /\ UNCHANGED <<docVars, shownVars, store, sendVars, schedVars,
                   after, outcome, reply, up, mintVars, sessionVars>>

(* prepare_clear_regen: publish "no geometry" without asking the worker.   *)
BeginClear ==
    /\ phase = "begin"
    /\ EmptyPlan /\ NothingLeft /\ Shown # {}
    /\ Jobs \ JobsInUse # {}
    /\ plan' = [PlanFor(0) EXCEPT !.clear = TRUE,
                                  !.target = IF PastEnd THEN Applied ELSE Target]
    /\ phase' = "clear"
    /\ UNCHANGED <<docVars, shownVars, store, sendVars, schedVars,
                   after, outcome, reply, up, wq, mintVars, sessionVars>>

(* An empty plan otherwise ends the job: Outcome::NoOp.                    *)
BeginNothing ==
    /\ phase = "begin"
    /\ EmptyPlan
    /\ ~(NothingLeft /\ Shown # {})
    /\ EndJob
    /\ UNCHANGED <<docVars, shownVars, store, sendVars, up, wq, mintVars, sessionVars>>

-----------------------------------------------------------------------------
(* PreparedRegen::drive and RegenExecutor, without the lock.               *)

DriverOnly ==
    UNCHANGED <<docVars, shownVars, store, sendVars, schedVars, up, mintVars, sessionVars>>

(* The answer is consumed and the next request goes out.                   *)
SendNext(next, m) ==
    /\ phase' = next
    /\ reply' = NoReply
    /\ Send(m)
    /\ DriverOnly

(* Every way out of a drive that does not publish discards first.          *)
GiveUp(then) ==
    /\ SendNext("discard", Message("Discard", plan))
    /\ after' = then
    /\ UNCHANGED <<plan, outcome>>

RestoreAnswered ==
    /\ phase = "restore" /\ reply # NoReply
    /\ IF reply.ok
       THEN SendNext("execute", Message("Execute", plan)) /\ UNCHANGED <<plan, after, outcome>>
       ELSE GiveUp("retry")

(* Terminal::Failed or a closed stream: a plan that stood on a checkpoint  *)
(* and produced no step is tried again from zero.                          *)
PlanFailed ==
    /\ phase = "execute" /\ reply # NoReply /\ ~reply.ok
    /\ GiveUp(IF plan.base # 0 /\ ~reply.sawStep THEN "retry" ELSE "failed")

(* Mutant of Current: only the worker epoch is fenced.                     *)
CurrentEpoch == epoch = plan.epoch

(* on_prepared: cancel first, then the prefix echo, then the fence.        *)
Current == <<rev, epoch>> = <<plan.rev, plan.epoch>>

EchoMatches == reply.hash = plan.art.hash \cup reply.steps

PlanPrepared ==
    /\ phase = "execute" /\ reply # NoReply /\ reply.ok
    /\ IF ~cancelled /\ EchoMatches /\ Current
       THEN /\ SendNext("accept", Message("Accept", plan))
            /\ plan' = [plan EXCEPT !.steps = reply.steps]
            /\ UNCHANGED <<after, outcome>>
       ELSE GiveUp(IF cancelled THEN "cancelled" ELSE IF EchoMatches THEN "superseded" ELSE "failed")

(* Mutant of CancelSeen: the cancelled job returns without a discard.      *)
CancelWithoutDiscard ==
    /\ phase = "execute" /\ cancelled /\ reply = NoReply
    /\ phase' = "driven"
    /\ outcome' = "cancelled"
    /\ wq' = [i \in DOMAIN wq |-> [wq[i] EXCEPT !.cancel = @ \/ wq[i].job = plan.job]]
    /\ UNCHANGED <<plan, after, reply>>
    /\ DriverOnly

(* cancel_path: a cancel observed while the stream is open.  The Cancel    *)
(* frame overtakes the queue and flags the plan; the Discard follows after *)
(* the drain, two seconds at most, whether or not the plan has answered.   *)
CancelSeen ==
    /\ phase = "execute" /\ cancelled /\ reply = NoReply
    /\ phase' = "discard"
    /\ after' = "cancelled"
    /\ wq' = Append([i \in DOMAIN wq |-> [wq[i] EXCEPT !.cancel = @ \/ wq[i].job = plan.job]],
                    Message("Discard", plan))
    /\ UNCHANGED <<plan, outcome, reply>>
    /\ DriverOnly

AcceptAnswered ==
    /\ phase = "accept" /\ reply # NoReply
    /\ IF reply.ok
       THEN /\ phase' = "driven"
            /\ outcome' = "published"
            /\ reply' = NoReply
            /\ UNCHANGED <<plan, after, wq>>
            /\ DriverOnly
       ELSE GiveUp("failed")

(* A retry replays the same prefix from zero.                              *)
FromZero == [plan EXCEPT !.base = 0, !.art = EmptyHead]

DiscardAnswered ==
    /\ phase = "discard" /\ reply # NoReply
    /\ after' = "none"
    /\ IF after = "retry"
       THEN /\ plan' = FromZero
            /\ SendNext("execute", Message("Execute", FromZero))
            /\ UNCHANGED outcome
       ELSE /\ phase' = "driven"
            /\ outcome' = after
            /\ reply' = NoReply
            /\ UNCHANGED <<plan, wq>>
            /\ DriverOnly

(* drive_clear.                                                            *)
DriveClear ==
    /\ phase = "clear"
    /\ phase' = "driven"
    /\ outcome' = IF cancelled THEN "cancelled" ELSE "published"
    /\ UNCHANGED <<plan, after, reply, wq>>
    /\ DriverOnly

(* The bodies a published drive hands back: the restored artifacts and the *)
(* buffered steps.                                                         *)
Folded == IF plan.clear THEN {} ELSE plan.art.geom \cup plan.steps

(* finish_regen, under the lock again: commit only what is still current.  *)
FinishRegen ==
    /\ phase = "driven"
    /\ EndJob
    /\ IF outcome = "published" /\ Current
       THEN /\ snap' = [geom |-> Folded, upto |-> plan.target, steps |-> plan.steps,
                        rev |-> rev, epoch |-> epoch]
            /\ mirror' = [recs |-> plan.recs, cursor |-> plan.cursor]
       ELSE UNCHANGED <<snap, mirror>>
    /\ UNCHANGED <<doc, cursor, rev, epoch, store, sendVars, up, wq, mintVars, sessionVars>>

Driver ==
    \/ \E base \in Steps \cup {0} : BeginPlan(base)
    \/ BeginClear \/ BeginNothing
    \/ RestoreAnswered \/ PlanFailed \/ PlanPrepared \/ CancelSeen
    \/ AcceptAnswered \/ DiscardAnswered
    \/ DriveClear \/ FinishRegen

-----------------------------------------------------------------------------
(* The worker serves its queue in order.                                   *)

Waiting == [Restore |-> "restore", Execute |-> "execute",
            Accept |-> "accept", Discard |-> "discard"]

(* An answer reaches the driver if it is still waiting for this request.   *)
Answer(m, r) ==
    reply' = IF plan # NoPlan /\ plan.job = m.job /\ phase = Waiting[m.kind] THEN r ELSE reply

Serve(kind) ==
    /\ up
    /\ wq # <<>>
    /\ Head(wq).kind = kind
    /\ wq' = Tail(wq)
    /\ UNCHANGED <<docVars, shownVars, store, sendVars, schedVars,
                   phase, plan, after, outcome, up, ticket>>

ServeRestore ==
    /\ Serve("Restore")
    /\ RestoreCheckpoint(Head(wq))
    /\ Answer(Head(wq), RestoreReply(Head(wq)))
    /\ UNCHANGED saveReply

ServeExecute ==
    /\ Serve("Execute")
    /\ ExecutePlan(Head(wq))
    /\ Answer(Head(wq), ExecuteReply(Head(wq)))
    /\ UNCHANGED saveReply

(* A flagged plan may notice the cancel between two steps: nothing stored. *)
ServeCancelled ==
    /\ Serve("Execute")
    /\ Head(wq).cancel
    /\ UNCHANGED <<sessionVars, reply, saveReply>>

ServeAccept ==
    /\ Serve("Accept")
    /\ AcceptPrepared(Head(wq))
    /\ Answer(Head(wq), AcceptReply(Head(wq)))
    /\ UNCHANGED saveReply

ServeDiscard ==
    /\ Serve("Discard")
    /\ DiscardPrepared(Head(wq))
    /\ Answer(Head(wq), DiscardReply(Head(wq)))
    /\ UNCHANGED saveReply

ServeSave ==
    /\ Serve("Save")
    /\ SaveCheckpoint(Head(wq))
    /\ saveReply' = SaveReply(Head(wq))
    /\ UNCHANGED reply

Worker == ServeRestore \/ ServeExecute \/ ServeCancelled \/ ServeAccept \/ ServeDiscard \/ ServeSave

(* The worker dies with everything queued; the next one is an epoch on.    *)
(* A request in flight fails, a plan possibly after some of its steps were *)
(* streamed.                                                               *)
Lost(seen) == [ok |-> FALSE, sawStep |-> seen]

(* Mutant of WorkerDies: nobody fails the requests in flight.              *)
WorkerDiesSilently ==
    /\ up /\ wEpoch < MaxEpoch
    /\ up' = FALSE
    /\ OpenSession(wEpoch + 1)
    /\ wq' = <<>>
    /\ UNCHANGED <<docVars, shownVars, store, sendVars, schedVars, jobVars, mintVars>>

WorkerDies ==
    /\ up /\ wEpoch < MaxEpoch
    /\ up' = FALSE
    /\ OpenSession(wEpoch + 1)
    /\ wq' = <<>>
    /\ \E seen \in BOOLEAN :
         reply' = IF phase \in {"restore", "execute", "accept", "discard"} /\ reply = NoReply
                  THEN Lost(seen) ELSE reply
    /\ saveReply' = IF ticket # NoTicket /\ saveReply = NoReply THEN Lost(FALSE) ELSE saveReply
    /\ UNCHANGED <<docVars, shownVars, store, sendVars, schedVars,
                   phase, plan, after, outcome, ticket>>

(* client_or_err: a request made between two workers fails at once.        *)
NotConnected ==
    /\ ~up
    /\ wq # <<>>
    /\ wq' = Tail(wq)
    /\ IF Head(wq).kind = "Save"
       THEN saveReply' = Lost(FALSE) /\ UNCHANGED reply
       ELSE Answer(Head(wq), Lost(FALSE)) /\ UNCHANGED saveReply
    /\ UNCHANGED <<docVars, shownVars, store, sendVars, schedVars,
                   phase, plan, after, outcome, up, ticket, sessionVars>>

(* supervise_loop: the next worker is ready, its restart hook is spawned.  *)
(* A request not made yet will reach the new worker.                       *)
WorkerReady ==
    /\ ~up
    /\ up' = TRUE
    /\ hooks' = Append(hooks, wEpoch)
    /\ UNCHANGED <<docVars, shownVars, store, outbox, schedVars, jobVars, wq, mintVars, sessionVars>>

(* Mutant of RestartHook: the epoch is adopted, no rebuild is asked for.   *)
RestartHookSilent ==
    /\ hooks # <<>>
    /\ hooks' = Tail(hooks)
    /\ epoch' = Head(hooks)
    /\ UNCHANGED <<docVars, snap, store, outbox, schedVars, jobVars, up, wq, mintVars, sessionVars>>

(* install_restart_hook, on_worker_restart: adopt the epoch, rebuild all.  *)
RestartHook ==
    /\ hooks # <<>>
    /\ hooks' = Tail(hooks)
    /\ epoch' = Head(hooks)
    /\ outbox' = Append(outbox, ToEnd(1))
    /\ UNCHANGED <<docVars, snap, store, schedVars, jobVars, up, wq, mintVars, sessionVars>>

-----------------------------------------------------------------------------
(* Checkpoints, from save_document and after a published rollback.         *)

(* prepare_checkpoint: the snapshot's last step must be the head step and  *)
(* the geometry must come from the worker now running.                     *)
MintPrepare ==
    /\ Minting /\ ticket = NoTicket
    /\ snap # NoSnap
    /\ \E l \in snap.steps : l[1] = cursor
    /\ epoch = snap.epoch
    /\ ticket' = [step |-> cursor, rev |-> rev, epoch |-> epoch]
    /\ Send([kind |-> "Save", step |-> cursor, cancel |-> FALSE, job |-> 0])
    /\ UNCHANGED <<docVars, shownVars, store, sendVars, schedVars, jobVars, up, saveReply, sessionVars>>

(* Mutant of MintAdopt: Rust names the checkpoint by its own prefix hash.  *)
MintAdoptOwnHash ==
    /\ saveReply # NoReply
    /\ ticket' = NoTicket
    /\ saveReply' = NoReply
    /\ store' = IF saveReply.ok /\ <<rev, epoch>> = <<ticket.rev, ticket.epoch>>
                THEN [s \in DOMAIN store \cup {ticket.step} |->
                        IF s = ticket.step
                        THEN [geom |-> saveReply.geom, hash |-> Lines(doc, 1, s)]
                        ELSE store[s]]
                ELSE store
    /\ UNCHANGED <<docVars, shownVars, sendVars, schedVars, jobVars, up, wq, sessionVars>>

(* adopt_checkpoint: dropped if an edit or a restart came in between.      *)
MintAdopt ==
    /\ saveReply # NoReply
    /\ ticket' = NoTicket
    /\ saveReply' = NoReply
    /\ store' = IF saveReply.ok /\ <<rev, epoch>> = <<ticket.rev, ticket.epoch>>
                THEN [s \in DOMAIN store \cup {ticket.step} |->
                        IF s = ticket.step THEN [geom |-> saveReply.geom, hash |-> saveReply.hash]
                        ELSE store[s]]
                ELSE store
    /\ UNCHANGED <<docVars, shownVars, sendVars, schedVars, jobVars, up, wq, sessionVars>>

-----------------------------------------------------------------------------
(* A document is opened over a fresh worker: everything is still to build. *)
Init ==
    /\ doc \in InitDocs
    /\ cursor = Len(doc)
    /\ rev = 0 /\ epoch = 1
    /\ mirror = [recs |-> doc, cursor |-> cursor]
    /\ snap = NoSnap
    /\ store = <<>>
    /\ outbox = <<ToEnd(1)>> /\ hooks = <<>>
    /\ pend = NoRequest /\ req = NoRequest /\ cancelled = FALSE
    /\ phase = "idle" /\ plan = NoPlan /\ after = "none" /\ outcome = "none" /\ reply = NoReply
    /\ up = TRUE /\ wq = <<>>
    /\ ticket = NoTicket /\ saveReply = NoReply
    /\ wEpoch = 1 /\ head = EmptyHead /\ scratch = NoScratch /\ saved = <<>>

Scheduler == (\E i \in 1 .. MaxOutbox + MaxEpoch : Deliver(i)) \/ StartJob

Saver == MintPrepare \/ MintAdopt

Next ==
    \/ Edit
    \/ Scheduler \/ Abandon
    \/ Driver
    \/ Worker \/ WorkerDies \/ NotConnected \/ WorkerReady \/ RestartHook
    \/ Saver

Spec == Init /\ [][Next]_vars

(* Every actor that has something to do eventually does it: the scheduler, *)
(* the driver and the saver are tasks of a fair runtime, the worker drains *)
(* its queue and is restarted when it dies.  Nobody has to edit, to save,  *)
(* to crash or to time out.                                                *)
Fairness ==
    /\ WF_vars(Scheduler) /\ WF_vars(Driver) /\ WF_vars(Worker)
    /\ WF_vars(WorkerReady) /\ WF_vars(RestartHook) /\ WF_vars(MintAdopt)

FairSpec == Spec /\ Fairness

-----------------------------------------------------------------------------
(* Properties.                                                             *)

(* Every variable holds a value of its kind.                               *)
TypeOK ==
    /\ doc \in Timelines /\ cursor \in 0 .. Len(doc)
    /\ rev \in 0 .. MaxRev /\ epoch \in 1 .. MaxEpoch /\ wEpoch \in 1 .. MaxEpoch
    /\ DOMAIN store \subseteq Steps /\ \A s \in DOMAIN store : store[s] \in States
    /\ DOMAIN saved \subseteq Steps /\ \A s \in DOMAIN saved : saved[s] \in States
    /\ head \in States
    /\ scratch # NoScratch => scratch.geom \in Slices /\ scratch.hash \in Slices
    /\ snap # NoSnap => snap.geom \in Slices /\ snap.rev \in 0 .. rev /\ snap.upto \in 0 .. MaxLen
    /\ outbox \in Seq(Requests) /\ hooks \in Seq(1 .. MaxEpoch)
    /\ cancelled \in BOOLEAN /\ up \in BOOLEAN
    /\ pend \in Requests \cup {NoRequest} /\ req \in Requests \cup {NoRequest}
    /\ phase \in {"idle", "begin", "restore", "execute", "accept", "discard", "clear", "driven"}
    /\ (phase = "idle") <=> (req = NoRequest)

(* A hash token always names the geometry it travels with: in the worker's *)
(* head, in the prepared scratch, in both stores of checkpoints.           *)
WorkerHonest ==
    /\ head.hash = head.geom
    /\ scratch # NoScratch => scratch.hash = scratch.geom
    /\ \A s \in DOMAIN saved : saved[s].hash = saved[s].geom
    /\ \A s \in DOMAIN store : store[s].hash = store[s].geom

(* When the worker accepted a plan, Rust and the worker hold the same      *)
(* bodies, although each put them together on its own.                     *)
RustWorkerAgree ==
    phase = "driven" /\ outcome = "published" /\ ~plan.clear /\ wEpoch = plan.epoch
        => head.geom = Folded

(* Absent a crash the worker never refuses a plan it is sent.              *)
NeverRefused ==
    phase = "execute" /\ reply # NoReply /\ wEpoch = plan.epoch => reply.ok

(* Nothing is left to do: no request anywhere, no job, no restart to heed. *)
Settled ==
    /\ pend = NoRequest /\ outbox = <<>> /\ phase = "idle"
    /\ up /\ hooks = <<>> /\ epoch = wEpoch

(* Once everything has settled the screen shows the whole applied prefix   *)
(* of the document.                                                        *)
IdleShowsDocument == Settled => Shown = Regen(doc, cursor)

(* A worker that was just replaced holds no geometry, and prepare_checkpoint *)
(* promises that nothing of it is saved as a checkpoint of the document.   *)
NoEmptyCheckpoint == \A s \in DOMAIN store : store[s].geom # {}

(* The screen changes only to the geometry of a prefix of the document as  *)
(* it is at that moment: the pipeline implements LiveModel.                *)
Live == INSTANCE LiveModel WITH shown <- Shown

ImplementsLiveModel == Live!Spec

(* Edits, crashes and cancelled jobs notwithstanding, the pipeline comes   *)
(* to rest, with the document on screen.                                   *)
Converges == <>[](Settled /\ Shown = Regen(doc, cursor))
=============================================================================
