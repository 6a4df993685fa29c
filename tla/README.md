# OneCAD in TLA+: the model on screen, the tools that edit it, the work that is saved

OneCAD is a desktop CAD program: a React front end (`src/src`), a Rust back end
under Tauri (`src/src-tauri`), and a C++ worker process that runs the geometry
kernel (`src/worker`). The user edits a *timeline* of features; the program
keeps the model on screen in step with it, and the work in files. Both are done
by several asynchronous actors that share state and do not wait for each other.
This directory specifies three promises:

* **What is on screen is the document.** An edit, the scheduler, the driver of
  the regen, a worker that may die, and the saving of checkpoints interleave;
  the model the back end publishes must only ever be the geometry of a prefix of
  the document of that moment, and at rest it must be all of it. In the front end
  events, answers and mesh downloads overtake each other; the scene, the
  timeline and the sketch that the user ends up looking at must be the document's.
* **A tool does what it shows.** A modelling tool previews, commits, is refused
  and rolled back; a sketch is drawn, dragged, undone and left, each over calls
  that take time. What is committed must be what was shown, once, and nothing
  drawn may vanish.
* **What was protected is not lost.** Explicit saves, autosaves, crashes and the
  recovery prompts of the next launch interleave; work that was reported as
  protected must survive until the user saves it or gives it up.

All three have been model-checked. What they say of the back end, of the 3D scene
and of part of the command client is also proved with TLAPS, for every timeline
length, every number of jobs, operations, documents, bodies, commands, edits,
failures and crashes: section 6.

## 1. Inventory

Paths are relative to `src/src-tauri/` unless they start with `worker/` (that is `src/worker/`)
or with `src/src/`, the front end.
`core` stands for `crates/onecad-core/src`.

### Edit session and timeline (`core/edit/session.rs`, `core/history/timeline.rs`)
State: the records of the timeline in order, the rollback cursor (the length of
the applied prefix), the undo and redo stacks, an open gesture or transaction.
Operations: add, update, remove and suppress a record, move the rollback bar,
rename, undo, redo, squash. Each answers with the regen that has to follow
(`RegenHint`) and the first dirty step. All run under the runtime lock, so they
are sequential; what is hard is the arithmetic of the request at the ends of the
history (removing the last record, editing above the bar) and, for squashing,
long sequences of legal calls. Correct when the request it hands out covers
everything that the edit made stale, and when undo and redo are inverses.

### Document runtime (`src/document_runtime.rs`, `src/lib.rs`)
State: the session, the mirror of the timeline that plans are compiled from, the
fencing cell (document revision, worker epoch), the last snapshot, the checkpoint
store, dirty flag and path. Operations: `apply` (edit, bump the revision, evict
checkpoints), `begin_regen` (compile a plan), `drive` (run it, without the
lock), `finish_regen` (commit if still current), `prepare_checkpoint` and
`adopt_checkpoint`, `on_worker_restart`. Hard: everything `finish_regen` and
`adopt_checkpoint` commit was computed from state read one or more lock
acquisitions ago. Correct when only current results are committed and every
discarded one is followed by another regen.

### Planner and checkpoint store (`core/regen/planner.rs`, `core/regen/checkpoint.rs`)
State: the store, step to artifacts and prefix hash. Operations: slice the
timeline, hash a prefix, choose a base, evict from a dirty floor. Correct when a
base that is used holds exactly the geometry of the prefix below the slice.

### Scheduler (`core/regen/scheduler.rs`)
State: the job in flight, its cancel token, the one pending request, timers.
Operations: `on_request` (latest wins), `start_job`, `on_job_complete`,
`on_cancel_timeout`. Hard: requests arrive in an order that is not the order of
the edits; the grace period races with the answer. Correct when the screen
always catches up with the last edit.

### Executor (`core/regen/executor.rs`)
State: one attempt at one plan. Operations: restore, execute, accept, discard,
retry from zero, cancel path. Hard: the two-phase commit with the worker, where
either side may leave between phases. Correct when the worker is never left
holding a prepared scratch that blocks the next plan, and Rust and the worker
agree on what was accepted.

### Kernel worker session (`worker/src/session`, `worker/src/io/Checkpoint.cpp`)
State: the published head with its hash, at most one prepared scratch, saved
checkpoints, the epoch. Operations: the verbs of the protocol, in FIFO order on
one thread. Hard: `RestoreCheckpoint` changes the head before the plan it serves
is accepted; a plan whose k-th operation fails is still prepared with the ones
below; hashes are passed around and never computed. Correct when the hash next
to bodies is the hash of those bodies.

### Worker supervisor and multiplexer (`src/worker/manager.rs`)
State: the connection, the requests in flight, restart budget, poisoned plans,
retired workers. Operations: spawn, heartbeat, fail the requests in flight at
a death, restart with the next epoch, open the circuit for a plan that killed
workers. Hard: liveness under crash loops; a ping queued behind a long kernel
operation. Only the death, the loss of requests and the restart are modelled.

### Command layer (`src/api/mod.rs`, `src/state.rs`)
State: the slot of the open document, the pending offers, the scheduler handle,
the persistence lane. Operations: the Tauri commands. Hard: the lock is released
in the middle of `apply_edit_command` and between the phases of
`save_document`. Correct when each later half still applies to what the first
half saw.

### Autosave, recovery and the container (`src/autosave.rs`, `core/io/recovery.rs`, `core/io/container.rs`)
State: the file at each path, the autosave container and session marker per
document id, the offers. Operations: the debounced loop, the flush on blur, the
persistence half of a save, the scan at launch, restore, discard. Hard: two or
three writers, failing writes, crashes between any two steps, files that share a
document id. Correct when clean means saved, no offer is older than the file it
shadows, and nothing protected is lost.

### Mesh ingest and projection bridge (`src/src/viewport/mesh`, `src/src/ipc/projectionHydration.ts`, `src/src/features/tree/treeActions.ts`)
State: the store's bodies and revision, per body a load token, a pending and a
failed mark, a scene object and registry entry, the isolation mask, timers of
retries. Operations: the two published events, loads with two awaits, retries of
an empty mesh, drops, visibility and colour edits that are written ahead of
their answer, the projection pulled at mount, the unmount. Hard: a load is
overtaken by a newer load, by the removal of its body, by an edit of what it read
before the await. Correct when the settled scene is the document's and no load
leaves a stale mesh, a leak or a mark that is never cleared.

### Model tools (`src/src/tools/modelTools`, `src/src/tools/preview`, `src/src/ipc/localSolver.ts`)
State: the tool and its phase, one preview session per region, the throttle with
its timer and floor, the failure latch, the revision the picks were prepared on,
the commit in progress. Operations: arm, drag, answer, confirm with its barrier,
apply per region, undo and re-arm, leave at any time. Hard: epochs restart when a
tool re-arms while old answers are on the way; the k-th region of a commit fails.
Correct when a session is closed by whoever opened it, the newest value is shown,
and a commit applies it once per region or takes back what failed.

### Command client (`src/src/ipc/tauriClient.ts`, `src/src/ipc/regenOutcome.ts`)
State: an awaiter per command, the last published change, the snapshot, the busy
count. Operations: send, answer, the four regen events, open, the safety timeout.
Hard: a command is answered before its regen runs, by another channel than the
events that tell how it went. Correct when each commit is told of a regen that
covered its edit, and none waits for an event that will not come.

### Sketch session (`src/src/tools/sketch`, `src/src/stores/sketchStore.ts`, `src/src/ipc/sketchWireMap.ts`; `sketch_*`, gestures and `undo.rs` in the back end)
State: the controller's mode and targets, the store's copy of the sketch with its
own undo, the mutation queue, the id-map, a drag; in the runtime the sketch, the
session slot with its mark on the undo stack, the gesture, the timeline record.
Operations: enter, switch, cancel, finish, every edit verb as one diff, a drag as
begin and end, undo and redo on both levels. Hard: leaving is two commands that
nothing waits for; the diff is taken against what the client believes; the squash
of a session finds its steps by position. Correct when screen and document agree
at rest, and the stack's steps follow each other.

### The rest
Wire framing, mesh codec, manifest and migration: data formats, where the state
that matters is modelled at its users. Geometry operations: Open CASCADE calls,
numeric, out of reach; whether an operation succeeds is a constant or a choice
here. Camera, picking, snapping, gizmos, panels: single-threaded view code. The
mock client stands in for the back end in tests and in a browser.

## 2. Modules

| module | models | extends / uses |
|---|---|---|
| `HistoryPrefix` | records, timelines, canonical prefix lines, what the kernel builds of a slice | |
| `LiveModel` | abstract: a document, and a screen that changes only to a prefix of the current document | `HistoryPrefix` |
| `KernelSession` | the worker's session: plan, accept, discard, save, restore, re-open | `HistoryPrefix` |
| `RegenPipeline` | edits, scheduler, driver, worker and its queue, crash and restart hook, checkpoints | `KernelSession`, implements `LiveModel` |
| `SaveRecovery` | open, edit, save, autosave, close, exit, crash, recovery | |
| `MeshView` | the front end's pull of meshes into the scene | |
| `ToolLane` | an armed tool, its preview lane and its commit | |
| `CommitCorrelation` | commands, their regens, and how the client learns what became of them | |
| `SketchSession` | sketch controller, queue and id-map against the runtime's session, gesture and undo stack | |
| `MC*` | small instances of each for TLC | |
| `KernelSessionProofs` | prefixes and what is built of them; the worker's session | TLAPS |
| `RegenPipelineProofs` | the pipeline implements `LiveModel`; its driver and worker understand each other; types; the screen of an idle pipeline is the document | `KernelSessionProofs` |
| `SaveRecoveryProofs` | clean is saved, nothing protected is lost, offers are current | TLAPS |
| `MeshViewProofs` | the scene hangs together, no mesh goes back, the store settles, the settled view is the document | TLAPS |
| `ToolLaneProofs` | who owns the preview sessions, what a commit waits for and applies, that the picks are current; types | TLAPS |
| `ToolRecordProofs` | the records are the regions the commits chose | `ToolLaneProofs` |
| `CommitCorrelationProofs` | the client ends up with the published snapshot, and is busy while a regen runs; what a command is told is true of its own work, and it is told before its timeout | TLAPS |
| `SketchSessionProofs` | the steps of a sketch follow each other, a closed sketch is closed in the runtime, its record is the sketch; types | TLAPS |

### HistoryPrefix and KernelSession
A prefix is the set of its canonical lines `<<step, operation>>`. Its hash is that
set (two prefixes have equal hashes exactly when they have equal lines), and
geometry is the set of lines executed to build it (the kernel is deterministic).
Hash and geometry are nevertheless separate fields that travel separately, as in
the code: the worker takes the base hash from the plan and appends what it ran.
A suppressed record contributes no line and the others keep their index. Steps
are numbered from 1; the code numbers them from 0.

`KernelSession` has an action per verb; `SessionNext` sends any request in any
order, cut from any timeline. That is much more than Rust ever sends, and the
session's invariants hold all the same.

### RegenPipeline
An edit is two steps, as in `apply_edit_command`: the command under the lock
(`UpdateParams`, `AddAtCursor`, `RemoveStep`, ... all through `Mutate`) puts its
request in `outbox`, and `Deliver` hands one to the scheduler. `phase` is the
program counter of the job in flight:

    idle -> begin -> [restore ->] execute -> accept -> driven -> idle
                \-> clear ---------------------------/^
            any failure, cancel or stale answer -> discard -> driven | execute from zero

`BeginPlan`, `BeginClear`, `BeginNothing` and `FinishRegen` hold the runtime
lock; the rest does not, and edits interleave. `wq` is the worker's kernel lane:
requests are served in order (`Dispatcher.cpp` runs every verb of the pipeline on
one thread), and an answer is delivered only to a driver still waiting for it.
`WorkerDies` drops the queue, fails requests in flight (after some steps have
streamed, or none) and empties the session; `WorkerReady` and `RestartHook` are
separate steps, since the hook is a spawned task. `Abandon` is the
scheduler's grace period running out.

Abstractions. Debounce times are left out: a `ToStep` may start at once or later.
A planner's choice among usable bases also looks at envelopes and sketches: any
usable one may be taken. Artifacts of a base come from Rust's store, while the
worker restores its own copy, and `RustWorkerAgree` relates the two. The
execution ceiling set by an unresolved reference or variable is left out; a
failing operation (`Failing`) is what stops a plan early. A queued request
while `up` is FALSE stands for a call about to be made. Hooks run in order
because tokio's mutex is fair. Checkpoint pruning by size is not reached.

### SaveRecovery
Content is the set of edits it holds. Each of the three writers (`loop`,
`blur`, `save`) has a position `at` and a payload `load`. It builds the payload under
the runtime lock (`Build`), lets go of that lock, and takes the persistence `lane` in
a later step (`EnterLane`); edits and the other writers come in between.
The mutex is fair, but a writer may arrive at it at any time after it has built, the
autosaves after a `create_dir_all`: any order of holders is an order of arrivals, so
`lane` is the holder and there is no queue. `ahead[t]` are the writers that had built
other content of the same document before `t` did, and have not had the lane since;
entering it past them is the circumstance `late_arrival`. `SaveStarts`, `SaveBuilds`, `SaveWrites`,
`SaveClears`, `MarkSaved` are the phases of `save_document`, between which
edits, autosaves, a close, another open or a crash may come.
The revision restarts at 0 when a document is opened, as `DocumentRuntime::open`
does, which is what the last phase of a save compares.
`Launch` is the end of the process together with the next start's scan.
`promised` is history: the work that an AUTOSAVE event reported as
protected, until a save holds it or the user gives it up at a prompt.

Abstractions. One save runs at a time. Undo is left out, so work only grows. Markers carry
no process id because the scan runs when every earlier process is dead. The
sweep of old containers and read-only documents are left out; a failing
`create_dir_all` is one of the outcomes of `WriteFails`, which for an autosave needs
no lane. A write that failed is not tried again before the next mutation, as in
the code, so writes that fail are bounded and `EventuallyProtected` is about runs
where none did.

`Rare` names circumstances in which a property is known to break. The passing run
has none of them, and each was tried alone, on two paths, for `EventuallyProtected`
on one:

| kind | what it permits | what TLC then finds |
|---|---|---|
| `copy` | saving a document that has a file under another path | `OfferHoldsSavedWork`: the offer names the other, newer copy |
| `blind_open` | opening a file of a document with an offer that names another path | `NothingLost`, `OfferIntact`: the autosave overwrites the container on offer; `EventuallyProtected`: the discarded offer takes the autosave of the open document with it; `OfferHoldsSavedWork`, seen with one path, two ids and three edits |
| `torn_save` | dying between a save's write and its clear | `OfferHoldsSavedWork`: the offer is older than the file it refuses to open |
| `promote_mid_save` | promoting a pick while a save is under way | `CleanMeansSaved`, `EventuallyProtected`: a promotion bumps no revision, so the document counts as saved |
| `reopen_mid_save` | opening the same document while a save is under way | `CleanMeansSaved`, `OfferHoldsSavedWork`, `EventuallyProtected`: same id, same revision, other runtime; `NothingLost`, seen with `MaxLaunches = 2`: the container of a runtime left behind is offered, and an older one written over it |
| `marker_lost` | failing to write the marker over an earlier autosave | `NothingLost`: the container is removed, and the earlier one with it |
| `late_arrival` | reaching the lane past a writer that built other content of the document first | `OfferHoldsSavedWork` (`LateArrival.cfg`): an autosave writes what it built before the save, after it; `NothingLost`, `EventuallyProtected`: an older autosave overwrites, or an older save clears, the container of a later edit |

`autosave.rs:261-264` describes the first of these for `late_arrival` and accepts it,
saying that the offer left behind is "a superset of the saved work, so recovery
cannot lose anything". An edit made after the autosave was built, and before the
save was, is in the file and not in the offer.

### MeshView
A body has a version of its mesh, a visibility and a colour at the back end. `channel`
is the two events in the order they were emitted; loads, tree edits and the pull
at mount are answered at any time. A load (`LoadBody`) is an element of
`view.fetches` with the token it was started under and the stage it is in: asked,
answered, waiting for the colours. `AnswerMesh` and `FailMesh` are the back end's,
`ResolveMesh` and `ResolveFaceColors` what follows each await, `FireRetry` the
timer after an empty mesh. `Publish`, `Delete` and `Restore` are what a regen can do
to a body, `SetBodyVisible`, `SetBodyColor` the optimistic edits with their reversal
(`CommandResult`), `ToggleIsolate` the mask, `Attach` and `Detach` the view's life.
`skipped` is history: bodies whose change came while they were hidden.

Abstractions. Buffers, LODs and the scene graph are the version they show. One
body is checked: no two bodies share state in `MeshIngest` except the chip and
the maps. Events are pushed in order, as Tauri does for one window.

| kind | what it permits | what TLC then finds |
|---|---|---|
| `token_reuse` | a load that outlived the drop of its body, after which the tokens start again at 1 | `NeverOlder`, `SettledViewIsDocument` with four acts |
| `stale_colors` | a load superseded or unmounted while it waits for its face colours | `NeverOlder` (`StaleColors.cfg`); `SceneIsWhole`, in the registry of a view that is gone; `SettledViewIsDocument` with four acts |
| `late_result` | the result of a tree edit, older than the store, while the pull of the mount is out | `SettledStoreIsModel` |
| `late_refusal` | a body restored before its refused tree edits are told so | `SettledStoreIsModel`, with four acts: the reversal of the second optimistic edit writes what the first one had |

### ToolLane
`ctl` is the controller: tool, phase, the value the user sees, the sessions of
the arm, throttle, trailing timer, failure latch, and the commit with its program
counter (`record`, `barrier`, `apply`, `undo`, `loading`). `ctl.kernel` holds the
preview questions with the kernel, oldest first, one per session; a newer value
waits in the lane. `Answer` ends one with a success, a refusal or "stale", and
wakes the barrier if it was what it waited for. `Confirm`, `RecordAnswered`,
`BarrierTimeout`, `HandleCall`, `DeliverCall` and `BodiesLoaded` are the awaits of
a commit; `Leave` and `SetTool` may come between any two. `Edit` and `Hear` are
the edits of others and the event they send.

The run has one tool of each kind: extrude (several regions of a sketch),
revolve (the same, with a pick after the arm), fillet (strict: the kernel must have
approved the value) and shell (bound to topology). The other tools that share the
lane differ in parameters.
Not modelled: re-edits of an existing feature, pokes at the chip while a commit
runs, the re-arm of offsetFace, a refused undo, patterns, mirror, transform and
datum tools. Two arms and four user acts, so that a second arm meets what the
first left behind; two regions, so that one can fail after the other. `MaxStale`
bounds the answers "stale": each makes the controller ask once more, and the code
asks as long as a drag goes on.

| kind | what it permits | what TLC then finds |
|---|---|---|
| `early_answer` | an answer before the floor of the throttle has ended | `PreviewSettles`: the held value is never sent (`EarlyAnswer.cfg`) |
| `overtaken` | an apply handled while a preview is with the kernel, so that its answer meets the re-arm; or a stale answer at the barrier | `PreviewSettles` |
| `late_release` | the answer of a commit the user has left, while a newer tool shows its preview | `PreviewSettles` |
| `flip_mid_commit` | fillet and chamfer exchanged while a commit waits | `LaneIsOwned` |
| `edit_mid_commit` | another edit, or unheard news, while a commit runs | `PicksAreCurrent`, `RollbackIsOwn` |
| `late_prepare` | picks prepared on a model that has changed when the answer comes | `PicksAreCurrent` |
| `profile_gone` | the re-open of a session after a failed commit is refused | `LatchIsFailure`: no confirm is ever possible; and the session is listed but gone: `LaneIsOwned`, `CommitIsAwaited`, `OneRecordEach`, `RollbackIsOwn`, `PreviewSettles` |

Without any of them, `ArmedCanConfirm` is violated (`RearmedRefused.cfg`): after
the rollback of a fillet, the tool is armed again over the model its picks were
made on, but the rollback moved the revision, and every confirm is refused.

### CommitCorrelation
`doc`, `sched` and `events` are the back end: each command bumps the revision, is
answered, and asks for a regen, or does not; the scheduler keeps the newest
request and cancels the job under way; a job ends published, up to its first bad
step, or failed, cancelled, superseded. `cmds` are the commands with their
awaiters. `Hear*` are the listeners of the client, `HearAnswer` the end of
`applyEditRaw`, after which an event heard earlier may already have covered the
command; a command that settles writes its rows back as its callers do
(`ApplyResult`). `OpenDocument` swaps the document slot under all of this.

Abstractions. Commands are handled and answered in the order sent, events arrive
in the order emitted, and the two are unordered but for the circumstances below.
The edit and the hand-over of its request are one step (`RegenPipeline` has them
apart). `Timeout` fires only for an awaiter; it is what `EveryCommitEnds` says is
never needed. Unless `past_halt`, a step goes bad only at the end of the
applied prefix. Redo, close, datum and import commands are left out. `insertStep`
(`tauriClient.ts:1033`) waits without a record id, so an import whose own step
fails would settle as published; it is not modelled.

| kind | what it permits | what TLC then finds |
|---|---|---|
| `no_regen` | an awaited command that asks for no regen: the undo of a rename, an empty undo, a roll to where the bar is | `EveryCommitEnds`, `TimelineIsShown` (`UndoStalls.cfg`): eight seconds pass |
| `bare_revision` | a rename while a regen runs | `EveryCommitEnds` |
| `late_answer` | the end of a regen, or a later projection, before the answer of its command | `EveryCommitEnds`, `TimelineIsShown` |
| `overlap` | undo, remove or roll while a commit waits, or work while a document opens | `TimelineIsShown`, `VerdictIsTrue` |
| `past_halt` | a bad step below the command's own | `VerdictIsTrue`: published, though its record did not run |
| `abandoned` | a cancelled job dropped after the grace period, without an event | `BusyIsRunning` |
| `fast_open` | events of the new document before the answer that opened it | `BusyIsRunning`, `SnapshotIsPublished` |
| `late_event` | events of the old document after that answer | `SnapshotIsPublished`; with three commands (add, open, add) `VerdictIsTrue` |
| `same_file` | the file that is open opened again | `TimelineIsShown`: its revision starts again below the store's |

Without any of them `RowsAreCurrent` is violated (`StaleRows.cfg`): the rows a
commit writes back are those of before its regen, and come after the projection
that had the states of after it. `TimelineIsShown` is about what the two agree on.
It leaves out commands other than a variable's that failed or timed out
(`Unwritten`), since these write no rows: of three commands or more, an undo that waits
may then settle last and write rows of before a removal that was given up on. It was
also searched with three commands of the kinds add, remove, undo and of remove, undo,
roll, exhaustively, and at random with three to five.

### SketchSession
`lane`, `store`, `queue`, `turn`, `maps`, `drag` are the front end: the
controller, the copy of the sketch with the sketch-scoped undo, the serialized
mutation chain, the edit whose turn it is, the id-map of each sketch, the drag.
`be` is the runtime: sketches, undo and redo stacks, the session slot with its
mark, the gesture, the timeline record per sketch. An edit is `Click` (into the
queue), `StartTurn` (what it wants of the *current* store, `Wanted`, is diffed
against the id-map by `Marshalled` and applied by the runtime, `Applied`), and
`TurnAnswered` (published; or refused and retried without its dimensions; or
restored). There is one operator per verb: drawn, dimensioned, revalued, deleted,
unconstrained, trimmed, extended, mirrored, flipped. `Enter`, `SwitchTo`, `Leave`
with `Cancelled` and `Finished` are the ways between sketches; `BeginSelectDrag`,
`DragBegun`, `PointerUp`, `DragEnded` a drag; `ModelUndo`, `ModelRedo`,
`ModelEdit` what the user does outside. A visit leaves two steps on the stack:
its edits, squashed, and its record.

Abstractions. Commands are handled and answered in the order sent: a command
takes effect when it is sent. An entity has a place and a flag, a constraint one
entity and a value; a sketch takes `FreeDof` constraints before one more
conflicts (the solver is a constant here). "dim" stands for every constraint the
user applies. The runtime's refusal is tried at the first upsert of a turn. Not
modelled: a failing begin or end of a gesture, a failing finish, fillet and
offset of sketch entities, the creation of a sketch and the clean-up of orphans,
dimensions edited in model mode, reattachment, locked reference geometry.
`ClosedIsClosed` and `RecordIsSketch` excuse a session whose steps fell off the
end of the stack: the code then refuses to squash on purpose.

| kind | what it permits | what TLC then finds |
|---|---|---|
| `drag_race` | an edit under way while a drag is | `NoSilentLoss` (run `drag_race`), `ScreenIsDocument` |
| `undo_drag` | sketch-scoped undo across a drag | `ScreenIsDocument`: the diff sees no change of place (`UndoneDrag.cfg`) |
| `solver_fails` | the edit is committed, then the solve fails | `ScreenIsDocument`: the client believes it was refused |
| `stale_pick` | a dimension queued behind the removal of its entity | `ScreenIsDocument` |
| `half_undo` | model-mode undo of the record's step only, then another visit | `RecordIsSketch` |
| `early_undo` | a model-mode act between cancel and finish | `ClosedIsClosed` |
| `entry_act` | a model-mode act while an entry that was left is under way | `RecordIsSketch` (`RedoOnEntry.cfg`): the late answer's cancel squashes the redone step and clears the redo of its record |
| `fast_reenter` | entering again before the last exit has finished (three visits) | `ClosedIsClosed` |

## 3. Runs

| run | question | distinct states |
|---|---|---|
| `kernel_session` | Do hash and bodies stay together under any sequence of requests? | 44 000 |
| `pipeline_edits` | Edits, failing features and checkpoints against the regen in flight: is the screen complete at rest, is no partial model taken for a base? | 309 000 |
| `pipeline_crash` | When the worker dies at any point, do Rust and the worker still hold the same bodies after an accept? | 1 413 000 |
| `pipeline_suppress` | Suppression down to an empty model and back, with a feature that fails | 504 000 |
| `pipeline_any_order` | Every kind of edit, in any order of delivery: does the screen still only show prefixes of the document? | 327 000 |
| `pipeline_liveness` | Does it come to rest, through crash, abandonment and cancels? | 48 000 |
| `save_recovery` | Is protected work kept, is clean saved, are offers current, is every edit eventually protected? | 1 301 000 |
| `mesh_view` | Is the settled scene the document's, with nothing stale, leaked or stuck on the way? | 3 338 000 |
| `tool_lane` | Does a tool commit what it shows, once, and come back whole from a failure? | 803 000 |
| `commit_correlation` | Does each commit learn what became of it, in every order of answers and events? | 1 087 000 |
| `sketch_session` | Do screen, document, undo stack, session slot and record agree, and is nothing lost? | 985 000 |
| `drag_race` | `NoSilentLoss` is violated when an edit is under way during a drag | |

Further configurations show a disagreement each; they are kept to be run by hand
(`tlc -config X.cfg MCModule.tla`) and the sections above and below say what each one is:

| configuration | module | violated |
|---|---|---|
| `BareRevision`, `RemoveTop`, `SuppressTail` | `MCRegenPipeline` | `IdleShowsDocument` |
| `MintAfterRestart` | `MCRegenPipeline` | `NoEmptyCheckpoint` |
| `SavedCopy` | `MCSaveRecovery` | `OfferIntact` |
| `LateArrival` | `MCSaveRecovery` | `OfferHoldsSavedWork` |
| `StaleColors` | `MCMeshView` | `NeverOlder` |
| `RearmedRefused` | `MCToolLane` | `ArmedCanConfirm` |
| `EarlyAnswer` | `MCToolLane` | `PreviewSettles` |
| `UndoStalls` | `MCCommitCorrelation` | `EveryCommitEnds` |
| `StaleRows` | `MCCommitCorrelation` | `RowsAreCurrent` |
| `UndoneDrag` | `MCSketchSession` | `ScreenIsDocument` |
| `RedoOnEntry` | `MCSketchSession` | `RecordIsSketch` |

**Bounds.** Two records are the least at which a base, a slice and a boundary
between them are distinct; `pipeline_edits` has three, one of which fails, so that
a failing step may lie inside a slice above a base. Two edits allow one to
supersede the regen of the other, and the third is the initial rebuild that every
run starts with. Two epochs allow one death at any point. One checkpoint is saved
at a time, as with `save_document`. `Jobs` has eight ids, reused when no frame of
an earlier job remains; TLC never runs out. In `save_recovery` two edits and
two launches suffice for a save, an autosave and an edit that neither of them
has, with a crash between any two steps and a session to recover in; two ids
let another document be opened meanwhile.

In `mesh_view` three changes on one body let a load be
overtaken twice, with one retry, and two loads under way are what one overtaking
the other needs. `tool_lane`'s bounds are given with its module. In
`commit_correlation` two commands are one and the one that supersedes it, or one
and the opening of a document; a document opens empty or with one record, so that
a record may be added below and above the bar and the timeline may run out. In
`sketch_session` three edits are a drawing, something that depends on it, and the
one that takes it away; an undo cap of three is reached within the two visits; a
queue of one edit behind the one whose turn it is makes stale picks and switches
with work under way possible. The two sketches are symmetric.

**Passing runs and known defects.** `InOrder`, `EditAboveBar`, `EditKinds` and
`Rare` exclude the circumstances of the findings, one by one, so that a passing
run says what holds otherwise. `IdleShowsDocument` is checked with commands in
order, edits at or below the bar, and without removal of the last feature or
bare revisions; with `InOrder = FALSE` or `EditAboveBar = TRUE` TLC finds it
violated. `ImplementsLiveModel` needs none of these restrictions.

**Deadlock** is not checked: when no edit is left under the bounds the system
rests. That it rests only where it should is `IdleShowsDocument` and `Converges`.

**Fairness.** `WF` of the scheduler, driver and worker (`pipeline_liveness`): tasks of a fair tokio
runtime and a thread that drains a queue. `WF` of `WorkerReady`, `RestartHook`,
`MintAdopt`: the supervisor restarts a worker that died, spawned tasks run. The
supervisor's restart budget is not exhausted by the one death of the run. In
`SaveRecovery`, `WF` of the loop, of an autosave begun on blur, and of a save
begun. No fairness of edits, saves, blurs, crashes, failures, closes or
abandonment: `Converges` and `EventuallyProtected` do not rely on the user.
No writer is promised the lane while others find it free first, although the mutex,
being fair, would promise it: `EventuallyProtected` needs less, since whoever has the
lane brings an edit to disk or leaves it to another. The front-end modules
state no fairness: what must happen in the end is stated of their quiet states
(`SettledViewIsDocument`, `EveryCommitEnds`, `PreviewIsTrue`, `ScreenIsDocument`), in
which nothing is under way any more. It cannot be had otherwise, since a tool
may be dragged for ever and each stale answer asks again.

## 4. Properties

* `HashNamesGeometry`, `WorkerHonest`: a hash is next to the bodies it names,
  in the head, scratch and both stores. The whole acceleration by checkpoints
  rests on it, and nothing in the code verifies it.
* `HeadIsOneTimeline`: the published bodies come from one timeline.
* `RustWorkerAgree`: after an accept, what Rust folded is what the worker holds.
* `NeverRefused`: unless it died, the worker refuses no plan, so no discard,
  cancel or retry path leaves a scratch behind.
* `ImplementsLiveModel`: the refinement. `IdleShowsDocument`, `Converges`: that
  the screen is complete at rest and that rest is reached.
* `CleanMeansSaved`, `OfferHoldsSavedWork`, `NothingLost`, `EventuallyProtected`.
* `SettledViewIsDocument`, `SettledStoreIsModel`: the "self-healing" of the ingest
  and of the optimistic edits, once all is quiet. `SceneIsWhole`: at every moment
  what renders may render, scene and registry name the same buffers, the chip
  tells of what is missing, and a body marked as loading is. `NeverOlder`: a
  body's mesh never goes back.
* `LaneIsOwned`: no preview session outlives its tool and none that a tool lists is
  gone. `PreviewIsTrue`: the value shown is the value set, and the latch is about a
  refusal that stands. `RecordsAreRight`: each region is built once, and a rollback
  takes back its own failed record. `CommitsWhatIsShown`, `PicksAreCurrent`,
  `CommitIsAwaited`.
* `VerdictIsTrue`: a commit is told of a regen that covered its edit and ran its
  record. `EveryCommitEnds`: without the safety timeout. `BusyIsRunning`,
  `SnapshotIsPublished`, `TimelineIsShown`.
* `ScreenIsDocument`: under the id-map, at rest. `NoSilentLoss`: an entity leaves
  the document only by an edit that names it. `UndoIsChain`: the steps of a
  sketch, or of its record, undone ones included, follow each other and the document
  stands between them (`Line`, `Steps` and `Links` spell that out). `ClosedIsClosed`: no session or gesture is left behind and a visit is
  squashed. `RecordIsSketch`: the record the planner reads is the sketch.

Every property of a passing run is paired in `PROJECT.json` with a mutated
operator under which TLC finds it violated; the mutants stand next to the
operators they replace and are marked as such.

## 5. Findings

Listed, as a run of its own:

* `drag_race`: a drag does not go through the sketch's mutation queue, whatever
  `sketchService.ts:40` says; it writes back the sketch of its beginning, on
  both sides, and an edit that ran in between vanishes.

Shown by the configurations above, or by a circumstance of a `Rare` table:

* `BareRevision`: a rename bumps the revision and asks for no regen; the regen
  in flight is discarded as stale and none follows.
* `RemoveTop`: removing the last feature asks for a regen from past the end;
  the plan is empty and the body stays on screen.
* `SuppressTail`: suppressing the only feature above a checkpoint leaves a plan
  without operations, and its body on screen.
* `MintAfterRestart`: between a restart and its hook, a checkpoint of the fresh,
  empty worker passes the guard that exists to prevent exactly that.
* `SavedCopy`: the recovery guard compares paths, the autosave is keyed by
  document id; a second copy opens unguarded and overwrites the work on offer.
* `LateArrival`: a payload is built under the runtime lock and written under the
  lane, with neither held in between, so an older one may be written last. After a
  save this leaves an offer that is older than the file, which `autosave.rs:261-264`
  takes for impossible, and for which `open_document` then refuses the file.
* `StaleColors`: the guard against overtaken loads is not repeated after the
  second await, so an older mesh may replace a newer one.
* `RearmedRefused`, `EarlyAnswer`, `UndoStalls`, `StaleRows`, `UndoneDrag`,
  `RedoOnEntry`: see the modules.

## 6. Proofs

`tlapm` checks every obligation of the `*Proofs` modules. Nothing is assumed but
the named assumptions on the constants, which TLC evaluates in every run, and the
hypotheses that a theorem states.

`OpsAssumption`, `SessionAssumption`, `PipelineAssumption`: suppressed is not an
operation, bounds are naturals, the sentinel values (`NoPlan`, `NoTicket`, ...) are
none of the records they stand in for, plans fit the bounds on steps. `MaxLen`,
`MaxRev`, `MaxEpoch`, `Ops`, `Failing`, `Jobs` are otherwise arbitrary, and so are
`InOrder`, `EditKinds`, `EditAboveBar` and `Minting`. `SaveAssumption`: `None` is
no value of any variable's kind, bounds are naturals, and the files found at the
first launch hold the empty work (no edit has been made yet). `MeshBounds`: the
bodies are finitely many, bounds are naturals, and a body has at least one mesh.
`CorrelationBounds`: a natural bound, known kinds of commands, and files whose
timelines name no record twice. `SketchNames`, `SketchBounds`: `None` is no sketch,
bounds are naturals, known kinds of edits and circumstances. `LaneBounds`: known tools
and circumstances, bounds are naturals, and there is a value other than 0.

* `KernelSessionProofs`: `SessionTypeOKAlways`, `HashNamesGeometryAlways`,
  `HeadIsOneTimelineAlways`. The invariant adds that each set of bodies the
  session holds -- head, scratch, saved -- is what a prefix of some timeline
  builds. A plan whose base hash is the head's is then cut from a timeline whose
  lower part the head was built from, since hash and geometry are equal and a
  built prefix holds no failing line. It rests on `LinesSplit` (a prefix is base and
  slice) and `BuiltOnBase` (building a slice on a base without failures builds
  the prefix), which the pipeline's proofs cite too; neither needs induction over
  the timeline.
* `RegenPipelineProofs`: `PipelineInvariant`, `WorkerAlwaysHonest`,
  `PipelineImplementsLiveModel`.

The inductive invariant `PipelineInv` is needed because the refinement is decided at
`FinishRegen`, long after the plan was cut. It is the conjunction of

* `DocInv`, `EpochInv`, `RequestInv`: types of document, epochs and requests;
* `HonestInv`: hash equals geometry everywhere;
* `PlanInv`: while the revision is still the plan's, the plan is cut from the
  document, and its base is the complete geometry of the prefix below it;
* `QueueInv`: every frame queued under the plan's job id, and a scratch
  prepared under it, is about this plan;
* `DriveInv`: an answer, an accepted result and the folded steps are what the
  kernel builds of the plan's slice.

A fresh job id makes `QueueInv` true when a plan begins; the retry from zero
re-establishes it because the discard was served and with it everything before
it in the queue; an edit falsifies only the premise of `PlanInv`. At the commit,
`FoldedIsPrefix` and `BuiltOnBase` turn `DriveInv` into "what is committed is
`Regen(doc, target)`", which is the step `Rebuild(target)` of `LiveModel`. There
is one lemma per action, named after it. The invariant itself was checked by TLC on the
pipeline's instances before it was proved.

**The driver and the worker** (`RegenPipelineProofs`): `PlanIsNeverRefused`,
`RustAndWorkerAgree`, `PipelineTypes`. Rust never looks into the worker, so
`WorkerInv`, on top of `PipelineInv`, reads the one queue between them.
`LastInQueue` says that the request the driver waits for is its only one and that
behind it only checkpoint saves can be queued; what it was told of the head then
still holds when its next request comes (`Based`). `OneAtATime` says that
whatever is prepared is accepted or discarded, further down the queue, before the
next plan is executed, except that the driver may still have to say which:
hence no plan is refused. `PreparedOnBase` and `HeadIsAccepted` carry the agreement
of the bodies from the execution over the accept to the commit. `EpochOrder`
excludes that a plan was compiled for a worker that is still to come. `KindInv`
has the types that no other part needs.

**At rest** (`RegenPipelineProofs`): `IdleIsCaughtUp`, under `CatchUpKinds`: commands
reach the scheduler in order, edits are at or below the bar, no bare revision and
no removal of the last feature, and no suppression together with checkpoints. These
are exactly the circumstances in which TLC finds `IdleShowsDocument` violated
(`BareRevision`, `RemoveTop`, `SuppressTail`, `InOrder = FALSE`, `EditAboveBar =
TRUE`). `CaughtUp` is the argument why a job that ends with nothing published is no
loss: while the screen is behind, a request that covers the document waits, or a
worker died and its restart will ask for everything, or the job in flight is for
the current document, is not cancelled, and its worker cannot refuse it. `Kept`
says of the last that its scratch is there to be accepted; it needs `WorkerInv`.

**Saves and recovery** (`SaveRecoveryProofs`): `SaveTypes` without hypotheses;
`CleanIsSaved`, `NothingIsLost`, `OfferIsNewest`, each in the absence of the
circumstances of the table in section 2 that break it: each hypothesis is a row of
the table in which TLC finds that property violated, so none can be dropped, and
within the model nothing else breaks the three. `UnderSave` relates the payload of a
save to the open document, which is what `reopen_mid_save` destroys. `LaneInv` has one
holder of the lane and says that of two writers that have built different contents of
a document and await the lane, one is known to be the earlier; `Prior` is that order,
the holder being before everyone. For
`NothingLost`, `Ordered` and `Follows` say that what was built later is at
least as new, and `QueueKeeps` that no writer is about to write less
than was promised of its document. For `OfferHoldsSavedWork`, `Alike`, `Later` and
`Covered` order all the copies of one document by content: nothing is behind its
file but the autosave that a save under way is about to clear.

**The scene** (`MeshViewProofs`): `SceneHangsTogether`, `MountedSceneHangsTogether`,
`MeshNeverGoesBack`, `MeshTypes`, `StoreSettles`, `ViewShowsDocument`. `WholeInv` has the kinds of everything and the four
parts of `SceneIsWhole`; it is inductive whatever is rare, except that a dead load may
leave an entry in the registry of a view that is gone, hence the hypothesis of the
first theorem and none in the second. Every handler but the mount and the steps
of a load is composed of loads, drops and masks. `Keeps` says what each of them
preserves, `KeepsIsTransitive` composes them, so that the store's subscriber, which
flips, recolours and reconciles in one go (`WriteKeeps`), needs no case analysis.
`AgeInv` is why a mesh does not go back: a token is held by one live load, the load
with the body's token holds no mesh older than the scene's, and none is newer than
the model's. It needs loads to be fresh at birth and current when their colours
come, the hypotheses of `MeshNeverGoesBack`; TLC refutes it without either.
`StoreSettles` needs neither, but no `late_result` and no `late_refusal`. `StoreInv`
says that the last event still to be heard brings the newest document; that the
store which has heard all agrees with it but for the optimistic writes whose
commands the back end has not seen; that a refused command is of a body that is
gone, so that its reversal writes nothing; and that an answer of the pull is the
newest document or older than the store, which ignores it.
`ViewShowsDocument` is about the scene at rest and excludes all four circumstances: the
first two break it, and without the other two it rests on `StoreSettles`. Each handler
leaves a body with a new load that asks for the store's colour, without load and scene
object, or as it was (`Serves`, a relation that composes). `SeenInv` then has what the view
owes: a body that is there, was not skipped and of which no news is on its way
has a newest load that carries the store's colour and brings the model's mesh, or,
unless its load failed, shows that mesh (`StillIsRight`); and what the scene or a
load holds is there, or its removal is on its way (`HeldIsThere`). That the store drops no
such body is `NewsInv`: an event that denies a body which is there is followed by news of
it, and an answer of the pull that lacks it is older than the store, or the store is
about to lose the body anyway and to hear of it again.

**The command client** (`CommitCorrelationProofs`): `CorTypes` without hypotheses,
`SnapshotIsHeld` and `BusyMeansRunning` under those the table of section 2 names for
their properties, so that its rows for `SnapshotIsPublished` and `BusyIsRunning` are
complete; any records, files to open and number of commands. `OpenInv` says that documents
are opened, and heard of, one after the other, and that while any open is still to be
heard of, the newest one is. `SnapInv` then reads the queue of events to its end: the last
change of the open document carries the snapshot it shows, and without one the client
already holds it or has yet to hear of the document. A change of a document left
behind can only be in the queue while an open is still to be heard of, which resets
what it brought. `BusyInv` reads the same queue for the counter: starts and ends
alternate, so that it never leaves 0 and 1, and a start without an end is that of
the job that runs. Each step is one of a few motions of the queue (it grows by
certain types, it loses its first event) with one lemma each, and what the
listeners do to the commands is one relation, `Moves`.

**Verdicts** (`CommitCorrelationProofs`): `VerdictsAreTrue`, without `overlap`, `past_halt`
and `late_event`, the circumstances in which TLC refutes `VerdictIsTrue`; answers and
ends may come in either order, and awaiters may time out. A verdict is given long
after the answer, on an event that says nothing of the command but a revision. So
`VerdictInv` says of every report still in the queue which document and revision it is
about (`ReportInv`), that nothing but a projection stands between a regen's change and
its end (`PublishedInv`), that changes come in the order of their revisions and what
a commit has buffered is the last one heard (`ChangeInv`), and that a report that
publishes at or above the revision of a commit tried the record of that commit
(`RecordInv`). The last holds because no later command takes the record out before
the commit is settled (`OrderInv`), and because a document names no record twice, so
that removing or undoing takes out what it names. `ChangeInv` was false as
first stated, for a commit whose document was left with all its reports heard: nothing
more comes of it, the next change heard may be of the new document, and the answer
of the open gives the commit up. `Holds` says so.

**No command is left waiting** (`CommitCorrelationProofs`): `CommandsEnd`, that at rest no
command waits for its timeout, without `late_answer`, `no_regen` and `bare_revision`,
the circumstances in which TLC refutes `EveryCommitEnds`; the other six may happen, so
awaiters may also time out, commands may take records out while commits wait, and
events may be heard after the answer of an open. `EndsInv` follows what a command is
owed. Whatever waits, or will when its answer is heard, is still to be settled by one
of three things: the scheduler, which has a request or an uncancelled job at its
revision or above; an event on its way that covers it; or a change that was heard
before its answer (`OwedInv`). Only the answer of an open may take all three away, and
it gives the command up itself. This passes from one to the next because a job is
cancelled only by the request that takes its place, and is otherwise for the document
as it is (`CallInv`), so that a superseded or cancelled regen, which settles nobody,
leaves a request behind; and because changes are heard document by document and in
the order of their revisions (`RiseInv`), so that no earlier one can undo what was
heard. At rest there is no request, no job, no event and no answer: nothing is owed.

**The steps of a sketch** (`SketchSessionProofs`): `SketchChain` and `SketchTypes`, without
hypotheses: none of the circumstances in the sketch table of section 2 breaks them,
early undo, quick re-entry and racing drags included. One stack holds the steps of all
sketches, of their records and of everything else; an eviction takes its first step
away, a squash cuts off its end, and each undo moves a step from one half of
the history to the other. `Links` says of any history and any set of places in it that
the steps there follow each other and meet at what is there now. The lemmas
`LinksBack`, `LinksForth`, `LinksDrop`, `LinksCut` and `LinksGrow` say what the five
motions of a history do to it, without a word of stacks; `ChainedPush` to `ChainedCut`
carry them over to the two stacks, whose redo half is read backwards. The chain
alone is not inductive, since a squash replaces the steps above a mark by one whose
beginning is what the session saw on entry. `SlotIs` says why that is right: while
nothing was evicted since, the steps below the mark leave the sketch just so. It is
kept by every step that goes on top, and by an undo because a session whose
mark no longer fits is dropped (`DropOK`); after an eviction it is vacuous, and the code
does not squash then. There is one lemma for each operation of the runtime, about
any runtime that is in order (`BeOK`), and one for each action. On the frontend's side
`Mail` says who waits for which answer, and `RoomIs` that a snapshot taken
off a stack by an undo still has its place there if the edit fails, so that the caps hold.

**The life of a session** (`SketchSessionProofs`): `SketchClosed` and `SketchRecord`.
Opening and closing are two calls apart at both ends, and what the frontend, the answers
under way and the runtime hold at any time is only understood together. The proof
therefore makes one thing of them: a phase, "shut", "opening", "leaving", "open", "owed" a
finish or "done", of one sketch. `Life` says which phase the controller, the store and
the one call under way (`CallIs`) stand for; `LifeStep` what the runtime does from phase to
phase; and `LifeSteps`, one lemma for each action, that every step of the program is a
step of such a life. There are no sequences of answers in what follows. `Held`
says what the runtime holds in each phase: nothing when shut, a session at the top of the
stack while it opens, and above the mark only the session's own steps while it is open
(`Shut`, `Opening`, `Open`); hence `SketchClosed`. It needs that the history is not used
between cancel and finish (`early_undo`), and that no sketch is entered before then
(`fast_reenter`).
`Told` says the same of stacks and records: the history, undone steps included, is of whole
visits, a net step and the record step that follows it (`Paired`, `Partner`), and
every record holds its sketch, but for one visit that an undo has halved (`Rest`); the
chain of `SketchChain` is what makes each half of an undo or redo meet the other. While a
session is open this holds below its mark, with the record at what the session found
(`Editing`), and a finish is owed to the net step on top of the stack (`Pending`). It needs besides
that nothing is pushed on half a visit (`half_undo`) and that an entry that was left
is not raced by the history (`entry_act`). This last one came up
with the proof: `Told` is not kept by an act while a session is "leaving", and with three
acts in model mode TLC finds why. Both theorems hold for any sketches, verbs, caps and bounds.

**The tools** (`ToolLaneProofs`, `ToolRecordProofs`): any tools of the seven, number of regions, values and
arms. The controller is one record that most handlers rewrite in several places, so the
proofs do not unfold the actions. Every operator has a relation that says what it does to the
controller and to the lane (`Moves`, `Restarted`, `Stepped`, `BarrierEnds`, `Swept`, ...) with a
lemma "...Is", and every action is one of eight relations (`Starts`, `Waited`, `Adjusts`,
`Proceeds`, `Handles`, `Delivers`, `Discards`, `Answered`; lemmas "...Steps"). The invariants
are proved over these.

* `LaneTypes` and `CommitsShown` need no hypothesis: a strict operation is applied with the
  value the kernel has approved, and every operation with the value on screen, in
  all circumstances of the table. `Shows` says it of the calls under way, and that the lane
  holds the value on screen for the session whose barrier is waited for.
* `LatchTruth`, without `profile_gone`: the latch is up exactly while a session fails. This is
  the half of `PreviewIsTrue` that holds at every moment.
* `LaneOwned`, without `flip_mid_commit` and `profile_gone`, and `CommitAwaited`, without the
  latter. `Fits` says for every program counter of a commit which sessions the lane must
  know and which it may: all of the arm before the first call, those from the k-th on at the
  barrier, what is left while the k-th call is under way.
* `PicksCurrent`, without `edit_mid_commit` and `late_prepare`. An applied record changes the
  model under picks which are only made again when its answer is handled. `Under` says
  what the document is in between: that of the picks, or that with one failed record more, which
  the undo takes off.
* `RecordsRight`, without `profile_gone` and `edit_mid_commit`. Calls whose arm was left still
  run, in the order of their arms (`Lined`), so that the document is always ahead of what
  the controller knows. `Tidy` says that each region is there once, and that a failed
  record is of an abandoned arm or is the last one, to be taken off by the call under way;
  `Plan` that what the user chose is built, or listed from the k-th region on, and never both.

Except for `PreviewSettles`, which is not proved, these hypotheses are the rows of the table
in section 2, so that the table is complete.

Only model-checked: `TimelineIsShown` of `CommitCorrelation`; `PreviewSettles`, the other half of
`PreviewIsTrue`, of `ToolLane`; `ScreenIsDocument`
and `NoSilentLoss` of `SketchSession`; and `Converges` and
`EventuallyProtected`, since liveness under fairness is beyond the prover.

## 7. Not modelled

* Of the front end, what has no concurrency and no state that outlives a call:
  camera, picking, snapping, inference, gizmos, panels, geometry of handles and of
  sketch entities; and the mock client. These are most of its lines: the map names
  some 4 400 lines of TypeScript, nearly all of the asynchronous core of the files
  it names and little of anything else.
* The worker supervisor beyond death and restart; the timers of the scheduler; the
  execution ceiling of the planner; the checkpoint ladder: sizes and times that
  these instances do not reach.
* The repair gate, the ordinal tripwire, variables, the library and imports,
  export: sequential transformations of data, or geometry.
* Re-edits and pattern tools of the tool lane, and the items listed with each module.

## 8. Plan

1. Done: `HistoryPrefix`, `KernelSession`, `LiveModel`, `RegenPipeline`, their runs
   and theorems; `SaveRecovery`; `MeshView`, `ToolLane`, `CommitCorrelation`,
   `SketchSession` and their runs.
2. Proofs: those of section 6 are done. Next `PreviewSettles` of `ToolLane`;
   `TimelineIsShown` of `CommitCorrelation`,
   which needs `RiseInv` for projections as well.
3. `WorkerSupervisor`: heartbeat against a busy worker, poisoned plans, the
   restart budget, retirement and the swap of the document slot. A poisoned plan
   should not stop the supervisor (`manager.rs`), and two of them may use up the
   budget together.
4. An abstract history of documents that the stack of `SketchSession` implements
   while nothing is evicted.
5. `RegenScheduler` with its timers, and the execution ceiling of the planner.
