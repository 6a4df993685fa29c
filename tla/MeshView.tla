------------------------------ MODULE MeshView ------------------------------
(***************************************************************************)
(* The frontend's pull of body meshes into the scene                       *)
(* (src/viewport/mesh/meshSync.ts, class MeshIngest, with meshRegistry.ts, *)
(* the projection bridge projectionHydration.ts, and the optimistic tree   *)
(* edits of treeActions.ts).                                               *)
(*                                                                         *)
(* The backend publishes meshes and says so with two events, pushed in the *)
(* order it emits them; a mesh itself is fetched by a call whose answer is *)
(* not ordered with the events.  A load may therefore be overtaken by a    *)
(* newer load, by the removal of its body or by the unmount of the view.   *)
(***************************************************************************)
EXTENDS Integers, Sequences, FiniteSets, Functions

CONSTANTS Bodies,      \* the body ids
          Colors,      \* the authored body colours
          MaxMesh,     \* bound: the versions of a body's mesh
          MaxEdits,    \* bound: publishes, user edits, failed fetches and the unmount together
          MaxRetries,  \* EMPTY_MESH_RETRIES
          MaxLoads,    \* bound: loads under way and retries waiting, together
          Rare         \* the rare circumstances a run allows (see the README)

\* Init has bodies with a first mesh.
ASSUME MeshBounds == /\ IsFiniteSet(Bodies)
                     /\ {MaxMesh, MaxEdits, MaxRetries, MaxLoads} \subseteq Nat /\ MaxMesh > 0
                     /\ Rare \subseteq {"token_reuse", "late_result", "late_refusal", "stale_colors"}

VARIABLES model,     \* backend: body -> [there, mesh, visible, color]; mesh 0 is unpublished
          revision,  \* backend: the revision of the document
          channel,   \* the events on their way to the frontend, oldest first
          pull,      \* the getProjection call of the mount: [asked, answers]
          commands,  \* the tree edits sent and not yet settled
          store,     \* documentStore: [rev, bodies]
          isolated,  \* viewportStore.isolatedBodyIds, of Bodies: all of them is null or includes them
          view,      \* the MeshIngest: its maps, its loads in flight, its timers
          chip,      \* viewportStore.geometryPending
          mounted,   \* the life of this MeshIngest: "new", "on", "gone"
          edits

transport == <<channel, pull, commands>>
vars == <<model, revision, transport, store, isolated, view, chip, mounted, edits>>

Put(f, S, g) == [b \in DOMAIN f \cup S |-> IF b \in S THEN g[b] ELSE f[b]]
Without(f, S) == Restrict(f, DOMAIN f \ S)

(* -- The backend's documents and events --------------------------------- *)

Projection(m) == Restrict([b \in Bodies |-> [visible |-> m[b].visible, color |-> m[b].color]],
                          {b \in Bodies : m[b].there})
ProjectionEvent(m, r) == [type |-> "projection", rev |-> r, bodies |-> Projection(m)]
ChangeEvent(changed, removed) == [type |-> "changed", changed |-> changed, removed |-> removed]

(* -- The view: loads, drops, reconciliation ----------------------------- *)

Visible(bodies, b) == b \in DOMAIN bodies => bodies[b].visible
EffectiveVisible(bodies, mask, b) == Visible(bodies, b) /\ b \in mask
Token(v, b) == IF b \in DOMAIN v.loadSeq THEN v.loadSeq[b] ELSE 0
ColorOf(bodies, b) == IF b \in DOMAIN bodies THEN bodies[b].color ELSE "none"

LoadBody(v, bodies, S, attempt) ==
  LET token == [b \in S |-> Token(v, b) + 1]
      fetch(b) == [body |-> b, token |-> token[b], attempt |-> attempt, stage |-> "asked",
                   mesh |-> 0, color |-> ColorOf(bodies, b), live |-> TRUE,
                   copy |-> Cardinality({f \in v.fetches : f.body = b /\ f.token = token[b]})]
  IN [v EXCEPT !.loadSeq = Put(@, S, token),
               !.pending = @ \cup S,
               !.fetches = @ \cup {fetch(b) : b \in S},
               !.skipped = @ \ S]

\* History: a change of a hidden body is not loaded; "skipped" remembers it until the next load.
Skip(v, S) == [v EXCEPT !.skipped = @ \cup S]

\* Mutant of DropBody: the registry keeps the buffers of a dropped body.
LeakyDrop(v, S) == [v EXCEPT !.scene = Without(@, S), !.loadSeq = Without(@, S),
                             !.pending = @ \ S, !.failed = @ \ S, !.skipped = @ \ S]

DropBody(v, S) == [v EXCEPT !.scene = Without(@, S),
                            !.registry = Without(@, S),
                            !.loadSeq = Without(@, S),
                            !.pending = @ \ S,
                            !.failed = @ \ S, !.skipped = @ \ S]

Reconcile(v, bodies) ==
  DropBody(LoadBody(v, bodies, {b \in DOMAIN bodies : bodies[b].visible
                                  /\ b \notin DOMAIN v.scene \cup v.pending}, 0),
           DOMAIN v.scene \ DOMAIN bodies)

Masked(v, bodies, mask, S) ==
  [v EXCEPT !.scene = [b \in DOMAIN @ |->
     IF b \in S THEN [@[b] EXCEPT !.shown = EffectiveVisible(bodies, mask, b)] ELSE @[b]]]

OnVisibilityChanged(v, old, new) ==
  LET flipped == {b \in DOMAIN new : b \in DOMAIN old => old[b].visible # new[b].visible}
  IN LoadBody(Masked(v, new, isolated, flipped), new,
              {b \in flipped \ DOMAIN v.scene : new[b].visible}, 0)

\* Mutant of OnColorChanged: a body still loading is not loaded again.
RecolorLoaded(v, old, new) ==
  LoadBody(v, new, {b \in DOMAIN new \cap DOMAIN v.scene : ColorOf(old, b) # new[b].color}, 0)

OnColorChanged(v, old, new) ==
  LET recolored == {b \in DOMAIN new : ColorOf(old, b) # new[b].color}
      wanted == {b \in recolored : b \in DOMAIN v.scene \/ new[b].visible}
  IN LoadBody(Skip(v, recolored \ wanted), new, wanted, 0)

Missing(v, bodies) == {b \in DOMAIN bodies : bodies[b].visible /\ b \notin DOMAIN v.scene}

\* One write of documentStore.bodies and what its subscriber does with it.
StoreWrite(rev, bodies) ==
  /\ store' = [rev |-> rev, bodies |-> bodies]
  /\ IF mounted = "on" /\ bodies # store.bodies
       THEN /\ view' = Reconcile(OnColorChanged(OnVisibilityChanged(view, store.bodies, bodies),
                                                store.bodies, bodies), bodies)
            /\ chip' = (Missing(view', bodies) # {})
       ELSE UNCHANGED <<view, chip>>

\* Mutant of ApplyProjection: no revision guard.
ApplyEveryProjection(p) == StoreWrite(p.rev, p.bodies)

ApplyProjection(p) ==
  IF p.rev < store.rev THEN UNCHANGED <<store, view, chip>> ELSE StoreWrite(p.rev, p.bodies)

(* -- Backend steps ------------------------------------------------------- *)

Emits(m, events) ==
  /\ model' = m
  /\ revision' = revision + 1
  /\ channel' = channel \o events \o <<ProjectionEvent(m, revision + 1)>>

NoPull == [asked |-> FALSE, answers |-> {}]

Edit == mounted = "on" /\ edits < MaxEdits /\ edits' = edits + 1

Publish(b) ==
  /\ Edit /\ model[b].there /\ model[b].mesh < MaxMesh
  /\ Emits([model EXCEPT ![b].mesh = @ + 1], <<ChangeEvent({b}, {})>>)
  /\ UNCHANGED <<pull, commands, store, isolated, view, chip, mounted>>

Delete(b) ==
  /\ Edit /\ model[b].there
  /\ Emits([model EXCEPT ![b].there = FALSE], <<ChangeEvent({}, {b})>>)
  /\ UNCHANGED <<pull, commands, store, isolated, view, chip, mounted>>

\* A body that is back before the refusals of its tree edits are: the circumstance "late_refusal".
Restore(b) ==
  /\ Edit /\ ~model[b].there /\ model[b].mesh < MaxMesh
  /\ "late_refusal" \in Rare \/ \A c \in commands : c.body = b => c.answer # "refused"
  /\ Emits([model EXCEPT ![b].there = TRUE, ![b].mesh = @ + 1], <<ChangeEvent({b}, {})>>)
  /\ UNCHANGED <<pull, commands, store, isolated, view, chip, mounted>>

(* -- Tree edits: an optimistic write, one command, its settlement -------- *)

Write(bodies, b, field, value) ==
  IF b \in DOMAIN bodies THEN [bodies EXCEPT ![b][field] = value] ELSE bodies

Dispatch(b, field, value) ==
  /\ Edit /\ b \in DOMAIN store.bodies /\ store.bodies[b][field] # value
  /\ StoreWrite(store.rev, Write(store.bodies, b, field, value))
  /\ commands' = commands \cup {[body |-> b, field |-> field, value |-> value, nth |-> edits,
                                 before |-> store.bodies[b][field], answer |-> "sent", rev |-> 0]}
  /\ UNCHANGED <<model, revision, channel, pull, isolated, mounted>>

SetBodyVisible(b) == \E on \in BOOLEAN : Dispatch(b, "visible", on)
SetBodyColor(b) == \E color \in Colors : Dispatch(b, "color", color)

First(c) == \A d \in commands : d.answer = "sent" => c.nth <= d.nth

HandleCommand(c) ==
  /\ c.answer = "sent" /\ First(c)
  /\ IF model[c.body].there
       THEN /\ Emits([model EXCEPT ![c.body][c.field] = c.value], <<>>)
            /\ commands' = (commands \ {c}) \cup {[c EXCEPT !.answer = "done", !.rev = revision + 1]}
       ELSE /\ commands' = (commands \ {c}) \cup {[c EXCEPT !.answer = "refused"]}
            /\ UNCHANGED <<model, revision, channel>>
  /\ UNCHANGED <<pull, store, isolated, view, chip, mounted, edits>>

\* A result older than the store takes its revision back, and with it the guard against an older
\* pull: the circumstance "late_result".
CommandResult(c) ==
  /\ c.answer # "sent"
  /\ c.answer = "done" /\ c.rev < store.rev => "late_result" \in Rare \/ pull.answers = {}
  /\ commands' = commands \ {c}
  /\ IF c.answer = "done" THEN StoreWrite(c.rev, store.bodies)
                          ELSE StoreWrite(store.rev, Write(store.bodies, c.body, c.field, c.before))
  /\ UNCHANGED <<model, revision, channel, pull, isolated, mounted, edits>>

(* -- Deliveries ---------------------------------------------------------- *)

OnDocumentChanged(c) ==
  /\ IF mounted = "on"
       THEN LET wanted == {b \in c.changed : Visible(store.bodies, b)}
            IN /\ view' = LoadBody(Skip(DropBody(view, c.removed), c.changed \ wanted),
                                   store.bodies, wanted, 0)
               /\ chip' = IF c.removed = {} THEN chip ELSE Missing(view', store.bodies) # {}
       ELSE UNCHANGED <<view, chip>>
  /\ UNCHANGED store

DeliverEvent ==
  /\ channel # <<>>
  /\ channel' = Tail(channel)
  /\ LET e == Head(channel)
     IN IF e.type = "changed" THEN OnDocumentChanged(e) ELSE ApplyProjection(e)
  /\ UNCHANGED <<model, revision, pull, commands, isolated, mounted, edits>>

AnswerPull ==
  /\ pull.asked
  /\ pull' = [asked |-> FALSE, answers |-> {ProjectionEvent(model, revision)}]
  /\ UNCHANGED <<model, revision, channel, commands, store, isolated, view, chip, mounted, edits>>

DeliverPull ==
  \E p \in pull.answers :
    /\ pull' = NoPull
    /\ ApplyProjection(p)
    /\ UNCHANGED <<model, revision, channel, commands, isolated, mounted, edits>>

(* -- Mount, isolation ----------------------------------------------------- *)

NoView == [scene |-> <<>>, registry |-> <<>>, loadSeq |-> <<>>, pending |-> {},
           fetches |-> {}, timers |-> {}, failed |-> {}, skipped |-> {}]

Attach ==
  /\ mounted = "new"
  /\ mounted' = "on"
  /\ view' = Reconcile(view, store.bodies)
  /\ chip' = (Missing(view', store.bodies) # {})
  /\ pull' = [asked |-> TRUE, answers |-> {}]
  /\ UNCHANGED <<model, revision, channel, commands, store, isolated, edits>>

Detach ==
  /\ Edit
  /\ mounted' = "gone"
  /\ view' = [NoView EXCEPT !.fetches = {[f EXCEPT !.live = FALSE] : f \in view.fetches}]
  /\ chip' = FALSE
  /\ UNCHANGED <<model, revision, transport, store, isolated>>

ToggleIsolate(S) ==
  /\ Edit
  /\ S # isolated /\ (isolated = Bodies \/ S = Bodies)
  /\ isolated' = S
  /\ view' = LoadBody(Masked(view, store.bodies, S, Bodies), store.bodies,
                      {b \in DOMAIN store.bodies \ DOMAIN view.scene :
                         EffectiveVisible(store.bodies, S, b)}, 0)
  /\ UNCHANGED <<model, revision, transport, store, chip, mounted>>

(* -- A load, await by await ----------------------------------------------- *)

\* Mutant of Current: a superseded load is still good.
AnyLoad(f) == f.live /\ f.body \in DOMAIN view.loadSeq

Current(f) == f.live /\ f.body \in DOMAIN view.loadSeq /\ view.loadSeq[f.body] = f.token
Done(v, f) == [v EXCEPT !.fetches = @ \ {f},
                        !.pending = IF Current(f) THEN @ \ {f.body} ELSE @]
Becomes(f, stage, mesh) ==
  view' = [view EXCEPT !.fetches = (@ \ {f}) \cup {[f EXCEPT !.stage = stage, !.mesh = mesh]}]

\* Mutant of Retry: one retry too many.
RetryOnceMore(f) == {[body |-> f.body, token |-> f.token, attempt |-> f.attempt]}

Retry(f) == IF f.attempt < MaxRetries
              THEN {[body |-> f.body, token |-> f.token, attempt |-> f.attempt]} ELSE {}

\* The answer of a superseded load is looked at only if its token comes back.
Heeded(f) == Current(f) \/ "token_reuse" \in Rare

AnswerMesh(f) ==
  /\ f.stage = "asked" /\ Heeded(f)
  /\ Becomes(f, "answered", IF model[f.body].there THEN model[f.body].mesh ELSE 0)
  /\ UNCHANGED <<model, revision, transport, store, isolated, chip, mounted, edits>>

FailMesh(f) ==
  /\ f.stage = "asked" /\ Edit
  /\ view' = [Done(view, f) EXCEPT !.failed = IF Current(f) THEN @ \cup {f.body} ELSE @]
  /\ UNCHANGED <<model, revision, transport, store, isolated, chip, mounted>>

\* The swap of the registry entry and of the scene object.  A load the view died under writes
\* the registry and then fails on the missing engine.
Install(f) ==
  LET entry == [mesh |-> f.mesh, color |-> f.color]
      kept == [Done(view, f) EXCEPT !.registry = Put(@, {f.body}, [b \in {f.body} |-> entry])]
      handle == [mesh |-> f.mesh, color |-> f.color,
                 shown |-> EffectiveVisible(store.bodies, isolated, f.body)]
  IN IF f.live
       THEN /\ view' = [kept EXCEPT !.scene = Put(@, {f.body}, [b \in {f.body} |-> handle]), !.failed = @ \ {f.body}]
            /\ chip' = (Missing(view', store.bodies) # {})
       ELSE view' = kept /\ UNCHANGED chip

ResolveMesh(f) ==
  /\ f.stage = "answered" \/ (f.stage = "asked" /\ ~Heeded(f))
  /\ CASE ~Current(f) -> view' = Done(view, f) /\ UNCHANGED chip
       [] Current(f) /\ f.mesh = 0 ->
            /\ view' = [Done(view, f) EXCEPT !.timers = @ \cup Retry(f)]
            /\ UNCHANGED chip
       [] OTHER -> \* authored face colours on mesh ids that are not ElementIds need a second call
            Install(f) \/ (Becomes(f, "colors", f.mesh) /\ UNCHANGED chip)
  /\ UNCHANGED <<model, revision, transport, store, isolated, mounted, edits>>

ResolveFaceColors(f) ==
  /\ f.stage = "colors"
  /\ Install(f)
  /\ UNCHANGED <<model, revision, transport, store, isolated, mounted, edits>>

FireRetry(t) ==
  /\ LET rest == [view EXCEPT !.timers = @ \ {t}]
     IN view' = IF Token(view, t.body) = t.token /\ t.body \notin DOMAIN view.scene
                  THEN LoadBody(rest, store.bodies, {t.body}, t.attempt + 1) ELSE rest
  /\ UNCHANGED <<model, revision, transport, store, isolated, chip, mounted, edits>>

(* -- The system ------------------------------------------------------------ *)

\* A document opened before the view, its bodies still without meshes; or an open view, whose
\* store has heard of nothing yet.
Init ==
  /\ \E mesh \in 0..1 :
       /\ model = [b \in Bodies |-> [there |-> TRUE, mesh |-> mesh, visible |-> TRUE, color |-> "none"]]
       /\ store = IF mesh = 0 THEN [rev |-> 1, bodies |-> Projection(model)]
                              ELSE [rev |-> 0, bodies |-> <<>>]
  /\ revision = 1
  /\ channel = <<>> /\ pull = NoPull /\ commands = {}
  /\ isolated = Bodies
  /\ view = NoView
  /\ chip = FALSE /\ mounted = "new"
  /\ edits = 0

\* Dropping a body restarts its tokens, so a load that outlives the drop can meet its own token
\* again: the circumstance "token_reuse".
FreshTokens == \A f \in view'.fetches : f.live => f.copy = 0

\* Nothing is looked at again after the second call, so a load superseded or unmounted while it
\* waits for it still installs its mesh: the circumstance "stale_colors".
FreshColors == \A f \in view'.fetches : f.stage = "colors" =>
  f.live /\ f.body \in DOMAIN view'.loadSeq /\ view'.loadSeq[f.body] = f.token

Step ==
  \/ \E b \in Bodies : Publish(b) \/ Delete(b) \/ Restore(b) \/ SetBodyVisible(b) \/ SetBodyColor(b)
  \/ mounted = "on" /\ (DeliverEvent \/ AnswerPull \/ DeliverPull)
  \/ mounted = "on" /\ \E c \in commands : HandleCommand(c) \/ CommandResult(c)
  \/ Attach \/ Detach
  \/ \E S \in SUBSET Bodies : ToggleIsolate(S)
  \/ \E f \in view.fetches : AnswerMesh(f) \/ FailMesh(f) \/ ResolveMesh(f) \/ ResolveFaceColors(f)
  \/ \E t \in view.timers : FireRetry(t)

Next == /\ Step
        /\ "token_reuse" \in Rare \/ FreshTokens
        /\ "stale_colors" \in Rare \/ FreshColors
        /\ Cardinality(view'.fetches) + Cardinality(view'.timers) <= MaxLoads

Spec == Init /\ [][Next]_vars

(* -- Properties -------------------------------------------------------------- *)

\* Type invariant.
MeshTypeOK ==
  /\ \A b \in Bodies : model[b].mesh \in 0..MaxMesh /\ model[b].color \in Colors \cup {"none"}
  /\ store.rev <= revision
  /\ {DOMAIN store.bodies, DOMAIN view.scene, DOMAIN view.registry, DOMAIN view.loadSeq,
      view.pending, view.failed} \subseteq SUBSET Bodies
  /\ \A f \in view.fetches : f.stage \in {"asked", "answered", "colors"} /\ f.attempt <= MaxRetries

Quiet == channel = <<>> /\ pull = NoPull /\ commands = {} /\ view.fetches = {} /\ view.timers = {}

\* What MeshIngest promises (its header: "self-healing"): when nothing is under way, a mounted view
\* shows every visible body that has a mesh, with its latest mesh and colour, unless its load
\* failed and the user was told; and it shows no body the document has lost.
SettledViewIsDocument ==
  Quiet /\ mounted = "on" =>
    /\ DOMAIN view.scene \subseteq DOMAIN store.bodies
    /\ \A b \in DOMAIN store.bodies \ (view.failed \cup view.skipped) :
         model[b].visible /\ model[b].mesh > 0 =>
           /\ b \in DOMAIN view.scene
           /\ view.scene[b].mesh = model[b].mesh /\ view.scene[b].color = model[b].color

\* The optimistic writes, their reversals, the revision guard and the pull of the mount leave the
\* store at the backend's document once nothing is under way.
SettledStoreIsModel == Quiet /\ mounted = "on" => store.bodies = Projection(model)

\* The tree eye and the isolation mask together decide what renders, whatever order a load, a
\* flip and a mask came in.
RendersWhatIsAllowed ==
  \A b \in DOMAIN view.scene : view.scene[b].shown = EffectiveVisible(store.bodies, isolated, b)

\* The scene objects and the registry that owns their buffers name the same bodies and meshes: a
\* difference is a leaked or a freed buffer.
RegistryIsScene ==
  /\ DOMAIN view.registry = DOMAIN view.scene
  /\ \A b \in DOMAIN view.scene : view.registry[b].mesh = view.scene[b].mesh

\* The "Rebuilding geometry" chip is up exactly while a visible body has no scene object.
ChipTellsMissing == mounted = "on" => chip = (Missing(view, store.bodies) # {})

\* A body marked as loading has a load under way that will take the mark away; otherwise
\* reconcile would skip it for ever.
PendingIsLoading ==
  \A b \in view.pending : \E f \in view.fetches : f.body = b /\ Current(f)

\* At every moment what is on screen hangs together: what renders is what may render, no buffer
\* is leaked or freed under a scene object, the chip tells of what is missing, and what is marked
\* as loading is loading.
SceneIsWhole == RendersWhatIsAllowed /\ RegistryIsScene /\ ChipTellsMissing /\ PendingIsLoading

\* A resolved fetch older than the latest is discarded: a body's geometry never goes back.
NeverOlder ==
  [][\A b \in DOMAIN view.scene \cap DOMAIN view'.scene : view'.scene[b].mesh >= view.scene[b].mesh]_vars
=============================================================================
