--------------------------- MODULE MeshViewProofs ---------------------------
(***************************************************************************)
(* The scene of MeshView hangs together at every moment, and no body's     *)
(* mesh goes back, for any bodies, colours and bounds; once everything is  *)
(* heard, the store is the document, and the settled view shows it.        *)
(*                                                                         *)
(* Everything the view does but its own mount and the steps of a load is a *)
(* composition of loads, drops and masks; what one of them keeps, all of   *)
(* them keep ("Keeps").  A mesh goes back only if a load that is not the   *)
(* newest of its body is installed.  A load carries the token of its body; *)
(* the two rare circumstances apart, only the load with the body's token   *)
(* is ever installed, it is the only one with it, and it asked for its     *)
(* mesh after the scene's was asked for.                                   *)
(***************************************************************************)
EXTENDS MeshView, FiniteSetTheorems, SequenceTheorems, TLAPS

Hues  == Colors \cup {"none"}
Parts == [there : BOOLEAN, mesh : 0 .. MaxMesh, visible : BOOLEAN, color : Hues]
Rows  == [visible : BOOLEAN, color : Hues]

Partial(T) == UNION {[S -> T] : S \in SUBSET Bodies}

Handles == [mesh : 0 .. MaxMesh, color : Hues, shown : BOOLEAN]
Entries == [mesh : 0 .. MaxMesh, color : Hues]
Fetches == [body : Bodies, token : Nat, attempt : 0 .. MaxRetries,
            stage : {"asked", "answered", "colors"}, mesh : 0 .. MaxMesh,
            color : Hues, live : BOOLEAN, copy : Nat]
Timers  == [body : Bodies, token : Nat, attempt : 0 .. MaxRetries - 1]
Views   == [scene : Partial(Handles), registry : Partial(Entries), loadSeq : Partial(Nat),
            pending : SUBSET Bodies, fetches : SUBSET Fetches, timers : SUBSET Timers,
            failed : SUBSET Bodies, skipped : SUBSET Bodies]

Projections == [type : {"projection"}, rev : Nat, bodies : Partial(Rows)]
Changes     == [type : {"changed"}, changed : SUBSET Bodies, removed : SUBSET Bodies]
Commands    ==
    [body : Bodies, field : {"visible"}, value : BOOLEAN, nth : Nat, before : BOOLEAN,
     answer : {"sent", "done", "refused"}, rev : Nat]
    \cup
    [body : Bodies, field : {"color"}, value : Hues, nth : Nat, before : Hues,
     answer : {"sent", "done", "refused"}, rev : Nat]

-----------------------------------------------------------------------------
(* The invariant.                                                          *)

BackendKind ==
    /\ model \in [Bodies -> Parts] /\ revision \in Nat
    /\ store \in [rev : Nat, bodies : Partial(Rows)] /\ store.rev <= revision
    /\ channel \in Seq(Projections \cup Changes)
    /\ \A i \in DOMAIN channel : channel[i].type = "projection" => channel[i].rev <= revision
    /\ pull \in [asked : BOOLEAN, answers : SUBSET Projections]
    /\ \A p \in pull.answers : p.rev <= revision
    /\ commands \subseteq Commands /\ \A c \in commands : c.rev <= revision
    /\ edits \in Nat

(* What the view holds; the loads of an unmounted view are dead, and all   *)
(* that is left of it.                                                     *)
ViewKind ==
    /\ view \in Views /\ IsFiniteSet(view.fetches)
    /\ isolated \subseteq Bodies /\ mounted \in {"new", "on", "gone"}
    /\ \A f \in view.fetches : f.stage = "colors" => f.mesh # 0
    /\ \A f \in view.fetches : f.live <=> mounted = "on"
    /\ mounted = "new" => view.fetches = {}
    /\ mounted # "on" => DOMAIN view.scene = {} /\ view.timers = {}

IsCurrent(v, f) == f.live /\ f.body \in DOMAIN v.loadSeq /\ v.loadSeq[f.body] = f.token

Matched(v) ==
    /\ DOMAIN v.registry = DOMAIN v.scene
    /\ \A b \in DOMAIN v.scene : v.registry[b].mesh = v.scene[b].mesh

Loading(v) == \A b \in v.pending : \E f \in v.fetches : f.body = b /\ IsCurrent(v, f)

(* Only the newest load of a body waits for colours.                       *)
ColorsCurrent(v) == \A f \in v.fetches : f.stage = "colors" => IsCurrent(v, f)

NoStaleColors == "stale_colors" \notin Rare

(* A load that outlived its view leaves a mesh in the registry of nothing. *)
SceneHolds ==
    /\ RendersWhatIsAllowed /\ ChipTellsMissing /\ PendingIsLoading
    /\ NoStaleColors \/ mounted # "gone" => RegistryIsScene

WholeInv == BackendKind /\ ViewKind /\ SceneHolds /\ (NoStaleColors => ColorsCurrent(view))

(* Tokens tell loads apart.                                                *)
FirstCopies(v) == \A f \in v.fetches : f.live => f.copy = 0
TokensApart(v) ==
    \A f, g \in v.fetches : f.live /\ g.live /\ f.body = g.body /\ f.token = g.token => f = g

(* The newest load of a body brings nothing older than what is shown.      *)
NotBehind(v) ==
    \A f \in v.fetches : IsCurrent(v, f) /\ f.mesh # 0 /\ f.body \in DOMAIN v.scene =>
        f.mesh >= v.scene[f.body].mesh

(* Nobody holds a mesh that was never published.                           *)
Published(v, m) ==
    /\ \A b \in DOMAIN v.scene : v.scene[b].mesh <= m[b].mesh
    /\ \A f \in v.fetches : f.mesh <= m[f.body].mesh

AgeInv == FirstCopies(view) /\ TokensApart(view) /\ NotBehind(view) /\ Published(view, model)

-----------------------------------------------------------------------------
(* Partial functions.                                                      *)

(* A partial function on the bodies is what its domain and values say.     *)
LEMMA PartialIs ==
    ASSUME NEW T, NEW f
    PROVE  f \in Partial(T) <=>
             f = [b \in DOMAIN f |-> f[b]] /\ DOMAIN f \subseteq Bodies /\ \A b \in DOMAIN f : f[b] \in T
  BY DEF Partial

(* "Put" overwrites entries with entries of the same kind.                 *)
LEMMA PutKeeps ==
    ASSUME NEW T, NEW f \in Partial(T), NEW S \in SUBSET Bodies, NEW g, \A b \in S : g[b] \in T
    PROVE  Put(f, S, g) \in Partial(T)
  BY PartialIs DEF Put

(* "Without" takes the named entries away and changes no other.            *)
LEMMA WithoutIs ==
    ASSUME NEW f, NEW S
    PROVE  /\ DOMAIN Without(f, S) = DOMAIN f \ S
           /\ \A b \in DOMAIN f \ S : Without(f, S)[b] = f[b]
  BY DEF Without, Restrict

(* What is left of a partial function is one.                              *)
LEMMA WithoutKeeps ==
    ASSUME NEW T, NEW f \in Partial(T), NEW S
    PROVE  Without(f, S) \in Partial(T)
  BY PartialIs DEF Without, Restrict

(* The empty function is a partial function of every kind.                 *)
LEMMA NothingKept ==
    ASSUME NEW T
    PROVE  <<>> \in Partial(T) /\ DOMAIN <<>> = {}
<1>1. <<>> \in Seq(T) /\ Len(<<>>) = 0
  BY EmptySeq
<1>2. DOMAIN <<>> = {}
  BY <1>1, LenProperties
<1>3. <<>> = [b \in DOMAIN <<>> |-> <<>>[b]]
  BY <1>1
<1>. QED
  BY <1>2, <1>3, PartialIs

-----------------------------------------------------------------------------
(* What loads, drops and masks keep.                                       *)

Keeps(v, w) ==
    /\ w \in Views /\ IsFiniteSet(w.fetches)
    /\ v.fetches \subseteq w.fetches
    /\ \A f \in w.fetches \ v.fetches : f.live /\ f.mesh = 0 /\ f.stage = "asked"
    /\ DOMAIN w.scene \subseteq DOMAIN v.scene
    /\ \A b \in DOMAIN w.scene : w.scene[b].mesh = v.scene[b].mesh
    /\ Matched(v) => Matched(w)
    /\ Loading(v) => Loading(w)
    /\ FirstCopies(w) /\ TokensApart(v) /\ NotBehind(v) => TokensApart(w) /\ NotBehind(w)

(* What two changes of the view keep, one after the other keeps.           *)
LEMMA KeepsIsTransitive ==
    ASSUME NEW u, NEW v, NEW w, Keeps(u, v), Keeps(v, w)
    PROVE  Keeps(u, w)
<1>1. FirstCopies(w) => FirstCopies(v)
  BY DEF FirstCopies, Keeps
<1>2. \A f \in w.fetches \ u.fetches : f.live /\ f.mesh = 0 /\ f.stage = "asked"
  BY DEF Keeps
<1>. QED
  BY <1>1, <1>2 DEF Keeps

(* Remembering a skipped body touches nothing else.                        *)
LEMMA SkipKeeps ==
    ASSUME NEW v \in Views, IsFiniteSet(v.fetches), NEW S \in SUBSET Bodies
    PROVE  Keeps(v, Skip(v, S)) /\ Skip(v, S).scene = v.scene
<1>. DEFINE w == Skip(v, S)
<1>1. /\ w \in Views
      /\ \A x \in {"scene", "registry", "loadSeq", "pending", "fetches", "timers", "failed"} : w[x] = v[x]
  BY DEF Skip, Views
<1>. QED
  BY <1>1 DEF Keeps, Matched, Loading, IsCurrent, FirstCopies, TokensApart, NotBehind

(* A mask decides what its bodies render, and nothing else.                *)
LEMMA MaskKeeps ==
    ASSUME NEW v \in Views, IsFiniteSet(v.fetches), NEW bodies \in Partial(Rows),
           NEW mask \in SUBSET Bodies, NEW S
    PROVE  LET w == Masked(v, bodies, mask, S)
           IN /\ Keeps(v, w)
              /\ DOMAIN w.scene = DOMAIN v.scene
              /\ \A b \in DOMAIN v.scene :
                   w.scene[b].shown = IF b \in S THEN EffectiveVisible(bodies, mask, b) ELSE v.scene[b].shown
<1>. DEFINE w == Masked(v, bodies, mask, S)
            shown(b) == IF b \in S THEN EffectiveVisible(bodies, mask, b) ELSE v.scene[b].shown
<1>1. \A b \in DOMAIN v.scene : v.scene[b] \in Handles
  BY PartialIs DEF Views
<1>2. \A b \in DOMAIN bodies : bodies[b].visible \in BOOLEAN
  <2>1. \A b \in DOMAIN bodies : bodies[b] \in Rows
    BY PartialIs
  <2>. QED
    BY <2>1 DEF Rows
<1>3. \A b \in DOMAIN v.scene : EffectiveVisible(bodies, mask, b) \in BOOLEAN
  BY <1>2 DEF EffectiveVisible, Visible
<1>4. w = [v EXCEPT !.scene = [b \in DOMAIN v.scene |->
             IF b \in S THEN [v.scene[b] EXCEPT !.shown = EffectiveVisible(bodies, mask, b)] ELSE v.scene[b]]]
  BY DEF Masked
<1>5. w.scene = [b \in DOMAIN v.scene |->
             IF b \in S THEN [v.scene[b] EXCEPT !.shown = EffectiveVisible(bodies, mask, b)] ELSE v.scene[b]]
  BY <1>4 DEF Views
<1>6. \A b \in DOMAIN v.scene : /\ w.scene[b] \in Handles /\ w.scene[b].mesh = v.scene[b].mesh
                                /\ w.scene[b].shown = shown(b)
  <2>. SUFFICES ASSUME NEW b \in DOMAIN v.scene
                PROVE  /\ w.scene[b] \in Handles /\ w.scene[b].mesh = v.scene[b].mesh
                       /\ w.scene[b].shown = shown(b)
    OBVIOUS
  <2>1. CASE b \in S
    BY <1>1, <1>3, <1>5, <2>1 DEF Handles
  <2>2. CASE b \notin S
    BY <1>1, <1>5, <2>2
  <2>. QED
    BY <2>1, <2>2
<1>7. w.scene \in Partial(Handles) /\ DOMAIN w.scene = DOMAIN v.scene
  BY <1>5, <1>6, PartialIs DEF Views
<1>8. /\ w \in Views
      /\ \A x \in {"registry", "loadSeq", "pending", "fetches", "timers", "failed"} : w[x] = v[x]
  BY <1>4, <1>5, <1>7 DEF Views
<1>9. Keeps(v, w)
  BY <1>6, <1>7, <1>8 DEF Keeps, Matched, Loading, IsCurrent, FirstCopies, TokensApart, NotBehind
<1>. QED
  BY <1>6, <1>7, <1>9

(* A drop takes scene object, registry entry, token and load mark          *)
(* together.                                                               *)
LEMMA DropKeeps ==
    ASSUME NEW v \in Views, IsFiniteSet(v.fetches), NEW S \in SUBSET Bodies
    PROVE  LET w == DropBody(v, S)
           IN Keeps(v, w) /\ w.scene = Without(v.scene, S)
<1>. DEFINE w == DropBody(v, S)
<1>1. /\ w.scene = Without(v.scene, S) /\ w.registry = Without(v.registry, S)
      /\ w.loadSeq = Without(v.loadSeq, S) /\ w.pending = v.pending \ S
      /\ w.fetches = v.fetches /\ w.timers = v.timers
      /\ w.failed = v.failed \ S /\ w.skipped = v.skipped \ S
  BY DEF DropBody, Views
<1>2. /\ v.scene \in Partial(Handles) /\ v.registry \in Partial(Entries) /\ v.loadSeq \in Partial(Nat)
      /\ v.pending \in SUBSET Bodies /\ v.failed \in SUBSET Bodies /\ v.skipped \in SUBSET Bodies
  BY DEF Views
<1>3. /\ w.scene \in Partial(Handles) /\ DOMAIN w.scene = DOMAIN v.scene \ S
      /\ \A b \in DOMAIN v.scene \ S : w.scene[b] = v.scene[b]
  <2>1. /\ Without(v.scene, S) \in Partial(Handles) /\ DOMAIN Without(v.scene, S) = DOMAIN v.scene \ S
        /\ \A b \in DOMAIN v.scene \ S : Without(v.scene, S)[b] = v.scene[b]
    BY <1>2, WithoutIs, WithoutKeeps
  <2>. QED
    BY <1>1, <2>1, Zenon
<1>4. /\ w.registry \in Partial(Entries) /\ DOMAIN w.registry = DOMAIN v.registry \ S
      /\ \A b \in DOMAIN v.registry \ S : w.registry[b] = v.registry[b]
  <2>1. /\ Without(v.registry, S) \in Partial(Entries) /\ DOMAIN Without(v.registry, S) = DOMAIN v.registry \ S
        /\ \A b \in DOMAIN v.registry \ S : Without(v.registry, S)[b] = v.registry[b]
    BY <1>2, WithoutIs, WithoutKeeps
  <2>. QED
    BY <1>1, <2>1, Zenon
<1>5. /\ w.loadSeq \in Partial(Nat) /\ DOMAIN w.loadSeq = DOMAIN v.loadSeq \ S
      /\ \A b \in DOMAIN v.loadSeq \ S : w.loadSeq[b] = v.loadSeq[b]
  <2>1. /\ Without(v.loadSeq, S) \in Partial(Nat) /\ DOMAIN Without(v.loadSeq, S) = DOMAIN v.loadSeq \ S
        /\ \A b \in DOMAIN v.loadSeq \ S : Without(v.loadSeq, S)[b] = v.loadSeq[b]
    BY <1>2, WithoutIs, WithoutKeeps
  <2>. QED
    BY <1>1, <2>1, Zenon
<1>6. w \in Views
  <2>0. w = [v EXCEPT !.scene = w.scene, !.registry = w.registry, !.loadSeq = w.loadSeq,
                      !.pending = w.pending, !.failed = w.failed, !.skipped = w.skipped]
    BY <1>1 DEF DropBody
  <2>1. w = [scene |-> w.scene, registry |-> w.registry, loadSeq |-> w.loadSeq, pending |-> w.pending,
             fetches |-> w.fetches, timers |-> w.timers, failed |-> w.failed, skipped |-> w.skipped]
    BY <2>0 DEF Views
  <2>. QED
    BY <1>1, <1>2, <1>3, <1>4, <1>5, <2>1 DEF Views
<1>7. \A f \in v.fetches : IsCurrent(w, f) <=> IsCurrent(v, f) /\ f.body \notin S
  BY <1>5 DEF IsCurrent
<1>8. Loading(v) => Loading(w)
  BY <1>1, <1>7 DEF Loading
<1>9. NotBehind(v) => NotBehind(w)
  BY <1>1, <1>3, <1>7 DEF NotBehind
<1>. QED
  BY <1>1, <1>3, <1>4, <1>6, <1>8, <1>9 DEF Keeps, Matched, FirstCopies, TokensApart

(* The image of a finite set is finite.                                    *)
LEMMA FiniteImage ==
    ASSUME NEW S, IsFiniteSet(S), NEW g
    PROVE  IsFiniteSet({g[b] : b \in S})
<1>1. [b \in S |-> g[b]] \in Surjection(S, {g[b] : b \in S})
  BY DEF Surjection
<1>. QED
  BY <1>1, FS_Surjection

(* A load gets the body's next token; the load that had the last one is    *)
(* superseded with it.                                                     *)
LEMMA LoadKeeps ==
    ASSUME NEW v \in Views, IsFiniteSet(v.fetches), NEW bodies \in Partial(Rows),
           NEW S \in SUBSET Bodies, NEW attempt \in 0 .. MaxRetries
    PROVE  LET w == LoadBody(v, bodies, S, attempt)
           IN Keeps(v, w) /\ w.scene = v.scene
<1>. DEFINE token == [b \in S |-> Token(v, b) + 1]
            copies(b) == {f \in v.fetches : f.body = b /\ f.token = token[b]}
            fetch(b) == [body |-> b, token |-> token[b], attempt |-> attempt, stage |-> "asked",
                         mesh |-> 0, color |-> ColorOf(bodies, b), live |-> TRUE,
                         copy |-> Cardinality(copies(b))]
            new == {fetch(b) : b \in S}
            w == LoadBody(v, bodies, S, attempt)
<1>1. /\ v.scene \in Partial(Handles) /\ v.registry \in Partial(Entries) /\ v.loadSeq \in Partial(Nat)
      /\ v.pending \in SUBSET Bodies /\ v.failed \in SUBSET Bodies /\ v.skipped \in SUBSET Bodies
      /\ v.fetches \in SUBSET Fetches /\ v.timers \in SUBSET Timers
  BY DEF Views
<1>2. w = [v EXCEPT !.loadSeq = Put(v.loadSeq, S, token), !.pending = v.pending \cup S,
                    !.fetches = v.fetches \cup new, !.skipped = v.skipped \ S]
  BY DEF LoadBody
<1>3. /\ w.scene = v.scene /\ w.registry = v.registry /\ w.timers = v.timers /\ w.failed = v.failed
      /\ w.loadSeq = Put(v.loadSeq, S, token) /\ w.pending = v.pending \cup S
      /\ w.fetches = v.fetches \cup new /\ w.skipped = v.skipped \ S
  BY <1>2 DEF Views
<1>4. \A b \in DOMAIN v.loadSeq : v.loadSeq[b] \in Nat
  BY <1>1, PartialIs
<1>5. \A b \in S : Token(v, b) \in Nat /\ token[b] = Token(v, b) + 1 /\ token[b] \in Nat
  BY <1>4 DEF Token
<1>6. /\ Put(v.loadSeq, S, token) \in Partial(Nat)
      /\ DOMAIN Put(v.loadSeq, S, token) = DOMAIN v.loadSeq \cup S
      /\ \A b \in S : Put(v.loadSeq, S, token)[b] = token[b]
      /\ \A b \in DOMAIN v.loadSeq \ S : Put(v.loadSeq, S, token)[b] = v.loadSeq[b]
  <2>. HIDE DEF token
  <2>1. Put(v.loadSeq, S, token) \in Partial(Nat)
    BY <1>1, <1>5, PutKeeps
  <2>. QED
    BY <2>1 DEF Put
<1>7. /\ w.loadSeq \in Partial(Nat) /\ DOMAIN w.loadSeq = DOMAIN v.loadSeq \cup S
      /\ \A b \in S : w.loadSeq[b] = token[b]
      /\ \A b \in DOMAIN v.loadSeq \ S : w.loadSeq[b] = v.loadSeq[b]
  <2>. HIDE DEF token, w
  <2>. QED
    BY <1>3, <1>6, Zenon
<1>8. \A b \in S : IsFiniteSet(copies(b)) /\ Cardinality(copies(b)) \in Nat
  BY FS_Subset, FS_CardinalityType
<1>9. \A b \in S : ColorOf(bodies, b) \in Hues
  <2>1. \A b \in DOMAIN bodies : bodies[b] \in Rows
    BY PartialIs
  <2>. QED
    BY <2>1 DEF ColorOf, Rows, Hues
<1>10. new \subseteq Fetches
  <2>. SUFFICES ASSUME NEW b \in S PROVE fetch(b) \in Fetches
    OBVIOUS
  <2>. HIDE DEF token, copies
  <2>. QED
    BY <1>5, <1>8, <1>9, MeshBounds DEF Fetches
<1>11. IsFiniteSet(w.fetches)
  <2>1. IsFiniteSet(S)
    BY FS_Subset, MeshBounds
  <2>2. IsFiniteSet({[d \in S |-> fetch(d)][b] : b \in S})
    <3>. HIDE DEF fetch
    <3>. QED
      BY <2>1, FiniteImage
  <2>3. {[d \in S |-> fetch(d)][b] : b \in S} = new
    OBVIOUS
  <2>4. IsFiniteSet(v.fetches \cup new)
    <3>. HIDE DEF new
    <3>. QED
      BY <2>2, <2>3, FS_Union
  <2>. HIDE DEF new, w
  <2>. QED
    BY <1>3, <2>4
<1>12. w \in Views
  <2>1. w = [scene |-> w.scene, registry |-> w.registry, loadSeq |-> w.loadSeq, pending |-> w.pending,
             fetches |-> w.fetches, timers |-> w.timers, failed |-> w.failed, skipped |-> w.skipped]
    BY <1>2 DEF Views
  <2>. QED
    BY <1>1, <1>3, <1>7, <1>10, <2>1 DEF Views
<1>13. \A f \in new : /\ f.live /\ f.mesh = 0 /\ f.stage = "asked"
                      /\ f.body \in S /\ f.token = token[f.body] /\ f = fetch(f.body)
                      /\ f.copy = Cardinality(copies(f.body))
  <2>. HIDE DEF token, copies
  <2>. QED
    OBVIOUS
<1>14. \A b \in S : fetch(b) \in w.fetches /\ fetch(b).body = b /\ IsCurrent(w, fetch(b))
  <2>. HIDE DEF token, copies, w
  <2>. QED
    BY <1>3, <1>7 DEF IsCurrent
<1>15. \A f \in v.fetches : f.body \notin S => (IsCurrent(w, f) <=> IsCurrent(v, f))
  <2>. HIDE DEF token, w
  <2>. QED
    BY <1>7 DEF IsCurrent
<1>16. Loading(v) => Loading(w)
  <2>. HIDE DEF new, w
  <2>. QED
    BY <1>3, <1>14, <1>15 DEF Loading
<1>17. ASSUME FirstCopies(w), TokensApart(v), NotBehind(v)
       PROVE  TokensApart(w) /\ NotBehind(w)
  <2>1. \A b \in S : copies(b) = {}
    <3>. SUFFICES ASSUME NEW b \in S PROVE copies(b) = {}
      OBVIOUS
    <3>1. fetch(b) \in w.fetches /\ fetch(b).live /\ fetch(b).copy = Cardinality(copies(b))
      BY <1>14
    <3>2. Cardinality(copies(b)) = 0
      BY <1>17, <3>1 DEF FirstCopies
    <3>. QED
      BY <1>8, <3>2, FS_EmptySet
  <2>2. \A f \in new, g \in v.fetches : f.body # g.body \/ f.token # g.token
    <3>. SUFFICES ASSUME NEW f \in new, NEW g \in v.fetches, f.body = g.body, f.token = g.token PROVE FALSE
      OBVIOUS
    <3>1. f.body \in S /\ f.token = token[f.body]
      BY <1>13
    <3>2. g \in copies(f.body)
      BY <3>1
    <3>. QED
      BY <2>1, <3>1, <3>2
  <2>3. \A f, g \in new : f.body = g.body => f = g
    <3>. HIDE DEF fetch, new
    <3>. QED
      BY <1>13
  <2>4. TokensApart(w)
    <3>. HIDE DEF new, w
    <3>. QED
      BY <1>3, <1>17, <2>2, <2>3 DEF TokensApart
  <2>5. \A f \in v.fetches : f.body \in S => ~IsCurrent(w, f)
    <3>. SUFFICES ASSUME NEW f \in v.fetches, f.body \in S, IsCurrent(w, f) PROVE FALSE
      OBVIOUS
    <3>1. f.token = token[f.body]
      BY <1>7 DEF IsCurrent
    <3>2. f \in copies(f.body)
      BY <3>1
    <3>. QED
      BY <2>1, <3>2
  <2>6. NotBehind(w)
    <3>. HIDE DEF new, w
    <3>. QED
      BY <1>3, <1>13, <1>15, <1>17, <2>5 DEF NotBehind
  <2>. QED
    BY <2>4, <2>6
<1>. HIDE DEF new, w
<1>18. Keeps(v, w)
  BY <1>3, <1>11, <1>12, <1>13, <1>16, <1>17 DEF Keeps, Matched
<1>. QED
  BY <1>3, <1>18 DEF w

(* Reconciliation drops the bodies the document lost and alters no other   *)
(* scene object.                                                           *)
LEMMA ReconcileKeeps ==
    ASSUME NEW v \in Views, IsFiniteSet(v.fetches), NEW bodies \in Partial(Rows)
    PROVE  LET w == Reconcile(v, bodies)
           IN /\ Keeps(v, w)
              /\ DOMAIN w.scene = DOMAIN v.scene \cap DOMAIN bodies
              /\ \A b \in DOMAIN w.scene : w.scene[b] = v.scene[b]
<1>. DEFINE wanted == {b \in DOMAIN bodies : bodies[b].visible /\ b \notin DOMAIN v.scene \cup v.pending}
            gone   == DOMAIN v.scene \ DOMAIN bodies
            u      == LoadBody(v, bodies, wanted, 0)
            w      == DropBody(u, gone)
<1>1. wanted \in SUBSET Bodies /\ gone \in SUBSET Bodies /\ 0 \in 0 .. MaxRetries
  BY PartialIs, MeshBounds DEF Views
<1>2. Keeps(v, u) /\ u.scene = v.scene
  <2>. HIDE DEF wanted
  <2>. QED
    BY <1>1, LoadKeeps
<1>3. u \in Views /\ IsFiniteSet(u.fetches)
  BY <1>2 DEF Keeps
<1>. HIDE DEF wanted, gone, u
<1>4. Keeps(u, w) /\ w.scene = Without(v.scene, gone)
  BY <1>1, <1>2, <1>3, DropKeeps
<1>. HIDE DEF w
<1>5. Keeps(v, w)
  BY <1>2, <1>4, KeepsIsTransitive
<1>6. DOMAIN w.scene = DOMAIN v.scene \ gone /\ \A b \in DOMAIN v.scene \ gone : w.scene[b] = v.scene[b]
  <2>1. /\ DOMAIN Without(v.scene, gone) = DOMAIN v.scene \ gone
        /\ \A b \in DOMAIN v.scene \ gone : Without(v.scene, gone)[b] = v.scene[b]
    BY WithoutIs
  <2>. QED
    BY <1>2, <1>4, <2>1, Zenon
<1>7. Reconcile(v, bodies) = w
  BY DEF Reconcile, w, u, wanted, gone
<1>. QED
  BY <1>5, <1>6, <1>7 DEF gone

(* After a write of the store, the scene shows what the new store allows.  *)
LEMMA WriteKeeps ==
    ASSUME NEW v \in Views, IsFiniteSet(v.fetches), isolated \subseteq Bodies,
           NEW old \in Partial(Rows), NEW new \in Partial(Rows)
    PROVE  LET w == Reconcile(OnColorChanged(OnVisibilityChanged(v, old, new), old, new), new)
           IN /\ Keeps(v, w)
              /\ \A b \in DOMAIN w.scene : v.scene[b].shown = EffectiveVisible(old, isolated, b) =>
                   w.scene[b].shown = EffectiveVisible(new, isolated, b)
<1>. DEFINE flipped == {b \in DOMAIN new : b \in DOMAIN old => old[b].visible # new[b].visible}
            t == Masked(v, new, isolated, flipped)
            revealed == {b \in flipped \ DOMAIN v.scene : new[b].visible}
            u == LoadBody(t, new, revealed, 0)
            recolored == {b \in DOMAIN new : ColorOf(old, b) # new[b].color}
            wanted == {b \in recolored : b \in DOMAIN u.scene \/ new[b].visible}
            x == Skip(u, recolored \ wanted)
            y == LoadBody(x, new, wanted, 0)
            w == Reconcile(y, new)
<1>1. DOMAIN new \subseteq Bodies /\ 0 \in 0 .. MaxRetries
  BY PartialIs, MeshBounds
<1>2. /\ flipped \in SUBSET Bodies /\ revealed \in SUBSET Bodies /\ recolored \in SUBSET Bodies
      /\ recolored \ wanted \in SUBSET Bodies /\ wanted \in SUBSET Bodies
  BY <1>1
<1>3. /\ Keeps(v, t) /\ DOMAIN t.scene = DOMAIN v.scene
      /\ \A b \in DOMAIN v.scene : t.scene[b].shown =
           IF b \in flipped THEN EffectiveVisible(new, isolated, b) ELSE v.scene[b].shown
  <2>. HIDE DEF flipped
  <2>. QED
    BY MaskKeeps
<1>4. t \in Views /\ IsFiniteSet(t.fetches)
  BY <1>3 DEF Keeps
<1>5. Keeps(t, u) /\ u.scene = t.scene
  <2>. HIDE DEF t, revealed
  <2>. QED
    BY <1>1, <1>2, <1>4, LoadKeeps
<1>6. u \in Views /\ IsFiniteSet(u.fetches)
  BY <1>5 DEF Keeps
<1>7. Keeps(u, x) /\ x.scene = u.scene
  <2>. HIDE DEF u, recolored, wanted
  <2>. QED
    BY <1>2, <1>6, SkipKeeps
<1>8. x \in Views /\ IsFiniteSet(x.fetches)
  BY <1>7 DEF Keeps
<1>9. Keeps(x, y) /\ y.scene = x.scene
  <2>. HIDE DEF x, wanted
  <2>. QED
    BY <1>1, <1>2, <1>8, LoadKeeps
<1>10. y \in Views /\ IsFiniteSet(y.fetches)
  BY <1>9 DEF Keeps
<1>11. /\ Keeps(y, w) /\ DOMAIN w.scene = DOMAIN y.scene \cap DOMAIN new
       /\ \A b \in DOMAIN w.scene : w.scene[b] = y.scene[b]
  <2>. HIDE DEF y
  <2>. QED
    BY <1>10, ReconcileKeeps
<1>. HIDE DEF flipped, t, revealed, u, recolored, wanted, x, y, w
<1>12. Keeps(v, w)
  BY <1>3, <1>5, <1>7, <1>9, <1>11, KeepsIsTransitive
<1>13. DOMAIN w.scene = DOMAIN v.scene \cap DOMAIN new /\ \A b \in DOMAIN w.scene : w.scene[b] = t.scene[b]
  BY <1>3, <1>5, <1>7, <1>9, <1>11, Zenon
<1>14. ASSUME NEW b \in DOMAIN w.scene, v.scene[b].shown = EffectiveVisible(old, isolated, b)
       PROVE  w.scene[b].shown = EffectiveVisible(new, isolated, b)
  <2>1. CASE b \in flipped
    BY <1>3, <1>13, <2>1
  <2>2. CASE b \notin flipped
    <3>1. b \in DOMAIN new /\ b \in DOMAIN old /\ old[b].visible = new[b].visible
      BY <1>13, <2>2 DEF flipped
    <3>2. EffectiveVisible(old, isolated, b) = EffectiveVisible(new, isolated, b)
      BY <3>1 DEF EffectiveVisible, Visible
    <3>. QED
      BY <1>3, <1>13, <1>14, <2>2, <3>2
  <2>. QED
    BY <2>1, <2>2
<1>15. Reconcile(OnColorChanged(OnVisibilityChanged(v, old, new), old, new), new) = w
  BY DEF OnColorChanged, OnVisibilityChanged, flipped, t, revealed, u, recolored, wanted, x, y, w
<1>. QED
  BY <1>12, <1>14, <1>15

-----------------------------------------------------------------------------
(* The steps of the view.                                                  *)

NoneOlder == \A b \in DOMAIN view.scene \cap DOMAIN view'.scene : view'.scene[b].mesh >= view.scene[b].mesh

AgesWell == NoStaleColors /\ AgeInv /\ FirstCopies(view)' => AgeInv' /\ NoneOlder

Onward == ViewKind' /\ SceneHolds' /\ AgesWell

(* A step made of loads, drops and masks keeps the invariant, but for what *)
(* renders and the chip.                                                   *)
LEMMA KeepsOnward ==
    ASSUME WholeInv, Keeps(view, view'), mounted # "gone", mounted' = "on",
           isolated' \subseteq Bodies, UNCHANGED model
    PROVE  ViewKind' /\ RegistryIsScene' /\ PendingIsLoading' /\ AgesWell
<1>1. ViewKind'
  <2>1. \A f \in view'.fetches : f.stage = "colors" => f.mesh # 0
    BY DEF WholeInv, ViewKind, Keeps
  <2>2. \A f \in view'.fetches : f.live
    BY DEF WholeInv, ViewKind, Keeps
  <2>. QED
    BY <2>1, <2>2 DEF ViewKind, Keeps
<1>2. RegistryIsScene'
  BY DEF WholeInv, SceneHolds, ViewKind, RegistryIsScene, Keeps, Matched
<1>3. PendingIsLoading'
  BY DEF WholeInv, SceneHolds, PendingIsLoading, Current, Keeps, Loading, IsCurrent
<1>4. \A b \in DOMAIN view'.scene : view'.scene[b].mesh = view.scene[b].mesh /\ b \in DOMAIN view.scene
  BY DEF Keeps
<1>5. \A b \in DOMAIN view.scene : view.scene[b].mesh \in Nat
  <2>1. \A b \in DOMAIN view.scene : view.scene[b] \in Handles
    BY PartialIs DEF WholeInv, ViewKind, Views
  <2>. QED
    BY <2>1, MeshBounds DEF Handles
<1>6. \A f \in view'.fetches \ view.fetches : f.mesh = 0 /\ f.body \in Bodies
  BY DEF Keeps, Views, Fetches
<1>7. \A b \in Bodies : model[b].mesh \in Nat
  BY MeshBounds DEF WholeInv, BackendKind, Parts
<1>8. AgesWell
  <2>1. AgeInv => Published(view, model)'
    BY <1>4, <1>6, <1>7 DEF AgeInv, Published
  <2>2. AgeInv /\ FirstCopies(view)' => TokensApart(view)' /\ NotBehind(view)'
    BY DEF AgeInv, Keeps
  <2>3. NoneOlder
    BY <1>4, <1>5 DEF NoneOlder
  <2>. QED
    BY <2>1, <2>2, <2>3 DEF AgesWell, AgeInv
<1>. QED
  BY <1>1, <1>2, <1>3, <1>8

(* Nothing that the scene depends on changes.                              *)
LEMMA SceneStays ==
    ASSUME WholeInv, UNCHANGED <<view, isolated, mounted, chip>>,
           mounted = "on" => store'.bodies = store.bodies,
           \A b \in Bodies : model'[b].mesh \in Nat /\ model'[b].mesh >= model[b].mesh
    PROVE  Onward
<1>1. ViewKind'
  BY DEF WholeInv, ViewKind
<1>2. RendersWhatIsAllowed' /\ (NoStaleColors \/ mounted' # "gone" => RegistryIsScene')
  BY DEF WholeInv, ViewKind, SceneHolds, RendersWhatIsAllowed, RegistryIsScene
<1>3. ChipTellsMissing' /\ PendingIsLoading'
  BY DEF WholeInv, SceneHolds, ChipTellsMissing, Missing, PendingIsLoading, Current
<1>4. AgeInv => AgeInv'
  <2>. SUFFICES ASSUME AgeInv PROVE AgeInv'
    OBVIOUS
  <2>1. /\ DOMAIN view.scene \subseteq Bodies
        /\ \A b \in DOMAIN view.scene : view.scene[b].mesh \in Nat
        /\ \A f \in view.fetches : f.body \in Bodies /\ f.mesh \in Nat
        /\ \A b \in Bodies : model[b].mesh \in Nat
    <3>1. DOMAIN view.scene \subseteq Bodies /\ \A b \in DOMAIN view.scene : view.scene[b] \in Handles
      BY PartialIs DEF WholeInv, ViewKind, Views
    <3>. QED
      BY <3>1, MeshBounds DEF WholeInv, ViewKind, Views, Fetches, Handles, BackendKind, Parts
  <2>2. Published(view, model)'
    BY <2>1 DEF AgeInv, Published
  <2>. QED
    BY <2>2 DEF AgeInv, FirstCopies, TokensApart, NotBehind, IsCurrent
<1>5. NoneOlder
  <2>1. \A b \in DOMAIN view.scene : view.scene[b] \in Handles
    BY PartialIs DEF WholeInv, ViewKind, Views
  <2>. QED
    BY <2>1, MeshBounds DEF NoneOlder, Handles
<1>. QED
  BY <1>1, <1>2, <1>3, <1>4, <1>5 DEF Onward, SceneHolds, AgesWell

(* Every write of the store leaves the scene whole.                        *)
LEMMA StoreWriteOnward ==
    ASSUME WholeInv, NEW rev, NEW bodies \in Partial(Rows), StoreWrite(rev, bodies),
           UNCHANGED <<model, isolated, mounted>>
    PROVE  Onward
<1>0. \A b \in Bodies : model'[b].mesh \in Nat /\ model'[b].mesh >= model[b].mesh
  BY MeshBounds DEF WholeInv, BackendKind, Parts
<1>1. store'.bodies = bodies /\ store.bodies \in Partial(Rows) /\ view \in Views /\ IsFiniteSet(view.fetches)
      /\ isolated \in SUBSET Bodies
  BY DEF StoreWrite, WholeInv, BackendKind, ViewKind
<1>2. CASE mounted = "on" /\ bodies # store.bodies
  <2>1. /\ view' = Reconcile(OnColorChanged(OnVisibilityChanged(view, store.bodies, bodies),
                                           store.bodies, bodies), bodies)
        /\ chip' = (Missing(view', bodies) # {})
    BY <1>2 DEF StoreWrite
  <2>2. /\ Keeps(view, view')
        /\ \A b \in DOMAIN view'.scene :
             view.scene[b].shown = EffectiveVisible(store.bodies, isolated, b) =>
                view'.scene[b].shown = EffectiveVisible(bodies, isolated, b)
    BY <1>1, <2>1, WriteKeeps
  <2>3. ViewKind' /\ RegistryIsScene' /\ PendingIsLoading' /\ AgesWell
    BY <1>1, <1>2, <2>2, KeepsOnward
  <2>4. RendersWhatIsAllowed'
    BY <1>1, <2>2 DEF WholeInv, SceneHolds, RendersWhatIsAllowed, Keeps
  <2>5. ChipTellsMissing'
    BY <1>1, <2>1 DEF ChipTellsMissing
  <2>. QED
    BY <2>3, <2>4, <2>5 DEF Onward, SceneHolds
<1>3. CASE mounted = "on" /\ bodies = store.bodies
  BY <1>0, <1>1, <1>3, SceneStays DEF StoreWrite
<1>4. CASE mounted # "on"
  BY <1>0, <1>1, <1>4, SceneStays DEF StoreWrite
<1>. QED
  BY <1>2, <1>3, <1>4

(* So does a projection, old or new.                                       *)
LEMMA ApplyProjectionOnward ==
    ASSUME WholeInv, NEW p \in Projections, ApplyProjection(p), UNCHANGED <<model, isolated, mounted>>
    PROVE  Onward
<1>1. CASE p.rev < store.rev
  <2>1. \A b \in Bodies : model'[b].mesh \in Nat /\ model'[b].mesh >= model[b].mesh
    BY MeshBounds DEF WholeInv, BackendKind, Parts
  <2>. QED
    BY <1>1, <2>1, SceneStays DEF ApplyProjection
<1>2. CASE ~(p.rev < store.rev)
  <2>1. p.bodies \in Partial(Rows) /\ StoreWrite(p.rev, p.bodies)
    BY <1>2 DEF ApplyProjection, Projections
  <2>. QED
    BY <2>1, StoreWriteOnward
<1>. QED
  BY <1>1, <1>2

(* So does the news of published and removed meshes.                       *)
LEMMA DocumentChangedOnward ==
    ASSUME WholeInv, NEW c \in Changes, OnDocumentChanged(c), UNCHANGED <<model, isolated, mounted>>
    PROVE  Onward
<1>0. \A b \in Bodies : model'[b].mesh \in Nat /\ model'[b].mesh >= model[b].mesh
  BY MeshBounds DEF WholeInv, BackendKind, Parts
<1>1. CASE mounted # "on"
  BY <1>0, <1>1, SceneStays DEF OnDocumentChanged
<1>2. CASE mounted = "on"
  <2>. DEFINE wanted == {b \in c.changed : Visible(store.bodies, b)}
              u == DropBody(view, c.removed)
              w == Skip(u, c.changed \ wanted)
  <2>1. /\ c.changed \in SUBSET Bodies /\ c.removed \in SUBSET Bodies /\ wanted \in SUBSET Bodies
        /\ c.changed \ wanted \in SUBSET Bodies /\ 0 \in 0 .. MaxRetries
        /\ store.bodies \in Partial(Rows) /\ view \in Views /\ IsFiniteSet(view.fetches)
        /\ isolated \subseteq Bodies
    BY MeshBounds DEF Changes, WholeInv, BackendKind, ViewKind
  <2>2. /\ view' = LoadBody(w, store.bodies, wanted, 0)
        /\ chip' = IF c.removed = {} THEN chip ELSE Missing(view', store.bodies) # {}
        /\ store' = store
    BY <1>2 DEF OnDocumentChanged
  <2>. HIDE DEF wanted
  <2>3. Keeps(view, u) /\ u.scene = Without(view.scene, c.removed)
    BY <2>1, DropKeeps
  <2>4. u \in Views /\ IsFiniteSet(u.fetches)
    BY <2>3 DEF Keeps
  <2>. HIDE DEF u
  <2>5. Keeps(u, w) /\ w.scene = u.scene
    BY <2>1, <2>4, SkipKeeps
  <2>6. w \in Views /\ IsFiniteSet(w.fetches)
    BY <2>5 DEF Keeps
  <2>. HIDE DEF w
  <2>7. Keeps(w, view') /\ view'.scene = w.scene
    BY <2>1, <2>2, <2>6, LoadKeeps
  <2>8. Keeps(view, view')
    BY <2>3, <2>5, <2>7, KeepsIsTransitive
  <2>9. ViewKind' /\ RegistryIsScene' /\ PendingIsLoading' /\ AgesWell
    BY <1>2, <2>1, <2>8, KeepsOnward
  <2>10. /\ DOMAIN view'.scene = DOMAIN view.scene \ c.removed
         /\ \A b \in DOMAIN view'.scene : view'.scene[b] = view.scene[b]
    <3>1. /\ DOMAIN Without(view.scene, c.removed) = DOMAIN view.scene \ c.removed
          /\ \A b \in DOMAIN view.scene \ c.removed : Without(view.scene, c.removed)[b] = view.scene[b]
      BY WithoutIs
    <3>. QED
      BY <2>3, <2>5, <2>7, <3>1, Zenon
  <2>11. RendersWhatIsAllowed'
    BY <2>2, <2>10 DEF WholeInv, SceneHolds, RendersWhatIsAllowed
  <2>12. ChipTellsMissing'
    <3>1. CASE c.removed = {}
      BY <1>2, <2>2, <2>10, <3>1 DEF WholeInv, SceneHolds, ChipTellsMissing, Missing
    <3>2. CASE c.removed # {}
      BY <2>2, <3>2 DEF ChipTellsMissing
    <3>. QED
      BY <3>1, <3>2
  <2>. QED
    BY <2>9, <2>11, <2>12 DEF Onward, SceneHolds
<1>. QED
  BY <1>1, <1>2

(* So does the mount, which loads what the store already has.              *)
LEMMA AttachOnward == ASSUME WholeInv, Attach PROVE Onward
<1>1. /\ mounted' = "on" /\ view' = Reconcile(view, store.bodies) /\ chip' = (Missing(view', store.bodies) # {})
      /\ mounted = "new" /\ UNCHANGED <<model, store, isolated>>
  BY DEF Attach
<1>2. /\ store.bodies \in Partial(Rows) /\ view \in Views /\ IsFiniteSet(view.fetches)
      /\ isolated \subseteq Bodies
  BY DEF WholeInv, BackendKind, ViewKind
<1>3. /\ Keeps(view, view') /\ DOMAIN view'.scene = DOMAIN view.scene \cap DOMAIN store.bodies
      /\ \A b \in DOMAIN view'.scene : view'.scene[b] = view.scene[b]
  BY <1>1, <1>2, ReconcileKeeps
<1>4. ViewKind' /\ RegistryIsScene' /\ PendingIsLoading' /\ AgesWell
  BY <1>1, <1>2, <1>3, KeepsOnward
<1>5. RendersWhatIsAllowed' /\ ChipTellsMissing'
  BY <1>1, <1>3 DEF WholeInv, SceneHolds, RendersWhatIsAllowed, ChipTellsMissing
<1>. QED
  BY <1>4, <1>5 DEF Onward, SceneHolds

(* So does a new isolation mask, which also loads what it reveals.         *)
LEMMA ToggleIsolateOnward ==
    ASSUME WholeInv, NEW S \in SUBSET Bodies, ToggleIsolate(S)
    PROVE  Onward
<1>. DEFINE u == Masked(view, store.bodies, S, Bodies)
            revealed == {b \in DOMAIN store.bodies \ DOMAIN view.scene : EffectiveVisible(store.bodies, S, b)}
<1>1. /\ mounted = "on" /\ isolated' = S /\ view' = LoadBody(u, store.bodies, revealed, 0)
      /\ UNCHANGED <<model, store, chip, mounted>>
  BY DEF ToggleIsolate, Edit
<1>2. /\ store.bodies \in Partial(Rows) /\ view \in Views /\ IsFiniteSet(view.fetches)
      /\ DOMAIN store.bodies \subseteq Bodies /\ DOMAIN view.scene \subseteq Bodies
      /\ 0 \in 0 .. MaxRetries
  BY PartialIs, MeshBounds DEF WholeInv, BackendKind, ViewKind, Views
<1>3. revealed \in SUBSET Bodies
  BY <1>2
<1>4. /\ Keeps(view, u) /\ DOMAIN u.scene = DOMAIN view.scene
      /\ \A b \in DOMAIN view.scene :
           u.scene[b].shown = IF b \in Bodies THEN EffectiveVisible(store.bodies, S, b) ELSE view.scene[b].shown
  BY <1>2, MaskKeeps
<1>5. u \in Views /\ IsFiniteSet(u.fetches)
  BY <1>4 DEF Keeps
<1>. HIDE DEF u, revealed
<1>6. Keeps(u, view') /\ view'.scene = u.scene
  BY <1>1, <1>2, <1>3, <1>5, LoadKeeps
<1>7. Keeps(view, view')
  BY <1>4, <1>6, KeepsIsTransitive
<1>8. ViewKind' /\ RegistryIsScene' /\ PendingIsLoading' /\ AgesWell
  BY <1>1, <1>7, KeepsOnward
<1>9. RendersWhatIsAllowed'
  BY <1>1, <1>2, <1>4, <1>6 DEF RendersWhatIsAllowed
<1>10. ChipTellsMissing'
  BY <1>1, <1>4, <1>6 DEF WholeInv, SceneHolds, ChipTellsMissing, Missing
<1>. QED
  BY <1>8, <1>9, <1>10 DEF Onward, SceneHolds

(* The unmount leaves nothing but dead loads.                              *)
LEMMA DetachOnward == ASSUME WholeInv, Detach PROVE Onward
<1>. DEFINE died == [f \in view.fetches |-> [f EXCEPT !.live = FALSE]]
<1>1. /\ mounted' = "gone" /\ chip' = FALSE /\ UNCHANGED <<model, store, isolated>>
      /\ view' = [NoView EXCEPT !.fetches = {died[f] : f \in view.fetches}]
  BY DEF Detach
<1>2. /\ view'.scene = <<>> /\ view'.registry = <<>> /\ view'.loadSeq = <<>> /\ view'.pending = {}
      /\ view'.fetches = {died[f] : f \in view.fetches} /\ view'.timers = {} /\ view'.failed = {}
      /\ view'.skipped = {}
  BY <1>1 DEF NoView
<1>3. \A f \in view.fetches : /\ died[f] \in Fetches /\ ~died[f].live /\ died[f].mesh = f.mesh
                             /\ died[f].body = f.body /\ died[f].stage = f.stage
  <2>. SUFFICES ASSUME NEW f \in view.fetches
                PROVE  /\ died[f] \in Fetches /\ ~died[f].live /\ died[f].mesh = f.mesh
                       /\ died[f].body = f.body /\ died[f].stage = f.stage
    OBVIOUS
  <2>1. died[f] = [f EXCEPT !.live = FALSE] /\ f \in Fetches
    BY DEF WholeInv, ViewKind, Views
  <2>. HIDE DEF died
  <2>. QED
    BY <2>1 DEF Fetches
<1>. HIDE DEF died
<1>4. IsFiniteSet(view'.fetches)
  <2>1. IsFiniteSet({died[f] : f \in view.fetches})
    BY FiniteImage DEF WholeInv, ViewKind
  <2>. QED
    BY <1>2, <2>1
<1>5. view' \in Views
  <2>1. view' = [scene |-> <<>>, registry |-> <<>>, loadSeq |-> <<>>, pending |-> {},
                 fetches |-> {died[f] : f \in view.fetches}, timers |-> {}, failed |-> {}, skipped |-> {}]
    BY <1>1 DEF NoView
  <2>2. <<>> \in Partial(Handles) /\ <<>> \in Partial(Entries) /\ <<>> \in Partial(Nat)
    BY NothingKept
  <2>. QED
    BY <1>3, <2>1, <2>2 DEF Views
<1>6. DOMAIN view'.scene = {} /\ DOMAIN view'.registry = {}
  BY <1>2, NothingKept
<1>7. ViewKind'
  BY <1>1, <1>2, <1>3, <1>4, <1>5, <1>6 DEF WholeInv, ViewKind
<1>8. SceneHolds'
  BY <1>1, <1>2, <1>6 DEF SceneHolds, RendersWhatIsAllowed, RegistryIsScene, ChipTellsMissing, PendingIsLoading
<1>9. AgesWell
  <2>1. \A g \in view'.fetches : ~g.live
    BY <1>2, <1>3
  <2>2. TokensApart(view)' /\ NotBehind(view)' /\ FirstCopies(view)'
    BY <2>1 DEF TokensApart, NotBehind, IsCurrent, FirstCopies
  <2>3. AgeInv => Published(view, model)'
    BY <1>1, <1>2, <1>3, <1>6 DEF AgeInv, Published
  <2>4. NoneOlder
    BY <1>6 DEF NoneOlder
  <2>. QED
    BY <2>2, <2>3, <2>4 DEF AgesWell, AgeInv
<1>. QED
  BY <1>7, <1>8, <1>9 DEF Onward

(* A load under way gets an answer.                                        *)
LEMMA BecomesOnward ==
    ASSUME WholeInv, NEW f \in view.fetches, NEW stage \in {"answered", "colors"}, NEW mesh \in 0 .. MaxMesh,
           Becomes(f, stage, mesh), UNCHANGED <<model, store, isolated, chip, mounted>>,
           stage = "colors" => mesh # 0, AgeInv => mesh <= model[f.body].mesh,
           AgeInv /\ IsCurrent(view, f) /\ f.body \in DOMAIN view.scene /\ mesh # 0 =>
              mesh >= view.scene[f.body].mesh
    PROVE  Onward
<1>. DEFINE g == [f EXCEPT !.stage = stage, !.mesh = mesh]
<1>1. view \in Views /\ f \in Fetches /\ view.fetches \subseteq Fetches /\ IsFiniteSet(view.fetches)
  BY DEF WholeInv, ViewKind, Views
<1>2. /\ g \in Fetches /\ g.body = f.body /\ g.token = f.token /\ g.live = f.live /\ g.copy = f.copy
      /\ g.stage = stage /\ g.mesh = mesh
  BY <1>1 DEF Fetches
<1>. HIDE DEF g
<1>3. view' = [view EXCEPT !.fetches = (view.fetches \ {f}) \cup {g}]
  BY DEF Becomes, g
<1>4. /\ view'.scene = view.scene /\ view'.registry = view.registry /\ view'.loadSeq = view.loadSeq
      /\ view'.pending = view.pending /\ view'.timers = view.timers
      /\ view'.fetches = (view.fetches \ {f}) \cup {g} /\ view' \in Views
  BY <1>1, <1>2, <1>3 DEF Views
<1>5. IsFiniteSet(view'.fetches)
  <2>1. IsFiniteSet(view.fetches \ {f})
    BY <1>1, FS_Subset
  <2>2. IsFiniteSet((view.fetches \ {f}) \cup {g})
    BY <2>1, FS_AddElement
  <2>. QED
    BY <1>4, <2>2
<1>6. ViewKind'
  BY <1>2, <1>4, <1>5 DEF WholeInv, ViewKind
<1>7. /\ \A h \in view.fetches : IsCurrent(view', h) <=> IsCurrent(view, h)
      /\ IsCurrent(view', g) <=> IsCurrent(view, f)
  BY <1>2, <1>4 DEF IsCurrent
<1>8. PendingIsLoading'
  <2>1. \A h : Current(h) <=> IsCurrent(view, h)
    BY DEF Current, IsCurrent
  <2>2. \A h : Current(h)' <=> IsCurrent(view', h)
    BY DEF Current, IsCurrent
  <2>. QED
    BY <1>2, <1>4, <1>7, <2>1, <2>2 DEF WholeInv, SceneHolds, PendingIsLoading
<1>9. /\ RendersWhatIsAllowed' /\ ChipTellsMissing'
      /\ NoStaleColors \/ mounted' # "gone" => RegistryIsScene'
  BY <1>4 DEF WholeInv, SceneHolds, RendersWhatIsAllowed, RegistryIsScene, ChipTellsMissing, Missing
<1>10. NoneOlder
  <2>1. \A b \in DOMAIN view.scene : view.scene[b] \in Handles
    BY PartialIs DEF WholeInv, ViewKind, Views
  <2>. QED
    BY <1>4, <2>1, MeshBounds DEF NoneOlder, Handles
<1>11. AgeInv => AgeInv'
  <2>. SUFFICES ASSUME AgeInv PROVE AgeInv'
    OBVIOUS
  <2>1. FirstCopies(view)'
    BY <1>2, <1>4 DEF AgeInv, FirstCopies
  <2>2. TokensApart(view)'
    BY <1>2, <1>4 DEF AgeInv, TokensApart
  <2>3. NotBehind(view)'
    BY <1>2, <1>4, <1>7 DEF AgeInv, NotBehind
  <2>4. Published(view, model)'
    BY <1>2, <1>4 DEF AgeInv, Published
  <2>. QED
    BY <2>1, <2>2, <2>3, <2>4 DEF AgeInv
<1>. QED
  BY <1>6, <1>8, <1>9, <1>10, <1>11 DEF Onward, SceneHolds, AgesWell

(* A load under way ends without an effect on the scene.                   *)
LEMMA RemovalOnward ==
    ASSUME WholeInv, NEW f \in view.fetches, view' \in Views,
           view'.fetches = view.fetches \ {f}, view'.scene = view.scene,
           view'.registry = view.registry, view'.loadSeq = view.loadSeq,
           view'.pending = IF Current(f) THEN view.pending \ {f.body} ELSE view.pending,
           view'.timers = view.timers \/ mounted = "on",
           UNCHANGED <<model, store, isolated, chip, mounted>>
    PROVE  Onward
<1>1. IsFiniteSet(view'.fetches)
  <2>1. IsFiniteSet(view.fetches \ {f})
    BY FS_Subset DEF WholeInv, ViewKind
  <2>. QED
    BY <2>1
<1>2. ViewKind'
  BY <1>1 DEF WholeInv, ViewKind
<1>3. PendingIsLoading'
  BY DEF WholeInv, SceneHolds, PendingIsLoading, Current
<1>4. /\ RendersWhatIsAllowed' /\ ChipTellsMissing'
      /\ NoStaleColors \/ mounted' # "gone" => RegistryIsScene'
  BY DEF WholeInv, SceneHolds, RendersWhatIsAllowed, RegistryIsScene, ChipTellsMissing, Missing
<1>5. NoneOlder
  <2>1. \A b \in DOMAIN view.scene : view.scene[b] \in Handles
    BY PartialIs DEF WholeInv, ViewKind, Views
  <2>. QED
    BY <2>1, MeshBounds DEF NoneOlder, Handles
<1>6. AgeInv => AgeInv'
  BY DEF AgeInv, FirstCopies, TokensApart, NotBehind, IsCurrent, Published
<1>. QED
  BY <1>2, <1>3, <1>4, <1>5, <1>6 DEF Onward, SceneHolds, AgesWell

(* A load replaces what is shown of its body; it is the newest one, but    *)
(* for stale colours.                                                      *)
LEMMA InstallOnward ==
    ASSUME WholeInv, NEW f \in view.fetches, f.live, NoStaleColors => IsCurrent(view, f), f.mesh # 0,
           Install(f), UNCHANGED <<model, store, isolated, mounted>>
    PROVE  Onward
<1>. DEFINE entry == [mesh |-> f.mesh, color |-> f.color]
            shown == EffectiveVisible(store.bodies, isolated, f.body)
            handle == [mesh |-> f.mesh, color |-> f.color, shown |-> shown]
            S == {f.body}
            registry == Put(view.registry, S, [b \in S |-> entry])
            scene == Put(view.scene, S, [b \in S |-> handle])
<1>1. /\ view \in Views /\ f \in Fetches /\ view.fetches \subseteq Fetches /\ IsFiniteSet(view.fetches)
      /\ view.scene \in Partial(Handles) /\ view.registry \in Partial(Entries)
  BY DEF WholeInv, ViewKind, Views
<1>2. /\ f.body \in Bodies /\ mounted = "on" /\ f.mesh \in 0 .. MaxMesh /\ f.color \in Hues
      /\ Current(f) <=> IsCurrent(view, f)
  BY <1>1 DEF IsCurrent, Current, WholeInv, ViewKind, Fetches
<1>3. shown \in BOOLEAN
  <2>1. \A b \in DOMAIN store.bodies : store.bodies[b] \in Rows
    BY PartialIs DEF WholeInv, BackendKind
  <2>. QED
    BY <2>1 DEF EffectiveVisible, Visible, Rows
<1>. HIDE DEF shown
<1>4. entry \in Entries /\ handle \in Handles
  BY <1>2, <1>3 DEF Entries, Handles
<1>5. /\ view' = [scene |-> scene, registry |-> registry, loadSeq |-> view.loadSeq,
                   pending |-> IF Current(f) THEN view.pending \ S ELSE view.pending,
                   fetches |-> view.fetches \ {f}, timers |-> view.timers,
                   failed |-> view.failed \ S, skipped |-> view.skipped]
      /\ chip' = (Missing(view', store.bodies) # {})
  BY <1>1, <1>2 DEF Install, Done, Views, shown
<1>6. /\ scene \in Partial(Handles) /\ registry \in Partial(Entries)
      /\ DOMAIN scene = DOMAIN view.scene \cup S /\ DOMAIN registry = DOMAIN view.registry \cup S
      /\ scene[f.body] = handle /\ registry[f.body] = entry
      /\ \A b \in DOMAIN view.scene \ S : scene[b] = view.scene[b]
      /\ \A b \in DOMAIN view.registry \ S : registry[b] = view.registry[b]
  <2>. HIDE DEF handle, entry
  <2>1. scene \in Partial(Handles)
    BY <1>1, <1>2, <1>4, PutKeeps
  <2>2. registry \in Partial(Entries)
    BY <1>1, <1>2, <1>4, PutKeeps
  <2>. QED
    BY <2>1, <2>2 DEF Put
<1>7. handle.mesh = f.mesh /\ entry.mesh = f.mesh /\ handle.shown = shown
  OBVIOUS
<1>. HIDE DEF scene, registry, handle, entry
<1>8. /\ view' \in Views
      /\ view'.scene = scene /\ view'.registry = registry /\ view'.loadSeq = view.loadSeq
      /\ view'.pending = (IF Current(f) THEN view.pending \ S ELSE view.pending)
      /\ view'.fetches = view.fetches \ {f}
      /\ view'.timers = view.timers
  BY <1>1, <1>5, <1>6 DEF Views
<1>9. IsFiniteSet(view'.fetches)
  <2>1. IsFiniteSet(view.fetches \ {f})
    BY <1>1, FS_Subset
  <2>. QED
    BY <1>8, <2>1
<1>10. ViewKind'
  BY <1>2, <1>8, <1>9 DEF WholeInv, ViewKind
<1>11. RendersWhatIsAllowed'
  BY <1>6, <1>7, <1>8 DEF WholeInv, SceneHolds, RendersWhatIsAllowed, shown
<1>12. RegistryIsScene'
  BY <1>2, <1>6, <1>7, <1>8 DEF WholeInv, SceneHolds, RegistryIsScene
<1>13. ChipTellsMissing'
  BY <1>5 DEF ChipTellsMissing
<1>14. PendingIsLoading'
  BY <1>8 DEF WholeInv, SceneHolds, PendingIsLoading, Current
<1>15. \A b \in DOMAIN view.scene : view.scene[b].mesh \in Nat
  <2>1. \A b \in DOMAIN view.scene : view.scene[b] \in Handles
    BY <1>1, PartialIs
  <2>. QED
    BY <2>1, MeshBounds DEF Handles
<1>16. NoStaleColors /\ AgeInv => NoneOlder
  BY <1>6, <1>7, <1>8, <1>15 DEF AgeInv, NotBehind, NoneOlder
<1>17. NoStaleColors /\ AgeInv => AgeInv'
  <2>. SUFFICES ASSUME NoStaleColors, AgeInv PROVE AgeInv'
    OBVIOUS
  <2>1. FirstCopies(view)' /\ TokensApart(view)'
    BY <1>8 DEF AgeInv, FirstCopies, TokensApart
  <2>2. \A g \in view.fetches \ {f} : IsCurrent(view, g) => g.body # f.body
    BY DEF AgeInv, TokensApart, IsCurrent
  <2>3. NotBehind(view)'
    BY <1>6, <1>8, <2>2 DEF AgeInv, NotBehind, IsCurrent
  <2>4. Published(view, model)'
    BY <1>6, <1>7, <1>8 DEF AgeInv, Published
  <2>. QED
    BY <2>1, <2>3, <2>4 DEF AgeInv
<1>. QED
  BY <1>10, <1>11, <1>12, <1>13, <1>14, <1>16, <1>17 DEF Onward, SceneHolds, AgesWell

(* A load that the view died under writes the registry and nothing else.   *)
LEMMA DeadInstallOnward ==
    ASSUME WholeInv, NEW f \in view.fetches, ~f.live, ~NoStaleColors, Install(f),
           UNCHANGED <<model, store, isolated, mounted>>
    PROVE  Onward
<1>. DEFINE entry == [mesh |-> f.mesh, color |-> f.color]
            registry == Put(view.registry, {f.body}, [b \in {f.body} |-> entry])
<1>1. /\ view \in Views /\ f \in Fetches /\ view.registry \in Partial(Entries) /\ mounted = "gone"
      /\ IsFiniteSet(view.fetches)
  BY DEF WholeInv, ViewKind, Views
<1>2. registry \in Partial(Entries)
  <2>1. entry \in Entries /\ {f.body} \in SUBSET Bodies
    BY <1>1 DEF Entries, Fetches
  <2>. HIDE DEF entry
  <2>. QED
    BY <1>1, <2>1, PutKeeps
<1>3. view' = [view EXCEPT !.fetches = view.fetches \ {f}, !.registry = registry] /\ chip' = chip
  BY <1>1 DEF Install, Done, Current, Views
<1>. HIDE DEF registry
<1>4. /\ view' \in Views /\ view'.scene = view.scene /\ view'.loadSeq = view.loadSeq
      /\ view'.pending = view.pending /\ view'.fetches = view.fetches \ {f} /\ view'.timers = view.timers
  BY <1>1, <1>2, <1>3 DEF Views
<1>5. IsFiniteSet(view'.fetches)
  <2>1. IsFiniteSet(view.fetches \ {f})
    BY <1>1, FS_Subset
  <2>. QED
    BY <1>4, <2>1
<1>6. ViewKind'
  BY <1>1, <1>4, <1>5 DEF WholeInv, ViewKind
<1>7. SceneHolds'
  BY <1>1, <1>3, <1>4 DEF WholeInv, SceneHolds, RendersWhatIsAllowed, ChipTellsMissing, PendingIsLoading, Current
<1>. QED
  BY <1>6, <1>7 DEF Onward, AgesWell

-----------------------------------------------------------------------------
(* The steps of a load.                                                    *)

(* Every step of a load leaves the scene whole.                            *)
LEMMA LoadOnward ==
    ASSUME WholeInv, NEW f \in view.fetches,
           AnswerMesh(f) \/ FailMesh(f) \/ ResolveMesh(f) \/ ResolveFaceColors(f)
    PROVE  Onward
<1>1. /\ view \in Views /\ f \in Fetches /\ view.fetches \subseteq Fetches
      /\ model[f.body] \in Parts /\ f.mesh \in Nat
      /\ \A b \in DOMAIN view.scene : view.scene[b] \in Handles
      /\ Current(f) <=> IsCurrent(view, f)
  <2>1. \A b \in DOMAIN view.scene : view.scene[b] \in Handles
    BY PartialIs DEF WholeInv, ViewKind, Views
  <2>2. view \in Views /\ f \in Fetches /\ view.fetches \subseteq Fetches
    BY DEF WholeInv, ViewKind, Views
  <2>. QED
    BY <2>1, <2>2, MeshBounds DEF WholeInv, BackendKind, Fetches, Current, IsCurrent
<1>2. CASE AnswerMesh(f)
  <2>. DEFINE mesh == IF model[f.body].there THEN model[f.body].mesh ELSE 0
  <2>1. Becomes(f, "answered", mesh) /\ UNCHANGED <<model, store, isolated, chip, mounted>>
    BY <1>2 DEF AnswerMesh
  <2>2. mesh \in 0 .. MaxMesh /\ mesh <= model[f.body].mesh /\ (mesh # 0 => mesh = model[f.body].mesh)
    BY <1>1, MeshBounds DEF Parts
  <2>3. AgeInv /\ f.body \in DOMAIN view.scene => model[f.body].mesh >= view.scene[f.body].mesh
    BY <1>1, MeshBounds DEF AgeInv, Published, Handles, Parts
  <2>. HIDE DEF mesh
  <2>. QED
    BY <2>1, <2>2, <2>3, BecomesOnward
<1>3. CASE FailMesh(f)
  <2>1. view' = [Done(view, f) EXCEPT !.failed = IF Current(f) THEN Done(view, f).failed \cup {f.body}
                                                 ELSE Done(view, f).failed]
        /\ UNCHANGED <<model, store, isolated, chip, mounted>> /\ mounted = "on"
    BY <1>3 DEF FailMesh, Edit
  <2>2. /\ view'.fetches = view.fetches \ {f} /\ view'.scene = view.scene /\ view'.registry = view.registry
        /\ view'.loadSeq = view.loadSeq /\ view'.timers = view.timers
        /\ view'.pending = IF Current(f) THEN view.pending \ {f.body} ELSE view.pending
        /\ view' \in Views
    BY <1>1, <2>1 DEF Done, Views, Fetches
  <2>. QED
    BY <2>1, <2>2, RemovalOnward
<1>4. CASE ResolveMesh(f)
  <2>1. UNCHANGED <<model, store, isolated, mounted>>
    BY <1>4 DEF ResolveMesh
  <2>2. CASE ~Current(f)
    <3>1. view' = Done(view, f) /\ chip' = chip
      BY <1>4, <2>2 DEF ResolveMesh
    <3>2. /\ view'.fetches = view.fetches \ {f} /\ view'.scene = view.scene /\ view'.registry = view.registry
          /\ view'.loadSeq = view.loadSeq /\ view'.timers = view.timers
          /\ view'.pending = IF Current(f) THEN view.pending \ {f.body} ELSE view.pending
          /\ view' \in Views
      BY <1>1, <3>1 DEF Done, Views
    <3>. QED
      BY <2>1, <3>1, <3>2, RemovalOnward
  <2>3. CASE Current(f) /\ f.mesh = 0
    <3>1. view' = [Done(view, f) EXCEPT !.timers = view.timers \cup Retry(f)] /\ chip' = chip
      BY <1>1, <1>4, <2>3 DEF ResolveMesh, Done, Views
    <3>2. Retry(f) \subseteq Timers
      BY <1>1, MeshBounds DEF Retry, Timers, Fetches
    <3>3. /\ view'.fetches = view.fetches \ {f} /\ view'.scene = view.scene /\ view'.registry = view.registry
          /\ view'.loadSeq = view.loadSeq
          /\ view'.pending = IF Current(f) THEN view.pending \ {f.body} ELSE view.pending
          /\ view' \in Views
      BY <1>1, <3>1, <3>2 DEF Done, Views
    <3>4. mounted = "on"
      BY <2>3 DEF Current, WholeInv, ViewKind
    <3>. QED
      BY <2>1, <3>1, <3>3, <3>4, RemovalOnward
  <2>4. CASE Current(f) /\ f.mesh # 0
    <3>1. CASE Install(f)
      BY <1>1, <2>1, <2>4, <3>1, InstallOnward DEF Current
    <3>2. CASE Becomes(f, "colors", f.mesh) /\ chip' = chip
      <4>1. f.mesh \in 0 .. MaxMesh
        BY <1>1 DEF Fetches
      <4>2. AgeInv /\ IsCurrent(view, f) /\ f.body \in DOMAIN view.scene /\ f.mesh # 0 =>
              f.mesh >= view.scene[f.body].mesh
        BY DEF AgeInv, NotBehind
      <4>3. "colors" \in {"answered", "colors"}
        OBVIOUS
      <4>4. AgeInv => f.mesh <= model[f.body].mesh
        BY DEF AgeInv, Published
      <4>. QED
        BY <2>1, <2>4, <3>2, <4>1, <4>2, <4>3, <4>4, BecomesOnward
    <3>. QED
      BY <1>4, <2>4, <3>1, <3>2 DEF ResolveMesh
  <2>. QED
    BY <2>2, <2>3, <2>4
<1>5. CASE ResolveFaceColors(f)
  <2>1. /\ f.stage = "colors" /\ Install(f) /\ UNCHANGED <<model, store, isolated, mounted>>
        /\ f.mesh # 0 /\ (NoStaleColors => IsCurrent(view, f))
    BY <1>5 DEF ResolveFaceColors, WholeInv, ViewKind, ColorsCurrent
  <2>2. CASE f.live
    BY <2>1, <2>2, InstallOnward
  <2>3. CASE ~f.live
    BY <2>1, <2>3, DeadInstallOnward DEF IsCurrent
  <2>. QED
    BY <2>2, <2>3
<1>. QED
  BY <1>2, <1>3, <1>4, <1>5

(* So does a retry that fires, on time or too late.                        *)
LEMMA FireRetryOnward ==
    ASSUME WholeInv, NEW t \in view.timers, FireRetry(t)
    PROVE  Onward
<1>. DEFINE rest == [view EXCEPT !.timers = view.timers \ {t}]
<1>1. UNCHANGED <<model, store, isolated, chip, mounted>> /\ mounted = "on"
      /\ view \in Views /\ IsFiniteSet(view.fetches) /\ isolated \subseteq Bodies /\ t \in Timers
      /\ store.bodies \in Partial(Rows)
  BY DEF FireRetry, WholeInv, BackendKind, ViewKind, Views
<1>2. /\ rest \in Views /\ rest.scene = view.scene /\ rest.registry = view.registry
      /\ rest.loadSeq = view.loadSeq /\ rest.pending = view.pending /\ rest.fetches = view.fetches
  BY <1>1 DEF Views
<1>3. view' = LoadBody(rest, store.bodies, {t.body}, t.attempt + 1) \/ view' = rest
  BY DEF FireRetry
<1>. HIDE DEF rest
<1>4. Keeps(view, rest)
  BY <1>1, <1>2 DEF Keeps, Matched, Loading, IsCurrent, NotBehind, TokensApart
<1>5. Keeps(view, view') /\ view'.scene = view.scene
  <2>1. CASE view' = rest
    BY <1>2, <1>4, <2>1
  <2>2. CASE view' = LoadBody(rest, store.bodies, {t.body}, t.attempt + 1)
    <3>1. {t.body} \in SUBSET Bodies /\ t.attempt + 1 \in 0 .. MaxRetries
      BY <1>1, MeshBounds DEF Timers
    <3>2. Keeps(rest, view') /\ view'.scene = rest.scene
      BY <1>1, <1>2, <2>2, <3>1, LoadKeeps
    <3>. QED
      BY <1>2, <1>4, <3>2, KeepsIsTransitive
  <2>. QED
    BY <1>3, <2>1, <2>2
<1>6. ViewKind' /\ RegistryIsScene' /\ PendingIsLoading' /\ AgesWell
  BY <1>1, <1>5, KeepsOnward
<1>7. RendersWhatIsAllowed' /\ ChipTellsMissing'
  BY <1>1, <1>5 DEF WholeInv, SceneHolds, RendersWhatIsAllowed, ChipTellsMissing, Missing
<1>. QED
  BY <1>6, <1>7 DEF Onward, SceneHolds

-----------------------------------------------------------------------------
(* The backend and the calls.                                              *)

(* The projection of a document is one.                                    *)
LEMMA ProjectionKind ==
    ASSUME NEW m \in [Bodies -> Parts], NEW r \in Nat
    PROVE  ProjectionEvent(m, r) \in Projections /\ ProjectionEvent(m, r).rev = r
<1>1. Projection(m) = [b \in {b \in Bodies : m[b].there} |-> [visible |-> m[b].visible, color |-> m[b].color]]
  BY DEF Projection, Restrict
<1>2. \A b \in Bodies : [visible |-> m[b].visible, color |-> m[b].color] \in Rows
  BY DEF Parts, Rows
<1>3. Projection(m) \in Partial(Rows)
  BY <1>1, <1>2 DEF Partial
<1>. QED
  BY <1>3 DEF ProjectionEvent, Projections

(* Whatever the backend emits ends in a projection of its new revision.    *)
LEMMA EmitsKind ==
    ASSUME BackendKind, NEW m \in [Bodies -> Parts], NEW events \in Seq(Changes), Emits(m, events)
    PROVE  /\ model' \in [Bodies -> Parts] /\ revision' = revision + 1 /\ revision' \in Nat
           /\ channel' \in Seq(Projections \cup Changes)
           /\ \A i \in DOMAIN channel' : channel'[i].type = "projection" => channel'[i].rev <= revision'
<1>. DEFINE p == ProjectionEvent(m, revision + 1)
            E == Projections \cup Changes
<1>1. /\ revision \in Nat /\ channel \in Seq(E)
      /\ \A i \in DOMAIN channel : channel[i].type = "projection" => channel[i].rev <= revision
  BY DEF BackendKind
<1>2. p \in Projections /\ p.rev = revision + 1
  BY <1>1, ProjectionKind
<1>3. channel' = channel \o events \o <<p>> /\ model' = m /\ revision' = revision + 1
  BY DEF Emits
<1>. HIDE DEF p
<1>4. events \in Seq(E) /\ <<p>> \in Seq(E)
  BY <1>2
<1>5. /\ channel' \in Seq(E) /\ Len(channel') = Len(channel) + Len(events) + 1
      /\ \A i \in 1 .. Len(channel') :
           channel'[i] = IF i <= Len(channel) THEN channel[i]
                         ELSE IF i <= Len(channel) + Len(events) THEN events[i - Len(channel)] ELSE p
  BY <1>1, <1>3, <1>4
<1>6. ASSUME NEW i \in DOMAIN channel', channel'[i].type = "projection"
      PROVE  channel'[i].rev <= revision'
  <2>1. i \in 1 .. Len(channel') /\ Len(channel) \in Nat /\ Len(events) \in Nat
    BY <1>1, <1>4, <1>5, LenProperties
  <2>2. CASE i <= Len(channel)
    <3>1. i \in DOMAIN channel /\ i \in 1 .. Len(channel) /\ channel'[i] = channel[i]
      BY <1>1, <1>5, <2>1, <2>2, LenProperties
    <3>2. channel[i] \in Projections \cup Changes
      BY <1>1, <3>1, ElementOfSeq
    <3>3. channel[i].rev \in Nat /\ channel[i].rev <= revision
      BY <1>1, <1>6, <3>1, <3>2 DEF Projections, Changes
    <3>. QED
      BY <1>1, <1>3, <3>1, <3>3
  <2>3. CASE i > Len(channel) /\ i <= Len(channel) + Len(events)
    <3>1. i - Len(channel) \in 1 .. Len(events)
      BY <2>1, <2>3
    <3>2. events[i - Len(channel)] \in Changes
      BY <3>1, ElementOfSeq
    <3>. QED
      BY <1>5, <1>6, <2>1, <2>3, <3>2 DEF Changes
  <2>4. CASE i > Len(channel) + Len(events)
    BY <1>1, <1>2, <1>3, <1>5, <2>1, <2>4
  <2>. QED
    BY <2>1, <2>2, <2>3, <2>4
<1>. QED
  BY <1>1, <1>3, <1>5, <1>6

(* What was heard of an earlier revision is of an earlier revision.        *)
LEMMA LaterRevision ==
    ASSUME BackendKind, revision' \in Nat, revision' >= revision, UNCHANGED <<pull, commands, store>>, edits' \in Nat,
           model' \in [Bodies -> Parts], channel' \in Seq(Projections \cup Changes),
           \A i \in DOMAIN channel' : channel'[i].type = "projection" => channel'[i].rev <= revision'
    PROVE  BackendKind'
<1>1. store.rev \in Nat /\ \A p \in pull.answers : p.rev \in Nat
  BY DEF BackendKind, Projections
<1>2. \A c \in commands : c.rev \in Nat
  BY DEF BackendKind, Commands
<1>. QED
  BY <1>1, <1>2 DEF BackendKind

(* A publish, a removal and an undo of it keep the invariant.              *)
LEMMA PublishKept ==
    ASSUME WholeInv, NEW b \in Bodies, Publish(b) \/ Delete(b) \/ Restore(b)
    PROVE  BackendKind' /\ Onward
<1>1. model \in [Bodies -> Parts] /\ MaxMesh \in Nat
  BY MeshBounds DEF WholeInv, BackendKind
<1>2. PICK m \in [Bodies -> Parts], c \in Changes :
        /\ Emits(m, <<c>>)
        /\ \A d \in Bodies : m[d].mesh \in Nat /\ m[d].mesh >= model[d].mesh
  <2>1. ChangeEvent({b}, {}) \in Changes /\ ChangeEvent({}, {b}) \in Changes
    BY DEF ChangeEvent, Changes
  <2>2. CASE Publish(b)
    <3>. DEFINE m == [model EXCEPT ![b].mesh = @ + 1]
    <3>1. Emits(m, <<ChangeEvent({b}, {})>>) /\ model[b].mesh < MaxMesh
      BY <2>2 DEF Publish
    <3>2. m \in [Bodies -> Parts] /\ \A d \in Bodies : m[d].mesh \in Nat /\ m[d].mesh >= model[d].mesh
      BY <1>1, <3>1 DEF Parts
    <3>. QED
      BY <2>1, <3>1, <3>2
  <2>3. CASE Delete(b)
    <3>. DEFINE m == [model EXCEPT ![b].there = FALSE]
    <3>1. Emits(m, <<ChangeEvent({}, {b})>>)
      BY <2>3 DEF Delete
    <3>2. /\ m[b] = [model[b] EXCEPT !.there = FALSE] /\ \A d \in Bodies \ {b} : m[d] = model[d]
      BY <1>1
    <3>6. m = [d \in Bodies |-> m[d]]
      BY <1>1
    <3>. HIDE DEF m
    <3>3. m[b] \in Parts /\ m[b].mesh = model[b].mesh
      BY <1>1, <3>2 DEF Parts
    <3>4. m \in [Bodies -> Parts]
      BY <1>1, <3>2, <3>3, <3>6
    <3>5. \A d \in Bodies : m[d].mesh \in Nat /\ m[d].mesh >= model[d].mesh
      <4>1. \A d \in Bodies : model[d].mesh \in Nat
        BY <1>1 DEF Parts
      <4>2. \A d \in Bodies : m[d].mesh = model[d].mesh \/ m[d].mesh = model[d].mesh + 1
        BY <3>2, <3>3
      <4>. QED
        BY <4>1, <4>2
    <3>. QED
      BY <2>1, <3>1, <3>4, <3>5
  <2>4. CASE Restore(b)
    <3>. DEFINE m == [model EXCEPT ![b].there = TRUE, ![b].mesh = @ + 1]
    <3>1. Emits(m, <<ChangeEvent({b}, {})>>) /\ model[b].mesh < MaxMesh
      BY <2>4 DEF Restore
    <3>2. /\ m[b] = [model[b] EXCEPT !.there = TRUE, !.mesh = @ + 1] /\ \A d \in Bodies \ {b} : m[d] = model[d]
      BY <1>1
    <3>6. m = [d \in Bodies |-> m[d]]
      BY <1>1
    <3>. HIDE DEF m
    <3>3. m[b] \in Parts /\ m[b].mesh = model[b].mesh + 1
      <4>1. model[b] \in Parts /\ model[b].mesh + 1 \in 0 .. MaxMesh
        BY <1>1, <3>1 DEF Parts
      <4>. QED
        BY <3>2, <4>1 DEF Parts
    <3>4. m \in [Bodies -> Parts]
      BY <1>1, <3>2, <3>3, <3>6
    <3>5. \A d \in Bodies : m[d].mesh \in Nat /\ m[d].mesh >= model[d].mesh
      <4>1. \A d \in Bodies : model[d].mesh \in Nat
        BY <1>1 DEF Parts
      <4>2. \A d \in Bodies : m[d].mesh = model[d].mesh \/ m[d].mesh = model[d].mesh + 1
        BY <3>2, <3>3
      <4>. QED
        BY <4>1, <4>2
    <3>. QED
      BY <2>1, <3>1, <3>4, <3>5
  <2>. QED
    BY <2>2, <2>3, <2>4
<1>3. UNCHANGED <<pull, commands, store, isolated, view, chip, mounted>> /\ edits' \in Nat
      /\ revision \in Nat
  BY DEF Publish, Delete, Restore, Edit, WholeInv, BackendKind
<1>4. <<c>> \in Seq(Changes) /\ model' = m
  BY <1>2 DEF Emits
<1>5. BackendKind'
  <2>1. /\ model' \in [Bodies -> Parts] /\ revision' = revision + 1 /\ revision' \in Nat
        /\ channel' \in Seq(Projections \cup Changes)
        /\ \A i \in DOMAIN channel' : channel'[i].type = "projection" => channel'[i].rev <= revision'
    BY <1>2, <1>4, EmitsKind DEF WholeInv
  <2>. QED
    BY <1>3, <2>1, LaterRevision DEF WholeInv
<1>6. Onward
  BY <1>2, <1>3, <1>4, SceneStays
<1>. QED
  BY <1>5, <1>6

(* An optimistic write keeps the kind of the rows.                         *)
LEMMA WriteIs ==
    ASSUME NEW bodies \in Partial(Rows), NEW b, NEW field, NEW value,
           (field = "visible" /\ value \in BOOLEAN) \/ (field = "color" /\ value \in Hues)
    PROVE  Write(bodies, b, field, value) \in Partial(Rows)
<1>. DEFINE w == [bodies EXCEPT ![b][field] = value]
<1>1. bodies = [d \in DOMAIN bodies |-> bodies[d]] /\ DOMAIN bodies \subseteq Bodies
      /\ \A d \in DOMAIN bodies : bodies[d] \in Rows
  BY PartialIs
<1>2. CASE b \in DOMAIN bodies
  <2>1. bodies[b] \in Rows
    BY <1>1, <1>2
  <2>2. [bodies[b] EXCEPT ![field] = value] \in Rows
    <3>1. CASE field = "visible" /\ value \in BOOLEAN
      BY <2>1, <3>1 DEF Rows
    <3>2. CASE field = "color" /\ value \in Hues
      BY <2>1, <3>2 DEF Rows
    <3>. QED
      BY <3>1, <3>2
  <2>3. w = [d \in DOMAIN bodies |-> IF d = b THEN [bodies[b] EXCEPT ![field] = value] ELSE bodies[d]]
    BY <1>1, <1>2
  <2>4. DOMAIN w = DOMAIN bodies /\ w = [d \in DOMAIN w |-> w[d]] /\ \A d \in DOMAIN w : w[d] \in Rows
    BY <1>1, <2>2, <2>3
  <2>. HIDE DEF w
  <2>5. w \in Partial(Rows)
    BY <1>1, <2>4, PartialIs
  <2>. QED
    BY <1>2, <2>5 DEF Write, w
<1>3. CASE b \notin DOMAIN bodies
  BY <1>3 DEF Write
<1>. QED
  BY <1>2, <1>3

(* A tree edit keeps the invariant, its optimistic write and its           *)
(* reconciliation included.                                                *)
LEMMA DispatchKept ==
    ASSUME WholeInv, NEW b \in Bodies, NEW field, NEW value,
           (field = "visible" /\ value \in BOOLEAN) \/ (field = "color" /\ value \in Hues),
           Dispatch(b, field, value)
    PROVE  BackendKind' /\ Onward
<1>. DEFINE c == [body |-> b, field |-> field, value |-> value, nth |-> edits,
                  before |-> store.bodies[b][field], answer |-> "sent", rev |-> 0]
            bodies == Write(store.bodies, b, field, value)
<1>1. /\ b \in DOMAIN store.bodies /\ StoreWrite(store.rev, bodies) /\ commands' = commands \cup {c}
      /\ edits' = edits + 1 /\ UNCHANGED <<model, revision, channel, pull, isolated, mounted>>
  BY DEF Dispatch, Edit
<1>2. /\ store.bodies \in Partial(Rows) /\ store.rev \in Nat /\ store.rev <= revision /\ edits \in Nat
      /\ revision \in Nat
  BY DEF WholeInv, BackendKind
<1>3. bodies \in Partial(Rows)
  BY <1>2, WriteIs
<1>4. c \in Commands /\ c.rev <= revision
  <2>1. store.bodies[b] \in Rows
    BY <1>1, <1>2, PartialIs
  <2>2. CASE field = "visible" /\ value \in BOOLEAN
    <3>1. store.bodies[b]["visible"] \in BOOLEAN
      BY <2>1 DEF Rows
    <3>. QED
      BY <1>2, <2>2, <3>1 DEF Commands
  <2>3. CASE field = "color" /\ value \in Hues
    <3>1. store.bodies[b]["color"] \in Hues
      BY <2>1 DEF Rows
    <3>. QED
      BY <1>2, <2>3, <3>1 DEF Commands
  <2>. QED
    BY <2>2, <2>3
<1>. HIDE DEF c, bodies
<1>5. store' = [rev |-> store.rev, bodies |-> bodies]
  BY <1>1 DEF StoreWrite
<1>6. BackendKind'
  BY <1>1, <1>2, <1>3, <1>4, <1>5 DEF WholeInv, BackendKind
<1>7. Onward
  BY <1>1, <1>3, StoreWriteOnward
<1>. QED
  BY <1>6, <1>7

(* So does the answer of the backend to a tree edit.                       *)
LEMMA HandleCommandKept ==
    ASSUME WholeInv, NEW c \in commands, HandleCommand(c)
    PROVE  BackendKind' /\ Onward
<1>1. /\ c \in Commands /\ commands \subseteq Commands /\ c.rev <= revision /\ revision \in Nat /\ edits \in Nat
      /\ model \in [Bodies -> Parts] /\ UNCHANGED <<pull, store, isolated, view, chip, mounted, edits>>
  BY DEF HandleCommand, WholeInv, BackendKind
<1>2. CASE model[c.body].there
  <2>. DEFINE m == [model EXCEPT ![c.body][c.field] = c.value]
              d == [c EXCEPT !.answer = "done", !.rev = revision + 1]
  <2>1. Emits(m, <<>>) /\ commands' = (commands \ {c}) \cup {d}
    BY <1>2 DEF HandleCommand
  <2>2. c.body \in Bodies /\ d \in Commands /\ d.rev = revision + 1
    <3>1. revision + 1 \in Nat
      BY <1>1
    <3>. HIDE DEF Commands
    <3>2. \A rev \in Nat : LET e == [c EXCEPT !.answer = "done", !.rev = rev]
                           IN c.body \in Bodies /\ e \in Commands /\ e.rev = rev
      BY <1>1 DEF Commands
    <3>. QED
      BY <3>1, <3>2
  <2>3. [model[c.body] EXCEPT ![c.field] = c.value] \in Parts
        /\ [model[c.body] EXCEPT ![c.field] = c.value].mesh = model[c.body].mesh
    <3>1. model[c.body] \in Parts
      BY <1>1, <2>2
    <3>2. CASE c.field = "visible"
      <4>1. c.value \in BOOLEAN
        BY <1>1, <3>2 DEF Commands
      <4>. QED
        BY <3>1, <3>2, <4>1 DEF Parts
    <3>3. CASE c.field = "color"
      <4>1. c.value \in Hues
        BY <1>1, <3>3 DEF Commands
      <4>. QED
        BY <3>1, <3>3, <4>1 DEF Parts
    <3>. QED
      BY <1>1, <3>2, <3>3 DEF Commands
  <2>4. m = [b \in Bodies |-> IF b = c.body THEN [model[c.body] EXCEPT ![c.field] = c.value] ELSE model[b]]
    BY <1>1, <2>2
  <2>5. m \in [Bodies -> Parts] /\ \A b \in Bodies : m[b].mesh = model[b].mesh
    BY <1>1, <2>3, <2>4
  <2>6. \A b \in Bodies : m[b].mesh \in Nat /\ m[b].mesh >= model[b].mesh
    <3>1. \A b \in Bodies : model[b].mesh \in Nat
      BY <1>1, MeshBounds DEF Parts
    <3>. HIDE DEF m
    <3>. QED
      BY <2>5, <3>1
  <2>. HIDE DEF m, d
  <2>7. <<>> \in Seq(Changes) /\ model' = m
    BY <2>1, EmptySeq DEF Emits
  <2>8. /\ revision' = revision + 1 /\ revision' \in Nat /\ channel' \in Seq(Projections \cup Changes)
        /\ \A i \in DOMAIN channel' : channel'[i].type = "projection" => channel'[i].rev <= revision'
    BY <2>1, <2>5, <2>7, EmitsKind DEF WholeInv
  <2>9. commands' \subseteq Commands /\ \A e \in commands' : e.rev <= revision'
    <3>1. \A e \in commands : e.rev \in Nat /\ e.rev <= revision
      BY DEF WholeInv, BackendKind, Commands
    <3>. QED
      BY <1>1, <2>1, <2>2, <2>8, <3>1
  <2>10. BackendKind'
    <3>1. store.rev \in Nat /\ store.rev <= revision /\ \A p \in pull.answers : p.rev \in Nat /\ p.rev <= revision
      BY DEF WholeInv, BackendKind, Projections
    <3>. QED
      BY <1>1, <2>5, <2>7, <2>8, <2>9, <3>1 DEF WholeInv, BackendKind
  <2>11. Onward
    BY <1>1, <2>6, <2>7, SceneStays
  <2>. QED
    BY <2>10, <2>11
<1>3. CASE ~model[c.body].there
  <2>1. /\ commands' = (commands \ {c}) \cup {[c EXCEPT !.answer = "refused"]}
        /\ UNCHANGED <<model, revision, channel>>
    BY <1>3 DEF HandleCommand
  <2>2. [c EXCEPT !.answer = "refused"] \in Commands /\ [c EXCEPT !.answer = "refused"].rev = c.rev
    BY <1>1 DEF Commands
  <2>3. BackendKind'
    BY <1>1, <2>1, <2>2 DEF WholeInv, BackendKind
  <2>4. \A b \in Bodies : model'[b].mesh \in Nat /\ model'[b].mesh >= model[b].mesh
    BY <1>1, <2>1, MeshBounds DEF Parts
  <2>5. Onward
    BY <1>1, <2>4, SceneStays
  <2>. QED
    BY <2>3, <2>5
<1>. QED
  BY <1>2, <1>3

(* So does the settlement of a tree edit, which may set the store back.    *)
LEMMA CommandResultKept ==
    ASSUME WholeInv, NEW c \in commands, CommandResult(c)
    PROVE  BackendKind' /\ Onward
<1>1. /\ c \in Commands /\ c.rev \in Nat /\ c.rev <= revision /\ commands' = commands \ {c}
      /\ store.bodies \in Partial(Rows) /\ store.rev \in Nat /\ store.rev <= revision
      /\ UNCHANGED <<model, revision, channel, pull, isolated, mounted, edits>>
  BY DEF CommandResult, WholeInv, BackendKind, Commands
<1>2. (c.field = "visible" /\ c.before \in BOOLEAN) \/ (c.field = "color" /\ c.before \in Hues)
  BY <1>1 DEF Commands
<1>3. Write(store.bodies, c.body, c.field, c.before) \in Partial(Rows)
  BY <1>1, <1>2, WriteIs
<1>4. PICK rev \in Nat, bodies \in Partial(Rows) : rev <= revision /\ StoreWrite(rev, bodies)
  BY <1>1, <1>3 DEF CommandResult
<1>5. store' = [rev |-> rev, bodies |-> bodies]
  BY <1>4 DEF StoreWrite
<1>6. BackendKind'
  BY <1>1, <1>4, <1>5 DEF WholeInv, BackendKind
<1>7. Onward
  BY <1>1, <1>4, StoreWriteOnward
<1>. QED
  BY <1>6, <1>7
(* A projection takes the store to no later revision than its own.         *)
LEMMA AppliedKind ==
    ASSUME NEW p \in Projections, ApplyProjection(p), NEW latest \in Nat, p.rev <= latest,
           store \in [rev : Nat, bodies : Partial(Rows)], store.rev <= latest
    PROVE  store' \in [rev : Nat, bodies : Partial(Rows)] /\ store'.rev <= latest
  BY DEF ApplyProjection, StoreWrite, Projections

(* The events keep the invariant in whatever order with the answers they   *)
(* come.                                                                   *)
LEMMA DeliverEventKept ==
    ASSUME WholeInv, DeliverEvent
    PROVE  BackendKind' /\ Onward
<1>. DEFINE e == Head(channel)
<1>1. /\ channel \in Seq(Projections \cup Changes) /\ channel # <<>>
      /\ channel' = Tail(channel) /\ UNCHANGED <<model, revision, pull, commands, isolated, mounted, edits>>
      /\ \A i \in DOMAIN channel : channel[i].type = "projection" => channel[i].rev <= revision
      /\ store \in [rev : Nat, bodies : Partial(Rows)] /\ store.rev <= revision
  BY DEF DeliverEvent, WholeInv, BackendKind
<1>2. /\ e \in Projections \cup Changes /\ 1 \in DOMAIN channel /\ e = channel[1]
      /\ channel' \in Seq(Projections \cup Changes)
      /\ \A i \in DOMAIN channel' : i + 1 \in DOMAIN channel /\ channel'[i] = channel[i + 1]
  <2>1. DOMAIN channel = 1 .. Len(channel) /\ Len(channel) \in Nat \ {0}
    BY <1>1, EmptySeq, LenProperties
  <2>2. /\ Tail(channel) \in Seq(Projections \cup Changes) /\ Len(Tail(channel)) = Len(channel) - 1
        /\ \A i \in 1 .. Len(Tail(channel)) : Tail(channel)[i] = channel[i + 1]
        /\ Head(channel) = channel[1]
    BY <1>1, HeadTailProperties
  <2>3. DOMAIN Tail(channel) = 1 .. Len(Tail(channel))
    BY <2>2, LenProperties
  <2>4. channel[1] \in Projections \cup Changes
    BY <1>1, <2>1, ElementOfSeq
  <2>. QED
    BY <1>1, <2>1, <2>2, <2>3, <2>4
<1>. HIDE DEF e
<1>3. \A i \in DOMAIN channel' : channel'[i].type = "projection" => channel'[i].rev <= revision
  BY <1>1, <1>2
<1>4. CASE e.type = "changed"
  <2>1. e \in Changes /\ OnDocumentChanged(e)
    BY <1>2, <1>4 DEF DeliverEvent, e, Projections
  <2>2. Onward
    BY <1>1, <2>1, DocumentChangedOnward
  <2>3. UNCHANGED store
    BY <2>1 DEF OnDocumentChanged
  <2>4. BackendKind'
    BY <1>1, <1>2, <1>3, <2>3 DEF WholeInv, BackendKind
  <2>. QED
    BY <2>2, <2>4
<1>5. CASE e.type # "changed"
  <2>1. e \in Projections /\ ApplyProjection(e)
    BY <1>2, <1>5 DEF DeliverEvent, e, Changes
  <2>2. Onward
    BY <1>1, <2>1, ApplyProjectionOnward
  <2>3. e.rev <= revision
    BY <1>1, <1>2, <2>1 DEF Projections
  <2>4. store' \in [rev : Nat, bodies : Partial(Rows)] /\ store'.rev <= revision
    BY <1>1, <2>1, <2>3, AppliedKind DEF WholeInv, BackendKind
  <2>5. BackendKind'
    BY <1>1, <1>2, <1>3, <2>4 DEF WholeInv, BackendKind
  <2>. QED
    BY <2>2, <2>5
<1>. QED
  BY <1>4, <1>5

(* The pull of the mount is answered with the document of that moment.     *)
LEMMA AnswerPullKept ==
    ASSUME WholeInv, AnswerPull
    PROVE  BackendKind' /\ Onward
<1>1. /\ pull' = [asked |-> FALSE, answers |-> {ProjectionEvent(model, revision)}]
      /\ UNCHANGED <<model, revision, channel, commands, store, isolated, view, chip, mounted, edits>>
      /\ model \in [Bodies -> Parts] /\ revision \in Nat
  BY DEF AnswerPull, WholeInv, BackendKind
<1>2. ProjectionEvent(model, revision) \in Projections /\ ProjectionEvent(model, revision).rev = revision
  BY <1>1, ProjectionKind
<1>3. BackendKind'
  BY <1>1, <1>2 DEF WholeInv, BackendKind
<1>4. \A b \in Bodies : model'[b].mesh \in Nat /\ model'[b].mesh >= model[b].mesh
  BY <1>1, MeshBounds DEF Parts
<1>5. Onward
  BY <1>1, <1>4, SceneStays
<1>. QED
  BY <1>3, <1>5

(* Its answer keeps the invariant, however late it comes.                  *)
LEMMA DeliverPullKept ==
    ASSUME WholeInv, DeliverPull
    PROVE  BackendKind' /\ Onward
<1>1. PICK p \in pull.answers : pull' = NoPull /\ ApplyProjection(p)
                                 /\ UNCHANGED <<model, revision, channel, commands, isolated, mounted, edits>>
  BY DEF DeliverPull
<1>2. p \in Projections /\ p.rev <= revision
  BY DEF WholeInv, BackendKind
<1>3. store' \in [rev : Nat, bodies : Partial(Rows)] /\ store'.rev <= revision
  BY <1>1, <1>2, AppliedKind DEF WholeInv, BackendKind
<1>4. BackendKind'
  BY <1>1, <1>3 DEF WholeInv, BackendKind, NoPull
<1>5. Onward
  BY <1>1, <1>2, ApplyProjectionOnward
<1>. QED
  BY <1>4, <1>5

(* The steps of the view alone leave the backend and the store as they     *)
(* are.                                                                    *)
LEMMA ViewStepKept ==
    ASSUME WholeInv,
           \/ Attach \/ Detach \/ \E S \in SUBSET Bodies : ToggleIsolate(S)
           \/ \E f \in view.fetches : AnswerMesh(f) \/ FailMesh(f) \/ ResolveMesh(f) \/ ResolveFaceColors(f)
           \/ \E t \in view.timers : FireRetry(t)
    PROVE  BackendKind' /\ Onward
<1>1. Onward
  BY AttachOnward, DetachOnward, ToggleIsolateOnward, LoadOnward, FireRetryOnward
<1>2. UNCHANGED <<model, revision, channel, commands, store>>
  BY DEF Attach, Detach, ToggleIsolate, AnswerMesh, FailMesh, ResolveMesh, ResolveFaceColors, FireRetry,
         transport
<1>3. pull' = pull \/ pull' = [asked |-> TRUE, answers |-> {}]
  BY DEF Attach, Detach, ToggleIsolate, AnswerMesh, FailMesh, ResolveMesh, ResolveFaceColors, FireRetry,
         transport
<1>4. edits' \in {edits, edits + 1}
  BY DEF Attach, Detach, ToggleIsolate, AnswerMesh, FailMesh, ResolveMesh, ResolveFaceColors, FireRetry,
         Edit
<1>5. pull' \in [asked : BOOLEAN, answers : SUBSET Projections] /\ \A p \in pull'.answers : p.rev <= revision
  <2>1. CASE pull' = pull
    BY <2>1 DEF WholeInv, BackendKind
  <2>2. CASE pull' = [asked |-> TRUE, answers |-> {}]
    BY <2>2
  <2>. QED
    BY <1>3, <2>1, <2>2
<1>6. edits' \in Nat
  BY <1>4 DEF WholeInv, BackendKind
<1>7. BackendKind'
  BY <1>2, <1>5, <1>6 DEF WholeInv, BackendKind
<1>. QED
  BY <1>1, <1>7

-----------------------------------------------------------------------------
(* The theorems.                                                           *)

(* The invariant holds at first.                                           *)
LEMMA WholeInit == Init => WholeInv /\ AgeInv
<1>. SUFFICES ASSUME Init PROVE WholeInv /\ AgeInv
  OBVIOUS
<1>1. PICK mesh \in 0 .. 1 :
        /\ model = [b \in Bodies |-> [there |-> TRUE, mesh |-> mesh, visible |-> TRUE, color |-> "none"]]
        /\ store = IF mesh = 0 THEN [rev |-> 1, bodies |-> Projection(model)]
                               ELSE [rev |-> 0, bodies |-> <<>>]
  BY DEF Init
<1>2. model \in [Bodies -> Parts]
  BY <1>1, MeshBounds DEF Parts, Hues
<1>3. Projection(model) \in Partial(Rows)
  BY <1>2, ProjectionKind DEF ProjectionEvent, Projections
<1>4. store \in [rev : Nat, bodies : Partial(Rows)] /\ store.rev <= 1
  BY <1>1, <1>3, NothingKept
<1>5. BackendKind
  <2>1. channel \in Seq(Projections \cup Changes) /\ DOMAIN channel = {}
    BY EmptySeq, NothingKept DEF Init
  <2>. QED
    BY <1>2, <1>4, <2>1 DEF Init, BackendKind, NoPull
<1>6. view \in Views /\ DOMAIN view.scene = {} /\ DOMAIN view.registry = {}
      /\ view.fetches = {} /\ view.timers = {} /\ view.pending = {}
  BY NothingKept DEF Init, NoView, Views
<1>7. ViewKind /\ SceneHolds /\ ColorsCurrent(view)
  BY <1>6, FS_EmptySet DEF Init, ViewKind, ColorsCurrent, SceneHolds, RendersWhatIsAllowed, RegistryIsScene,
     ChipTellsMissing, PendingIsLoading
<1>8. AgeInv
  BY <1>6 DEF AgeInv, FirstCopies, TokensApart, NotBehind, Published
<1>. QED
  BY <1>5, <1>7, <1>8 DEF WholeInv

(* Every step keeps the invariant, and no mesh goes back in it.            *)
LEMMA StepKept ==
    ASSUME WholeInv, Next
    PROVE  WholeInv' /\ AgesWell
<1>1. BackendKind' /\ Onward
  <2>1. CASE \E b \in Bodies : Publish(b) \/ Delete(b) \/ Restore(b)
    BY <2>1, PublishKept
  <2>2. CASE \E b \in Bodies : SetBodyVisible(b) \/ SetBodyColor(b)
    BY <2>2, DispatchKept DEF SetBodyVisible, SetBodyColor, Hues
  <2>3. CASE DeliverEvent \/ AnswerPull \/ DeliverPull
    BY <2>3, DeliverEventKept, AnswerPullKept, DeliverPullKept
  <2>4. CASE \E c \in commands : HandleCommand(c) \/ CommandResult(c)
    BY <2>4, HandleCommandKept, CommandResultKept
  <2>5. CASE \/ Attach \/ Detach \/ \E S \in SUBSET Bodies : ToggleIsolate(S)
             \/ \E f \in view.fetches : AnswerMesh(f) \/ FailMesh(f) \/ ResolveMesh(f) \/ ResolveFaceColors(f)
             \/ \E t \in view.timers : FireRetry(t)
    BY <2>5, ViewStepKept
  <2>. QED
    BY <2>1, <2>2, <2>3, <2>4, <2>5 DEF Next, Step
<1>2. NoStaleColors => ColorsCurrent(view)'
  BY DEF NoStaleColors, Next, FreshColors, ColorsCurrent, IsCurrent
<1>. QED
  BY <1>1, <1>2 DEF WholeInv, Onward

(* The invariant is inductive, with every rare circumstance allowed.       *)
LEMMA WholeStays ==
    ASSUME WholeInv, [Next]_vars
    PROVE  WholeInv'
<1>1. CASE Next
  BY <1>1, StepKept
<1>2. CASE UNCHANGED vars
  BY <1>2 DEF vars, transport, WholeInv, BackendKind, ViewKind, SceneHolds, RendersWhatIsAllowed,
     RegistryIsScene, ChipTellsMissing, PendingIsLoading, Current, ColorsCurrent
<1>. QED
  BY <1>1, <1>2

(* It holds in every reachable state.                                      *)
THEOREM WholeAlways == Spec => []WholeInv
<1>1. Init => WholeInv
  BY WholeInit
<1>2. WholeInv /\ [Next]_vars => WholeInv'
  BY WholeStays
<1>. QED
  BY <1>1, <1>2, PTL DEF Spec

(* What renders is what the eye and the mask allow, the registry owns      *)
(* exactly the buffers of the scene, the chip tells of what is missing,    *)
(* and what is marked as loading is loading (MeshIngest, meshRegistry.ts), *)
(* unless a load waiting for its face colours may outlive its view.        *)
THEOREM SceneHangsTogether ==
    ASSUME "stale_colors" \notin Rare
    PROVE  Spec => []SceneIsWhole
<1>1. WholeInv => SceneIsWhole
  BY DEF WholeInv, SceneHolds, SceneIsWhole, NoStaleColors
<1>. QED
  BY <1>1, WholeAlways, PTL

(* A mounted view hangs together whatever rare circumstance is allowed:    *)
(* superseded loads, repeated tokens and late results included.            *)
THEOREM MountedSceneHangsTogether == Spec => [](mounted = "on" => SceneIsWhole)
<1>1. WholeInv => (mounted = "on" => SceneIsWhole)
  BY DEF WholeInv, SceneHolds, SceneIsWhole
<1>. QED
  BY <1>1, WholeAlways, PTL

(* Types: no body has a mesh that was not published, the store is at no    *)
(* revision the backend has not reached, the maps of MeshIngest name       *)
(* bodies, and no load is retried more than EMPTY_MESH_RETRIES times.      *)
THEOREM MeshTypes == Spec => []MeshTypeOK
<1>1. WholeInv => MeshTypeOK
  <2>. SUFFICES ASSUME WholeInv PROVE MeshTypeOK
    OBVIOUS
  <2>1. \A b \in Bodies : model[b].mesh \in 0 .. MaxMesh /\ model[b].color \in Colors \cup {"none"}
    BY DEF WholeInv, BackendKind, Parts, Hues
  <2>2. DOMAIN store.bodies \subseteq Bodies
    BY PartialIs DEF WholeInv, BackendKind
  <2>3. DOMAIN view.scene \subseteq Bodies /\ DOMAIN view.registry \subseteq Bodies
        /\ DOMAIN view.loadSeq \subseteq Bodies
    BY PartialIs DEF WholeInv, ViewKind, Views
  <2>4. view.pending \subseteq Bodies /\ view.failed \subseteq Bodies
        /\ \A f \in view.fetches : f.stage \in {"asked", "answered", "colors"} /\ f.attempt <= MaxRetries
    BY MeshBounds DEF WholeInv, ViewKind, Views, Fetches
  <2>. QED
    BY <2>1, <2>2, <2>3, <2>4 DEF MeshTypeOK, WholeInv, BackendKind
<1>. QED
  BY <1>1, WholeAlways, PTL

(* The account of tokens and meshes is kept, and no mesh on screen gives   *)
(* way to an older one.                                                    *)
LEMMA AgeStays ==
    ASSUME NoStaleColors, "token_reuse" \notin Rare, WholeInv, AgeInv, [Next]_vars
    PROVE  /\ AgeInv'
           /\ [\A b \in DOMAIN view.scene \cap DOMAIN view'.scene :
                  view'.scene[b].mesh >= view.scene[b].mesh]_vars
<1>1. CASE Next
  <2>1. FirstCopies(view)'
    BY <1>1 DEF Next, FreshTokens, FirstCopies
  <2>2. AgeInv' /\ NoneOlder
    BY <1>1, <2>1, StepKept DEF AgesWell
  <2>. QED
    BY <2>2 DEF NoneOlder
<1>2. CASE UNCHANGED vars
  <2>1. AgeInv'
    BY <1>2 DEF vars, AgeInv, FirstCopies, TokensApart, NotBehind, Published
  <2>. QED
    BY <1>2, <2>1
<1>. QED
  BY <1>1, <1>2

(* A resolved fetch older than the latest is discarded (the token check of *)
(* MeshIngest): no step replaces the mesh of a body on screen by an older  *)
(* one, the two circumstances apart in which a load outlives its token.    *)
THEOREM MeshNeverGoesBack ==
    ASSUME "stale_colors" \notin Rare, "token_reuse" \notin Rare
    PROVE  Spec => NeverOlder
<1>. DEFINE Newer == \A b \in DOMAIN view.scene \cap DOMAIN view'.scene :
                       view'.scene[b].mesh >= view.scene[b].mesh
<1>1. Init => WholeInv /\ AgeInv
  BY WholeInit
<1>2. WholeInv /\ AgeInv /\ [Next]_vars => (WholeInv /\ AgeInv)' /\ [Newer]_vars
  BY WholeStays, AgeStays DEF NoStaleColors
<1>. QED
  BY <1>1, <1>2, PTL DEF Spec, NeverOlder

(* -- The store ------------------------------------------------------------ *)

(* An optimistic write that the backend has not seen yet.                  *)
Owed(b, x) == \E c \in commands : c.answer = "sent" /\ c.body = b /\ c.field = x

(* The store shows the backend's document, but for such writes.            *)
Agrees ==
    /\ DOMAIN store.bodies = {b \in Bodies : model[b].there}
    /\ \A b \in DOMAIN store.bodies :
         /\ store.bodies[b].visible = model[b].visible \/ Owed(b, "visible")
         /\ store.bodies[b].color = model[b].color \/ Owed(b, "color")

(* What is still to be heard ends with the newest document.                *)
EndsNewest == channel # <<>> => channel[Len(channel)] = ProjectionEvent(model, revision)

(* A refused edit is of a body that is gone.                               *)
RefusedGone == \A c \in commands : c.answer = "refused" => ~model[c.body].there

(* An answer of the pull is the newest document, or comes after it and is  *)
(* ignored.                                                                *)
PullLate ==
    \A p \in pull.answers :
      /\ p.rev = revision => p.bodies = Projection(model)
      /\ p.rev < revision /\ channel = <<>> => p.rev < store.rev /\ Agrees

(* With nothing left to be heard, it has all been heard.                   *)
Heard == mounted = "on" /\ channel = <<>> /\ pull = NoPull => Agrees

StoreInv == EndsNewest /\ RefusedGone /\ PullLate /\ Heard

InTime == "late_result" \notin Rare /\ "late_refusal" \notin Rare

(* The projection has a row for each body that is there.                   *)
LEMMA ProjectionIs ==
    ASSUME NEW m
    PROVE  /\ DOMAIN Projection(m) = {b \in Bodies : m[b].there}
           /\ \A b \in DOMAIN Projection(m) : Projection(m)[b] = [visible |-> m[b].visible, color |-> m[b].color]
<1>1. Projection(m) = [b \in {b \in Bodies : m[b].there} |-> [visible |-> m[b].visible, color |-> m[b].color]]
  BY DEF Projection, Restrict
<1>. QED
  BY <1>1

(* What the backend emits ends with its document.                          *)
LEMMA EmitsNewest ==
    ASSUME BackendKind, NEW m \in [Bodies -> Parts], NEW events \in Seq(Changes), Emits(m, events)
    PROVE  channel' # <<>> /\ EndsNewest'
<1>. DEFINE p == ProjectionEvent(m, revision + 1)
            E == Projections \cup Changes
<1>1. channel \in Seq(E) /\ revision \in Nat
  BY DEF BackendKind
<1>2. p \in Projections
  BY <1>1, ProjectionKind
<1>3. channel' = channel \o events \o <<p>> /\ model' = m /\ revision' = revision + 1
  BY DEF Emits
<1>4. p = ProjectionEvent(model, revision)'
  BY <1>3 DEF ProjectionEvent, Projection
<1>. HIDE DEF p
<1>5. events \in Seq(E) /\ <<p>> \in Seq(E)
  BY <1>2
<1>6. channel' \in Seq(E) /\ Len(channel') = Len(channel) + Len(events) + 1 /\ channel'[Len(channel')] = p
  BY <1>1, <1>3, <1>5
<1>7. channel' # <<>>
  BY <1>1, <1>5, <1>6, LenProperties, EmptySeq
<1>. QED
  BY <1>4, <1>6, <1>7 DEF EndsNewest

(* A new document leaves nothing to say of the store but that it is to be  *)
(* heard of.                                                               *)
LEMMA EmitsStore ==
    ASSUME WholeInv, NEW m \in [Bodies -> Parts], NEW events \in Seq(Changes), Emits(m, events),
           UNCHANGED <<pull, store, mounted>>, RefusedGone'
    PROVE  StoreInv'
<1>1. channel' # <<>> /\ EndsNewest'
  BY EmitsNewest DEF WholeInv
<1>2. \A p \in pull.answers : p.rev \in Nat /\ p.rev <= revision
  BY DEF WholeInv, BackendKind, Projections
<1>3. revision' = revision + 1 /\ revision \in Nat
  BY DEF Emits, WholeInv, BackendKind
<1>4. PullLate'
  BY <1>1, <1>2, <1>3 DEF PullLate
<1>. QED
  BY <1>1, <1>4 DEF StoreInv, Heard

(* A publish, a removal and an undo of it.                                 *)
LEMMA PublishStore ==
    ASSUME WholeInv, StoreInv, InTime, NEW b \in Bodies, Publish(b) \/ Delete(b) \/ Restore(b)
    PROVE  StoreInv'
<1>1. model \in [Bodies -> Parts] /\ MaxMesh \in Nat /\ commands \subseteq Commands
  BY MeshBounds DEF WholeInv, BackendKind
<1>2. UNCHANGED <<pull, store, mounted, commands>>
  BY DEF Publish, Delete, Restore
<1>3. <<ChangeEvent({b}, {})>> \in Seq(Changes) /\ <<ChangeEvent({}, {b})>> \in Seq(Changes)
  <2>1. ChangeEvent({b}, {}) \in Changes /\ ChangeEvent({}, {b}) \in Changes
    BY DEF ChangeEvent, Changes
  <2>. QED
    BY <2>1
<1>4. \A c \in commands : c.body \in Bodies
  BY <1>1 DEF Commands
<1>5. CASE Publish(b)
  <2>. DEFINE m == [model EXCEPT ![b].mesh = @ + 1]
  <2>1. Emits(m, <<ChangeEvent({b}, {})>>) /\ model[b].mesh < MaxMesh
    BY <1>5 DEF Publish
  <2>2. m \in [Bodies -> Parts] /\ \A d \in Bodies : m[d].there = model[d].there
    BY <1>1, <2>1 DEF Parts
  <2>. HIDE DEF m
  <2>3. RefusedGone'
    BY <1>2, <1>4, <2>1, <2>2 DEF StoreInv, RefusedGone, Emits
  <2>. QED
    BY <1>2, <1>3, <2>1, <2>2, <2>3, EmitsStore
<1>6. CASE Delete(b)
  <2>. DEFINE m == [model EXCEPT ![b].there = FALSE]
  <2>1. Emits(m, <<ChangeEvent({}, {b})>>)
    BY <1>6 DEF Delete
  <2>2. m \in [Bodies -> Parts] /\ \A d \in Bodies : m[d].there => model[d].there
    BY <1>1 DEF Parts
  <2>. HIDE DEF m
  <2>3. RefusedGone'
    BY <1>2, <1>4, <2>1, <2>2 DEF StoreInv, RefusedGone, Emits
  <2>. QED
    BY <1>2, <1>3, <2>1, <2>2, <2>3, EmitsStore
<1>7. CASE Restore(b)
  <2>. DEFINE m == [model EXCEPT ![b].there = TRUE, ![b].mesh = @ + 1]
  <2>1. Emits(m, <<ChangeEvent({b}, {})>>) /\ model[b].mesh < MaxMesh
        /\ \A c \in commands : c.body = b => c.answer # "refused"
    BY <1>7 DEF Restore, InTime
  <2>2. m \in [Bodies -> Parts] /\ \A d \in Bodies : d # b => m[d].there = model[d].there
    <3>1. model[b] \in Parts /\ model[b].mesh + 1 \in 0 .. MaxMesh
      BY <1>1, <2>1 DEF Parts
    <3>2. [model[b] EXCEPT !.there = TRUE, !.mesh = @ + 1] \in Parts
      BY <3>1 DEF Parts
    <3>3. m = [model EXCEPT ![b] = [model[b] EXCEPT !.there = TRUE, !.mesh = @ + 1]]
      BY <1>1, <3>1 DEF Parts
    <3>. HIDE DEF m
    <3>. QED
      BY <1>1, <3>2, <3>3
  <2>. HIDE DEF m
  <2>3. RefusedGone'
    BY <1>2, <1>4, <2>1, <2>2 DEF StoreInv, RefusedGone, Emits
  <2>. QED
    BY <1>2, <1>3, <2>1, <2>2, <2>3, EmitsStore
<1>. QED
  BY <1>5, <1>6, <1>7

(* A tree edit owes what it wrote.                                         *)
LEMMA DispatchStore ==
    ASSUME WholeInv, StoreInv, NEW b \in Bodies, NEW field \in {"visible", "color"}, NEW value,
           (field = "visible" /\ value \in BOOLEAN) \/ (field = "color" /\ value \in Hues),
           Dispatch(b, field, value)
    PROVE  StoreInv'
<1>. DEFINE c == [body |-> b, field |-> field, value |-> value, nth |-> edits,
                  before |-> store.bodies[b][field], answer |-> "sent", rev |-> 0]
            bodies == Write(store.bodies, b, field, value)
<1>1. /\ b \in DOMAIN store.bodies /\ StoreWrite(store.rev, bodies) /\ commands' = commands \cup {c}
      /\ UNCHANGED <<model, revision, channel, pull, mounted>>
  BY DEF Dispatch
<1>2. c.answer = "sent" /\ c.body = b /\ c.field = field
  OBVIOUS
<1>3. store.bodies \in Partial(Rows)
  BY DEF WholeInv, BackendKind
<1>4. /\ DOMAIN bodies = DOMAIN store.bodies
      /\ \A d \in DOMAIN bodies :
           /\ bodies[d].visible = store.bodies[d].visible \/ (d = b /\ field = "visible")
           /\ bodies[d].color = store.bodies[d].color \/ (d = b /\ field = "color")
  <2>1. bodies = [store.bodies EXCEPT ![b][field] = value]
    BY <1>1 DEF Write
  <2>2. DOMAIN bodies = DOMAIN store.bodies /\ \A d \in DOMAIN bodies : d # b => bodies[d] = store.bodies[d]
    BY <2>1
  <2>3. store.bodies[b] \in Rows
    BY <1>1, <1>3, PartialIs
  <2>4. bodies[b] = [store.bodies[b] EXCEPT ![field] = value]
    BY <1>1, <1>3, <2>1, PartialIs
  <2>5. CASE field = "visible"
    <3>1. bodies[b].color = store.bodies[b].color
      BY <2>3, <2>4, <2>5 DEF Rows
    <3>. QED
      BY <2>2, <2>5, <3>1
  <2>6. CASE field = "color"
    <3>1. bodies[b].visible = store.bodies[b].visible
      BY <2>3, <2>4, <2>6 DEF Rows
    <3>. QED
      BY <2>2, <2>6, <3>1
  <2>. QED
    BY <2>5, <2>6
<1>. HIDE DEF c, bodies
<1>5. store'.bodies = bodies /\ store'.rev = store.rev
  BY <1>1 DEF StoreWrite
<1>6. \A d, x : Owed(d, x) => Owed(d, x)'
  BY <1>1 DEF Owed
<1>7. Owed(b, field)'
  BY <1>1, <1>2 DEF Owed
<1>8. Agrees => Agrees'
  BY <1>1, <1>4, <1>5, <1>6, <1>7 DEF Agrees
<1>9. RefusedGone'
  BY <1>1, <1>2 DEF StoreInv, RefusedGone
<1>10. Projection(model)' = Projection(model)
  BY <1>1 DEF Projection
<1>11. EndsNewest' /\ PullLate' /\ Heard'
  BY <1>1, <1>5, <1>8, <1>10 DEF StoreInv, EndsNewest, PullLate, Heard, ProjectionEvent, Projection
<1>. QED
  BY <1>9, <1>11 DEF StoreInv

(* The backend answers an edit: with a new document, or with a refusal     *)
(* for a body that is gone, of which the store owes nothing.               *)
LEMMA HandleStore ==
    ASSUME WholeInv, StoreInv, NEW c \in commands, HandleCommand(c)
    PROVE  StoreInv'
<1>1. /\ c \in Commands /\ commands \subseteq Commands /\ model \in [Bodies -> Parts]
      /\ UNCHANGED <<pull, store, mounted>>
  BY DEF HandleCommand, WholeInv, BackendKind
<1>2. c.body \in Bodies /\ \A d \in commands : d.body \in Bodies
  BY <1>1 DEF Commands
<1>3. CASE model[c.body].there
  <2>. DEFINE m == [model EXCEPT ![c.body][c.field] = c.value]
              d == [c EXCEPT !.answer = "done", !.rev = revision + 1]
  <2>1. Emits(m, <<>>) /\ commands' = (commands \ {c}) \cup {d}
    BY <1>3 DEF HandleCommand
  <2>2. m \in [Bodies -> Parts] /\ \A e \in Bodies : m[e].there = model[e].there
    <3>1. model[c.body] \in Parts
      BY <1>1, <1>2
    <3>2. CASE c.field = "visible" /\ c.value \in BOOLEAN
      BY <1>1, <1>2, <3>1, <3>2 DEF Parts
    <3>3. CASE c.field = "color" /\ c.value \in Hues
      BY <1>1, <1>2, <3>1, <3>3 DEF Parts
    <3>. QED
      BY <1>1, <3>2, <3>3 DEF Commands
  <2>3. d.answer = "done"
    BY <1>1 DEF Commands
  <2>. HIDE DEF m, d
  <2>4. RefusedGone'
    BY <1>2, <2>1, <2>2, <2>3 DEF StoreInv, RefusedGone, Emits
  <2>5. <<>> \in Seq(Changes)
    OBVIOUS
  <2>. QED
    BY <1>1, <2>1, <2>2, <2>4, <2>5, EmitsStore
<1>4. CASE ~model[c.body].there
  <2>. DEFINE d == [c EXCEPT !.answer = "refused"]
  <2>1. commands' = (commands \ {c}) \cup {d} /\ UNCHANGED <<model, revision, channel>>
    BY <1>4 DEF HandleCommand
  <2>2. d.body = c.body
    BY <1>1 DEF Commands
  <2>. HIDE DEF d
  <2>3. RefusedGone'
    BY <1>4, <2>1, <2>2 DEF StoreInv, RefusedGone
  <2>4. \A b, x : b # c.body /\ Owed(b, x) => Owed(b, x)'
    BY <2>1 DEF Owed
  <2>5. Agrees => Agrees'
    BY <1>1, <1>4, <2>1, <2>4 DEF Agrees
  <2>6. EndsNewest' /\ PullLate' /\ Heard'
    BY <1>1, <2>1, <2>5 DEF StoreInv, EndsNewest, PullLate, Heard, ProjectionEvent, Projection
  <2>. QED
    BY <2>3, <2>6 DEF StoreInv
<1>. QED
  BY <1>3, <1>4

(* A result writes at most a revision: what it takes back is of a body     *)
(* that is gone, or will be heard of again.                                *)
LEMMA ResultStore ==
    ASSUME WholeInv, StoreInv, InTime, NEW c \in commands, CommandResult(c)
    PROVE  StoreInv'
<1>1. /\ c \in Commands /\ commands' = commands \ {c} /\ c.answer # "sent"
      /\ UNCHANGED <<model, revision, channel, pull, mounted>>
  BY DEF CommandResult, WholeInv, BackendKind
<1>2. \A b, x : Owed(b, x) => Owed(b, x)'
  BY <1>1 DEF Owed
<1>3. RefusedGone'
  BY <1>1 DEF StoreInv, RefusedGone
<1>4. EndsNewest'
  BY <1>1 DEF StoreInv, EndsNewest, ProjectionEvent, Projection
<1>5. Agrees => store'.bodies = store.bodies
  <2>1. CASE c.answer = "done"
    BY <2>1 DEF CommandResult, StoreWrite
  <2>2. CASE c.answer # "done"
    <3>1. c.answer = "refused"
      BY <1>1, <2>2 DEF Commands
    <3>2. ~model[c.body].there
      BY <3>1 DEF StoreInv, RefusedGone
    <3>3. Agrees => c.body \notin DOMAIN store.bodies
      BY <3>2 DEF Agrees
    <3>4. store'.bodies = Write(store.bodies, c.body, c.field, c.before)
      BY <2>2 DEF CommandResult, StoreWrite
    <3>. QED
      BY <3>3, <3>4 DEF Write
  <2>. QED
    BY <2>1, <2>2
<1>6. Agrees => Agrees'
  BY <1>1, <1>2, <1>5 DEF Agrees
<1>7. store.rev \in Nat /\ store'.rev \in Nat /\ (pull.answers # {} => store'.rev >= store.rev)
  <2>1. store.rev \in Nat /\ c.rev \in Nat
    BY <1>1 DEF WholeInv, BackendKind, Commands
  <2>2. CASE c.answer = "done"
    <3>1. store'.rev = c.rev
      BY <2>2 DEF CommandResult, StoreWrite
    <3>2. c.rev < store.rev => pull.answers = {}
      BY <2>2 DEF CommandResult, InTime
    <3>. QED
      BY <2>1, <3>1, <3>2
  <2>3. CASE c.answer # "done"
    <3>1. store'.rev = store.rev
      BY <2>3 DEF CommandResult, StoreWrite
    <3>. QED
      BY <2>1, <3>1
  <2>. QED
    BY <2>2, <2>3
<1>8. PullLate'
  <2>. SUFFICES ASSUME NEW p \in pull.answers
                PROVE  /\ p.rev = revision => p.bodies = Projection(model)
                       /\ p.rev < revision /\ channel = <<>> => p.rev < store'.rev /\ Agrees'
    BY <1>1 DEF PullLate, Projection
  <2>1. p.rev \in Nat
    BY DEF WholeInv, BackendKind, Projections
  <2>2. /\ p.rev = revision => p.bodies = Projection(model)
        /\ p.rev < revision /\ channel = <<>> => p.rev < store.rev /\ Agrees
    BY DEF StoreInv, PullLate
  <2>. QED
    BY <1>6, <1>7, <2>1, <2>2
<1>9. Heard'
  BY <1>1, <1>6 DEF StoreInv, Heard
<1>. QED
  BY <1>3, <1>4, <1>8, <1>9 DEF StoreInv

(* The newest document in the store is what the store should show.         *)
LEMMA AppliedAgrees ==
    ASSUME WholeInv, UNCHANGED <<model, commands>>, store'.bodies = Projection(model)
    PROVE  Agrees'
<1>. DEFINE s == Projection(model)
<1>1. DOMAIN s = {b \in Bodies : model[b].there}
  BY ProjectionIs
<1>2. \A b \in DOMAIN s : s[b] = [visible |-> model[b].visible, color |-> model[b].color]
  BY ProjectionIs
<1>3. \A b \in DOMAIN s : s[b].visible = model[b].visible /\ s[b].color = model[b].color
  BY <1>2
<1>. HIDE DEF s
<1>4. store'.bodies = s /\ model' = model
  BY DEF s
<1>. QED
  BY <1>1, <1>3, <1>4 DEF Agrees

(* The last event brings the newest document.                              *)
LEMMA EventStore ==
    ASSUME WholeInv, StoreInv, DeliverEvent
    PROVE  StoreInv'
<1>. DEFINE E == Projections \cup Changes
            e == ProjectionEvent(model, revision)
<1>1. /\ channel \in Seq(E) /\ channel # <<>> /\ channel' = Tail(channel)
      /\ UNCHANGED <<model, revision, pull, commands, mounted>>
      /\ revision \in Nat /\ store.rev \in Nat /\ store.rev <= revision
  BY DEF DeliverEvent, WholeInv, BackendKind
<1>2. Len(channel) \in Nat \ {0} /\ channel[Len(channel)] = e
  BY <1>1, EmptySeq, LenProperties DEF StoreInv, EndsNewest
<1>3. RefusedGone'
  BY <1>1 DEF StoreInv, RefusedGone
<1>4. Projection(model)' = Projection(model) /\ ProjectionEvent(model, revision)' = e
  BY <1>1 DEF Projection, ProjectionEvent
<1>5. CASE Len(channel) = 1
  <2>1. channel' = <<>>
    BY <1>1, <1>5, HeadTailProperties, EmptySeq
  <2>2. Head(channel) = e
    BY <1>1, <1>2, <1>5, HeadTailProperties
  <2>3. e.type = "projection" /\ e.rev = revision /\ e.bodies = Projection(model)
    BY DEF ProjectionEvent
  <2>. HIDE DEF e
  <2>4. ApplyProjection(e)
    BY <2>2, <2>3 DEF DeliverEvent
  <2>5. StoreWrite(e.rev, e.bodies)
    BY <1>1, <2>3, <2>4 DEF ApplyProjection
  <2>6. store'.rev = revision /\ store'.bodies = Projection(model)
    BY <2>3, <2>5 DEF StoreWrite
  <2>7. Agrees'
    BY <1>1, <2>6, AppliedAgrees
  <2>8. \A p \in pull.answers : p.rev = revision => p.bodies = Projection(model)
    BY DEF StoreInv, PullLate
  <2>9. PullLate'
    BY <1>1, <1>4, <2>6, <2>7, <2>8 DEF PullLate
  <2>. QED
    BY <1>3, <2>1, <2>7, <2>9 DEF StoreInv, EndsNewest, Heard
<1>6. CASE Len(channel) # 1
  <2>1. /\ Tail(channel) \in Seq(E) /\ Len(Tail(channel)) = Len(channel) - 1
        /\ \A i \in 1 .. Len(Tail(channel)) : Tail(channel)[i] = channel[i + 1]
    BY <1>1, HeadTailProperties
  <2>2. Len(channel') \in 1 .. Len(Tail(channel)) /\ Len(channel') + 1 = Len(channel)
    BY <1>1, <1>2, <1>6, <2>1
  <2>3. channel'[Len(channel')] = e
    BY <1>1, <1>2, <2>1, <2>2
  <2>4. channel' # <<>>
    BY <2>2, EmptySeq
  <2>5. EndsNewest'
    BY <1>4, <2>3 DEF EndsNewest
  <2>6. PullLate'
    BY <1>1, <1>4, <2>4 DEF StoreInv, PullLate
  <2>. QED
    BY <1>3, <2>4, <2>5, <2>6 DEF StoreInv, Heard
<1>. QED
  BY <1>5, <1>6

(* The pull is answered with the newest document.                          *)
LEMMA AnswerStore ==
    ASSUME WholeInv, StoreInv, AnswerPull
    PROVE  StoreInv'
<1>. DEFINE e == ProjectionEvent(model, revision)
<1>1. pull' = [asked |-> FALSE, answers |-> {e}] /\ UNCHANGED <<model, revision, channel, commands, store, mounted>>
  BY DEF AnswerPull
<1>2. e.rev = revision /\ e.bodies = Projection(model) /\ revision \in Nat
  BY DEF ProjectionEvent, WholeInv, BackendKind
<1>. HIDE DEF e
<1>3. pull' # NoPull /\ pull'.answers = {e}
  <2>1. pull'.answers = {e} /\ NoPull.answers = {}
    BY <1>1 DEF NoPull
  <2>. QED
    BY <2>1
<1>4. PullLate'
  BY <1>1, <1>2, <1>3 DEF PullLate, Projection
<1>. QED
  BY <1>1, <1>3, <1>4 DEF StoreInv, EndsNewest, RefusedGone, Heard, ProjectionEvent, Projection

(* Its answer is the newest document, or is ignored, or is corrected by    *)
(* an event that is to come.                                               *)
LEMMA DeliverStore ==
    ASSUME WholeInv, StoreInv, DeliverPull
    PROVE  StoreInv'
<1>1. PICK p \in pull.answers : pull' = NoPull /\ ApplyProjection(p)
                                 /\ UNCHANGED <<model, revision, channel, commands, mounted>>
  BY DEF DeliverPull
<1>2. /\ p.rev \in Nat /\ p.rev <= revision /\ revision \in Nat /\ store.rev \in Nat /\ store.rev <= revision
      /\ p.rev = revision => p.bodies = Projection(model)
      /\ p.rev < revision /\ channel = <<>> => p.rev < store.rev /\ Agrees
  BY DEF WholeInv, BackendKind, Projections, StoreInv, PullLate
<1>3. channel = <<>> => Agrees'
  <2>. SUFFICES ASSUME channel = <<>> PROVE Agrees'
    OBVIOUS
  <2>1. CASE p.rev = revision
    <3>1. StoreWrite(p.rev, p.bodies)
      BY <1>1, <1>2, <2>1 DEF ApplyProjection
    <3>2. store'.bodies = Projection(model)
      BY <1>2, <2>1, <3>1 DEF StoreWrite
    <3>. QED
      BY <1>1, <3>2, AppliedAgrees
  <2>2. CASE p.rev # revision
    <3>1. p.rev < store.rev /\ Agrees
      BY <1>2, <2>2
    <3>2. UNCHANGED <<store, model, commands>>
      BY <1>1, <3>1 DEF ApplyProjection
    <3>. QED
      BY <3>1, <3>2 DEF Agrees, Owed
  <2>. QED
    BY <2>1, <2>2
<1>4. PullLate'
  BY <1>1 DEF PullLate, NoPull
<1>. QED
  BY <1>1, <1>3, <1>4 DEF StoreInv, EndsNewest, RefusedGone, Heard, ProjectionEvent, Projection

(* The view leaves the store alone, and its mount asks for the document.   *)
LEMMA ViewStore ==
    ASSUME WholeInv, StoreInv,
           \/ Attach \/ Detach \/ \E S \in SUBSET Bodies : ToggleIsolate(S)
           \/ \E f \in view.fetches : AnswerMesh(f) \/ FailMesh(f) \/ ResolveMesh(f) \/ ResolveFaceColors(f)
           \/ \E t \in view.timers : FireRetry(t)
    PROVE  StoreInv'
<1>1. UNCHANGED <<model, revision, channel, commands, store>>
  BY DEF Attach, Detach, ToggleIsolate, AnswerMesh, FailMesh, ResolveMesh, ResolveFaceColors, FireRetry,
         transport
<1>2. \/ pull' = pull /\ (mounted' = "on" => mounted = "on")
      \/ pull' = [asked |-> TRUE, answers |-> {}]
  BY DEF Attach, Detach, ToggleIsolate, AnswerMesh, FailMesh, ResolveMesh, ResolveFaceColors, FireRetry,
         transport
<1>3. EndsNewest' /\ RefusedGone' /\ (Agrees => Agrees')
  BY <1>1 DEF StoreInv, EndsNewest, RefusedGone, Agrees, Owed, ProjectionEvent, Projection
<1>4. CASE pull' = pull /\ (mounted' = "on" => mounted = "on")
  BY <1>1, <1>3, <1>4 DEF StoreInv, PullLate, Heard, Projection
<1>5. CASE pull' = [asked |-> TRUE, answers |-> {}]
  <2>1. pull' # NoPull
    BY <1>5 DEF NoPull
  <2>. QED
    BY <1>3, <1>5, <2>1 DEF StoreInv, PullLate, Heard
<1>. QED
  BY <1>2, <1>4, <1>5

(* Every step keeps it.                                                    *)
LEMMA StoreStays ==
    ASSUME WholeInv, StoreInv, InTime, [Next]_vars
    PROVE  StoreInv'
<1>1. CASE \E b \in Bodies : Publish(b) \/ Delete(b) \/ Restore(b)
  BY <1>1, PublishStore
<1>2. CASE \E b \in Bodies : SetBodyVisible(b) \/ SetBodyColor(b)
  BY <1>2, DispatchStore DEF SetBodyVisible, SetBodyColor, Hues
<1>3. CASE DeliverEvent \/ AnswerPull \/ DeliverPull
  BY <1>3, EventStore, AnswerStore, DeliverStore
<1>4. CASE \E c \in commands : HandleCommand(c) \/ CommandResult(c)
  BY <1>4, HandleStore, ResultStore
<1>5. CASE \/ Attach \/ Detach \/ \E S \in SUBSET Bodies : ToggleIsolate(S)
           \/ \E f \in view.fetches : AnswerMesh(f) \/ FailMesh(f) \/ ResolveMesh(f) \/ ResolveFaceColors(f)
           \/ \E t \in view.timers : FireRetry(t)
  BY <1>5, ViewStore
<1>6. CASE UNCHANGED vars
  BY <1>6 DEF vars, transport, StoreInv, EndsNewest, RefusedGone, PullLate, Heard, Agrees, Owed, ProjectionEvent,
     Projection
<1>. QED
  BY <1>1, <1>2, <1>3, <1>4, <1>5, <1>6 DEF Next, Step

(* Nothing has been said yet at the start.                                 *)
LEMMA StoreInit == Init => StoreInv
<1>. SUFFICES ASSUME Init PROVE StoreInv
  OBVIOUS
<1>1. channel = <<>> /\ pull.answers = {} /\ commands = {} /\ mounted = "new"
  BY DEF Init, NoPull
<1>. QED
  BY <1>1 DEF StoreInv, EndsNewest, RefusedGone, PullLate, Heard

(* When nothing is on its way the store is the projection.                 *)
LEMMA StoreSettled == ASSUME WholeInv, StoreInv PROVE SettledStoreIsModel
<1>. SUFFICES ASSUME Quiet, mounted = "on" PROVE store.bodies = Projection(model)
  BY DEF SettledStoreIsModel
<1>1. channel = <<>> /\ pull = NoPull /\ commands = {}
  BY DEF Quiet
<1>2. Agrees /\ \A b, x : ~Owed(b, x)
  BY <1>1 DEF StoreInv, Heard, Owed
<1>3. store.bodies \in Partial(Rows)
  BY DEF WholeInv, BackendKind
<1>4. /\ store.bodies = [b \in DOMAIN store.bodies |-> store.bodies[b]]
      /\ \A b \in DOMAIN store.bodies : store.bodies[b] \in Rows
  BY <1>3, PartialIs
<1>5. \A b \in DOMAIN store.bodies : store.bodies[b] = [visible |-> model[b].visible, color |-> model[b].color]
  BY <1>2, <1>4 DEF Agrees, Rows
<1>6. DOMAIN store.bodies = {b \in Bodies : model[b].there}
  BY <1>2 DEF Agrees
<1>. QED
  BY <1>4, <1>5, <1>6 DEF Projection, Restrict

(* When nothing is under way, the store shows the backend's document,      *)
(* after any number of optimistic edits, their reversals, and projections  *)
(* pushed and pulled in whatever order: unless a result or a refusal comes *)
(* so late that it undoes what was heard since.                            *)
THEOREM StoreSettles ==
    ASSUME "late_result" \notin Rare, "late_refusal" \notin Rare
    PROVE  Spec => []SettledStoreIsModel
<1>. DEFINE Inv == WholeInv /\ StoreInv
<1>1. Init => Inv
  BY WholeInit, StoreInit
<1>2. Inv /\ [Next]_vars => Inv'
  BY WholeStays, StoreStays DEF InTime
<1>3. Inv => SettledStoreIsModel
  BY StoreSettled
<1>. QED
  BY <1>1, <1>2, <1>3, PTL DEF Spec

-----------------------------------------------------------------------------
(* What the settled view shows.                                            *)

LoadsOf(v, b) == {f \in v.fetches : f.body = b}
Served(v, b) == \E f \in LoadsOf(v, b) : IsCurrent(v, f)
Shows(bodies, b) == b \in DOMAIN bodies /\ bodies[b].visible

(* A body's newest load was started with the colour the store has, and     *)
(* brings the model's mesh; without such a load, its mesh is on screen.    *)
Right(v, bodies, mesh, b) ==
    /\ \A f \in LoadsOf(v, b) : IsCurrent(v, f) =>
         f.color = ColorOf(bodies, b) /\ (f.stage # "asked" => f.mesh = mesh)
    /\ mesh > 0 /\ b \notin v.failed /\ ~Served(v, b) =>
         /\ b \in DOMAIN v.scene => v.scene[b].mesh = mesh /\ v.scene[b].color = ColorOf(bodies, b)
         /\ Shows(bodies, b) => b \in DOMAIN v.scene

(* A mesh of the body is on screen or about to be.                         *)
Holds(v, b) == b \in DOMAIN v.scene \/ \E f \in LoadsOf(v, b) : IsCurrent(v, f) /\ f.mesh # 0

Renews(e, b) == e.type = "changed" /\ b \in e.changed
Removes(e, b) == e.type = "changed" /\ b \in e.removed
Lacks(e, b) == e.type = "projection" /\ b \notin DOMAIN e.bodies

Coming(b) == \E i \in DOMAIN channel : Renews(channel[i], b)
LackedAfter(i, b, r) == \E k \in DOMAIN channel : k > i /\ Lacks(channel[k], b) /\ channel[k].rev >= r

(* What denies a body that is there is followed by the news of it.         *)
DeniedIsRenewed ==
    \A b \in Bodies : model[b].there =>
      \A i \in DOMAIN channel : Removes(channel[i], b) \/ Lacks(channel[i], b) =>
        \E j \in DOMAIN channel : j > i /\ Renews(channel[j], b)

(* An answer of the pull from before a body came back does not take it     *)
(* away: it is older than the store, or the store has yet to lose it.      *)
PullIsBehind ==
    \A p \in pull.answers, b \in Bodies : b \notin DOMAIN p.bodies /\ model[b].there =>
      /\ p.rev < store.rev \/ b \notin DOMAIN store.bodies \/ LackedAfter(0, b, p.rev)
      /\ \A i \in DOMAIN channel :
           channel[i].type = "projection" /\ ~Lacks(channel[i], b) /\ channel[i].rev <= p.rev =>
             LackedAfter(i, b, p.rev)

(* The store keeps no body that is gone longer than its removal is on its  *)
(* way.                                                                    *)
StoreHasHeard == channel = <<>> => \A b \in DOMAIN store.bodies : model[b].there

NewsInv == DeniedIsRenewed /\ PullIsBehind /\ StoreHasHeard

HeldIsThere ==
    mounted = "on" => \A b \in Bodies : Holds(view, b) =>
      model[b].there \/ \E i \in DOMAIN channel : Removes(channel[i], b)

Still(b) == model[b].there /\ ~Coming(b) /\ b \notin view.skipped

StillIsRight == mounted = "on" => \A b \in Bodies : Still(b) => Right(view, store.bodies, model[b].mesh, b)

SeenInv == HeldIsThere /\ StillIsRight

SettleInv == NewsInv /\ SeenInv

-----------------------------------------------------------------------------
(* What loads, drops and masks do to one body.                             *)

(* Nothing, but for what renders, and for a change that is skipped.        *)
Alike(v, w, b) ==
    /\ b \in DOMAIN w.loadSeq <=> b \in DOMAIN v.loadSeq
    /\ b \in DOMAIN v.loadSeq => w.loadSeq[b] = v.loadSeq[b]
    /\ LoadsOf(w, b) = LoadsOf(v, b)
    /\ b \in DOMAIN w.scene <=> b \in DOMAIN v.scene
    /\ b \in DOMAIN v.scene => w.scene[b].mesh = v.scene[b].mesh /\ w.scene[b].color = v.scene[b].color
    /\ b \in w.failed <=> b \in v.failed
    /\ b \in v.skipped => b \in w.skipped

(* A new load.                                                             *)
Fresh(w, bodies, b) ==
    \E f \in LoadsOf(w, b) : /\ IsCurrent(w, f) /\ f.stage = "asked" /\ f.mesh = 0
                             /\ f.color = ColorOf(bodies, b)

(* A drop.                                                                 *)
Gone(w, b) == b \notin DOMAIN w.loadSeq /\ b \notin DOMAIN w.scene

Serves(v, w, bodies, b) == Fresh(w, bodies, b) \/ Gone(w, b) \/ Alike(v, w, b)

(* What leaves a body alone leaves its loads as new as they are.           *)
LEMMA AlikeLoads ==
    ASSUME NEW v, NEW w, NEW b, Alike(v, w, b)
    PROVE  /\ \A f \in LoadsOf(w, b) : IsCurrent(w, f) <=> IsCurrent(v, f)
           /\ Served(w, b) <=> Served(v, b)
           /\ \A bodies : Fresh(w, bodies, b) <=> Fresh(v, bodies, b)
<1>1. \A f \in LoadsOf(w, b) : f.body = b
  BY DEF LoadsOf
<1>2. \A f \in LoadsOf(w, b) : IsCurrent(w, f) <=> IsCurrent(v, f)
  BY <1>1 DEF Alike, IsCurrent
<1>3. LoadsOf(w, b) = LoadsOf(v, b)
  BY DEF Alike
<1>. QED
  BY <1>2, <1>3 DEF Served, Fresh

(* Of two changes of a body the later one counts.                          *)
LEMMA ServesIsTransitive ==
    ASSUME NEW u, NEW v, NEW w, NEW bodies, NEW b, Serves(u, v, bodies, b), Serves(v, w, bodies, b)
    PROVE  Serves(u, w, bodies, b)
<1>1. CASE Fresh(w, bodies, b) \/ Gone(w, b)
  BY <1>1 DEF Serves
<1>2. CASE Alike(v, w, b)
  <2>1. CASE Fresh(v, bodies, b)
    BY <1>2, <2>1, AlikeLoads DEF Serves
  <2>2. CASE Gone(v, b)
    BY <1>2, <2>2 DEF Serves, Gone, Alike
  <2>3. CASE Alike(u, v, b)
    BY <1>2, <2>3 DEF Serves, Alike
  <2>. QED
    BY <2>1, <2>2, <2>3 DEF Serves
<1>. QED
  BY <1>1, <1>2 DEF Serves

(* A mask changes only what renders.                                       *)
LEMMA MaskServes ==
    ASSUME NEW v \in Views, NEW bodies, NEW mask, NEW S, NEW b
    PROVE  LET w == Masked(v, bodies, mask, S)
           IN Alike(v, w, b) /\ w.pending = v.pending
<1>. DEFINE w == Masked(v, bodies, mask, S)
            scene == [d \in DOMAIN v.scene |->
              IF d \in S THEN [v.scene[d] EXCEPT !.shown = EffectiveVisible(bodies, mask, d)] ELSE v.scene[d]]
<1>1. w = [v EXCEPT !.scene = scene]
  BY DEF Masked
<1>2. DOMAIN scene = DOMAIN v.scene
  OBVIOUS
<1>3. \A d \in DOMAIN v.scene : v.scene[d] \in Handles
  BY PartialIs DEF Views
<1>4. b \in DOMAIN v.scene => scene[b].mesh = v.scene[b].mesh /\ scene[b].color = v.scene[b].color
  BY <1>3 DEF Handles
<1>. HIDE DEF scene, w
<1>5. /\ w.scene = scene /\ w.loadSeq = v.loadSeq /\ w.pending = v.pending /\ w.fetches = v.fetches
      /\ w.failed = v.failed /\ w.skipped = v.skipped
  BY <1>1 DEF Views
<1>6. LoadsOf(w, b) = LoadsOf(v, b)
  BY <1>5 DEF LoadsOf
<1>. QED
  BY <1>2, <1>4, <1>5, <1>6 DEF Alike, w

(* A skip is remembered.                                                   *)
LEMMA SkipServes ==
    ASSUME NEW v \in Views, NEW S, NEW b
    PROVE  LET w == Skip(v, S)
           IN Alike(v, w, b) /\ w.pending = v.pending /\ (b \in S => b \in w.skipped)
<1>. DEFINE w == Skip(v, S)
<1>1. /\ w.scene = v.scene /\ w.loadSeq = v.loadSeq /\ w.pending = v.pending /\ w.fetches = v.fetches
      /\ w.failed = v.failed /\ w.skipped = v.skipped \cup S
  BY DEF Skip, Views
<1>. HIDE DEF w
<1>2. LoadsOf(w, b) = LoadsOf(v, b)
  BY <1>1 DEF LoadsOf
<1>. QED
  BY <1>1, <1>2 DEF Alike, w

(* A drop is of the named bodies.                                          *)
LEMMA DropServes ==
    ASSUME NEW v \in Views, NEW S, NEW b
    PROVE  LET w == DropBody(v, S)
           IN /\ b \in S => Gone(w, b)
              /\ b \notin S => Alike(v, w, b)
              /\ w.pending = v.pending \ S
<1>. DEFINE w == DropBody(v, S)
<1>1. /\ w.scene = Without(v.scene, S) /\ w.loadSeq = Without(v.loadSeq, S) /\ w.pending = v.pending \ S
      /\ w.fetches = v.fetches /\ w.failed = v.failed \ S /\ w.skipped = v.skipped \ S
  BY DEF DropBody, Views
<1>. HIDE DEF w
<1>2. DOMAIN w.scene = DOMAIN v.scene \ S /\ \A d \in DOMAIN v.scene \ S : w.scene[d] = v.scene[d]
  <2>1. /\ DOMAIN Without(v.scene, S) = DOMAIN v.scene \ S
        /\ \A d \in DOMAIN v.scene \ S : Without(v.scene, S)[d] = v.scene[d]
    BY WithoutIs
  <2>. QED
    BY <1>1, <2>1, Zenon
<1>3. DOMAIN w.loadSeq = DOMAIN v.loadSeq \ S /\ \A d \in DOMAIN v.loadSeq \ S : w.loadSeq[d] = v.loadSeq[d]
  <2>1. /\ DOMAIN Without(v.loadSeq, S) = DOMAIN v.loadSeq \ S
        /\ \A d \in DOMAIN v.loadSeq \ S : Without(v.loadSeq, S)[d] = v.loadSeq[d]
    BY WithoutIs
  <2>. QED
    BY <1>1, <2>1, Zenon
<1>4. LoadsOf(w, b) = LoadsOf(v, b)
  BY <1>1 DEF LoadsOf
<1>. QED
  BY <1>1, <1>2, <1>3, <1>4 DEF Alike, Gone, w

(* A load is new for the named bodies.                                     *)
LEMMA LoadServes ==
    ASSUME NEW v \in Views, NEW bodies, NEW S, NEW attempt, NEW b
    PROVE  LET w == LoadBody(v, bodies, S, attempt)
           IN /\ b \in S => Fresh(w, bodies, b)
              /\ b \notin S => Alike(v, w, b)
              /\ w.pending = v.pending \cup S
<1>. DEFINE token == [d \in S |-> Token(v, d) + 1]
            fetch(d) == [body |-> d, token |-> token[d], attempt |-> attempt, stage |-> "asked",
                         mesh |-> 0, color |-> ColorOf(bodies, d), live |-> TRUE,
                         copy |-> Cardinality({f \in v.fetches : f.body = d /\ f.token = token[d]})]
            new == {fetch(d) : d \in S}
            w == LoadBody(v, bodies, S, attempt)
<1>1. /\ w.scene = v.scene /\ w.loadSeq = Put(v.loadSeq, S, token) /\ w.pending = v.pending \cup S
      /\ w.fetches = v.fetches \cup new /\ w.failed = v.failed /\ w.skipped = v.skipped \ S
  BY DEF LoadBody, Views
<1>2. /\ DOMAIN w.loadSeq = DOMAIN v.loadSeq \cup S
      /\ \A d \in S : w.loadSeq[d] = token[d]
      /\ \A d \in DOMAIN v.loadSeq \ S : w.loadSeq[d] = v.loadSeq[d]
  <2>. HIDE DEF token, w
  <2>. QED
    BY <1>1 DEF Put
<1>3. b \in S => Fresh(w, bodies, b)
  <2>. SUFFICES ASSUME b \in S PROVE Fresh(w, bodies, b)
    OBVIOUS
  <2>1. fetch(b) \in new
    OBVIOUS
  <2>2. /\ fetch(b).body = b /\ fetch(b).token = token[b] /\ fetch(b).live /\ fetch(b).stage = "asked"
        /\ fetch(b).mesh = 0 /\ fetch(b).color = ColorOf(bodies, b)
    OBVIOUS
  <2>. HIDE DEF fetch, new, w, token
  <2>. QED
    BY <1>1, <1>2, <2>1, <2>2 DEF Fresh, LoadsOf, IsCurrent
<1>4. \A f \in new : f.body \in S
  <2>1. \A d \in S : fetch(d).body = d
    OBVIOUS
  <2>. HIDE DEF fetch
  <2>. QED
    BY <2>1
<1>. HIDE DEF new, w, token
<1>5. b \notin S => LoadsOf(w, b) = LoadsOf(v, b)
  BY <1>1, <1>4 DEF LoadsOf
<1>6. b \notin S => Alike(v, w, b)
  BY <1>1, <1>2, <1>5 DEF Alike
<1>. QED
  BY <1>1, <1>3, <1>6 DEF w

(* Reconciliation loads what should be on screen and is not, and drops     *)
(* only what the document has lost.                                        *)
LEMMA ReconcileServes ==
    ASSUME NEW v \in Views, IsFiniteSet(v.fetches), NEW bodies \in Partial(Rows), NEW b
    PROVE  LET w == Reconcile(v, bodies)
           IN /\ Serves(v, w, bodies, b)
              /\ b \in DOMAIN bodies => Fresh(w, bodies, b) \/ Alike(v, w, b)
              /\ Shows(bodies, b) => b \in DOMAIN w.scene \cup w.pending
<1>. DEFINE wanted == {d \in DOMAIN bodies : bodies[d].visible /\ d \notin DOMAIN v.scene \cup v.pending}
            gone   == DOMAIN v.scene \ DOMAIN bodies
            u      == LoadBody(v, bodies, wanted, 0)
            w      == DropBody(u, gone)
<1>1. wanted \in SUBSET Bodies /\ 0 \in 0 .. MaxRetries
  BY PartialIs, MeshBounds
<1>. HIDE DEF wanted, gone
<1>2. u \in Views /\ u.scene = v.scene
  BY <1>1, LoadKeeps DEF Keeps
<1>3. /\ b \in wanted => Fresh(u, bodies, b)
      /\ b \notin wanted => Alike(v, u, b)
      /\ u.pending = v.pending \cup wanted
  <2>1. b \in wanted => Fresh(u, bodies, b)
    BY <1>1, LoadServes
  <2>2. b \notin wanted => Alike(v, u, b)
    BY <1>1, LoadServes
  <2>3. u.pending = v.pending \cup wanted
    BY DEF LoadBody, Views
  <2>. QED
    BY <2>1, <2>2, <2>3
<1>. HIDE DEF u
<1>4. /\ b \in gone => Gone(w, b)
      /\ b \notin gone => Alike(u, w, b)
      /\ w.pending = u.pending \ gone
  BY <1>2, DropServes
<1>5. Reconcile(v, bodies) = w
  BY DEF Reconcile, w, u, wanted, gone
<1>. HIDE DEF w
<1>6. Serves(v, w, bodies, b)
  BY <1>3, <1>4, ServesIsTransitive DEF Serves
<1>7. b \in DOMAIN bodies => Fresh(w, bodies, b) \/ Alike(v, w, b)
  <2>. SUFFICES ASSUME b \in DOMAIN bodies PROVE Fresh(w, bodies, b) \/ Alike(v, w, b)
    OBVIOUS
  <2>1. Alike(u, w, b)
    BY <1>4 DEF gone
  <2>2. CASE b \in wanted
    BY <1>3, <2>1, <2>2, AlikeLoads
  <2>3. CASE b \notin wanted
    BY <1>3, <2>1, <2>3 DEF Alike
  <2>. QED
    BY <2>2, <2>3
<1>8. Shows(bodies, b) => b \in DOMAIN w.scene \cup w.pending
  <2>. SUFFICES ASSUME Shows(bodies, b) PROVE b \in DOMAIN w.scene \cup w.pending
    OBVIOUS
  <2>1. b \notin gone /\ (b \in wanted \/ b \in DOMAIN v.scene \/ b \in v.pending)
    BY DEF Shows, gone, wanted
  <2>. QED
    BY <1>2, <1>3, <1>4, <2>1 DEF Alike
<1>. QED
  BY <1>5, <1>6, <1>7, <1>8

(* A write of the store leaves each body with a new load, dropped, or as   *)
(* it was; with another colour it is loaded, or is skipped.                *)
LEMMA WriteServes ==
    ASSUME NEW v \in Views, IsFiniteSet(v.fetches), isolated \subseteq Bodies,
           NEW old \in Partial(Rows), NEW new \in Partial(Rows), NEW b
    PROVE  LET w == Reconcile(OnColorChanged(OnVisibilityChanged(v, old, new), old, new), new)
           IN /\ Serves(v, w, new, b)
              /\ b \in DOMAIN new => Fresh(w, new, b) \/ Alike(v, w, b)
              /\ b \in DOMAIN new /\ ColorOf(old, b) # ColorOf(new, b) => Fresh(w, new, b) \/ b \in w.skipped
              /\ Shows(new, b) => b \in DOMAIN w.scene \cup w.pending
<1>. DEFINE flipped == {d \in DOMAIN new : d \in DOMAIN old => old[d].visible # new[d].visible}
            t == Masked(v, new, isolated, flipped)
            revealed == {d \in flipped \ DOMAIN v.scene : new[d].visible}
            u == LoadBody(t, new, revealed, 0)
            recolored == {d \in DOMAIN new : ColorOf(old, d) # new[d].color}
            wanted == {d \in recolored : d \in DOMAIN u.scene \/ new[d].visible}
            x == Skip(u, recolored \ wanted)
            y == LoadBody(x, new, wanted, 0)
            w == Reconcile(y, new)
<1>1. DOMAIN new \subseteq Bodies /\ 0 \in 0 .. MaxRetries
  BY PartialIs, MeshBounds
<1>2. /\ flipped \in SUBSET Bodies /\ revealed \in SUBSET Bodies /\ recolored \ wanted \in SUBSET Bodies
      /\ wanted \in SUBSET Bodies /\ wanted \subseteq recolored
  BY <1>1
<1>3. t \in Views /\ IsFiniteSet(t.fetches) /\ Alike(v, t, b)
  <2>. HIDE DEF flipped
  <2>. QED
    BY MaskKeeps, MaskServes DEF Keeps
<1>4. /\ u \in Views /\ IsFiniteSet(u.fetches)
      /\ Fresh(u, new, b) \/ Alike(t, u, b)
  <2>. HIDE DEF t, revealed
  <2>. QED
    BY <1>1, <1>2, <1>3, LoadKeeps, LoadServes DEF Keeps
<1>5. /\ x \in Views /\ IsFiniteSet(x.fetches)
      /\ Alike(u, x, b) /\ (b \in recolored \ wanted => b \in x.skipped)
  <2>. HIDE DEF u, recolored, wanted
  <2>. QED
    BY <1>2, <1>4, SkipKeeps, SkipServes DEF Keeps
<1>6. /\ y \in Views /\ IsFiniteSet(y.fetches)
      /\ b \in wanted => Fresh(y, new, b)
      /\ b \notin wanted => Alike(x, y, b)
  <2>. HIDE DEF x, wanted
  <2>. QED
    BY <1>1, <1>2, <1>5, LoadKeeps, LoadServes DEF Keeps
<1>7. /\ Serves(y, w, new, b)
      /\ b \in DOMAIN new => Fresh(w, new, b) \/ Alike(y, w, b)
      /\ Shows(new, b) => b \in DOMAIN w.scene \cup w.pending
  <2>. HIDE DEF y
  <2>. QED
    BY <1>6, ReconcileServes
<1>8. b \in DOMAIN new /\ ColorOf(old, b) # ColorOf(new, b) => b \in recolored
  BY DEF ColorOf
<1>9. Reconcile(OnColorChanged(OnVisibilityChanged(v, old, new), old, new), new) = w
  BY DEF OnColorChanged, OnVisibilityChanged
<1>. HIDE DEF flipped, t, revealed, u, recolored, wanted, x, y, w
<1>10. Fresh(y, new, b) \/ Alike(v, y, b)
  <2>1. Fresh(u, new, b) \/ Alike(v, u, b)
    BY <1>3, <1>4 DEF Alike
  <2>2. Fresh(x, new, b) \/ Alike(v, x, b)
    <3>1. CASE Fresh(u, new, b)
      BY <1>5, <3>1, AlikeLoads
    <3>2. CASE Alike(v, u, b)
      BY <1>5, <3>2 DEF Alike
    <3>. QED
      BY <2>1, <3>1, <3>2
  <2>3. CASE b \in wanted
    BY <1>6, <2>3
  <2>4. CASE b \notin wanted
    <3>1. Alike(x, y, b)
      BY <1>6, <2>4
    <3>2. CASE Fresh(x, new, b)
      BY <3>1, <3>2, AlikeLoads
    <3>3. CASE Alike(v, x, b)
      BY <3>1, <3>3 DEF Alike
    <3>. QED
      BY <2>2, <3>2, <3>3
  <2>. QED
    BY <2>3, <2>4
<1>11. Serves(v, w, new, b)
  BY <1>7, <1>10, ServesIsTransitive DEF Serves
<1>12. b \in DOMAIN new => Fresh(w, new, b) \/ Alike(v, w, b)
  <2>. SUFFICES ASSUME b \in DOMAIN new PROVE Fresh(w, new, b) \/ Alike(v, w, b)
    OBVIOUS
  <2>1. CASE Alike(y, w, b) /\ Fresh(y, new, b)
    BY <2>1, AlikeLoads
  <2>2. CASE Alike(y, w, b) /\ Alike(v, y, b)
    BY <2>2 DEF Alike
  <2>. QED
    BY <1>7, <1>10, <2>1, <2>2
<1>13. b \in DOMAIN new /\ ColorOf(old, b) # ColorOf(new, b) => Fresh(w, new, b) \/ b \in w.skipped
  <2>. SUFFICES ASSUME b \in DOMAIN new, ColorOf(old, b) # ColorOf(new, b), ~Fresh(w, new, b)
                PROVE  b \in w.skipped
    OBVIOUS
  <2>1. Alike(y, w, b)
    BY <1>7
  <2>2. ~Fresh(y, new, b)
    BY <2>1, AlikeLoads
  <2>3. b \in recolored \ wanted /\ Alike(x, y, b)
    BY <1>6, <1>8, <2>2
  <2>. QED
    BY <1>5, <2>1, <2>3 DEF Alike
<1>. QED
  BY <1>7, <1>9, <1>11, <1>12, <1>13

(* The newest load of a body with a new load is the new one.               *)
LEMMA FreshIsNewest ==
    ASSUME NEW w, TokensApart(w), NEW bodies, NEW b, Fresh(w, bodies, b)
    PROVE  Served(w, b) /\ \A f \in LoadsOf(w, b) : IsCurrent(w, f) =>
             f.stage = "asked" /\ f.mesh = 0 /\ f.color = ColorOf(bodies, b)
<1>1. PICK g \in LoadsOf(w, b) : IsCurrent(w, g) /\ g.stage = "asked" /\ g.mesh = 0 /\ g.color = ColorOf(bodies, b)
  BY DEF Fresh
<1>2. ASSUME NEW f \in LoadsOf(w, b), IsCurrent(w, f)
      PROVE  f = g
  <2>1. f \in w.fetches /\ g \in w.fetches /\ f.body = b /\ g.body = b
    BY DEF LoadsOf
  <2>2. f.live /\ g.live /\ f.token = g.token
    BY <1>1, <1>2, <2>1 DEF IsCurrent
  <2>. QED
    BY <2>1, <2>2 DEF TokensApart
<1>. QED
  BY <1>1, <1>2 DEF Served

(* A body with a new load is on its way to be right.                       *)
LEMMA FreshRight ==
    ASSUME NEW w, TokensApart(w), NEW bodies, NEW b, NEW mesh, Fresh(w, bodies, b)
    PROVE  Right(w, bodies, mesh, b)
  BY FreshIsNewest DEF Right

(* A dropped body is right if the document does not show it.               *)
LEMMA GoneRight ==
    ASSUME NEW w, NEW bodies, NEW b, NEW mesh, Gone(w, b), ~Shows(bodies, b)
    PROVE  Right(w, bodies, mesh, b)
<1>1. \A f \in LoadsOf(w, b) : ~IsCurrent(w, f)
  BY DEF Gone, LoadsOf, IsCurrent
<1>. QED
  BY <1>1 DEF Right, Gone

(* A body that was left alone is as right as before.                       *)
LEMMA AlikeRight ==
    ASSUME NEW v, NEW w, NEW old, NEW new, NEW b, NEW mesh, Alike(v, w, b), Right(v, old, mesh, b),
           ColorOf(old, b) = ColorOf(new, b),
           Shows(new, b) => Shows(old, b) \/ b \in DOMAIN w.scene \/ Served(w, b)
    PROVE  Right(w, new, mesh, b)
<1>1. /\ \A f \in LoadsOf(w, b) : IsCurrent(w, f) <=> IsCurrent(v, f)
      /\ Served(w, b) <=> Served(v, b)
  BY AlikeLoads
<1>. QED
  BY <1>1 DEF Right, Alike

(* Nothing gets on screen but by a load that brought a mesh.               *)
LEMMA ServesHolds ==
    ASSUME NEW v, NEW w, TokensApart(w), DOMAIN w.scene \subseteq DOMAIN v.scene,
           NEW bodies, NEW b, Serves(v, w, bodies, b), Holds(w, b)
    PROVE  Holds(v, b)
<1>1. CASE Fresh(w, bodies, b)
  BY <1>1, FreshIsNewest DEF Holds
<1>2. CASE Gone(w, b)
  BY <1>2 DEF Holds, Gone, LoadsOf, IsCurrent
<1>3. CASE Alike(v, w, b)
  <2>1. \A f \in LoadsOf(w, b) : IsCurrent(w, f) <=> IsCurrent(v, f)
    BY <1>3, AlikeLoads
  <2>. QED
    BY <1>3, <2>1 DEF Holds, Alike
<1>. QED
  BY <1>1, <1>2, <1>3 DEF Serves

-----------------------------------------------------------------------------
(* What is still to be heard.                                              *)

(* The backend says what it does: a body that comes back is news, one that *)
(* it removes is gone.                                                     *)
LEMMA NewsGrows ==
    ASSUME WholeInv, StoreInv, NewsInv, NEW m \in [Bodies -> Parts], NEW events \in Seq(Changes),
           Emits(m, events), UNCHANGED <<pull, store>>,
           \A b \in Bodies, i \in DOMAIN events : b \in events[i].removed => ~m[b].there,
           \A b \in Bodies : m[b].there /\ ~model[b].there => \E i \in DOMAIN events : b \in events[i].changed
    PROVE  NewsInv'
<1>. DEFINE p == ProjectionEvent(m, revision + 1)
            q == ProjectionEvent(model, revision)
            E == Projections \cup Changes
            N == Len(channel)
            K == Len(events)
<1>1. revision \in Nat /\ channel \in Seq(E) /\ model \in [Bodies -> Parts]
  BY DEF WholeInv, BackendKind
<1>2. p \in Projections /\ q \in Projections
  BY <1>1, ProjectionKind
<1>3. /\ p.type = "projection" /\ p.rev = revision + 1 /\ \A b \in Bodies : Lacks(p, b) => ~m[b].there
      /\ q.type = "projection" /\ q.rev = revision /\ \A b \in Bodies : ~model[b].there => Lacks(q, b)
  BY ProjectionIs DEF ProjectionEvent, Lacks
<1>4. channel' = channel \o events \o <<p>> /\ model' = m
  BY DEF Emits
<1>5. channel # <<>> => channel[N] = q
  BY DEF StoreInv, EndsNewest
<1>. HIDE DEF p, q
<1>6. events \in Seq(E) /\ <<p>> \in Seq(E)
  BY <1>2
<1>7. /\ N \in Nat /\ K \in Nat /\ DOMAIN channel = 1 .. N /\ DOMAIN events = 1 .. K
      /\ DOMAIN channel' = 1 .. N + K + 1
      /\ \A i \in 1 .. N + K + 1 :
           channel'[i] = IF i <= N THEN channel[i] ELSE IF i <= N + K THEN events[i - N] ELSE p
  BY <1>1, <1>4, <1>6
<1>8. \A i \in 1 .. K : events[i] \in Changes
  BY <1>7, ElementOfSeq
<1>. HIDE DEF N, K
<1>9. \A i \in 1 .. N : i \in DOMAIN channel' /\ channel'[i] = channel[i]
  BY <1>7
<1>10. ASSUME NEW k \in 1 .. K
       PROVE  N + k \in DOMAIN channel' /\ channel'[N + k] = events[k]
  <2>1. N + k \in 1 .. N + K + 1 /\ ~(N + k <= N) /\ N + k <= N + K /\ (N + k) - N = k
    BY <1>7
  <2>. QED
    BY <1>7, <2>1
<1>11. ASSUME NEW i \in DOMAIN channel', i \notin 1 .. N
       PROVE  \/ \E k \in 1 .. K : i = N + k /\ channel'[i] = events[k]
              \/ channel'[i] = p
  <2>1. CASE i <= N + K
    <3>1. i - N \in 1 .. K /\ i = N + (i - N) /\ ~(i <= N)
      BY <1>7, <1>11, <2>1
    <3>. QED
      BY <1>7, <2>1, <3>1
  <2>2. CASE ~(i <= N + K)
    BY <1>7, <1>11, <2>2
  <2>. QED
    BY <2>1, <2>2
<1>12. DeniedIsRenewed'
  <2>. SUFFICES ASSUME NEW b \in Bodies, m[b].there, NEW i \in DOMAIN channel',
                       Removes(channel'[i], b) \/ Lacks(channel'[i], b)
                PROVE  \E j \in DOMAIN channel' : j > i /\ Renews(channel'[j], b)
    BY <1>4 DEF DeniedIsRenewed
  <2>1. CASE i \in 1 .. N /\ model[b].there
    <3>1. PICK j \in 1 .. N : j > i /\ Renews(channel[j], b)
      BY <1>7, <1>9, <2>1 DEF NewsInv, DeniedIsRenewed
    <3>. QED
      BY <1>9, <3>1
  <2>2. CASE i \in 1 .. N /\ ~model[b].there
    <3>1. PICK k \in 1 .. K : b \in events[k].changed
      BY <1>7, <2>2
    <3>2. Renews(channel'[N + k], b)
      BY <1>8, <1>10, <3>1 DEF Renews, Changes
    <3>3. N + k > i
      BY <1>7, <2>2
    <3>. QED
      BY <1>10, <3>2, <3>3
  <2>3. CASE i \notin 1 .. N
    <3>1. ASSUME NEW k \in 1 .. K, channel'[i] = events[k]
          PROVE  FALSE
      <4>1. b \in events[k].removed
        BY <1>8, <3>1 DEF Removes, Lacks, Changes
      <4>. QED
        BY <1>7, <4>1
    <3>2. channel'[i] = p => FALSE
      BY <1>3 DEF Removes
    <3>. QED
      BY <1>11, <2>3, <3>1, <3>2
  <2>. QED
    BY <2>1, <2>2, <2>3
<1>13. ASSUME NEW a \in pull.answers, NEW b \in Bodies, b \notin DOMAIN a.bodies, m[b].there
       PROVE  /\ a.rev < store.rev \/ b \notin DOMAIN store.bodies \/ LackedAfter(0, b, a.rev)'
              /\ \A i \in DOMAIN channel' :
                   channel'[i].type = "projection" /\ ~Lacks(channel'[i], b) /\ channel'[i].rev <= a.rev =>
                     LackedAfter(i, b, a.rev)'
  <2>1. a.rev \in Nat /\ a.rev <= revision
    BY DEF WholeInv, BackendKind, Projections
  <2>2. ASSUME NEW i \in DOMAIN channel', i \notin 1 .. N, channel'[i].type = "projection"
        PROVE  ~(channel'[i].rev <= a.rev)
    <3>1. \A k \in 1 .. K : channel'[i] # events[k]
      BY <1>8, <2>2 DEF Changes
    <3>2. channel'[i] = p
      BY <1>11, <2>2, <3>1
    <3>. QED
      BY <1>1, <1>3, <2>1, <3>2
  <2>3. \A i : LackedAfter(i, b, a.rev) => LackedAfter(i, b, a.rev)'
    BY <1>7, <1>9 DEF LackedAfter
  <2>4. CASE model[b].there
    <3>1. /\ a.rev < store.rev \/ b \notin DOMAIN store.bodies \/ LackedAfter(0, b, a.rev)
          /\ \A i \in 1 .. N :
               channel[i].type = "projection" /\ ~Lacks(channel[i], b) /\ channel[i].rev <= a.rev =>
                 LackedAfter(i, b, a.rev)
      BY <1>7, <1>13, <2>4 DEF NewsInv, PullIsBehind
    <3>2. \A i \in 1 .. N :
            channel'[i].type = "projection" /\ ~Lacks(channel'[i], b) /\ channel'[i].rev <= a.rev =>
              LackedAfter(i, b, a.rev)'
      BY <1>9, <2>3, <3>1
    <3>. QED
      BY <2>2, <2>3, <3>1, <3>2
  <2>5. CASE ~model[b].there /\ channel = <<>>
    <3>1. b \notin DOMAIN store.bodies
      BY <2>5 DEF NewsInv, StoreHasHeard
    <3>2. 1 .. N = {}
      BY <1>7, <2>5, EmptySeq DEF N
    <3>. QED
      BY <2>2, <3>1, <3>2
  <2>6. CASE ~model[b].there /\ channel # <<>>
    <3>1. N \in 1 .. N
      BY <1>1, <1>7, <2>6, EmptySeq DEF N
    <3>2. channel'[N] = q
      BY <1>5, <1>9, <2>6, <3>1
    <3>3. Lacks(channel'[N], b) /\ channel'[N].rev >= a.rev
      BY <1>1, <1>3, <2>1, <2>6, <3>2
    <3>4. \A i \in 0 .. N : i # N => LackedAfter(i, b, a.rev)'
      BY <1>7, <1>9, <3>1, <3>3 DEF LackedAfter
    <3>5. LackedAfter(0, b, a.rev)'
      BY <1>7, <3>1, <3>4
    <3>6. \A i \in 1 .. N : ~Lacks(channel'[i], b) => LackedAfter(i, b, a.rev)'
      BY <1>7, <3>3, <3>4
    <3>. QED
      BY <2>2, <3>5, <3>6
  <2>. QED
    BY <2>4, <2>5, <2>6
<1>14. PullIsBehind'
  BY <1>4, <1>13 DEF PullIsBehind
<1>15. channel' # <<>>
  BY EmitsNewest DEF WholeInv
<1>. QED
  BY <1>12, <1>14, <1>15 DEF NewsInv, StoreHasHeard

(* Without a new document or an event, the store is no older than before   *)
(* and has the same bodies, or nobody waits for the pull.                  *)
LEMMA NewsStays ==
    ASSUME WholeInv, NewsInv, UNCHANGED channel, \A b \in Bodies : model'[b].there = model[b].there,
           DOMAIN store'.bodies = DOMAIN store.bodies,
           \A p \in pull'.answers :
             \/ p \in pull.answers /\ store'.rev >= store.rev
             \/ \A b \in Bodies : b \notin DOMAIN p.bodies => ~model[b].there,
           store'.rev \in Nat
    PROVE  NewsInv'
<1>1. store.rev \in Nat /\ \A p \in pull.answers : p.rev \in Nat
  BY DEF WholeInv, BackendKind, Projections
<1>2. \A i, b, r : LackedAfter(i, b, r)' <=> LackedAfter(i, b, r)
  BY DEF LackedAfter
<1>3. DeniedIsRenewed'
  BY DEF NewsInv, DeniedIsRenewed
<1>4. PullIsBehind'
  <2>. SUFFICES ASSUME NEW p \in pull'.answers, NEW b \in Bodies, b \notin DOMAIN p.bodies, model[b].there
                PROVE  /\ p.rev < store'.rev \/ b \notin DOMAIN store.bodies \/ LackedAfter(0, b, p.rev)
                       /\ \A i \in DOMAIN channel :
                            channel[i].type = "projection" /\ ~Lacks(channel[i], b) /\ channel[i].rev <= p.rev =>
                              LackedAfter(i, b, p.rev)
    BY <1>2 DEF PullIsBehind
  <2>1. p \in pull.answers /\ store'.rev >= store.rev
    OBVIOUS
  <2>2. /\ p.rev < store.rev \/ b \notin DOMAIN store.bodies \/ LackedAfter(0, b, p.rev)
        /\ \A i \in DOMAIN channel :
             channel[i].type = "projection" /\ ~Lacks(channel[i], b) /\ channel[i].rev <= p.rev =>
               LackedAfter(i, b, p.rev)
    BY <2>1 DEF NewsInv, PullIsBehind
  <2>3. p.rev < store.rev => p.rev < store'.rev
    BY <1>1, <2>1
  <2>. QED
    BY <2>2, <2>3
<1>5. StoreHasHeard'
  <2>1. DOMAIN store.bodies \subseteq Bodies
    BY PartialIs DEF WholeInv, BackendKind
  <2>. QED
    BY <2>1 DEF NewsInv, StoreHasHeard
<1>. QED
  BY <1>3, <1>4, <1>5 DEF NewsInv

(* The last event is the newest document, which the store takes.           *)
LEMMA LastEvent ==
    ASSUME WholeInv, StoreInv, DeliverEvent, Len(channel) = 1
    PROVE  store'.bodies = Projection(model)
<1>. DEFINE e == ProjectionEvent(model, revision)
<1>1. channel \in Seq(Projections \cup Changes) /\ channel # <<>> /\ store.rev \in Nat
      /\ store.rev <= revision /\ revision \in Nat
  BY DEF DeliverEvent, WholeInv, BackendKind
<1>2. Head(channel) = e
  BY <1>1, HeadTailProperties DEF StoreInv, EndsNewest
<1>3. e.type = "projection" /\ e.rev = revision /\ e.bodies = Projection(model)
  BY DEF ProjectionEvent
<1>. HIDE DEF e
<1>4. ApplyProjection(e)
  BY <1>2, <1>3 DEF DeliverEvent
<1>5. StoreWrite(e.rev, e.bodies)
  BY <1>1, <1>3, <1>4 DEF ApplyProjection
<1>. QED
  BY <1>3, <1>5 DEF StoreWrite

(* An event that is heard brings the store past an older answer of the     *)
(* pull, or is no news of its bodies.                                      *)
LEMMA NewsHeard ==
    ASSUME WholeInv, StoreInv, NewsInv, DeliverEvent
    PROVE  NewsInv'
<1>. DEFINE E == Projections \cup Changes
            e == Head(channel)
            N == Len(channel)
<1>1. /\ channel \in Seq(E) /\ channel # <<>> /\ channel' = Tail(channel) /\ UNCHANGED <<model, pull>>
      /\ IF e.type = "changed" THEN OnDocumentChanged(e) ELSE ApplyProjection(e)
  BY DEF DeliverEvent, WholeInv, BackendKind
<1>2. N \in Nat \ {0} /\ DOMAIN channel = 1 .. N /\ e = channel[1] /\ e \in E
  BY <1>1, EmptySeq, LenProperties, HeadTailProperties, ElementOfSeq
<1>3. DOMAIN channel' = 1 .. N - 1 /\ \A i \in 1 .. N - 1 : channel'[i] = channel[i + 1]
  BY <1>1, <1>2, HeadTailProperties, LenProperties
<1>. HIDE DEF e, N
<1>4. \A j \in 2 .. N : j - 1 \in DOMAIN channel' /\ channel'[j - 1] = channel[j]
  <2>. SUFFICES ASSUME NEW j \in 2 .. N PROVE j - 1 \in DOMAIN channel' /\ channel'[j - 1] = channel[j]
    OBVIOUS
  <2>1. j - 1 \in 1 .. N - 1 /\ (j - 1) + 1 = j
    BY <1>2
  <2>. QED
    BY <1>3, <2>1
<1>5. ASSUME NEW i \in Nat, NEW b, NEW r, LackedAfter(i + 1, b, r)
      PROVE  LackedAfter(i, b, r)'
  <2>1. PICK k \in 1 .. N : k > i + 1 /\ Lacks(channel[k], b) /\ channel[k].rev >= r
    BY <1>2, <1>5 DEF LackedAfter
  <2>2. k \in 2 .. N /\ k - 1 > i
    BY <1>2, <2>1
  <2>. QED
    BY <1>4, <2>1, <2>2 DEF LackedAfter
<1>6. DeniedIsRenewed'
  <2>. SUFFICES ASSUME NEW b \in Bodies, model[b].there, NEW i \in 1 .. N - 1,
                       Removes(channel[i + 1], b) \/ Lacks(channel[i + 1], b)
                PROVE  \E j \in DOMAIN channel' : j > i /\ Renews(channel'[j], b)
    BY <1>1, <1>3 DEF DeniedIsRenewed
  <2>1. i + 1 \in 1 .. N
    BY <1>2
  <2>2. PICK j \in 1 .. N : j > i + 1 /\ Renews(channel[j], b)
    BY <1>2, <2>1 DEF NewsInv, DeniedIsRenewed
  <2>3. j \in 2 .. N /\ j - 1 > i
    BY <1>2, <2>2
  <2>. QED
    BY <1>4, <2>2, <2>3
<1>7. ASSUME NEW p \in pull.answers, NEW b \in Bodies, b \notin DOMAIN p.bodies, model[b].there
      PROVE  p.rev < store'.rev \/ b \notin DOMAIN store'.bodies \/ LackedAfter(0, b, p.rev)'
  <2>1. /\ p.rev < store.rev \/ b \notin DOMAIN store.bodies \/ LackedAfter(0, b, p.rev)
        /\ e.type = "projection" /\ ~Lacks(e, b) /\ e.rev <= p.rev => LackedAfter(1, b, p.rev)
    BY <1>2, <1>7 DEF NewsInv, PullIsBehind
  <2>2. p.rev \in Nat /\ store.rev \in Nat
    BY DEF WholeInv, BackendKind, Projections
  <2>3. LackedAfter(1, b, p.rev) => LackedAfter(0, b, p.rev)'
    BY <1>5
  <2>4. LackedAfter(0, b, p.rev) => LackedAfter(1, b, p.rev) \/ (Lacks(e, b) /\ e.rev >= p.rev)
    BY <1>2 DEF LackedAfter
  <2>5. CASE e.type = "changed"
    <3>1. store' = store /\ ~Lacks(e, b)
      BY <1>1, <2>5 DEF OnDocumentChanged, Lacks
    <3>. QED
      BY <2>1, <2>3, <2>4, <3>1
  <2>6. CASE e.type # "changed"
    <3>1. ApplyProjection(e) /\ e \in Projections /\ e.type = "projection" /\ e.rev \in Nat
      BY <1>1, <1>2, <2>6 DEF Projections, Changes
    <3>2. CASE e.rev < store.rev
      <4>1. store' = store
        BY <3>1, <3>2 DEF ApplyProjection
      <4>2. Lacks(e, b) /\ e.rev >= p.rev => p.rev < store.rev
        BY <2>2, <3>1, <3>2
      <4>. QED
        BY <2>1, <2>3, <2>4, <4>1, <4>2
    <3>3. CASE ~(e.rev < store.rev)
      <4>1. store'.rev = e.rev /\ store'.bodies = e.bodies
        BY <3>1, <3>3 DEF ApplyProjection, StoreWrite
      <4>2. e.rev <= p.rev \/ p.rev < e.rev
        BY <2>2, <3>1
      <4>. QED
        BY <2>1, <2>3, <3>1, <4>1, <4>2 DEF Lacks
    <3>. QED
      BY <3>2, <3>3
  <2>. QED
    BY <2>5, <2>6
<1>8. ASSUME NEW p \in pull.answers, NEW b \in Bodies, b \notin DOMAIN p.bodies, model[b].there,
             NEW i \in 1 .. N - 1,
             channel[i + 1].type = "projection", ~Lacks(channel[i + 1], b), channel[i + 1].rev <= p.rev
      PROVE  LackedAfter(i, b, p.rev)'
  <2>1. i + 1 \in DOMAIN channel /\ i \in Nat
    BY <1>2
  <2>2. LackedAfter(i + 1, b, p.rev)
    BY <1>8, <2>1 DEF NewsInv, PullIsBehind
  <2>. QED
    BY <1>5, <2>1, <2>2
<1>9. PullIsBehind'
  <2>1. \A i \in DOMAIN channel' : i \in 1 .. N - 1 /\ channel'[i] = channel[i + 1]
    BY <1>3
  <2>. QED
    BY <1>1, <1>7, <1>8, <2>1 DEF PullIsBehind
<1>10. StoreHasHeard'
  <2>. SUFFICES ASSUME channel' = <<>> PROVE \A b \in DOMAIN store'.bodies : model[b].there
    BY <1>1 DEF StoreHasHeard
  <2>1. N = 1
    <3>1. Len(channel') = 0 /\ channel' \in Seq(E) /\ Len(channel') = N - 1
      BY <1>1, EmptySeq, HeadTailProperties DEF N
    <3>. QED
      BY <1>2, <3>1
  <2>. QED
    BY <2>1, LastEvent, ProjectionIs DEF N
<1>. QED
  BY <1>6, <1>9, <1>10 DEF NewsInv

(* The answer of the pull is heard once.                                   *)
LEMMA NewsPulled ==
    ASSUME WholeInv, StoreInv, NewsInv, DeliverPull
    PROVE  NewsInv'
<1>1. PICK p \in pull.answers : pull' = NoPull /\ ApplyProjection(p) /\ UNCHANGED <<model, channel>>
  BY DEF DeliverPull
<1>2. DeniedIsRenewed' /\ PullIsBehind'
  BY <1>1 DEF NewsInv, DeniedIsRenewed, PullIsBehind, NoPull
<1>3. /\ p.rev \in Nat /\ revision \in Nat /\ store.rev \in Nat /\ store.rev <= revision
      /\ p.rev = revision => p.bodies = Projection(model)
      /\ p.rev < revision /\ channel = <<>> => p.rev < store.rev
      /\ p.rev <= revision
  BY DEF WholeInv, BackendKind, Projections, StoreInv, PullLate
<1>4. StoreHasHeard'
  <2>. SUFFICES ASSUME channel = <<>> PROVE \A b \in DOMAIN store'.bodies : model[b].there
    BY <1>1 DEF StoreHasHeard
  <2>1. CASE p.rev = revision
    <3>1. StoreWrite(p.rev, p.bodies)
      BY <1>1, <1>3, <2>1 DEF ApplyProjection
    <3>2. store'.bodies = Projection(model)
      BY <1>3, <2>1, <3>1 DEF StoreWrite
    <3>. QED
      BY <3>2, ProjectionIs
  <2>2. CASE p.rev # revision
    <3>1. p.rev < store.rev
      BY <1>3, <2>2
    <3>2. store' = store
      BY <1>1, <3>1 DEF ApplyProjection
    <3>. QED
      BY <3>2 DEF NewsInv, StoreHasHeard
  <2>. QED
    BY <2>1, <2>2
<1>. QED
  BY <1>2, <1>4 DEF NewsInv

-----------------------------------------------------------------------------
(* What is on screen: the backend and the store.                           *)

(* What is emitted is on its way, behind what was.                         *)
LEMMA EmitsNews ==
    ASSUME WholeInv, NEW m \in [Bodies -> Parts], NEW events \in Seq(Changes), Emits(m, events)
    PROVE  /\ \A i \in DOMAIN channel : i \in DOMAIN channel' /\ channel'[i] = channel[i]
           /\ \A k \in DOMAIN events : \E j \in DOMAIN channel' : channel'[j] = events[k]
<1>. DEFINE p == ProjectionEvent(m, revision + 1)
            E == Projections \cup Changes
            N == Len(channel)
            K == Len(events)
<1>1. revision \in Nat /\ channel \in Seq(E)
  BY DEF WholeInv, BackendKind
<1>2. p \in Projections
  BY <1>1, ProjectionKind
<1>3. channel' = channel \o events \o <<p>>
  BY DEF Emits
<1>. HIDE DEF p
<1>4. events \in Seq(E) /\ <<p>> \in Seq(E)
  BY <1>2
<1>5. /\ N \in Nat /\ K \in Nat /\ DOMAIN channel = 1 .. N /\ DOMAIN events = 1 .. K
      /\ DOMAIN channel' = 1 .. N + K + 1
      /\ \A i \in 1 .. N + K + 1 :
           channel'[i] = IF i <= N THEN channel[i] ELSE IF i <= N + K THEN events[i - N] ELSE p
  BY <1>1, <1>3, <1>4
<1>. HIDE DEF N, K
<1>6. ASSUME NEW k \in 1 .. K
      PROVE  N + k \in DOMAIN channel' /\ channel'[N + k] = events[k]
  <2>1. N + k \in 1 .. N + K + 1 /\ ~(N + k <= N) /\ N + k <= N + K /\ (N + k) - N = k
    BY <1>5
  <2>. QED
    BY <1>5, <2>1
<1>7. \A i \in 1 .. N : i \in DOMAIN channel' /\ channel'[i] = channel[i]
  BY <1>5
<1>8. \A k \in 1 .. K : \E j \in DOMAIN channel' : channel'[j] = events[k]
  BY <1>6
<1>. QED
  BY <1>5, <1>7, <1>8

(* A body that changes, comes back or goes is spoken of.                   *)
LEMMA SeenGrows ==
    ASSUME WholeInv, SeenInv, NEW m \in [Bodies -> Parts], NEW events \in Seq(Changes),
           Emits(m, events), UNCHANGED <<store, view, mounted>>,
           \A b \in Bodies : m[b].there =>
             (model[b].there /\ m[b].mesh = model[b].mesh) \/ \E k \in DOMAIN events : b \in events[k].changed,
           \A b \in Bodies : model[b].there /\ ~m[b].there => \E k \in DOMAIN events : b \in events[k].removed
    PROVE  SeenInv'
<1>1. /\ \A i \in DOMAIN channel : i \in DOMAIN channel' /\ channel'[i] = channel[i]
      /\ \A k \in DOMAIN events : \E j \in DOMAIN channel' : channel'[j] = events[k]
  BY EmitsNews
<1>2. \A k \in DOMAIN events : events[k].type = "changed"
  <2>1. \A k \in DOMAIN events : events[k] \in Changes
    OBVIOUS
  <2>. QED
    BY <2>1 DEF Changes
<1>3. model' = m
  BY DEF Emits
<1>4. \A b : Coming(b) => Coming(b)'
  BY <1>1 DEF Coming
<1>5. HeldIsThere'
  <2>. SUFFICES ASSUME mounted = "on", NEW b \in Bodies, Holds(view, b), ~m[b].there
                PROVE  \E i \in DOMAIN channel' : Removes(channel'[i], b)
    BY <1>3 DEF HeldIsThere
  <2>1. CASE model[b].there
    BY <1>1, <1>2, <2>1 DEF Removes
  <2>2. CASE ~model[b].there
    BY <1>1, <2>2 DEF SeenInv, HeldIsThere
  <2>. QED
    BY <2>1, <2>2
<1>6. StillIsRight'
  <2>. SUFFICES ASSUME mounted = "on", NEW b \in Bodies, Still(b)'
                PROVE  Right(view, store.bodies, m[b].mesh, b)
    BY <1>3 DEF StillIsRight
  <2>1. \A k \in DOMAIN events : b \notin events[k].changed
    BY <1>1, <1>2 DEF Still, Coming, Renews
  <2>2. model[b].there /\ m[b].mesh = model[b].mesh
    BY <1>3, <2>1 DEF Still
  <2>3. Still(b)
    BY <1>4, <2>2 DEF Still
  <2>. QED
    BY <2>2, <2>3 DEF SeenInv, StillIsRight
<1>. QED
  BY <1>5, <1>6 DEF SeenInv

(* Nothing that the screen depends on changes.                             *)
LEMMA SeenStays ==
    ASSUME SeenInv, UNCHANGED <<view, channel, model>>, store'.bodies = store.bodies,
           mounted' = "on" => mounted = "on"
    PROVE  SeenInv'
  BY DEF SeenInv, HeldIsThere, StillIsRight, Still, Coming

(* A write of the store brings what it shows on its way to the screen.     *)
LEMMA StoreSeen ==
    ASSUME WholeInv, WholeInv', TokensApart(view'), SeenInv, NEW rev, NEW bodies \in Partial(Rows),
           StoreWrite(rev, bodies), UNCHANGED <<model, mounted>>,
           \A b \in Bodies : Coming(b) => Coming(b)',
           \A b \in Bodies, i \in DOMAIN channel : Removes(channel[i], b) =>
             \E j \in DOMAIN channel' : Removes(channel'[j], b),
           \A b \in Bodies : model[b].there /\ ~Coming(b)' => b \in DOMAIN bodies \/ b \notin DOMAIN store.bodies
    PROVE  SeenInv'
<1>1. store'.bodies = bodies
  BY DEF StoreWrite
<1>2. CASE mounted # "on"
  BY <1>2 DEF SeenInv, HeldIsThere, StillIsRight
<1>3. CASE mounted = "on" /\ bodies = store.bodies
  <2>1. view' = view
    BY <1>3 DEF StoreWrite
  <2>. QED
    BY <1>1, <1>3, <2>1 DEF SeenInv, HeldIsThere, StillIsRight, Still
<1>4. CASE mounted = "on" /\ bodies # store.bodies
  <2>1. view' = Reconcile(OnColorChanged(OnVisibilityChanged(view, store.bodies, bodies),
                                         store.bodies, bodies), bodies)
    BY <1>4 DEF StoreWrite
  <2>2. /\ store.bodies \in Partial(Rows) /\ view \in Views /\ IsFiniteSet(view.fetches)
        /\ isolated \subseteq Bodies
    BY DEF WholeInv, BackendKind, ViewKind
  <2>3. Keeps(view, view')
    BY <2>1, <2>2, WriteKeeps
  <2>4. ASSUME NEW b
        PROVE  /\ Serves(view, view', bodies, b)
               /\ b \in DOMAIN bodies => Fresh(view', bodies, b) \/ Alike(view, view', b)
               /\ b \in DOMAIN bodies /\ ColorOf(store.bodies, b) # ColorOf(bodies, b) =>
                    Fresh(view', bodies, b) \/ b \in view'.skipped
               /\ Shows(bodies, b) => b \in DOMAIN view'.scene \cup view'.pending
    BY <2>1, <2>2, WriteServes
  <2>5. HeldIsThere'
    <3>. SUFFICES ASSUME NEW b \in Bodies, Holds(view', b), ~model[b].there
                  PROVE  \E i \in DOMAIN channel' : Removes(channel'[i], b)
      BY DEF HeldIsThere
    <3>1. DOMAIN view'.scene \subseteq DOMAIN view.scene
      BY <2>3 DEF Keeps
    <3>2. Holds(view, b)
      BY <2>4, <3>1, ServesHolds
    <3>. QED
      BY <1>4, <3>2 DEF SeenInv, HeldIsThere
  <2>6. ASSUME NEW b \in Bodies, b \in view'.pending
        PROVE  Served(view', b)
    BY <2>6 DEF WholeInv, SceneHolds, PendingIsLoading, Served, LoadsOf, Current, IsCurrent
  <2>7. StillIsRight'
    <3>. SUFFICES ASSUME NEW b \in Bodies, Still(b)'
                  PROVE  Right(view', bodies, model[b].mesh, b)
      BY <1>1 DEF StillIsRight
    <3>1. model[b].there /\ ~Coming(b) /\ ~Coming(b)' /\ b \notin view'.skipped
      BY DEF Still
    <3>2. CASE Fresh(view', bodies, b)
      BY <3>2, FreshRight
    <3>3. CASE Alike(view, view', b) /\ ~Fresh(view', bodies, b)
      <4>1. Right(view, store.bodies, model[b].mesh, b)
        BY <1>4, <3>1, <3>3 DEF Alike, SeenInv, StillIsRight, Still
      <4>2. ColorOf(store.bodies, b) = ColorOf(bodies, b)
        <5>1. CASE b \in DOMAIN bodies
          BY <2>4, <3>1, <3>3, <5>1
        <5>2. CASE b \notin DOMAIN bodies
          BY <3>1, <5>2 DEF ColorOf
        <5>. QED
          BY <5>1, <5>2
      <4>3. Shows(bodies, b) => b \in DOMAIN view'.scene \/ Served(view', b)
        BY <2>4, <2>6
      <4>. QED
        BY <3>3, <4>1, <4>2, <4>3, AlikeRight
    <3>4. CASE Gone(view', b) /\ ~Alike(view, view', b) /\ ~Fresh(view', bodies, b)
      <4>1. b \notin DOMAIN bodies
        BY <2>4, <3>4
      <4>. QED
        BY <3>4, <4>1, GoneRight DEF Shows
    <3>. QED
      BY <2>4, <3>2, <3>3, <3>4 DEF Serves
  <2>. QED
    BY <2>5, <2>7 DEF SeenInv
<1>. QED
  BY <1>2, <1>3, <1>4

(* A projection that is heard does so.                                     *)
LEMMA ProjectionSeen ==
    ASSUME WholeInv, WholeInv', TokensApart(view'), SeenInv, NEW p \in Projections, ApplyProjection(p),
           UNCHANGED <<model, mounted>>,
           \A b \in Bodies : Coming(b) => Coming(b)',
           \A b \in Bodies, i \in DOMAIN channel : Removes(channel[i], b) =>
             \E j \in DOMAIN channel' : Removes(channel'[j], b),
           \A b \in Bodies : model[b].there /\ ~Coming(b)' =>
             b \in DOMAIN p.bodies \/ b \notin DOMAIN store.bodies \/ p.rev < store.rev
    PROVE  SeenInv'
<1>1. CASE p.rev < store.rev
  <2>1. UNCHANGED <<store, view>>
    BY <1>1 DEF ApplyProjection
  <2>. QED
    BY <2>1 DEF SeenInv, HeldIsThere, StillIsRight, Still
<1>2. CASE ~(p.rev < store.rev)
  <2>1. p.bodies \in Partial(Rows) /\ StoreWrite(p.rev, p.bodies)
    BY <1>2 DEF ApplyProjection, Projections
  <2>. QED
    BY <1>2, <2>1, StoreSeen
<1>. QED
  BY <1>1, <1>2

(* A change that is heard is loaded, or skipped; a removal is a drop, and  *)
(* what is dropped and there is news that is yet to come.                  *)
LEMMA ChangeSeen ==
    ASSUME WholeInv, TokensApart(view'), NewsInv, SeenInv, NEW c \in Changes, OnDocumentChanged(c),
           UNCHANGED <<model, mounted>>, channel # <<>>, channel[1] = c,
           \A i \in DOMAIN channel : i # 1 => \E j \in DOMAIN channel' : channel'[j] = channel[i]
    PROVE  SeenInv'
<1>1. CASE mounted # "on"
  BY <1>1 DEF SeenInv, HeldIsThere, StillIsRight
<1>2. CASE mounted = "on"
  <2>. DEFINE wanted == {b \in c.changed : Visible(store.bodies, b)}
              u == DropBody(view, c.removed)
              w == Skip(u, c.changed \ wanted)
  <2>1. /\ c.changed \in SUBSET Bodies /\ c.removed \in SUBSET Bodies /\ wanted \in SUBSET Bodies
        /\ c.changed \ wanted \in SUBSET Bodies /\ 0 \in 0 .. MaxRetries
        /\ store.bodies \in Partial(Rows) /\ view \in Views /\ IsFiniteSet(view.fetches)
    BY MeshBounds DEF Changes, WholeInv, BackendKind, ViewKind
  <2>2. view' = LoadBody(w, store.bodies, wanted, 0) /\ store' = store
    BY <1>2 DEF OnDocumentChanged
  <2>. HIDE DEF wanted
  <2>3. Keeps(view, u)
    BY <2>1, DropKeeps
  <2>4. u \in Views /\ IsFiniteSet(u.fetches)
    BY <2>3 DEF Keeps
  <2>5. ASSUME NEW b
        PROVE  /\ b \in c.removed => Gone(u, b)
               /\ b \notin c.removed => Alike(view, u, b)
    BY <2>1, DropServes
  <2>. HIDE DEF u
  <2>6. Keeps(u, w)
    BY <2>1, <2>4, SkipKeeps
  <2>7. w \in Views /\ IsFiniteSet(w.fetches)
    BY <2>6 DEF Keeps
  <2>8. ASSUME NEW b
        PROVE  Alike(u, w, b) /\ (b \in c.changed \ wanted => b \in w.skipped)
    BY <2>4, SkipServes
  <2>. HIDE DEF w
  <2>9. Keeps(w, view')
    BY <2>1, <2>2, <2>7, LoadKeeps
  <2>10. ASSUME NEW b
         PROVE  /\ b \in wanted => Fresh(view', store.bodies, b)
                /\ b \notin wanted => Alike(w, view', b)
    <3>1. b \in wanted => Fresh(view', store.bodies, b)
      BY <2>1, <2>2, <2>7, LoadServes
    <3>2. b \notin wanted => Alike(w, view', b)
      BY <2>1, <2>2, <2>7, LoadServes
    <3>. QED
      BY <3>1, <3>2
  <2>11. DOMAIN view'.scene \subseteq DOMAIN view.scene
    BY <2>3, <2>6, <2>9 DEF Keeps
  <2>12. ASSUME NEW b
         PROVE  /\ Serves(view, view', store.bodies, b)
                /\ b \in c.removed => Fresh(view', store.bodies, b) \/ Gone(view', b)
                /\ b \notin c.removed => Fresh(view', store.bodies, b) \/ Alike(view, view', b)
    <3>1. CASE b \in wanted
      BY <2>10, <3>1 DEF Serves
    <3>2. CASE b \notin wanted
      <4>1. Alike(u, view', b)
        BY <2>8, <2>10, <3>2 DEF Alike
      <4>2. CASE b \in c.removed
        BY <2>5, <4>1, <4>2 DEF Gone, Alike, Serves
      <4>3. CASE b \notin c.removed
        BY <2>5, <4>1, <4>3 DEF Alike, Serves
      <4>. QED
        BY <4>2, <4>3
    <3>. QED
      BY <3>1, <3>2
  <2>13. HeldIsThere'
    <3>. SUFFICES ASSUME NEW b \in Bodies, Holds(view', b), ~model[b].there
                  PROVE  \E i \in DOMAIN channel' : Removes(channel'[i], b)
      BY DEF HeldIsThere
    <3>1. b \notin c.removed
      <4>1. Gone(view', b) => ~Holds(view', b)
        BY DEF Holds, Gone, LoadsOf, IsCurrent
      <4>2. ASSUME b \in c.removed, Fresh(view', store.bodies, b)
            PROVE  FALSE
        <5>1. b \notin DOMAIN view'.scene
          BY <2>5, <2>6, <2>9, <4>2 DEF Gone, Keeps
        <5>. QED
          BY <4>2, <5>1, FreshIsNewest DEF Holds
      <4>. QED
        BY <2>12, <4>1, <4>2
    <3>2. Holds(view, b)
      BY <2>11, <2>12, ServesHolds
    <3>3. PICK i \in DOMAIN channel : Removes(channel[i], b)
      BY <1>2, <3>2 DEF SeenInv, HeldIsThere
    <3>4. i # 1
      BY <3>1, <3>3 DEF Removes
    <3>. QED
      BY <3>3, <3>4
  <2>14. StillIsRight'
    <3>. SUFFICES ASSUME NEW b \in Bodies, Still(b)'
                  PROVE  Right(view', store.bodies, model[b].mesh, b)
      BY <2>2 DEF StillIsRight
    <3>1. model[b].there /\ ~Coming(b)' /\ b \notin view'.skipped
      BY DEF Still
    <3>2. \A i \in DOMAIN channel : Renews(channel[i], b) => i = 1
      BY <3>1 DEF Coming
    <3>3. CASE Fresh(view', store.bodies, b)
      BY <3>3, FreshRight
    <3>4. CASE ~Fresh(view', store.bodies, b)
      <4>1. b \notin wanted
        BY <2>10, <3>4
      <4>2. b \notin c.changed
        BY <2>8, <2>10, <3>1, <4>1 DEF Alike
      <4>3. ~Coming(b)
        BY <3>2, <4>2 DEF Coming, Renews
      <4>4. b \notin c.removed
        <5>. SUFFICES ASSUME b \in c.removed PROVE FALSE
          OBVIOUS
        <5>1. 1 \in DOMAIN channel
          <6>1. channel \in Seq(Projections \cup Changes)
            BY DEF WholeInv, BackendKind
          <6>. QED
            BY <6>1, EmptySeq, LenProperties
        <5>2. Removes(channel[1], b)
          BY DEF Removes, Changes
        <5>. QED
          BY <3>1, <4>3, <5>1, <5>2 DEF NewsInv, DeniedIsRenewed, Coming
      <4>5. Alike(view, view', b)
        BY <2>12, <3>4, <4>4
      <4>6. Right(view, store.bodies, model[b].mesh, b)
        BY <1>2, <3>1, <4>3, <4>5 DEF Alike, SeenInv, StillIsRight, Still
      <4>. QED
        BY <4>5, <4>6, AlikeRight
    <3>. QED
      BY <3>3, <3>4
  <2>. QED
    BY <2>13, <2>14 DEF SeenInv
<1>. QED
  BY <1>1, <1>2

-----------------------------------------------------------------------------
(* What is on screen: loads, masks, the life of the view.                  *)

(* Loads that are started without news load what the store has.            *)
LEMMA FreshSeen ==
    ASSUME SeenInv, TokensApart(view'), UNCHANGED <<model, channel, store>>, mounted = "on",
           DOMAIN view'.scene \subseteq DOMAIN view.scene,
           \A b \in Bodies : Fresh(view', store.bodies, b) \/ Alike(view, view', b)
    PROVE  SeenInv'
<1>1. HeldIsThere'
  <2>. SUFFICES ASSUME NEW b \in Bodies, Holds(view', b)
                PROVE  model[b].there \/ \E i \in DOMAIN channel : Removes(channel[i], b)
    BY DEF HeldIsThere
  <2>1. Holds(view, b)
    BY ServesHolds DEF Serves
  <2>. QED
    BY <2>1 DEF SeenInv, HeldIsThere
<1>2. StillIsRight'
  <2>. SUFFICES ASSUME NEW b \in Bodies, Still(b)'
                PROVE  Right(view', store.bodies, model[b].mesh, b)
    BY DEF StillIsRight
  <2>1. model[b].there /\ ~Coming(b) /\ b \notin view'.skipped
    BY DEF Still, Coming
  <2>2. CASE Fresh(view', store.bodies, b)
    BY <2>2, FreshRight
  <2>3. CASE Alike(view, view', b)
    <3>1. Right(view, store.bodies, model[b].mesh, b)
      BY <2>1, <2>3 DEF Alike, SeenInv, StillIsRight, Still
    <3>. QED
      BY <2>3, <3>1, AlikeRight
  <2>. QED
    BY <2>2, <2>3
<1>. QED
  BY <1>1, <1>2 DEF SeenInv

(* A mask.                                                                 *)
LEMMA ToggleSeen ==
    ASSUME WholeInv, SeenInv, TokensApart(view'), NEW S \in SUBSET Bodies, ToggleIsolate(S)
    PROVE  SeenInv'
<1>. DEFINE u == Masked(view, store.bodies, S, Bodies)
            revealed == {b \in DOMAIN store.bodies \ DOMAIN view.scene : EffectiveVisible(store.bodies, S, b)}
<1>1. /\ mounted = "on" /\ view' = LoadBody(u, store.bodies, revealed, 0)
      /\ UNCHANGED <<model, channel, store>>
  BY DEF ToggleIsolate, Edit, transport
<1>2. /\ store.bodies \in Partial(Rows) /\ view \in Views /\ IsFiniteSet(view.fetches)
      /\ DOMAIN store.bodies \subseteq Bodies /\ 0 \in 0 .. MaxRetries
  BY PartialIs, MeshBounds DEF WholeInv, BackendKind, ViewKind
<1>3. revealed \in SUBSET Bodies
  BY <1>2
<1>4. Keeps(view, u)
  BY <1>2, MaskKeeps
<1>5. u \in Views /\ IsFiniteSet(u.fetches)
  BY <1>4 DEF Keeps
<1>6. \A b : Alike(view, u, b)
  BY <1>2, MaskServes
<1>. HIDE DEF u, revealed
<1>7. Keeps(u, view')
  BY <1>1, <1>2, <1>3, <1>5, LoadKeeps
<1>8. ASSUME NEW b
      PROVE  Fresh(view', store.bodies, b) \/ Alike(u, view', b)
  BY <1>1, <1>2, <1>5, LoadServes
<1>9. \A b \in Bodies : Fresh(view', store.bodies, b) \/ Alike(view, view', b)
  BY <1>6, <1>8 DEF Alike
<1>10. DOMAIN view'.scene \subseteq DOMAIN view.scene
  BY <1>4, <1>7 DEF Keeps
<1>. QED
  BY <1>1, <1>9, <1>10, FreshSeen

(* A retry.                                                                *)
LEMMA RetrySeen ==
    ASSUME WholeInv, SeenInv, TokensApart(view'), NEW t \in view.timers, FireRetry(t)
    PROVE  SeenInv'
<1>. DEFINE rest == [view EXCEPT !.timers = view.timers \ {t}]
<1>1. /\ UNCHANGED <<model, channel, store>> /\ mounted = "on"
      /\ view \in Views /\ IsFiniteSet(view.fetches) /\ t \in Timers /\ store.bodies \in Partial(Rows)
  BY DEF FireRetry, transport, WholeInv, BackendKind, ViewKind, Views
<1>2. /\ rest \in Views /\ rest.scene = view.scene /\ rest.loadSeq = view.loadSeq
      /\ rest.fetches = view.fetches /\ rest.failed = view.failed /\ rest.skipped = view.skipped
  BY <1>1 DEF Views
<1>3. view' = LoadBody(rest, store.bodies, {t.body}, t.attempt + 1) \/ view' = rest
  BY DEF FireRetry
<1>. HIDE DEF rest
<1>4. \A b : LoadsOf(rest, b) = LoadsOf(view, b)
  BY <1>2 DEF LoadsOf
<1>5. \A b : Alike(view, rest, b)
  BY <1>2, <1>4 DEF Alike
<1>6. CASE view' = rest
  BY <1>1, <1>2, <1>5, <1>6, FreshSeen
<1>7. CASE view' = LoadBody(rest, store.bodies, {t.body}, t.attempt + 1)
  <2>1. {t.body} \in SUBSET Bodies /\ t.attempt + 1 \in 0 .. MaxRetries
    BY <1>1, MeshBounds DEF Timers
  <2>2. view'.scene = rest.scene
    BY <1>1, <1>2, <1>7, <2>1, LoadKeeps
  <2>3. ASSUME NEW b
        PROVE  Fresh(view', store.bodies, b) \/ Alike(rest, view', b)
    BY <1>1, <1>2, <1>7, <2>1, LoadServes
  <2>4. \A b \in Bodies : Fresh(view', store.bodies, b) \/ Alike(view, view', b)
    BY <1>5, <2>3 DEF Alike
  <2>. QED
    BY <1>1, <1>2, <2>2, <2>4, FreshSeen
<1>. QED
  BY <1>3, <1>6, <1>7

(* The mount has nothing but what it loads.                                *)
LEMMA AttachSeen ==
    ASSUME WholeInv, WholeInv', TokensApart(view'), Attach
    PROVE  SeenInv'
<1>1. /\ mounted = "new" /\ view' = Reconcile(view, store.bodies)
      /\ UNCHANGED <<model, channel, store>>
  BY DEF Attach
<1>2. /\ store.bodies \in Partial(Rows) /\ view \in Views /\ IsFiniteSet(view.fetches)
      /\ view.fetches = {} /\ DOMAIN view.scene = {}
  BY <1>1 DEF WholeInv, BackendKind, ViewKind
<1>3. DOMAIN view'.scene = {}
  BY <1>1, <1>2, ReconcileKeeps
<1>4. ASSUME NEW b
      PROVE  /\ Serves(view, view', store.bodies, b)
             /\ Shows(store.bodies, b) => b \in view'.pending
  BY <1>1, <1>2, <1>3, ReconcileServes
<1>5. ASSUME NEW b, ~Fresh(view', store.bodies, b)
      PROVE  \A f \in LoadsOf(view', b) : ~IsCurrent(view', f)
  <2>1. CASE Gone(view', b)
    BY <2>1 DEF Gone, LoadsOf, IsCurrent
  <2>2. CASE Alike(view, view', b)
    BY <1>2, <2>2 DEF Alike, LoadsOf
  <2>. QED
    BY <1>4, <1>5, <2>1, <2>2 DEF Serves
<1>6. \A b : Fresh(view', store.bodies, b) =>
        \A f \in LoadsOf(view', b) : IsCurrent(view', f) => f.mesh = 0
  BY FreshIsNewest
<1>7. HeldIsThere'
  BY <1>3, <1>5, <1>6 DEF HeldIsThere, Holds
<1>8. ASSUME NEW b \in Bodies, b \in view'.pending
      PROVE  Served(view', b)
  BY <1>8 DEF WholeInv, SceneHolds, PendingIsLoading, Served, LoadsOf, Current, IsCurrent
<1>9. ASSUME NEW b \in Bodies
      PROVE  Right(view', store.bodies, model[b].mesh, b)
  <2>1. CASE Fresh(view', store.bodies, b)
    BY <2>1, FreshRight
  <2>2. CASE ~Fresh(view', store.bodies, b)
    BY <1>3, <1>4, <1>5, <1>8, <2>2 DEF Right, Served
  <2>. QED
    BY <2>1, <2>2
<1>10. StillIsRight'
  BY <1>1, <1>9 DEF StillIsRight
<1>. QED
  BY <1>7, <1>10 DEF SeenInv

(* What happens to a load happens to its body.                             *)
LEMMA LoadSeen ==
    ASSUME WholeInv, SeenInv, NEW f \in view.fetches, UNCHANGED <<model, channel, store, mounted>>,
           mounted = "on", view'.skipped = view.skipped,
           \A b \in Bodies : b # f.body => Alike(view, view', b),
           Holds(view', f.body) => Holds(view, f.body) \/ model[f.body].there,
           Still(f.body) /\ Right(view, store.bodies, model[f.body].mesh, f.body) =>
             Right(view', store.bodies, model[f.body].mesh, f.body)
    PROVE  SeenInv'
<1>1. f.body \in Bodies
  BY DEF WholeInv, ViewKind, Views, Fetches
<1>2. HeldIsThere'
  <2>. SUFFICES ASSUME NEW b \in Bodies, Holds(view', b), ~model[b].there
                PROVE  \E i \in DOMAIN channel : Removes(channel[i], b)
    BY DEF HeldIsThere
  <2>1. Holds(view, b)
    <3>1. CASE b = f.body
      BY <3>1
    <3>2. CASE b # f.body
      <4>1. Alike(view, view', b)
        BY <3>2
      <4>2. \A g \in LoadsOf(view', b) : IsCurrent(view', g) <=> IsCurrent(view, g)
        BY <4>1, AlikeLoads
      <4>. QED
        BY <4>1, <4>2 DEF Holds, Alike
    <3>. QED
      BY <3>1, <3>2
  <2>. QED
    BY <2>1 DEF SeenInv, HeldIsThere
<1>3. StillIsRight'
  <2>. SUFFICES ASSUME NEW b \in Bodies, Still(b)'
                PROVE  Right(view', store.bodies, model[b].mesh, b)
    BY DEF StillIsRight
  <2>1. Still(b)
    BY DEF Still, Coming
  <2>2. Right(view, store.bodies, model[b].mesh, b)
    BY <2>1 DEF SeenInv, StillIsRight
  <2>3. CASE b = f.body
    BY <2>1, <2>2, <2>3
  <2>4. CASE b # f.body
    BY <2>2, <2>4, AlikeRight
  <2>. QED
    BY <2>3, <2>4
<1>. QED
  BY <1>2, <1>3 DEF SeenInv

(* An answer brings the mesh the model has.                                *)
LEMMA BecomesSeen ==
    ASSUME WholeInv, SeenInv, NEW f \in view.fetches, NEW stage \in {"answered", "colors"},
           NEW mesh \in 0 .. MaxMesh, IsCurrent(view, f), Becomes(f, stage, mesh),
           UNCHANGED <<model, channel, store, mounted>>,
           mesh # 0 => Holds(view, f.body) \/ model[f.body].there,
           Still(f.body) /\ Right(view, store.bodies, model[f.body].mesh, f.body) =>
             mesh = model[f.body].mesh
    PROVE  SeenInv'
<1>. DEFINE g == [f EXCEPT !.stage = stage, !.mesh = mesh]
<1>1. view \in Views /\ f \in Fetches /\ view.fetches \subseteq Fetches /\ mounted = "on"
  BY DEF WholeInv, ViewKind, Views, IsCurrent
<1>2. /\ g.body = f.body /\ g.token = f.token /\ g.live = f.live /\ g.stage = stage /\ g.mesh = mesh
      /\ g.color = f.color
  BY <1>1 DEF Fetches
<1>. HIDE DEF g
<1>3. view' = [view EXCEPT !.fetches = (view.fetches \ {f}) \cup {g}]
  BY DEF Becomes, g
<1>4. /\ view'.scene = view.scene /\ view'.loadSeq = view.loadSeq /\ view'.skipped = view.skipped
      /\ view'.failed = view.failed /\ view'.fetches = (view.fetches \ {f}) \cup {g}
  BY <1>1, <1>3 DEF Views
<1>5. \A b \in Bodies : b # f.body => Alike(view, view', b)
  <2>1. \A b : b # f.body => LoadsOf(view', b) = LoadsOf(view, b)
    BY <1>2, <1>4 DEF LoadsOf
  <2>. QED
    BY <1>4, <2>1 DEF Alike
<1>6. /\ \A h \in view.fetches : IsCurrent(view', h) <=> IsCurrent(view, h)
      /\ IsCurrent(view', g)
  BY <1>2, <1>4 DEF IsCurrent
<1>7. \A h \in LoadsOf(view', f.body) : h \in LoadsOf(view, f.body) \/ h = g
  BY <1>4 DEF LoadsOf
<1>8. LoadsOf(view, f.body) \subseteq view.fetches
  BY DEF LoadsOf
<1>9. Holds(view', f.body) => Holds(view, f.body) \/ model[f.body].there
  BY <1>2, <1>4, <1>6, <1>7, <1>8 DEF Holds
<1>10. Served(view, f.body) /\ f \in LoadsOf(view, f.body) /\ g \in LoadsOf(view', f.body)
  BY <1>2, <1>4 DEF Served, LoadsOf
<1>11. Served(view', f.body)
  BY <1>6, <1>10 DEF Served
<1>12. ASSUME Still(f.body), Right(view, store.bodies, model[f.body].mesh, f.body)
       PROVE  Right(view', store.bodies, model[f.body].mesh, f.body)
  <2>1. mesh = model[f.body].mesh
    BY <1>12
  <2>2. \A h \in LoadsOf(view, f.body) : IsCurrent(view, h) =>
          h.color = ColorOf(store.bodies, f.body) /\ (h.stage # "asked" => h.mesh = model[f.body].mesh)
    BY <1>12 DEF Right
  <2>3. f.color = ColorOf(store.bodies, f.body)
    BY <1>10, <2>2
  <2>4. \A h \in LoadsOf(view', f.body) : IsCurrent(view', h) =>
          h.color = ColorOf(store.bodies, f.body) /\ (h.stage # "asked" => h.mesh = model[f.body].mesh)
    BY <1>2, <1>6, <1>7, <1>8, <2>1, <2>2, <2>3
  <2>. QED
    BY <1>11, <2>4 DEF Right
<1>. QED
  BY <1>1, <1>4, <1>5, <1>9, <1>12, LoadSeen

(* A load ends without an effect on the scene if it is superseded, if the  *)
(* user is told, or if there is no mesh.                                   *)
LEMMA RemovalSeen ==
    ASSUME WholeInv, SeenInv, NEW f \in view.fetches, mounted = "on",
           UNCHANGED <<model, channel, store, mounted>>,
           view'.fetches = view.fetches \ {f}, view'.scene = view.scene, view'.loadSeq = view.loadSeq,
           view'.skipped = view.skipped, \A b : b # f.body => (b \in view'.failed <=> b \in view.failed),
           f.body \in view.failed => f.body \in view'.failed,
           ~IsCurrent(view, f) \/ f.body \in view'.failed \/ (f.stage # "asked" /\ f.mesh = 0)
    PROVE  SeenInv'
<1>1. \A b \in Bodies : b # f.body => Alike(view, view', b)
  <2>1. \A b : b # f.body => LoadsOf(view', b) = LoadsOf(view, b)
    BY DEF LoadsOf
  <2>. QED
    BY <2>1 DEF Alike
<1>2. /\ \A h : IsCurrent(view', h) <=> IsCurrent(view, h)
      /\ LoadsOf(view', f.body) = LoadsOf(view, f.body) \ {f}
      /\ f \in LoadsOf(view, f.body)
  BY DEF IsCurrent, LoadsOf
<1>3. Holds(view', f.body) => Holds(view, f.body)
  BY <1>2 DEF Holds
<1>4. ASSUME Still(f.body), Right(view, store.bodies, model[f.body].mesh, f.body)
      PROVE  Right(view', store.bodies, model[f.body].mesh, f.body)
  <2>1. CASE ~IsCurrent(view, f)
    <3>1. Served(view', f.body) <=> Served(view, f.body)
      BY <1>2, <2>1 DEF Served
    <3>. QED
      BY <1>2, <1>4, <3>1 DEF Right
  <2>2. CASE f.body \in view'.failed
    BY <1>2, <1>4, <2>2 DEF Right
  <2>3. CASE IsCurrent(view, f) /\ f.stage # "asked" /\ f.mesh = 0
    <3>1. model[f.body].mesh = 0
      BY <1>2, <1>4, <2>3 DEF Right
    <3>. QED
      BY <1>2, <1>4, <3>1 DEF Right
  <2>. QED
    BY <2>1, <2>2, <2>3
<1>. QED
  BY <1>1, <1>3, <1>4, LoadSeen

(* A load that is installed is what its body should look like.             *)
LEMMA InstallSeen ==
    ASSUME WholeInv, SeenInv, NEW f \in view.fetches, IsCurrent(view, f), f.mesh # 0, f.stage # "asked",
           Install(f), UNCHANGED <<model, channel, store, isolated, mounted>>
    PROVE  SeenInv'
<1>. DEFINE entry == [mesh |-> f.mesh, color |-> f.color]
            handle == [mesh |-> f.mesh, color |-> f.color,
                       shown |-> EffectiveVisible(store.bodies, isolated, f.body)]
            S == {f.body}
            registry == Put(view.registry, S, [b \in S |-> entry])
            scene == Put(view.scene, S, [b \in S |-> handle])
<1>1. view \in Views /\ mounted = "on" /\ f.live
  BY DEF WholeInv, ViewKind, IsCurrent
<1>2. view' = [scene |-> scene, registry |-> registry, loadSeq |-> view.loadSeq,
               pending |-> IF Current(f) THEN view.pending \ S ELSE view.pending,
               fetches |-> view.fetches \ {f}, timers |-> view.timers,
               failed |-> view.failed \ S, skipped |-> view.skipped]
  BY <1>1 DEF Install, Done, Views
<1>3. /\ DOMAIN scene = DOMAIN view.scene \cup S /\ scene[f.body] = handle
      /\ \A b \in DOMAIN view.scene : b # f.body => scene[b] = view.scene[b]
  <2>. HIDE DEF handle
  <2>. QED
    BY DEF Put
<1>4. handle.mesh = f.mesh /\ handle.color = f.color
  OBVIOUS
<1>. HIDE DEF scene, registry, handle, entry
<1>5. /\ view'.scene = scene /\ view'.loadSeq = view.loadSeq /\ view'.fetches = view.fetches \ {f}
      /\ view'.failed = view.failed \ S /\ view'.skipped = view.skipped
  BY <1>2
<1>6. \A b \in Bodies : b # f.body => Alike(view, view', b)
  <2>1. \A b : b # f.body => LoadsOf(view', b) = LoadsOf(view, b)
    BY <1>5 DEF LoadsOf
  <2>. QED
    BY <1>3, <1>5, <2>1 DEF Alike
<1>7. /\ \A h : IsCurrent(view', h) <=> IsCurrent(view, h)
      /\ LoadsOf(view', f.body) \subseteq LoadsOf(view, f.body)
      /\ f \in LoadsOf(view, f.body)
  BY <1>5 DEF IsCurrent, LoadsOf
<1>8. Holds(view, f.body)
  BY <1>7 DEF Holds
<1>9. ASSUME Still(f.body), Right(view, store.bodies, model[f.body].mesh, f.body)
      PROVE  Right(view', store.bodies, model[f.body].mesh, f.body)
  <2>1. \A h \in LoadsOf(view, f.body) : IsCurrent(view, h) =>
          h.color = ColorOf(store.bodies, f.body) /\ (h.stage # "asked" => h.mesh = model[f.body].mesh)
    BY <1>9 DEF Right
  <2>2. f.color = ColorOf(store.bodies, f.body) /\ f.mesh = model[f.body].mesh
    BY <1>7, <2>1
  <2>3. /\ f.body \in DOMAIN view'.scene /\ view'.scene[f.body].mesh = model[f.body].mesh
        /\ view'.scene[f.body].color = ColorOf(store.bodies, f.body)
    BY <1>3, <1>4, <1>5, <2>2
  <2>. QED
    BY <1>7, <2>1, <2>3 DEF Right
<1>. QED
  BY <1>1, <1>5, <1>6, <1>8, <1>9, LoadSeen

(* Every step of a load.                                                   *)
LEMMA LoadStepSeen ==
    ASSUME WholeInv, SeenInv, NoStaleColors, "token_reuse" \notin Rare, NEW f \in view.fetches,
           AnswerMesh(f) \/ FailMesh(f) \/ ResolveMesh(f) \/ ResolveFaceColors(f)
    PROVE  SeenInv'
<1>1. /\ view \in Views /\ f \in Fetches /\ model[f.body] \in Parts
      /\ Current(f) <=> IsCurrent(view, f)
      /\ Heeded(f) <=> IsCurrent(view, f)
  BY DEF WholeInv, ViewKind, Views, BackendKind, Fetches, Current, IsCurrent, Heeded
<1>2. UNCHANGED <<model, channel, store, isolated, mounted>>
  BY DEF AnswerMesh, FailMesh, ResolveMesh, ResolveFaceColors, transport
<1>3. CASE mounted # "on"
  BY <1>2, <1>3 DEF SeenInv, HeldIsThere, StillIsRight
<1>4. CASE mounted = "on" /\ AnswerMesh(f)
  <2>. DEFINE mesh == IF model[f.body].there THEN model[f.body].mesh ELSE 0
  <2>1. Becomes(f, "answered", mesh) /\ IsCurrent(view, f)
    BY <1>1, <1>4 DEF AnswerMesh
  <2>2. /\ mesh \in 0 .. MaxMesh
        /\ mesh # 0 => model[f.body].there
        /\ model[f.body].there => mesh = model[f.body].mesh
    BY <1>1, MeshBounds DEF Parts
  <2>. HIDE DEF mesh
  <2>3. "answered" \in {"answered", "colors"}
    OBVIOUS
  <2>. QED
    BY <1>2, <2>1, <2>2, <2>3, BecomesSeen DEF Still
<1>5. CASE mounted = "on" /\ FailMesh(f)
  <2>1. view' = [Done(view, f) EXCEPT !.failed = IF Current(f) THEN Done(view, f).failed \cup {f.body}
                                                 ELSE Done(view, f).failed]
    BY <1>5 DEF FailMesh
  <2>2. /\ view'.fetches = view.fetches \ {f} /\ view'.scene = view.scene /\ view'.loadSeq = view.loadSeq
        /\ view'.skipped = view.skipped
        /\ view'.failed = IF Current(f) THEN view.failed \cup {f.body} ELSE view.failed
    BY <1>1, <2>1 DEF Done, Views
  <2>. QED
    BY <1>1, <1>2, <1>5, <2>2, RemovalSeen
<1>6. CASE mounted = "on" /\ ResolveMesh(f)
  <2>1. f.stage = "answered" \/ (f.stage = "asked" /\ ~IsCurrent(view, f))
    BY <1>1, <1>6 DEF ResolveMesh
  <2>2. CASE ~Current(f)
    <3>1. view' = Done(view, f)
      BY <1>6, <2>2 DEF ResolveMesh
    <3>2. /\ view'.fetches = view.fetches \ {f} /\ view'.scene = view.scene /\ view'.loadSeq = view.loadSeq
          /\ view'.skipped = view.skipped /\ view'.failed = view.failed
      BY <1>1, <3>1 DEF Done, Views
    <3>. QED
      BY <1>1, <1>2, <1>6, <2>2, <3>2, RemovalSeen
  <2>3. CASE Current(f) /\ f.mesh = 0
    <3>1. view' = [Done(view, f) EXCEPT !.timers = view.timers \cup Retry(f)]
      BY <1>1, <1>6, <2>3 DEF ResolveMesh, Done, Views
    <3>2. /\ view'.fetches = view.fetches \ {f} /\ view'.scene = view.scene /\ view'.loadSeq = view.loadSeq
          /\ view'.skipped = view.skipped /\ view'.failed = view.failed
      BY <1>1, <3>1 DEF Done, Views
    <3>. QED
      BY <1>1, <1>2, <1>6, <2>1, <2>3, <3>2, RemovalSeen
  <2>4. CASE Current(f) /\ f.mesh # 0
    <3>1. f.stage # "asked" /\ IsCurrent(view, f)
      BY <1>1, <2>1, <2>4
    <3>2. CASE Install(f)
      BY <1>2, <2>4, <3>1, <3>2, InstallSeen
    <3>3. CASE Becomes(f, "colors", f.mesh)
      <4>1. f.mesh \in 0 .. MaxMesh /\ "colors" \in {"answered", "colors"}
        BY <1>1 DEF Fetches
      <4>2. f \in LoadsOf(view, f.body)
        BY DEF LoadsOf
      <4>3. Holds(view, f.body)
        BY <2>4, <3>1, <4>2 DEF Holds
      <4>4. Right(view, store.bodies, model[f.body].mesh, f.body) => f.mesh = model[f.body].mesh
        BY <3>1, <4>2 DEF Right
      <4>. QED
        BY <1>2, <3>1, <3>3, <4>1, <4>3, <4>4, BecomesSeen
    <3>. QED
      BY <1>6, <2>4, <3>2, <3>3 DEF ResolveMesh
  <2>. QED
    BY <2>2, <2>3, <2>4
<1>7. CASE mounted = "on" /\ ResolveFaceColors(f)
  <2>1. f.stage = "colors" /\ Install(f) /\ f.mesh # 0 /\ IsCurrent(view, f)
    BY <1>7 DEF ResolveFaceColors, WholeInv, ViewKind, ColorsCurrent
  <2>. QED
    BY <1>2, <2>1, InstallSeen
<1>. QED
  BY <1>3, <1>4, <1>5, <1>6, <1>7

-----------------------------------------------------------------------------
(* Every step, and the settled view.                                       *)

(* A publish, a removal and an undo of it.                                 *)
LEMMA PublishSettles ==
    ASSUME WholeInv, StoreInv, SettleInv, NEW b \in Bodies, Publish(b) \/ Delete(b) \/ Restore(b)
    PROVE  SettleInv'
<1>. DEFINE changed == <<ChangeEvent({b}, {})>>
            removed == <<ChangeEvent({}, {b})>>
<1>1. model \in [Bodies -> Parts] /\ MaxMesh \in Nat
  BY MeshBounds DEF WholeInv, BackendKind
<1>2. UNCHANGED <<pull, store, view, mounted>>
  BY DEF Publish, Delete, Restore
<1>3. changed \in Seq(Changes) /\ removed \in Seq(Changes)
  <2>1. ChangeEvent({b}, {}) \in Changes /\ ChangeEvent({}, {b}) \in Changes
    BY DEF ChangeEvent, Changes
  <2>. QED
    BY <2>1
<1>4. /\ DOMAIN changed = {1} /\ changed[1].changed = {b} /\ changed[1].removed = {}
      /\ DOMAIN removed = {1} /\ removed[1].changed = {} /\ removed[1].removed = {b}
  BY DEF ChangeEvent
<1>. HIDE DEF changed, removed
<1>5. CASE Publish(b)
  <2>. DEFINE m == [model EXCEPT ![b].mesh = @ + 1]
  <2>1. Emits(m, changed) /\ model[b].mesh < MaxMesh
    BY <1>5 DEF Publish, changed
  <2>2. /\ m \in [Bodies -> Parts]
        /\ \A d \in Bodies : m[d].there = model[d].there /\ (d # b => m[d].mesh = model[d].mesh)
    BY <1>1, <2>1 DEF Parts
  <2>. HIDE DEF m
  <2>3. NewsInv'
    BY <1>2, <1>3, <1>4, <2>1, <2>2, NewsGrows DEF SettleInv
  <2>4. SeenInv'
    BY <1>2, <1>3, <1>4, <2>1, <2>2, SeenGrows DEF SettleInv
  <2>. QED
    BY <2>3, <2>4 DEF SettleInv
<1>6. CASE Delete(b)
  <2>. DEFINE m == [model EXCEPT ![b].there = FALSE]
  <2>1. Emits(m, removed)
    BY <1>6 DEF Delete, removed
  <2>2. /\ m \in [Bodies -> Parts] /\ ~m[b].there
        /\ \A d \in Bodies : d # b => m[d].there = model[d].there /\ m[d].mesh = model[d].mesh
    BY <1>1 DEF Parts
  <2>. HIDE DEF m
  <2>3. NewsInv'
    BY <1>2, <1>3, <1>4, <2>1, <2>2, NewsGrows DEF SettleInv
  <2>4. SeenInv'
    BY <1>2, <1>3, <1>4, <2>1, <2>2, SeenGrows DEF SettleInv
  <2>. QED
    BY <2>3, <2>4 DEF SettleInv
<1>7. CASE Restore(b)
  <2>. DEFINE m == [model EXCEPT ![b].there = TRUE, ![b].mesh = @ + 1]
  <2>1. Emits(m, changed) /\ model[b].mesh < MaxMesh
    BY <1>7 DEF Restore, changed
  <2>2. /\ m \in [Bodies -> Parts] /\ m[b].there
        /\ \A d \in Bodies : d # b => m[d].there = model[d].there /\ m[d].mesh = model[d].mesh
    <3>1. model[b] \in Parts /\ model[b].mesh + 1 \in 0 .. MaxMesh
      BY <1>1, <2>1 DEF Parts
    <3>2. [model[b] EXCEPT !.there = TRUE, !.mesh = @ + 1] \in Parts
          /\ [model[b] EXCEPT !.there = TRUE, !.mesh = @ + 1].there
      BY <3>1 DEF Parts
    <3>3. m = [model EXCEPT ![b] = [model[b] EXCEPT !.there = TRUE, !.mesh = @ + 1]]
      BY <1>1, <3>1 DEF Parts
    <3>. HIDE DEF m
    <3>. QED
      BY <1>1, <3>2, <3>3
  <2>. HIDE DEF m
  <2>3. NewsInv'
    BY <1>2, <1>3, <1>4, <2>1, <2>2, NewsGrows DEF SettleInv
  <2>4. SeenInv'
    BY <1>2, <1>3, <1>4, <2>1, <2>2, SeenGrows DEF SettleInv
  <2>. QED
    BY <2>3, <2>4 DEF SettleInv
<1>. QED
  BY <1>5, <1>6, <1>7

(* An optimistic write.                                                    *)
LEMMA DispatchSettles ==
    ASSUME WholeInv, WholeInv', TokensApart(view'), SettleInv, NEW b \in Bodies,
           NEW field, NEW value,
           (field = "visible" /\ value \in BOOLEAN) \/ (field = "color" /\ value \in Hues),
           Dispatch(b, field, value)
    PROVE  SettleInv'
<1>. DEFINE bodies == Write(store.bodies, b, field, value)
<1>1. StoreWrite(store.rev, bodies) /\ UNCHANGED <<model, revision, channel, pull, isolated, mounted>>
  BY DEF Dispatch
<1>2. store.bodies \in Partial(Rows) /\ store.rev \in Nat
  BY DEF WholeInv, BackendKind
<1>3. bodies \in Partial(Rows) /\ DOMAIN bodies = DOMAIN store.bodies
  BY <1>2, WriteIs DEF Write
<1>. HIDE DEF bodies
<1>4. store'.rev = store.rev /\ store'.bodies = bodies
  BY <1>1 DEF StoreWrite
<1>5. NewsInv'
  BY <1>1, <1>2, <1>3, <1>4, NewsStays DEF SettleInv
<1>6. \A d : Coming(d)' <=> Coming(d)
  BY <1>1 DEF Coming
<1>7. SeenInv'
  BY <1>1, <1>3, <1>6, StoreSeen DEF SettleInv
<1>. QED
  BY <1>5, <1>7 DEF SettleInv

(* The backend's answer to it.                                             *)
LEMMA HandleSettles ==
    ASSUME WholeInv, StoreInv, SettleInv, NEW c \in commands, HandleCommand(c)
    PROVE  SettleInv'
<1>1. /\ c \in Commands /\ model \in [Bodies -> Parts]
      /\ UNCHANGED <<pull, store, view, mounted>> /\ store.rev \in Nat
  BY DEF HandleCommand, WholeInv, BackendKind
<1>2. c.body \in Bodies
  BY <1>1 DEF Commands
<1>3. CASE model[c.body].there
  <2>. DEFINE m == [model EXCEPT ![c.body][c.field] = c.value]
  <2>1. Emits(m, <<>>)
    BY <1>3 DEF HandleCommand
  <2>2. /\ m \in [Bodies -> Parts]
        /\ \A e \in Bodies : m[e].there = model[e].there /\ m[e].mesh = model[e].mesh
    <3>1. model[c.body] \in Parts
      BY <1>1, <1>2
    <3>2. CASE c.field = "visible" /\ c.value \in BOOLEAN
      BY <1>1, <1>2, <3>1, <3>2 DEF Parts
    <3>3. CASE c.field = "color" /\ c.value \in Hues
      BY <1>1, <1>2, <3>1, <3>3 DEF Parts
    <3>. QED
      BY <1>1, <3>2, <3>3 DEF Commands
  <2>. HIDE DEF m
  <2>3. <<>> \in Seq(Changes) /\ DOMAIN <<>> = {}
    OBVIOUS
  <2>4. NewsInv'
    BY <1>1, <2>1, <2>2, <2>3, NewsGrows DEF SettleInv
  <2>5. SeenInv'
    BY <1>1, <2>1, <2>2, <2>3, SeenGrows DEF SettleInv
  <2>. QED
    BY <2>4, <2>5 DEF SettleInv
<1>4. CASE ~model[c.body].there
  <2>1. UNCHANGED <<model, channel>>
    BY <1>4 DEF HandleCommand
  <2>2. NewsInv' /\ SeenInv'
    BY <1>1, <2>1, NewsStays, SeenStays DEF SettleInv
  <2>. QED
    BY <2>2 DEF SettleInv
<1>. QED
  BY <1>3, <1>4

(* Its settlement.                                                         *)
LEMMA ResultSettles ==
    ASSUME WholeInv, WholeInv', TokensApart(view'), InTime, SettleInv, NEW c \in commands, CommandResult(c)
    PROVE  SettleInv'
<1>. DEFINE undone == Write(store.bodies, c.body, c.field, c.before)
<1>1. /\ c \in Commands /\ c.rev \in Nat /\ store.bodies \in Partial(Rows) /\ store.rev \in Nat
      /\ UNCHANGED <<model, revision, channel, pull, isolated, mounted>>
  BY DEF CommandResult, WholeInv, BackendKind, Commands
<1>2. (c.field = "visible" /\ c.before \in BOOLEAN) \/ (c.field = "color" /\ c.before \in Hues)
  BY <1>1 DEF Commands
<1>3. undone \in Partial(Rows) /\ DOMAIN undone = DOMAIN store.bodies
  BY <1>1, <1>2, WriteIs DEF Write
<1>4. PICK rev \in Nat, bodies \in Partial(Rows) :
        /\ StoreWrite(rev, bodies) /\ DOMAIN bodies = DOMAIN store.bodies
        /\ pull.answers # {} => rev >= store.rev
  <2>1. CASE c.answer = "done"
    <3>1. StoreWrite(c.rev, store.bodies) /\ (c.rev < store.rev => pull.answers = {})
      BY <2>1 DEF CommandResult, InTime
    <3>. QED
      BY <1>1, <3>1
  <2>2. CASE c.answer # "done"
    <3>1. StoreWrite(store.rev, undone)
      BY <2>2 DEF CommandResult
    <3>. HIDE DEF undone
    <3>. QED
      BY <1>1, <1>3, <3>1
  <2>. QED
    BY <2>1, <2>2
<1>5. store'.rev = rev /\ store'.bodies = bodies
  BY <1>4 DEF StoreWrite
<1>6. NewsInv'
  BY <1>1, <1>4, <1>5, NewsStays DEF SettleInv
<1>7. \A d : Coming(d)' <=> Coming(d)
  BY <1>1 DEF Coming
<1>8. SeenInv'
  BY <1>1, <1>4, <1>7, StoreSeen DEF SettleInv
<1>. QED
  BY <1>6, <1>8 DEF SettleInv

(* An event.                                                               *)
LEMMA EventSettles ==
    ASSUME WholeInv, WholeInv', TokensApart(view'), StoreInv, SettleInv, DeliverEvent
    PROVE  SettleInv'
<1>. DEFINE E == Projections \cup Changes
            e == Head(channel)
<1>1. /\ channel \in Seq(E) /\ channel # <<>> /\ channel' = Tail(channel) /\ UNCHANGED <<model, pull, mounted>>
      /\ IF e.type = "changed" THEN OnDocumentChanged(e) ELSE ApplyProjection(e)
  BY DEF DeliverEvent, WholeInv, BackendKind
<1>2. /\ DOMAIN channel = 1 .. Len(channel) /\ Len(channel) \in Nat \ {0} /\ e = channel[1] /\ e \in E
      /\ DOMAIN channel' = 1 .. Len(channel) - 1
      /\ \A i \in 1 .. Len(channel) - 1 : channel'[i] = channel[i + 1]
  BY <1>1, EmptySeq, LenProperties, HeadTailProperties, ElementOfSeq
<1>. HIDE DEF e
<1>3. \A i \in DOMAIN channel : i # 1 => \E j \in DOMAIN channel' : channel'[j] = channel[i]
  <2>. SUFFICES ASSUME NEW i \in DOMAIN channel, i # 1 PROVE \E j \in DOMAIN channel' : channel'[j] = channel[i]
    OBVIOUS
  <2>1. i - 1 \in 1 .. Len(channel) - 1 /\ (i - 1) + 1 = i
    BY <1>2
  <2>. QED
    BY <1>2, <2>1
<1>4. NewsInv'
  BY NewsHeard DEF SettleInv
<1>5. CASE e.type = "changed"
  <2>1. e \in Changes /\ OnDocumentChanged(e)
    BY <1>1, <1>2, <1>5 DEF Projections
  <2>2. SeenInv'
    BY <1>1, <1>2, <1>3, <2>1, ChangeSeen DEF SettleInv
  <2>. QED
    BY <1>4, <2>2 DEF SettleInv
<1>6. CASE e.type # "changed"
  <2>1. e \in Projections /\ ApplyProjection(e)
    BY <1>1, <1>2, <1>6 DEF Changes
  <2>2. \A b \in Bodies, i \in DOMAIN channel : Removes(channel[i], b) =>
          \E j \in DOMAIN channel' : Removes(channel'[j], b)
    BY <1>2, <1>3, <1>6 DEF Removes
  <2>3. \A b \in Bodies : Coming(b) => Coming(b)'
    BY <1>2, <1>3, <1>6 DEF Coming, Renews
  <2>4. ASSUME NEW b \in Bodies, model[b].there, ~Coming(b)'
        PROVE  b \in DOMAIN e.bodies
    <3>1. ~Coming(b)
      BY <2>3, <2>4
    <3>2. ~Lacks(channel[1], b)
      BY <1>2, <2>4, <3>1 DEF SettleInv, NewsInv, DeniedIsRenewed, Coming
    <3>. QED
      BY <1>2, <2>1, <3>2 DEF Lacks, Projections
  <2>5. SeenInv'
    BY <1>1, <2>1, <2>2, <2>3, <2>4, ProjectionSeen DEF SettleInv
  <2>. QED
    BY <1>4, <2>5 DEF SettleInv
<1>. QED
  BY <1>5, <1>6

(* The answer of the pull is given.                                        *)
LEMMA AnswerSettles ==
    ASSUME WholeInv, SettleInv, AnswerPull
    PROVE  SettleInv'
<1>. DEFINE e == ProjectionEvent(model, revision)
<1>1. pull' = [asked |-> FALSE, answers |-> {e}] /\ UNCHANGED <<model, channel, store, view, mounted>>
      /\ store.rev \in Nat
  BY DEF AnswerPull, WholeInv, BackendKind
<1>2. \A b \in Bodies : b \notin DOMAIN e.bodies => ~model[b].there
  BY ProjectionIs DEF ProjectionEvent
<1>. HIDE DEF e
<1>3. NewsInv' /\ SeenInv'
  BY <1>1, <1>2, NewsStays, SeenStays DEF SettleInv
<1>. QED
  BY <1>3 DEF SettleInv

(* It takes no body away that is there.                                    *)
LEMMA PullSettles ==
    ASSUME WholeInv, WholeInv', TokensApart(view'), StoreInv, SettleInv, DeliverPull
    PROVE  SettleInv'
<1>1. PICK p \in pull.answers : ApplyProjection(p) /\ UNCHANGED <<model, channel, mounted>>
  BY DEF DeliverPull
<1>2. p \in Projections
  BY DEF WholeInv, BackendKind
<1>3. \A b : Coming(b)' <=> Coming(b)
  BY <1>1 DEF Coming
<1>4. ASSUME NEW b \in Bodies, model[b].there, ~Coming(b)
      PROVE  b \in DOMAIN p.bodies \/ b \notin DOMAIN store.bodies \/ p.rev < store.rev
  <2>1. ~LackedAfter(0, b, p.rev)
    BY <1>4 DEF LackedAfter, SettleInv, NewsInv, DeniedIsRenewed, Coming
  <2>. QED
    BY <1>4, <2>1 DEF SettleInv, NewsInv, PullIsBehind
<1>5. SeenInv'
  BY <1>1, <1>2, <1>3, <1>4, ProjectionSeen DEF SettleInv
<1>. QED
  BY <1>5, NewsPulled DEF SettleInv

(* The steps of the view alone.                                            *)
LEMMA ViewSettles ==
    ASSUME WholeInv, WholeInv', TokensApart(view'), NoStaleColors, "token_reuse" \notin Rare, SettleInv,
           \/ Attach \/ Detach \/ \E S \in SUBSET Bodies : ToggleIsolate(S)
           \/ \E f \in view.fetches : AnswerMesh(f) \/ FailMesh(f) \/ ResolveMesh(f) \/ ResolveFaceColors(f)
           \/ \E t \in view.timers : FireRetry(t)
    PROVE  SettleInv'
<1>1. UNCHANGED <<model, channel, store>> /\ (pull' = pull \/ pull'.answers = {}) /\ store.rev \in Nat
  <2>1. store.rev \in Nat
    BY DEF WholeInv, BackendKind
  <2>2. CASE Attach
    BY <2>1, <2>2 DEF Attach, transport
  <2>3. CASE Detach
    BY <2>1, <2>3 DEF Detach, transport
  <2>4. CASE \E S \in SUBSET Bodies : ToggleIsolate(S)
    BY <2>1, <2>4 DEF ToggleIsolate, transport
  <2>5. CASE \E f \in view.fetches : AnswerMesh(f) \/ FailMesh(f) \/ ResolveMesh(f) \/ ResolveFaceColors(f)
    BY <2>1, <2>5 DEF AnswerMesh, FailMesh, ResolveMesh, ResolveFaceColors, transport
  <2>6. CASE \E t \in view.timers : FireRetry(t)
    BY <2>1, <2>6 DEF FireRetry, transport
  <2>. QED
    BY <2>2, <2>3, <2>4, <2>5, <2>6
<1>2. NewsInv'
  BY <1>1, NewsStays DEF SettleInv
<1>3. SeenInv'
  <2>1. CASE Attach
    BY <2>1, AttachSeen
  <2>2. CASE Detach
    BY <2>2 DEF Detach, SeenInv, HeldIsThere, StillIsRight
  <2>3. CASE \E S \in SUBSET Bodies : ToggleIsolate(S)
    BY <2>3, ToggleSeen DEF SettleInv
  <2>4. CASE \E f \in view.fetches : AnswerMesh(f) \/ FailMesh(f) \/ ResolveMesh(f) \/ ResolveFaceColors(f)
    BY <2>4, LoadStepSeen DEF SettleInv
  <2>5. CASE \E t \in view.timers : FireRetry(t)
    BY <2>5, RetrySeen DEF SettleInv
  <2>. QED
    BY <2>1, <2>2, <2>3, <2>4, <2>5
<1>. QED
  BY <1>2, <1>3 DEF SettleInv

(* Every step keeps it.                                                    *)
LEMMA SettleStays ==
    ASSUME WholeInv, WholeInv', TokensApart(view'), StoreInv, InTime, NoStaleColors, "token_reuse" \notin Rare,
           SettleInv, [Next]_vars
    PROVE  SettleInv'
<1>1. CASE \E b \in Bodies : Publish(b) \/ Delete(b) \/ Restore(b)
  BY <1>1, PublishSettles
<1>2. CASE \E b \in Bodies : SetBodyVisible(b) \/ SetBodyColor(b)
  BY <1>2, DispatchSettles DEF SetBodyVisible, SetBodyColor, Hues
<1>3. CASE DeliverEvent \/ AnswerPull \/ DeliverPull
  BY <1>3, EventSettles, AnswerSettles, PullSettles
<1>4. CASE \E c \in commands : HandleCommand(c) \/ CommandResult(c)
  BY <1>4, HandleSettles, ResultSettles
<1>5. CASE \/ Attach \/ Detach \/ \E S \in SUBSET Bodies : ToggleIsolate(S)
           \/ \E f \in view.fetches : AnswerMesh(f) \/ FailMesh(f) \/ ResolveMesh(f) \/ ResolveFaceColors(f)
           \/ \E t \in view.timers : FireRetry(t)
  BY <1>5, ViewSettles
<1>6. CASE UNCHANGED vars
  <2>1. UNCHANGED <<model, channel, store, pull, view, mounted>> /\ store.rev \in Nat
    BY <1>6 DEF vars, transport, WholeInv, BackendKind
  <2>2. NewsInv' /\ SeenInv'
    BY <2>1, NewsStays, SeenStays DEF SettleInv
  <2>. QED
    BY <2>2 DEF SettleInv
<1>. QED
  BY <1>1, <1>2, <1>3, <1>4, <1>5, <1>6 DEF Next, Step

(* It holds at first.                                                      *)
LEMMA SettleInit == Init => SettleInv
<1>. SUFFICES ASSUME Init PROVE SettleInv
  OBVIOUS
<1>1. /\ channel = <<>> /\ pull.answers = {} /\ mounted = "new"
      /\ \A b \in Bodies : model[b].there
  BY DEF Init, NoPull
<1>2. DOMAIN store.bodies \subseteq Bodies
  BY WholeInit, PartialIs DEF WholeInv, BackendKind
<1>. QED
  BY <1>1, <1>2 DEF SettleInv, NewsInv, DeniedIsRenewed, PullIsBehind, StoreHasHeard, SeenInv, HeldIsThere,
     StillIsRight

(* When nothing is under way, a mounted view shows the document: each      *)
(* visible body with its latest mesh and colour, but for those whose load  *)
(* failed and those that changed while they were hidden, and none that is  *)
(* gone; for any bodies, colours and bounds, and any order of events,      *)
(* answers, failures, retries and edits without a rare circumstance.       *)
THEOREM ViewShowsDocument ==
    ASSUME "stale_colors" \notin Rare, "token_reuse" \notin Rare,
           "late_result" \notin Rare, "late_refusal" \notin Rare
    PROVE  Spec => []SettledViewIsDocument
<1>. DEFINE Inv == WholeInv /\ AgeInv /\ StoreInv /\ SettleInv
<1>1. Init => Inv
  BY WholeInit, StoreInit, SettleInit
<1>2. Inv /\ [Next]_vars => Inv'
  <2>. SUFFICES ASSUME Inv, [Next]_vars PROVE Inv'
    OBVIOUS
  <2>1. WholeInv' /\ StoreInv'
    BY WholeStays, StoreStays DEF InTime
  <2>2. AgeInv'
    BY AgeStays DEF NoStaleColors
  <2>3. TokensApart(view')
    BY <2>2 DEF AgeInv, TokensApart
  <2>4. SettleInv'
    BY <2>1, <2>3, SettleStays DEF InTime, NoStaleColors
  <2>. QED
    BY <2>1, <2>2, <2>4
<1>3. Inv => SettledViewIsDocument
  <2>. SUFFICES ASSUME Inv, Quiet, mounted = "on"
                PROVE  /\ DOMAIN view.scene \subseteq DOMAIN store.bodies
                       /\ \A b \in DOMAIN store.bodies \ (view.failed \cup view.skipped) :
                            model[b].visible /\ model[b].mesh > 0 =>
                              /\ b \in DOMAIN view.scene
                              /\ view.scene[b].mesh = model[b].mesh /\ view.scene[b].color = model[b].color
    BY DEF SettledViewIsDocument
  <2>1. channel = <<>> /\ view.fetches = {} /\ DOMAIN channel = {}
    BY DEF Quiet
  <2>2. store.bodies = Projection(model)
    BY StoreSettled DEF SettledStoreIsModel
  <2>3. /\ DOMAIN store.bodies = {b \in Bodies : model[b].there}
        /\ \A b \in DOMAIN store.bodies :
             store.bodies[b].visible = model[b].visible /\ store.bodies[b].color = model[b].color
    <3>1. /\ DOMAIN Projection(model) = {b \in Bodies : model[b].there}
          /\ \A b \in DOMAIN Projection(model) :
               Projection(model)[b] = [visible |-> model[b].visible, color |-> model[b].color]
      BY ProjectionIs
    <3>2. ASSUME NEW b \in DOMAIN store.bodies
          PROVE  store.bodies[b].visible = model[b].visible /\ store.bodies[b].color = model[b].color
      <4>1. store.bodies[b] = [visible |-> model[b].visible, color |-> model[b].color]
        BY <2>2, <3>1
      <4>. QED
        BY <4>1
    <3>. QED
      BY <2>2, <3>1, <3>2
  <2>4. DOMAIN view.scene \subseteq Bodies
    BY PartialIs DEF WholeInv, ViewKind, Views
  <2>5. \A b \in DOMAIN view.scene : model[b].there
    BY <2>1, <2>4 DEF SettleInv, SeenInv, HeldIsThere, Holds
  <2>6. \A b \in DOMAIN store.bodies \ view.skipped : Right(view, store.bodies, model[b].mesh, b)
    BY <2>1, <2>3 DEF SettleInv, SeenInv, StillIsRight, Still, Coming
  <2>7. \A b : ~Served(view, b)
    BY <2>1 DEF Served, LoadsOf
  <2>8. ASSUME NEW b \in DOMAIN store.bodies \ (view.failed \cup view.skipped),
               model[b].visible, model[b].mesh > 0
        PROVE  /\ b \in DOMAIN view.scene
               /\ view.scene[b].mesh = model[b].mesh /\ view.scene[b].color = model[b].color
    <3>1. Shows(store.bodies, b) /\ ColorOf(store.bodies, b) = model[b].color
      BY <2>3, <2>8 DEF Shows, ColorOf
    <3>. QED
      BY <2>6, <2>7, <2>8, <3>1 DEF Right
  <2>. QED
    BY <2>3, <2>4, <2>5, <2>8
<1>. QED
  BY <1>1, <1>2, <1>3, PTL DEF Spec

=============================================================================
