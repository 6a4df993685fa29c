--------------------------- MODULE SketchSession ---------------------------
(***************************************************************************)
(* A sketch session from both ends: the controller and the serialized      *)
(* mutation queue of the frontend, with its sketch-scoped undo and its     *)
(* id-map (SketchController.ts, sketchService.ts, sketchStore.ts,          *)
(* tauriClient.ts, sketchWireMap.ts), and the runtime's session slot, drag *)
(* gesture, undo stack and Sketch record (document_runtime.rs, session.rs, *)
(* undo.rs).                                                               *)
(*                                                                         *)
(* The runtime handles commands in the order they are sent and answers in  *)
(* that order, so a command takes effect when it is sent and what stays    *)
(* open is when its answer is heard.                                       *)
(***************************************************************************)
EXTENDS Integers, Sequences, FiniteSets, SequencesExt, TLC

CONSTANTS Sketches,  \* the sketches of the document
          Verbs,     \* the kinds of sketch edit a run offers the user
          FreeDof,   \* the constraints a sketch takes before one more conflicts
          UndoCap,   \* the depth of the runtime's undo stack, and of the store's
          MaxEdits,  \* bound: the edits the user asks for, drags included
          MaxQueue,  \* bound: the edits waiting for their turn
          MaxVisits, \* bound: the sketches the user enters
          MaxModel,  \* bound: undo, redo and other edits in model mode
          Rare       \* the rare circumstances a run allows (see the README)

ASSUME SketchNames == "none" \notin Sketches
ASSUME SketchBounds ==
  /\ {FreeDof, UndoCap, MaxEdits, MaxQueue, MaxVisits, MaxModel} \subseteq Nat
  /\ Verbs \subseteq {"draw", "dim", "value", "delete", "unconstrain", "trim", "extend", "copy",
                      "flip", "undo", "redo"}
  /\ Rare \subseteq {"drag_race", "undo_drag", "solver_fails", "half_undo", "early_undo",
                     "entry_act", "fast_reenter", "stale_pick"}

VARIABLES lane,    \* the controller: [mode, target, pending, closing]
          store,   \* sketchStore: [s, c, undo, redo, last]
          queue,   \* the edits waiting in the mutation chain
          turn,    \* the edit whose turn it is, or NoTurn
          maps,    \* the id-map of each sketch
          drag,    \* the controller's drag: [phase, e, base, up]
          answers, \* the answers under way, in the order of their commands
          be,      \* the runtime: [doc, undo, redo, evicted, record, slot, gesture]
          ids,     \* the ids minted so far
          spent    \* the user's acts so far, for the bounds

vars == <<lane, store, queue, turn, maps, drag, answers, be, ids, spent>>

None == "none"
Empty == [ents |-> <<>>, cons |-> <<>>]
NoTurn == [v |-> [kind |-> None]]
NoDrag == [phase |-> "no", e |-> 0, base |-> <<>>, up |-> <<>>]
Closed == [s |-> None, c |-> Empty, undo |-> <<>>, redo |-> <<>>, last |-> 0]

Only(f, S) == [x \in DOMAIN f \cap S |-> f[x]]
Without(f, S) == Only(f, DOMAIN f \ S)
Front1(q) == SubSeq(q, 1, Len(q) - 1)
Top(q, P(_)) == q # <<>> /\ P(Last(q))

(* -- The runtime ---------------------------------------------------------- *)

\* Mutant of PushCommitted: an eviction past the cap is not counted.
PushUncounted(b, e) ==
  LET u == Append(b.undo, e)
  IN [b EXCEPT !.undo = IF Len(u) > UndoCap THEN Tail(u) ELSE u, !.redo = <<>>]

\* Mutant of PushCommitted: the stack has no cap.
PushUncapped(b, e) == [b EXCEPT !.undo = Append(@, e), !.redo = <<>>]

\* A committed step clears redo and evicts the oldest step past the cap.
PushCommitted(b, e) ==
  LET u == Append(b.undo, e)
  IN [b EXCEPT !.undo = IF Len(u) > UndoCap THEN Tail(u) ELSE u, !.redo = <<>>,
               !.evicted = @ + (IF Len(u) > UndoCap THEN 1 ELSE 0)]

\* A sketch edit or a drag; one that changes nothing sends no op.
SketchEdit(b, s, kind, after) ==
  PushCommitted([b EXCEPT !.doc[s] = after],
                [kind |-> kind, s |-> s, prior |-> <<b.doc[s]>>, after |-> <<after>>])

\* The slot of a session already open on this sketch is kept, unless the stack shrank below it.
EnterSketch(b, s) ==
  IF Top(b.slot, LAMBDA x : x.s = s /\ x.mark <= Len(b.undo)) THEN b
  ELSE [b EXCEPT !.slot = <<[s |-> s, prior |-> b.doc[s], mark |-> Len(b.undo),
                             evicted |-> b.evicted]>>]

\* The session's steps become one: all of them or none, and nothing if they cancel out.
SquashSession(b, s) ==
  IF ~Top(b.slot, LAMBDA x : x.s = s) THEN b
  ELSE LET x == Head(b.slot)
           bare == [b EXCEPT !.slot = <<>>]
           steps == SubSeq(b.undo, x.mark + 1, Len(b.undo))
       IN IF \/ steps = <<>> \/ x.evicted # b.evicted
             \/ \E i \in DOMAIN steps : steps[i].s # s \/ steps[i].kind \notin {"edit", "drag", "net"}
          THEN bare
          ELSE LET cut == [bare EXCEPT !.undo = SubSeq(@, 1, x.mark), !.redo = <<>>]
               IN IF x.prior = b.doc[s] THEN cut
                  ELSE PushCommitted(cut, [kind |-> "net", s |-> s, prior |-> <<x.prior>>,
                                           after |-> <<b.doc[s]>>])

\* Mints or refreshes the sketch's timeline record: a step of its own.
UpsertSketchRecord(b, s) ==
  IF b.record[s] = <<b.doc[s]>> THEN b
  ELSE PushCommitted([b EXCEPT !.record[s] = <<b.doc[s]>>],
                     [kind |-> "record", s |-> s, prior |-> b.record[s], after |-> <<b.doc[s]>>])

\* Mutant of CancelSketch: the gesture is left to its owner.
CancelKeepsGesture(b, s) == SquashSession(b, s)

\* Drops the gesture without committing it, and squashes.
CancelSketch(b, s) == SquashSession([b EXCEPT !.gesture = <<>>], s)

\* Mutant of FinishSketch: no record.
FinishUnrecorded(b, s) == SquashSession(b, s)

\* Drops this sketch's gesture, squashes (nothing after a cancel), refreshes the record.
FinishSketch(b, s) ==
  UpsertSketchRecord(SquashSession(
    [b EXCEPT !.gesture = IF Top(@, LAMBDA g : g.s = s) THEN <<>> ELSE @], s), s)

\* The pre-drag sketch is kept until pointer-up; an older gesture is replaced.
BeginGesture(b, s, u) == [b EXCEPT !.gesture = <<[s |-> s, u |-> u, before |-> b.doc[s]]>>]

\* Writes the kept sketch back with the dragged entity moved, as one step.
EndGesture(b, to) ==
  IF b.gesture = <<>> THEN b
  ELSE LET g == Head(b.gesture)
       IN SketchEdit([b EXCEPT !.gesture = <<>>], g.s, "drag",
            [g.before EXCEPT !.ents = [u \in DOMAIN @ |->
               IF u = g.u THEN [@[u] EXCEPT !.at = to] ELSE @[u]]])

Restored(b, e, value) ==
  IF e.kind = "model" THEN b
  ELSE IF e.kind = "record" THEN [b EXCEPT !.record[e.s] = value]
  ELSE [b EXCEPT !.doc[e.s] = Head(value)]

\* A session entered above what is left of the stack no longer knows its steps.
DropStaleSession(b) ==
  IF Top(b.slot, LAMBDA x : x.mark > Len(b.undo)) THEN [b EXCEPT !.slot = <<>>] ELSE b

\* Stands down while a gesture is open.
Undo(b) ==
  IF b.gesture # <<>> \/ b.undo = <<>> THEN b
  ELSE LET e == Last(b.undo)
       IN DropStaleSession([Restored(b, e, e.prior) EXCEPT
            !.undo = Front1(@), !.redo = Append(@, e)])

Redo(b) ==
  IF b.gesture # <<>> \/ b.redo = <<>> THEN b
  ELSE LET e == Last(b.redo)
           u == Append(b.undo, e)
       IN DropStaleSession([Restored(b, e, e.after) EXCEPT
            !.redo = Front1(@), !.undo = IF Len(u) > UndoCap THEN Tail(u) ELSE u,
            !.evicted = @ + (IF Len(u) > UndoCap THEN 1 ELSE 0)])

(* -- The id-map and the marshalled upsert ---------------------------------- *)

NoMap == [ents |-> <<>>, cons |-> <<>>]

\* Mutant of SeedIdMap: bindings of an earlier session stay.
SeedOnTop(m, c) ==
  [ents |-> [u \in DOMAIN c.ents |-> [u |-> u, flag |-> c.ents[u].flag]] @@ m.ents,
   cons |-> [k \in DOMAIN c.cons |-> [u |-> k, val |-> c.cons[k].val]] @@ m.cons]

\* On entry the map is rebuilt from the runtime's answer: every id names itself.
SeedIdMap(m, c) ==
  [ents |-> [u \in DOMAIN c.ents |-> [u |-> u, flag |-> c.ents[u].flag]],
   cons |-> [k \in DOMAIN c.cons |-> [u |-> k, val |-> c.cons[k].val]]]

\* Fresh ids for the members of S, in order.
Minted(S, n) == [f \in S |-> n + Cardinality({g \in S : g <= f})]

NewEnts(m, w) == DOMAIN w.ents \ DOMAIN m.ents
\* A constraint on an entity the map does not know has no wire form and is left out.
NewCons(m, w) == {k \in DOMAIN w.cons \ DOMAIN m.cons : w.cons[k].on \in DOMAIN w.ents}
MintCount(m, w) == Cardinality(NewEnts(m, w)) + Cardinality(NewCons(m, w))

\* The map after contents w are sent, with fresh ids from n on.
Marshalled(m, w, n) ==
  LET ue == Minted(NewEnts(m, w), n)
      uc == Minted(NewCons(m, w), n + Cardinality(NewEnts(m, w)))
  IN [ents |-> [f \in DOMAIN w.ents |->
                  [u |-> IF f \in DOMAIN m.ents THEN m.ents[f].u ELSE ue[f], flag |-> w.ents[f].flag]],
      cons |-> [k \in (DOMAIN m.cons \cap DOMAIN w.cons) \cup NewCons(m, w) |->
                  [u |-> IF k \in DOMAIN m.cons THEN m.cons[k].u ELSE uc[k], val |-> w.cons[k].val]]]

\* The sketch d once the ops of that diff are applied: removals (with the constraints
\* they carry), additions, and in place only what the map remembers having sent.
Applied(d, m, w, draft) ==
  LET gone == {m.ents[f].u : f \in DOMAIN m.ents \ DOMAIN w.ents}
      cut == {m.cons[k].u : k \in DOMAIN m.cons \ DOMAIN w.cons}
      added == {draft.ents[f].u : f \in NewEnts(m, w)}
      tied == {draft.cons[k].u : k \in NewCons(m, w)}
      ent(u) == CHOOSE f \in DOMAIN draft.ents : draft.ents[f].u = u
      con(u) == CHOOSE k \in DOMAIN draft.cons : draft.cons[k].u = u
      flipped == {m.ents[f].u : f \in {x \in DOMAIN m.ents \cap DOMAIN w.ents :
                                         m.ents[x].flag # w.ents[x].flag}}
      set == {m.cons[k].u : k \in {x \in DOMAIN m.cons \cap DOMAIN w.cons :
                                     m.cons[x].val # w.cons[x].val}}
      keptC == {y \in DOMAIN d.cons \ cut : d.cons[y].on \notin gone}
  IN [ents |-> [u \in (DOMAIN d.ents \ gone) \cup added |->
                  IF u \in added THEN w.ents[ent(u)]
                  ELSE IF u \in flipped THEN [d.ents[u] EXCEPT !.flag = ~@] ELSE d.ents[u]],
      cons |-> [y \in keptC \cup tied |->
                  IF y \in tied THEN [on |-> draft.ents[w.cons[con(y)].on].u, val |-> w.cons[con(y)].val]
                  ELSE IF y \in set THEN [d.cons[y] EXCEPT !.val = w.cons[con(y)].val] ELSE d.cons[y]]]

(* -- The edits ------------------------------------------------------------- *)

Conflicts(c) == Cardinality(DOMAIN c.cons) > FreeDof
On(c, E) == {k \in DOMAIN c.cons : c.cons[k].on \in E}
Added(c, f, ent) == [c EXCEPT !.ents = (f :> ent) @@ @]
Tied(c, k, f) == [c EXCEPT !.cons = (k :> [on |-> f, val |-> 0]) @@ @]
Fresh == [at |-> 0, flag |-> FALSE]

\* The edits the user can ask for with contents c on screen.
Offered(c) ==
  {v \in [kind : {"draw"}, on : {0}, infer : BOOLEAN, dim : BOOLEAN]
         \cup [kind : {"dim", "delete", "trim", "extend", "copy", "flip"}, on : DOMAIN c.ents]
         \cup [kind : {"value", "unconstrain"}, on : DOMAIN c.cons]
         \cup [kind : {"undo", "redo"}, on : {0}] : v.kind \in Verbs}

\* Whether the edit finds what it names in the contents its turn meets.
Applies(v, st) ==
  CASE v.kind \in {"delete", "trim", "extend", "flip"} -> v.on \in DOMAIN st.c.ents
    [] v.kind = "unconstrain" -> v.on \in DOMAIN st.c.cons
    [] v.kind = "undo" -> st.undo # <<>>
    [] v.kind = "redo" -> st.redo # <<>>
    [] OTHER -> TRUE

\* A drawn entity, with the constraint it was inferred to have and the dimension typed for it.
Drawn(c, v, n) ==
  LET bare == Added(c, n + 1, Fresh)
      inferred == IF v.infer THEN Tied(bare, n + 2, n + 1) ELSE bare
  IN IF v.dim THEN Tied(inferred, n + 3, n + 1) ELSE inferred

Dimensioned(c, v, n) == Tied(c, n + 1, v.on)
\* The value of constraint v.on is edited, unless an edit before it took the constraint away.
Revalued(c, v) ==
  [c EXCEPT !.cons = [k \in DOMAIN @ |-> IF k = v.on THEN [@[k] EXCEPT !.val = 1 - @] ELSE @[k]]]
Deleted(c, v) == [ents |-> Without(c.ents, {v.on}), cons |-> Without(c.cons, On(c, {v.on}))]
Unconstrained(c, v) == [c EXCEPT !.cons = Without(@, {v.on})]
\* What is left of a trimmed entity is a new entity, without the old one's constraints.
Trimmed(c, v, n) == Added(Deleted(c, v), n + 1, c.ents[v.on])
\* A mirror image, tied to its source.
Mirrored(c, v, n) == Tied(Added(c, n + 1, Fresh), n + 2, v.on)
Flipped(c, v) == [c EXCEPT !.ents[v.on].flag = ~@]

\* Mutant of Extended: the grown entity keeps its id.
GrownInPlace(c, v, n) == [c EXCEPT !.ents[v.on].at = 1]

\* The upsert diffs entities by id, so a grown entity is a new one and so are the constraints
\* that follow it.
Extended(c, v, n) ==
  LET moved == On(c, {v.on})
      renamed == Minted(moved, n + 1)
  IN [ents |-> (n + 1 :> [c.ents[v.on] EXCEPT !.at = 1]) @@ Without(c.ents, {v.on}),
      cons |-> [k \in Range(renamed) |->
                  [on |-> n + 1, val |-> c.cons[CHOOSE x \in moved : renamed[x] = k].val]]
               @@ Without(c.cons, moved)]

\* The contents edit v asks for, with ids fresh from n on.
Wanted(v, st, n) ==
  CASE v.kind = "draw" -> Drawn(st.c, v, n)
    [] v.kind = "dim" -> Dimensioned(st.c, v, n)
    [] v.kind = "value" -> Revalued(st.c, v)
    [] v.kind = "delete" -> Deleted(st.c, v)
    [] v.kind = "unconstrain" -> Unconstrained(st.c, v)
    [] v.kind = "trim" -> Trimmed(st.c, v, n)
    [] v.kind = "extend" -> Extended(st.c, v, n)
    [] v.kind = "copy" -> Mirrored(st.c, v, n)
    [] v.kind = "flip" -> Flipped(st.c, v)
    [] v.kind = "undo" -> Last(st.undo)
    [] v.kind = "redo" -> Last(st.redo)

\* What is sent instead when the solve conflicts: the drawn entity without the typed
\* dimension, the sketch without the dimension or constraint just applied.
Fallback(v, st, want, n) ==
  IF v.kind = "draw" /\ v.dim THEN [want EXCEPT !.cons = Without(@, {n + 3})]
  ELSE IF v.kind = "dim" THEN st.c ELSE want

(* -- The store's own undo --------------------------------------------------- *)

Capped(q) == IF Len(q) > UndoCap THEN Tail(q) ELSE q
PopUndo(st) == [st EXCEPT !.undo = Front1(@), !.redo = Capped(Append(@, st.c)), !.last = 0]
PopRedo(st) == [st EXCEPT !.redo = Front1(@), !.undo = Capped(Append(@, st.c)), !.last = 0]

\* A confirmed edit's snapshot; a run of edits of one value keeps the first.
Pushed(st, before, last) ==
  IF last # 0 /\ st.last = last /\ st.undo # <<>> THEN st
  ELSE [st EXCEPT !.undo = Capped(Append(@, before)), !.redo = <<>>, !.last = last]

(* -- Turns of the mutation chain --------------------------------------------- *)

\* The next edit starts in a microtask: the user and the runtime come after it.
Due == turn = NoTurn /\ queue # <<>>
Heard(kind) == ~Due /\ answers # <<>> /\ Head(answers).kind = kind

Idle == turn = NoTurn /\ queue = <<>>
Dragging == drag # NoDrag \/ \E i \in DOMAIN answers : answers[i].kind \in {"begun", "ended"}
Closing == \E i \in DOMAIN answers : answers[i].kind \in {"cancel", "finish"}
Settled == Idle /\ answers = <<>> /\ drag = NoDrag /\ lane.target = None

\* setSession: what was captured under the earlier generation is dropped when it comes back.
Superseded(as) == [i \in DOMAIN as |->
  IF as[i].kind = "ended" THEN [as[i] EXCEPT !.fresh = FALSE] ELSE as[i]]
Stale(t) == IF t = NoTurn THEN t ELSE [t EXCEPT !.fresh = FALSE]

Outcomes(phase) ==
  {"ok"} \cup (IF phase = "try" THEN {"refused"} ELSE {})
         \cup (IF "solver_fails" \in Rare THEN {"broken"} ELSE {})

\* Sends contents w for sketch s; the map the ops were diffed against is kept aside and
\* becomes the map only with a good answer.  Refused: nothing is applied.  Broken: the
\* edit is committed, then the solver fails and the answer is an error.
SendUpsert(t, m, w, n, as) ==
  LET draft == Marshalled(m, w, n)
      after == Applied(be.doc[t.s], m, w, draft)
  IN \E out \in Outcomes(t.phase) :
       /\ be' = IF out = "refused" \/ after = be.doc[t.s] THEN be
                ELSE SketchEdit(be, t.s, "edit", after)
       /\ answers' = Append(as, [kind |-> "upsert", ok |-> out = "ok",
                                 conflict |-> Conflicts(after)])
       /\ turn' = [t EXCEPT !.draft = draft]
       /\ ids' = n + MintCount(m, w)

\* The user asks for an edit: it waits for its turn.
Click(v) ==
  /\ ~Due /\ lane.mode = "sketch" /\ store.s # None
  /\ spent.edits < MaxEdits /\ Len(queue) < MaxQueue
  /\ "drag_race" \in Rare \/ ~Dragging
  /\ "stale_pick" \in Rare \/ v.kind \notin {"dim", "copy"} \/ Idle
  /\ "undo_drag" \in Rare \/ v.kind \notin {"undo", "redo"} \/ \A c \in Range(store.undo \o store.redo) :
       \A f \in DOMAIN c.ents \cap DOMAIN store.c.ents : c.ents[f].at = store.c.ents[f].at
  /\ queue' = Append(queue, v)
  /\ spent' = [spent EXCEPT !.edits = @ + 1]
  /\ UNCHANGED <<lane, store, turn, maps, drag, answers, be, ids>>

\* The next edit reads the session inside its own turn.  An edit that finds no session, or
\* nothing it names, ends at once.
StartTurn ==
  /\ Due
  /\ queue' = Tail(queue)
  /\ LET v == Head(queue)
     IN IF store.s = None \/ ~Applies(v, store)
        THEN UNCHANGED <<store, turn, answers, be, ids>>
        ELSE LET want == Wanted(v, store, ids)
             IN /\ store' = CASE v.kind = "undo" -> PopUndo(store)
                              [] v.kind = "redo" -> PopRedo(store)
                              [] OTHER -> store
                /\ SendUpsert([v |-> v, s |-> store.s, fresh |-> TRUE, phase |-> "try",
                               before |-> store.c, want |-> want,
                               alt |-> Fallback(v, store, want, ids), draft |-> NoMap],
                              maps[store.s], want, ids + 3, answers)
  /\ UNCHANGED <<lane, maps, drag, spent>>

\* A failed undo or redo puts the snapshot back where it was.
Unpopped(st, t) ==
  CASE t.v.kind = "undo" -> [st EXCEPT !.redo = Front1(@), !.undo = Append(@, t.want)]
    [] t.v.kind = "redo" -> [st EXCEPT !.undo = Front1(@), !.redo = Append(@, t.want)]
    [] OTHER -> st

\* What a confirmed edit leaves in the store: the contents sent, and one undo step.  A
\* rejected dimension leaves both as they were; a drawn entity survives its dimension.
Published(st, t) ==
  CASE t.v.kind \in {"undo", "redo"} -> [st EXCEPT !.c = t.want]
    [] t.v.kind = "dim" /\ t.phase = "again" -> st
    [] OTHER -> [Pushed(st, t.before, IF t.v.kind = "value" THEN t.v.on ELSE 0) EXCEPT
                   !.c = IF t.phase = "again" THEN t.alt ELSE t.want]

\* A conflicting solve of an edit that has a fallback sends the fallback.
Retried(t, a) == a.ok /\ a.conflict /\ t.phase = "try" /\ t.alt # t.want

\* The answer of the running edit's upsert.  The map is committed whoever is listening; the
\* store is written only under the generation the turn began in.
TurnAnswered ==
  /\ Heard("upsert")
  /\ LET a == Head(answers)
     IN /\ maps' = IF a.ok THEN [maps EXCEPT ![turn.s] = turn.draft] ELSE maps
        /\ IF turn.fresh /\ Retried(turn, a)
           THEN /\ SendUpsert([turn EXCEPT !.phase = "again"], turn.draft, turn.alt, ids, Tail(answers))
                /\ UNCHANGED store
           ELSE /\ store' = IF ~turn.fresh THEN store
                            ELSE IF a.ok THEN Published(store, turn) ELSE Unpopped(store, turn)
                /\ answers' = IF turn.fresh /\ a.ok THEN Superseded(Tail(answers)) ELSE Tail(answers)
                /\ turn' = NoTurn
                /\ UNCHANGED <<be, ids>>
  /\ UNCHANGED <<lane, queue, drag, spent>>

(* -- Dragging ----------------------------------------------------------------- *)

Forgotten(as) == [i \in DOMAIN as |->
  IF as[i].kind = "begun" THEN [as[i] EXCEPT !.live = FALSE] ELSE as[i]]

\* First move past the threshold: the base is captured and the gesture opened.
BeginSelectDrag(e) ==
  /\ ~Due /\ store.s # None /\ drag = NoDrag /\ spent.edits < MaxEdits
  /\ "drag_race" \in Rare \/ (Idle /\ answers = <<>>)
  /\ e \in DOMAIN maps[store.s].ents
  /\ drag' = [phase |-> "starting", e |-> e, base |-> store.c.ents, up |-> <<>>]
  /\ be' = BeginGesture(be, store.s, maps[store.s].ents[e].u)
  /\ answers' = Append(answers, [kind |-> "begun", live |-> TRUE])
  /\ spent' = [spent EXCEPT !.edits = @ + 1]
  /\ UNCHANGED <<lane, store, queue, turn, maps, ids>>

\* finishDrag: the controller's drag is over before the runtime answers.
FinishDrag(as, to, restore) ==
  /\ be' = EndGesture(be, to)
  /\ answers' = Append(as, [kind |-> "ended", ok |-> be.gesture # <<>>, fresh |-> TRUE, e |-> drag.e,
                            base |-> drag.base, before |-> store.c, to |-> to, restore |-> restore])
  /\ drag' = NoDrag

\* The gesture is open.  A drag torn down meanwhile is closed where it stands; a pointer
\* already up finishes it.
DragBegun ==
  /\ Heard("begun")
  /\ IF ~Head(answers).live
     THEN /\ be' = IF be.gesture = <<>> THEN be
                   ELSE LET g == Head(be.gesture) IN EndGesture(be, g.before.ents[g.u].at)
          /\ answers' = Tail(answers) /\ UNCHANGED drag
     ELSE IF drag.up # <<>>
     THEN FinishDrag(Tail(answers), Head(drag.up).to, Head(drag.up).restore)
     ELSE /\ drag' = [drag EXCEPT !.phase = "dragging"]
          /\ answers' = Tail(answers) /\ UNCHANGED be
  /\ UNCHANGED <<lane, store, queue, turn, maps, ids, spent>>

\* Pointer up at a position, or Esc: the gesture ends where the entity was.
PointerUp(to, restore) ==
  /\ ~Due /\ drag # NoDrag /\ drag.up = <<>>
  /\ restore => to = drag.base[drag.e].at
  /\ IF drag.phase = "dragging" THEN FinishDrag(answers, to, restore)
     ELSE /\ drag' = [drag EXCEPT !.up = <<[to |-> to, restore |-> restore]>>]
          /\ UNCHANGED <<be, answers>>
  /\ UNCHANGED <<lane, store, queue, turn, maps, ids, spent>>

\* The answer, unless another write of the session came first: the entities captured when the
\* drag began, with the entity moved, replace the session's; one undo step unless restored.
DragEnded ==
  /\ Heard("ended")
  /\ LET a == Head(answers)
         moved == [f \in DOMAIN a.base |->
           IF f = a.e /\ a.ok /\ ~a.restore THEN [a.base[f] EXCEPT !.at = a.to] ELSE a.base[f]]
     IN IF ~a.fresh \/ store.s = None
        THEN answers' = Tail(answers) /\ UNCHANGED <<store, turn>>
        ELSE /\ store' = [(IF a.restore THEN store ELSE Pushed(store, a.before, 0)) EXCEPT
                            !.c.ents = moved]
             /\ answers' = Superseded(Tail(answers))
             /\ turn' = Stale(turn)
  /\ UNCHANGED <<lane, queue, maps, drag, be, ids, spent>>

\* Another tool is picked mid-drag: the drag is dropped, the runtime's gesture stays open.
SwitchTool ==
  /\ ~Due /\ drag # NoDrag
  /\ drag' = NoDrag /\ answers' = Forgotten(answers)
  /\ UNCHANGED <<lane, store, queue, turn, maps, be, ids, spent>>

(* -- Entering, leaving and switching ------------------------------------------- *)

\* enter_sketch: a failed solve opens nothing.
SendEnter(s, as) ==
  \E ok \in BOOLEAN :
    /\ be' = IF ok THEN EnterSketch(be, s) ELSE be
    /\ answers' = Append(as, [kind |-> "enter", s |-> s, ok |-> ok, c |-> be.doc[s]])

HalfUndone(b) == Top(b.redo, LAMBDA e : e.kind = "record")

\* The user enters sketch mode; while an earlier entry is under way the target only waits.
Enter(s) ==
  /\ ~Due /\ lane.mode = "model" /\ store.s = None /\ spent.visits < MaxVisits
  /\ "fast_reenter" \in Rare \/ (lane.target = None /\ ~Closing)
  /\ "half_undo" \in Rare \/ ~HalfUndone(be)
  /\ spent' = [spent EXCEPT !.visits = @ + 1]
  /\ IF lane.target = None
     THEN lane' = [lane EXCEPT !.mode = "sketch", !.target = s] /\ SendEnter(s, answers)
     ELSE lane' = [lane EXCEPT !.mode = "sketch", !.pending = s] /\ UNCHANGED <<be, answers>>
  /\ UNCHANGED <<store, queue, turn, maps, drag, ids>>

\* The session opens if the mode is still sketch, else it is cancelled; then a target that
\* waited is switched to.  A failed entry falls back to model mode.
Entered ==
  /\ Heard("enter")
  /\ LET a == Head(answers)
         rest == Superseded(Forgotten(Tail(answers)))
         on == a.ok /\ lane.mode = "sketch"
         next == IF on /\ lane.pending \notin {None, a.s} THEN lane.pending ELSE None
     IN /\ maps' = IF a.ok THEN [maps EXCEPT ![a.s] = SeedIdMap(@, a.c)] ELSE maps
        /\ lane' = [mode |-> IF on THEN "sketch" ELSE "model", target |-> next, pending |-> None,
                    closing |-> IF next = None THEN None ELSE a.s]
        /\ store' = IF on /\ next = None THEN [Closed EXCEPT !.s = a.s, !.c = a.c] ELSE store
        /\ turn' = IF on THEN Stale(turn) ELSE turn
        /\ IF a.ok /\ ~on
           THEN /\ be' = CancelSketch(be, a.s)
                /\ answers' = Append(Tail(answers), [kind |-> "cancel", s |-> a.s, finish |-> FALSE,
                                                    then |-> None])
           ELSE answers' = (IF on THEN rest ELSE Tail(answers)) /\ UNCHANGED be
  /\ UNCHANGED <<queue, drag, ids, spent>>

\* Shared teardown: the drag and the session's undo are dropped, the session is null.
TearDown(as) ==
  /\ drag' = NoDrag /\ store' = Closed /\ turn' = Stale(turn)
  /\ answers' = Superseded(Forgotten(as))

\* Leaving sketch mode, with edits under way or not: cancel now, finish on its answer.
Leave ==
  /\ ~Due /\ lane.mode = "sketch"
  /\ lane' = [lane EXCEPT !.mode = "model"]
  /\ IF store.s = None THEN UNCHANGED <<store, turn, drag, answers, be>>
     ELSE /\ TearDown(Append(answers, [kind |-> "cancel", s |-> store.s, finish |-> TRUE,
                                       then |-> None]))
          /\ be' = CancelSketch(be, store.s)
  /\ UNCHANGED <<queue, maps, ids, spent>>

\* Another sketch is picked in sketch mode: it waits for an entry under way, else the open
\* session is torn down at once and closed once the chain is flushed.
SwitchTo(s) ==
  /\ ~Due /\ lane.mode = "sketch" /\ s # store.s /\ spent.visits < MaxVisits
  /\ spent' = [spent EXCEPT !.visits = @ + 1]
  /\ IF lane.target # None THEN lane' = [lane EXCEPT !.pending = s] /\ UNCHANGED <<store, turn, drag, answers>>
     ELSE /\ store.s # None
          /\ lane' = [lane EXCEPT !.target = s, !.closing = store.s]
          /\ TearDown(answers)
  /\ UNCHANGED <<queue, maps, be, ids>>

SwitchFlushed ==
  /\ lane.closing # None /\ Idle
  /\ be' = CancelSketch(be, lane.closing)
  /\ answers' = Append(answers, [kind |-> "cancel", s |-> lane.closing, finish |-> TRUE,
                                 then |-> lane.target])
  /\ lane' = [lane EXCEPT !.closing = None]
  /\ UNCHANGED <<store, queue, turn, maps, drag, ids, spent>>

Cancelled ==
  /\ Heard("cancel")
  /\ LET a == Head(answers)
     IN IF a.finish
        THEN /\ be' = FinishSketch(be, a.s)
             /\ answers' = Append(Tail(answers), [kind |-> "finish", then |-> a.then])
        ELSE answers' = Tail(answers) /\ UNCHANGED be
  /\ UNCHANGED <<lane, store, queue, turn, maps, drag, ids, spent>>

\* A switch goes on to the newest target, unless the user left sketch mode meanwhile.
Finished ==
  /\ Heard("finish")
  /\ LET next == IF lane.pending # None THEN lane.pending ELSE Head(answers).then
     IN IF Head(answers).then = None THEN answers' = Tail(answers) /\ UNCHANGED <<lane, be>>
        ELSE IF lane.mode # "sketch"
        THEN /\ lane' = [lane EXCEPT !.target = None, !.pending = None]
             /\ answers' = Tail(answers) /\ UNCHANGED be
        ELSE /\ lane' = [lane EXCEPT !.target = next, !.pending = None]
             /\ SendEnter(next, Tail(answers))
  /\ UNCHANGED <<store, queue, turn, maps, drag, ids, spent>>

(* -- The document's history in model mode ---------------------------------------- *)

InModel ==
  /\ ~Due /\ lane.mode = "model" /\ spent.model < MaxModel
  /\ "early_undo" \in Rare \/ (~Closing /\ lane.closing = None)
  /\ "entry_act" \in Rare \/ lane.target = None
  /\ spent' = [spent EXCEPT !.model = @ + 1]
  /\ UNCHANGED <<lane, store, queue, turn, maps, drag, answers, ids>>

ModelUndo == InModel /\ be.undo # <<>> /\ be' = Undo(be)
ModelRedo == InModel /\ be.redo # <<>> /\ be' = Redo(be)
ModelEdit ==
  /\ InModel
  /\ "half_undo" \in Rare \/ ~HalfUndone(be)
  /\ be' = PushCommitted(be, [kind |-> "model", s |-> None, prior |-> <<>>, after |-> <<>>])

(* -- The specification ------------------------------------------------------------ *)

Init ==
  /\ lane = [mode |-> "model", target |-> None, pending |-> None, closing |-> None]
  /\ store = Closed /\ queue = <<>> /\ turn = NoTurn
  /\ maps = [s \in Sketches |-> NoMap]
  /\ drag = NoDrag /\ answers = <<>>
  /\ be = [doc |-> [s \in Sketches |-> Empty], undo |-> <<>>, redo |-> <<>>, evicted |-> 0,
           record |-> [s \in Sketches |-> <<>>], slot |-> <<>>, gesture |-> <<>>]
  /\ ids = 0
  /\ spent = [edits |-> 0, visits |-> 0, model |-> 0]

Next ==
  \/ StartTurn
  \/ \E v \in Offered(store.c) : Click(v)
  \/ TurnAnswered
  \/ \E e \in DOMAIN store.c.ents : BeginSelectDrag(e)
  \/ DragBegun
  \/ \E to \in 0..1, restore \in BOOLEAN : PointerUp(to, restore)
  \/ DragEnded
  \/ SwitchTool
  \/ \E s \in Sketches : Enter(s)
  \/ Entered
  \/ Leave
  \/ \E s \in Sketches : SwitchTo(s)
  \/ SwitchFlushed
  \/ Cancelled
  \/ Finished
  \/ ModelUndo
  \/ ModelRedo
  \/ ModelEdit

Spec == Init /\ [][Next]_vars

(* -- Properties --------------------------------------------------------------------- *)

\* The variables keep their types: a turn is one edit of one sketch, the drag has an entity
\* of its base, and the stacks stay under their cap.
SketchTypeOK ==
  /\ lane.mode \in {"model", "sketch"}
  /\ {lane.target, lane.pending, lane.closing, store.s} \subseteq Sketches \cup {None}
  /\ Len(queue) <= MaxQueue
  /\ turn = NoTurn \/ (turn.s \in Sketches /\ turn.phase \in {"try", "again"})
  /\ drag.phase \in {"no", "starting", "dragging"} /\ (drag # NoDrag => drag.e \in DOMAIN drag.base)
  /\ {Len(be.undo), Len(store.undo), Len(store.redo)} \subseteq 0..UndoCap
  /\ {Len(be.slot), Len(be.gesture)} \subseteq 0..1

\* Once everything is answered, the sketch on screen is the document's: the same entities in
\* the same places under the id-map, the same constraints with the same values, none missing
\* on either side (sketchUpsert's id diff, the reject-and-restore of a conflicting edit).
ScreenIsDocument ==
  Settled /\ store.s # None =>
    LET m == maps[store.s]
        d == be.doc[store.s]
        c == store.c
    IN /\ DOMAIN m.ents = DOMAIN c.ents /\ DOMAIN m.cons = DOMAIN c.cons
       /\ {m.ents[f].u : f \in DOMAIN m.ents} = DOMAIN d.ents
       /\ {m.cons[k].u : k \in DOMAIN m.cons} = DOMAIN d.cons
       /\ \A f \in DOMAIN c.ents : d.ents[m.ents[f].u] = c.ents[f]
       /\ \A k \in DOMAIN c.cons :
            d.cons[m.cons[k].u] = [on |-> m.ents[c.cons[k].on].u, val |-> c.cons[k].val]

\* An entity leaves the document only by an edit that names it, by an undo or redo, or by the
\* history in model mode: no drag, draw, dimension or late answer takes drawn work away.
NoSilentLoss ==
  [][\A s \in Sketches : \A u \in DOMAIN be.doc[s].ents \ DOMAIN be'.doc[s].ents :
       \/ lane.mode = "model"
       \/ /\ turn' # NoTurn
          /\ \/ turn'.v.kind \in {"undo", "redo"}
             \/ /\ turn'.v.kind \in {"delete", "trim", "extend"}
                /\ maps[s].ents[turn'.v.on].u = u]_vars

\* The history of the document, oldest step first: what is done, then what can be redone.
Line(undo, redo) == undo \o Reverse(redo)

\* The places in it of a sketch's own steps: those of its contents, or those of its record.
Steps(line, s, records) == {i \in DOMAIN line : line[i].s = s /\ (line[i].kind = "record") = records}

\* Each step begins where the one before it ended; the last that is done ends, and the first
\* undone begins, at what is there now.
Links(line, steps, done, now) ==
  LET next(i, j) == i < j /\ \A k \in steps : ~(i < k /\ k < j)
  IN /\ \A i, j \in steps : next(i, j) => line[i].after = line[j].prior
     /\ \A i \in steps : i <= done /\ next(i, done + 1) => line[i].after = now
     /\ \A j \in steps : done < j /\ next(done, j) => line[j].prior = now

\* The steps of one sketch follow each other: each begins at the contents (or the record) the
\* one before left, and the document stands between the last done and the first undone, so
\* that an undo or a redo restores a state the sketch really had (squash_sketch_session).
UndoIsChain ==
  \A s \in Sketches, records \in BOOLEAN :
    LET line == Line(be.undo, be.redo)
        now == IF records THEN be.record[s] ELSE <<be.doc[s]>>
    IN Links(line, Steps(line, s, records), Len(be.undo), now)

\* A sketch that is closed is closed in the runtime too: no session, no gesture (one would
\* block every undo), and its edits are one step, unless steps were evicted meanwhile.
ClosedIsClosed ==
  Settled /\ lane.mode = "model" =>
    /\ be.slot = <<>> /\ be.gesture = <<>>
    /\ be.evicted = 0 => \A e \in Range(be.undo \o be.redo) : e.kind \notin {"edit", "drag"}

\* The Sketch record the regen planner reads holds the sketch as it is, or the user is
\* half-way back through a visit and the record's own step is the next to redo.
RecordIsSketch ==
  Settled /\ lane.mode = "model" /\ be.evicted = 0 =>
    \A s \in Sketches :
      \/ be.record[s] = <<be.doc[s]>>
      \/ be.record[s] = <<>> /\ be.doc[s] = Empty
      \/ Top(be.redo, LAMBDA e : e.kind = "record" /\ e.s = s)
=============================================================================
