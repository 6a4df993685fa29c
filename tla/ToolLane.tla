------------------------------ MODULE ToolLane ------------------------------
(***************************************************************************)
(* The preview lane that every armed modelling tool shares, and the commit *)
(* it ends in (ModelToolController.ts, previewThrottle.ts, the preview     *)
(* sessions of localSolver.ts).                                            *)
(*                                                                         *)
(* A tool arms by opening one lane session per region it operates on.  The *)
(* value the user drags is sent to the kernel at a limited rate; answers   *)
(* come back later and carry the epoch they were asked under.  A commit    *)
(* sends the final value once more, waits for its answer (the barrier),    *)
(* applies each session in turn, undoes an operation that failed and       *)
(* re-arms with what is left.  The user may leave between any two steps.   *)
(***************************************************************************)
EXTENDS Integers, Sequences, FiniteSets, SequencesExt, TLC

CONSTANTS Tools,      \* the tools a run uses
          MaxRegions, \* bound: the regions one arm operates on
          MaxValue,   \* bound: the values a drag or the chip sets
          MaxStale,   \* bound: the epochs whose answers may be stale, each asks the kernel again
          MaxArms,    \* bound: the arms of a behaviour
          MaxActs,    \* bound: the user's acts, the arms included
          Rare        \* the rare circumstances a run allows (see the README)

ASSUME LaneBounds ==
  /\ Tools \subseteq {"extrude", "revolve", "fillet", "offsetFace", "shell", "boolean", "hole"}
  /\ {MaxRegions, MaxValue, MaxStale, MaxArms, MaxActs} \subseteq Nat /\ MaxValue > 0
  /\ Rare \subseteq {"early_answer", "flip_mid_commit", "edit_mid_commit", "profile_gone",
                     "late_prepare", "late_release", "overtaken"}

VARIABLES ctl,    \* the ModelToolController, its lane and the requests it has under way
          doc,    \* backend: [rev, recs], the records of the timeline in order
          store,  \* documentStore: what the frontend last heard of doc
          past,   \* history: [finished, abandoned], the arms that ended by a commit or during one
          acts

vars == <<ctl, doc, store, past, acts>>

Multi == {"extrude", "revolve"}           \* one session per region, profile taken from a sketch
Strict == {"fillet", "offsetFace"}        \* requireExactPreview
Bound == Strict \cup {"shell"}            \* bound to topology of the model on screen
NeedsSession == {"extrude", "boolean"}    \* no commit without a lane session

Good(recs) == SelectSeq(recs, LAMBDA r : r.ok)
NoThrottle == [epoch |-> 0, inFlight |-> 0, pending |-> 0, last |-> 0, open |-> TRUE]
NoCommit == [pc |-> "none", k |-> 0, final |-> 0]

\* The elements of q that are in W, in their order.
Those(q, W) ==
  LET those[n \in 0..Len(q)] ==
        IF n = 0 THEN <<>> ELSE those[n - 1] \o (IF q[n] \in W THEN <<q[n]>> ELSE <<>>)
  IN those[Len(q)]

(* -- The lane and the throttle ------------------------------------------- *)

Index(c, sid) == {i \in DOMAIN c.sessions : c.sessions[i].sid = sid}
Failing(c) == \E i \in DOMAIN c.sessions : c.sessions[i].failed

\* Mutant of UpdatePreview: a busy session is asked again.
AskAtOnce(c, S) ==
  LET to == {c.sessions[i].sid : i \in S} \cap DOMAIN c.lane
      asks == [i \in DOMAIN c.sessions |-> [sid |-> c.sessions[i].sid, epoch |-> c.throttle.epoch,
                                            value |-> c.throttle.last]]
  IN [c EXCEPT !.lane = [s \in DOMAIN @ |->
                   IF s \in to THEN [@[s] EXCEPT !.busy = TRUE] ELSE @[s]],
               !.kernel = @ \o Those(asks, {ask \in Range(asks) : ask.sid \in to})]

\* The sessions of S are asked for the last value.  At most one question per session is with the
\* kernel; the newest of the others waits.
UpdatePreview(c, S) ==
  LET to == {c.sessions[i].sid : i \in S} \cap DOMAIN c.lane
      ask(s) == [sid |-> s, epoch |-> c.throttle.epoch, value |-> c.throttle.last]
      asks == [i \in DOMAIN c.sessions |-> ask(c.sessions[i].sid)]
      asked == [s \in to |-> [value |-> c.throttle.last, busy |-> TRUE,
                              queue |-> IF c.lane[s].busy THEN <<ask(s)>> ELSE c.lane[s].queue]]
  IN [c EXCEPT !.lane = [s \in DOMAIN @ |-> IF s \in to THEN asked[s] ELSE @[s]],
               !.kernel = @ \o Those(asks, {ask(s) : s \in {r \in to : ~c.lane[r].busy}})]

PopQueue(c, s) ==
  IF s \notin DOMAIN c.lane THEN c
  ELSE [c EXCEPT !.lane[s].busy = c.lane[s].queue # <<>>,
                 !.lane[s].queue = <<>>,
                 !.kernel = @ \o c.lane[s].queue]

DispatchSend(c, v) ==
  [c EXCEPT !.throttle = [epoch |-> @.epoch + 1, inFlight |-> @.epoch + 1, pending |-> 0,
                          last |-> v, open |-> c.tool = "boolean"]]

MaybeSend(c) ==
  IF c.throttle.inFlight # 0 \/ c.throttle.pending = 0 \/ ~c.throttle.open THEN c
  ELSE UpdatePreview(DispatchSend(c, c.throttle.pending), DOMAIN c.sessions)

SendPreview(c, staleRetry) ==
  IF c.sessions = <<>> THEN c
  ELSE [MaybeSend([c EXCEPT !.retried = @ /\ staleRetry, !.throttle.pending = c.value])
          EXCEPT !.timer = TRUE]

EndPreviews(c, S) ==
  [c EXCEPT !.lane = [s \in DOMAIN @ \ S |-> @[s]],
            !.kernel = Those(@, {ask \in Range(@) : ask.sid \notin S})]

\* beginPreview, once per region: a session id is not used again while the lane knows it, or the
\* sessions kept do.
Begin(c, kept, regions) ==
  LET n == Len(regions)
      used == DOMAIN c.lane \cup {kept[i].sid : i \in DOMAIN kept}
      free == CHOOSE f \in [1..n -> 1..(n + Cardinality(used))] :
                \A i \in 1..n : f[i] \notin used /\ \A j \in 1..(i - 1) : f[j] # f[i]
  IN [sessions |-> [i \in 1..n |-> [sid |-> free[i], region |-> regions[i], applied |-> 0,
                                    shown |-> 0, failed |-> FALSE]],
      lane |-> [s \in DOMAIN c.lane \cup {free[i] : i \in 1..n} |->
                  IF s \in DOMAIN c.lane THEN c.lane[s]
                  ELSE [value |-> c.value, busy |-> FALSE, queue |-> <<>>]]]

\* Mutant of Reset: the surviving sessions keep their epochs over the restarted throttle.
ResetThrottleOnly(c, survivors) ==
  LET d == [c EXCEPT !.sessions = [i \in DOMAIN survivors |->
                       [survivors[i] EXCEPT !.shown = 0, !.failed = FALSE]],
                     !.throttle = NoThrottle]
  IN SendPreview([d EXCEPT !.latch = Failing(d)], FALSE)

\* Every session starts over with a restarted throttle, and is asked for the current value.
Reset(c, survivors) ==
  LET d == [c EXCEPT !.sessions = [i \in DOMAIN survivors |->
                       [survivors[i] EXCEPT !.applied = 0, !.shown = 0, !.failed = FALSE]],
                     !.throttle = NoThrottle]
  IN SendPreview([d EXCEPT !.latch = Failing(d)], FALSE)

OpenSessions(c, regions) ==
  LET b == Begin(c, <<>>, regions) IN Reset([c EXCEPT !.lane = b.lane, !.retried = FALSE], b.sessions)

(* -- Leaving a tool ------------------------------------------------------- *)

\* Mutant of ClosePreviewSessions: the sessions are forgotten, not ended.
ForgetPreviewSessions(c) ==
  [c EXCEPT !.sessions = <<>>, !.latch = FALSE, !.retried = FALSE,
            !.throttle = NoThrottle, !.timer = FALSE]

ClosePreviewSessions(c) ==
  [EndPreviews(c, {c.sessions[i].sid : i \in DOMAIN c.sessions})
     EXCEPT !.sessions = <<>>, !.latch = FALSE, !.retried = FALSE,
            !.throttle = NoThrottle, !.timer = FALSE]

\* Mutant of OnToolChange: the commit under way is not superseded.
SweepOnly(c) ==
  [ClosePreviewSessions(c) EXCEPT
     !.tool = "select", !.phase = "idle", !.value = 0, !.regions = <<>>, !.basis = <<>>,
     !.prepared = -1, !.commit = NoCommit]

\* The sweep of every tool; commitGen supersedes whatever a commit still awaits.
OnToolChange(c) ==
  [ClosePreviewSessions(c) EXCEPT
     !.tool = "select", !.phase = "idle", !.value = 0, !.regions = <<>>, !.basis = <<>>,
     !.prepared = -1, !.commit = NoCommit,
     !.calls = [i \in DOMAIN @ |-> [@[i] EXCEPT !.live = FALSE]]]

Committing == ctl.commit.pc # "none"
Leaves ==
  past' = IF Committing THEN [past EXCEPT !.abandoned = @ \cup {ctl.arm}] ELSE past

(* -- Committing ----------------------------------------------------------- *)

Call(c, kind, k, region, value, approved) ==
  [c EXCEPT !.commit.pc = kind, !.commit.k = k,
            !.calls = Append(@, [kind |-> kind, tool |-> c.tool, arm |-> c.arm, region |-> region,
                                 value |-> value, approved |-> approved, live |-> TRUE,
                                 answer |-> "none", doc |-> [rev |-> 0, recs |-> <<>>]])]

Armed(c) == [c EXCEPT !.phase = "armed", !.commit = NoCommit]

\* Mutant of Rearm: the failed region is dropped with the committed ones.
RearmSurvivors(c, k, reopened) ==
  LET d == Armed([c EXCEPT !.regions = IF c.tool = "revolve" THEN SubSeq(@, k + 1, Len(@)) ELSE @])
  IN IF c.tool \in Multi THEN Reset(d, SubSeq(c.sessions, k + 1, Len(c.sessions)))
     ELSE IF reopened THEN OpenSessions(d, c.regions) ELSE [d EXCEPT !.sessions = <<>>]

\* A failed commit at region k arms again with that region and the ones after it.  "reopened" is
\* whether beginPreview accepts the failed region's session once more.
Rearm(c, k, reopened) ==
  LET d == Armed([c EXCEPT !.regions = IF c.tool = "revolve" THEN SubSeq(@, k, Len(@)) ELSE @])
      survivors == SubSeq(c.sessions, k + 1, Len(c.sessions))
      blank == [i \in DOMAIN survivors |->
                  [survivors[i] EXCEPT !.applied = 0, !.shown = 0, !.failed = FALSE]]
      fresh == Begin(c, survivors, <<c.sessions[k].region>>)
  IN CASE c.tool \notin Multi /\ reopened -> OpenSessions(d, c.regions)
       [] c.tool \notin Multi /\ ~reopened -> [d EXCEPT !.sessions = <<>>]
       [] c.tool \in Multi /\ c.sessions = <<>> -> d
       [] c.tool = "revolve" /\ k > Len(c.sessions) /\ c.sessions # <<>> -> Reset(d, survivors)
       [] c.tool \in Multi /\ k <= Len(c.sessions) /\ reopened ->
            Reset([d EXCEPT !.lane = fresh.lane], fresh.sessions \o survivors)
       [] c.tool = "revolve" /\ k <= Len(c.sessions) /\ ~reopened -> [d EXCEPT !.sessions = blank]
       [] OTHER -> [d EXCEPT !.sessions =
                      [i \in DOMAIN @ |-> [@[i] EXCEPT !.shown = 0]]]

Total(c) == IF c.tool = "revolve" THEN Len(c.regions)
            ELSE IF c.tool = "extrude" THEN Len(c.sessions) ELSE 1

\* One iteration of the commit loop: flush the final value, then hold the barrier; without a
\* session the operation is applied as it stands, unless the tool insists on an exact preview.
CommitStep(c, k, reopened) ==
  LET d == DispatchSend([c EXCEPT !.phase = "committing"], c.value)
  IN IF k > Total(c) THEN [c EXCEPT !.commit = [NoCommit EXCEPT !.pc = "loading"]]
     ELSE IF k <= Len(c.sessions)
       THEN UpdatePreview([d EXCEPT !.commit = [pc |-> "barrier", k |-> k,
                                                final |-> d.throttle.epoch]], {k})
     ELSE IF c.tool \in Strict THEN Rearm(c, k, reopened)
     ELSE Call([c EXCEPT !.phase = "committing"], "apply", k, c.regions[k], c.value, FALSE)

\* Mutant of Barrier: a barrier that ran out approves a strict commit too.
LenientBarrier(c, out, reopened) ==
  LET k == c.commit.k
      sid == c.sessions[k].sid
      ended == EndPreviews(c, {sid})
  IN IF out \in {"bad", "stale"} THEN Rearm(ended, k, reopened)
     ELSE IF sid \in DOMAIN c.lane
       THEN Call(ended, "apply", k, c.sessions[k].region, c.lane[sid].value, out = "good")
       ELSE Call(c, "undo", k, c.sessions[k].region, 0, FALSE)

\* The barrier is over: apply the session, or release it and re-arm.  A session that is gone
\* answers null, which counts as an applied operation that failed.
Barrier(c, out, reopened) ==
  LET k == c.commit.k
      sid == c.sessions[k].sid
      ended == EndPreviews(c, {sid})
  IN IF out \in {"bad", "stale"} \/ (out = "timeout" /\ c.tool \in Strict)
       THEN Rearm(ended, k, reopened)
     ELSE IF sid \in DOMAIN c.lane
       THEN Call(ended, "apply", k, c.sessions[k].region, c.lane[sid].value, out = "good")
       ELSE Call(c, "undo", k, c.sessions[k].region, 0, FALSE)

(* -- Preview answers ------------------------------------------------------ *)

Failed(c, i, out) ==
  LET d == [c EXCEPT !.sessions[i].shown = 0, !.sessions[i].failed = TRUE, !.latch = TRUE]
  IN IF out = "stale" /\ ~c.retried THEN SendPreview([d EXCEPT !.retried = TRUE], TRUE) ELSE d

Shown(c, i, v) ==
  LET d == [c EXCEPT !.sessions[i].shown = v, !.sessions[i].failed = FALSE,
                     !.retried = IF i = 1 THEN FALSE ELSE @]
  IN IF c.sessions[i].failed THEN [d EXCEPT !.latch = Failing(d)] ELSE d

\* The first session paces the throttle: only the answer in flight counts, and it lets the next
\* value out.  The others drop what is older than what they applied.
OnPreviewResult(c, ask, out) ==
  IF Index(c, ask.sid) = {} THEN c
  ELSE LET i == CHOOSE j \in Index(c, ask.sid) : TRUE
           d == [c EXCEPT !.sessions[i].applied = ask.epoch,
                          !.throttle.inFlight = IF i = 1 THEN 0 ELSE @]
           e == IF out = "good" THEN Shown(d, i, ask.value) ELSE Failed(d, i, out)
       IN IF ask.epoch < c.sessions[i].applied \/ (i = 1 /\ ask.epoch # c.throttle.inFlight)
            THEN c
          ELSE IF i = 1 THEN MaybeSend(e) ELSE e

Waits(c, ask) ==
  /\ c.commit.pc = "barrier" /\ ask.epoch >= c.commit.final
  /\ ask.sid = c.sessions[c.commit.k].sid

Reopen == IF "profile_gone" \in Rare THEN BOOLEAN ELSE {TRUE}

Same == UNCHANGED <<doc, store, past, acts>>

\* The floor of the throttle normally ends before the kernel answers, or the timer is still set.
InTime == \/ ctl.throttle.open \/ ctl.timer \/ ctl.throttle.pending = 0
          \/ "early_answer" \in Rare

Answer(out) ==
  /\ ctl.kernel # <<>> /\ InTime
  /\ out = "stale" => ctl.throttle.epoch <= MaxStale
  /\ out = "stale" /\ ctl.commit.pc = "barrier" => "overtaken" \in Rare
  /\ \E reopened \in Reopen :
       LET ask == Head(ctl.kernel)
           c == OnPreviewResult([ctl EXCEPT !.kernel = Tail(@)], ask, out)
       IN ctl' = IF Waits(ctl, ask) THEN Barrier(c, out, reopened) ELSE PopQueue(c, ask.sid)
  /\ Same

FloorOpens == ~ctl.throttle.open /\ ctl' = [ctl EXCEPT !.throttle.open = TRUE] /\ Same

\* The poke of the trailing timer, which sets itself again while only the floor holds a value back.
TimerFires ==
  /\ ctl.timer
  /\ LET c == IF ctl.sessions = <<>> THEN ctl ELSE MaybeSend(ctl)
         t == c.throttle
     IN ctl' = [c EXCEPT !.timer = /\ ctl.sessions # <<>>
                                   /\ \/ t.epoch # ctl.throttle.epoch
                                      \/ t.pending # 0 /\ t.inFlight = 0]
  /\ Same

(* -- Arming --------------------------------------------------------------- *)

Act == acts < MaxActs /\ acts' = acts + 1

Subjects(t) ==
  IF t \in Multi THEN {[i \in 1..n |-> i] : n \in 1..MaxRegions} ELSE {<<1>>}

\* An old answer clears the previews on screen: normally it arrives before a new tool shows one.
NoOldRelease ==
  \/ "late_release" \in Rare
  \/ \A i \in DOMAIN ctl.calls : ctl.calls[i].kind = "apply" => ctl.calls[i].tool \in Multi

SetTool(t, regions) ==
  LET c == [OnToolChange(ctl) EXCEPT !.tool = t, !.value = 1, !.regions = regions,
                                     !.arm = @ + 1, !.chosen = Len(regions),
                                     !.basis = Good(store.recs)]
  IN /\ Act /\ ctl.arm < MaxArms /\ NoOldRelease
     /\ IF t \in {"shell", "boolean", "hole"}
          THEN ctl' = OpenSessions([c EXCEPT !.phase = "armed"], regions)
          ELSE ctl' = [c EXCEPT !.phase = "waiting"]
     /\ Leaves /\ UNCHANGED <<doc, store>>

\* The regions were read, or the picks prepared and promoted, and the sessions opened.  Prepared
\* picks are stamped with the revision the store has now.
ArmAnswered ==
  /\ ctl.phase = "waiting"
  /\ ctl.tool \in Strict => ctl.basis = Good(store.recs) \/ "late_prepare" \in Rare
  /\ ctl' = CASE ctl.tool = "extrude" -> OpenSessions([ctl EXCEPT !.phase = "armed"], ctl.regions)
              [] ctl.tool = "revolve" -> [ctl EXCEPT !.phase = "axisPick"]
              [] OTHER -> OpenSessions([ctl EXCEPT !.phase = "armed", !.prepared = store.rev],
                                       ctl.regions)
  /\ Same

ArmRefused ==
  /\ ctl.phase = "waiting"
  /\ ctl' = OnToolChange(ctl)
  /\ Same

\* beginPreview refuses the first session: the tool is armed with an empty lane.
ArmWithoutPreview ==
  /\ \/ ctl.phase = "waiting" /\ ctl.tool = "extrude"
     \/ ctl.phase = "axisPick"
  /\ ctl' = [ctl EXCEPT !.phase = "armed"]
  /\ Same

PickRevolveAxis ==
  /\ ctl.phase = "axisPick"
  /\ ctl' = OpenSessions([ctl EXCEPT !.phase = "armed"], ctl.regions)
  /\ Same

ResetRevolveAxis ==
  /\ Act /\ ctl.phase = "armed" /\ ctl.tool = "revolve"
  /\ ctl' = [ClosePreviewSessions(ctl) EXCEPT !.phase = "axisPick"]
  /\ UNCHANGED <<doc, store, past>>

\* Esc, the select tool, or a change of the sketch under an armed profile.
Leave ==
  /\ Act /\ ctl.tool # "select"
  /\ ctl' = OnToolChange(ctl) /\ Leaves
  /\ UNCHANGED <<doc, store>>

SetValue(v) ==
  /\ Act /\ ctl.phase = "armed" /\ v # ctl.value
  /\ ctl' = SendPreview([ctl EXCEPT !.value = v], FALSE)
  /\ UNCHANGED <<doc, store, past>>

\* Fillet <-> Chamfer: the session's type is frozen, so it is closed and a new one opened.  The
\* chip stays up during a commit, where the close releases the barrier unanswered.
FlipKind ==
  /\ Act /\ ctl.tool = "fillet"
  /\ LET c == OpenSessions(ClosePreviewSessions(ctl), ctl.regions)
     IN \/ ctl.phase = "armed" /\ ctl' = c
        \/ "flip_mid_commit" \in Rare /\ ctl.commit.pc \in {"apply", "undo"} /\ ctl' = c
        \/ "flip_mid_commit" \in Rare /\ ctl.commit.pc = "barrier" /\ ctl' = Rearm(c, 1, TRUE)
  /\ UNCHANGED <<doc, store, past>>

(* -- The commit and the backend ------------------------------------------ *)

\* No change of the model is on its way that would reach a bound tool in mid-commit.
Undisturbed == (ctl.calls = <<>> /\ store = doc) \/ "edit_mid_commit" \in Rare

Confirm ==
  /\ Act /\ ctl.phase = "armed" /\ ~ctl.latch
  /\ ctl.tool \in NeedsSession => ctl.sessions # <<>>
  /\ ctl.tool \in Strict => ctl.prepared = store.rev
  /\ ctl.tool \in Bound => Undisturbed
  /\ \E reopened \in Reopen :
       ctl' = IF ctl.tool \in Multi
                THEN [ctl EXCEPT !.phase = "committing", !.commit.pc = "record"]
                ELSE CommitStep(ctl, 1, reopened)
  /\ UNCHANGED <<doc, store, past>>

\* finishSketch guarantees the profile's record before anything is applied.
RecordAnswered ==
  /\ ctl.commit.pc = "record"
  /\ ctl' \in {CommitStep(ctl, 1, TRUE), Armed(ctl)}
  /\ Same

BarrierTimeout ==
  /\ ctl.commit.pc = "barrier"
  /\ \E reopened \in Reopen : ctl' = Barrier(ctl, "timeout", reopened)
  /\ Same

Handled(i, out, d) ==
  /\ doc' = d
  /\ ctl' = [ctl EXCEPT !.calls[i].answer = out, !.calls[i].doc = d]

\* The backend runs the calls in order.  A failed operation keeps its record; an undo pops the
\* newest record, whoever made it.
HandleCall ==
  \E i \in DOMAIN ctl.calls :
    LET call == ctl.calls[i]
        rec(ok) == [arm |-> call.arm, region |-> call.region, ok |-> ok]
        after(r) == [rev |-> doc.rev + 1, recs |-> Append(doc.recs, r)]
    IN /\ call.answer = "none" /\ \A j \in 1..(i - 1) : ctl.calls[j].answer # "none"
       /\ ctl.kernel = <<>> \/ "overtaken" \in Rare
       /\ \/ call.kind = "apply" /\ Handled(i, "ok", after(rec(TRUE)))
          \/ call.kind = "apply" /\ Handled(i, "failed", after(rec(FALSE)))
          \/ call.kind = "apply" /\ Handled(i, "refused", doc)
          \/ call.kind = "undo" /\ doc.recs # <<>>
               /\ Handled(i, "ok", [rev |-> doc.rev + 1, recs |-> Front(doc.recs)])
          \/ call.kind = "undo" /\ doc.recs = <<>> /\ Handled(i, "refused", doc)
       /\ UNCHANGED <<store, past, acts>>

\* What the awaiting commit does with its answer.
AfterCall(c, call, reopened) ==
  LET k == c.commit.k
  IN IF call.kind = "undo" \/ call.answer = "refused" THEN Rearm(c, k, reopened)
     ELSE IF call.answer = "failed" THEN Call(c, "undo", k, call.region, 0, FALSE)
     ELSE IF c.tool \in Multi THEN CommitStep(c, k + 1, reopened)
     ELSE OnToolChange(c)

Finishes(c) == past' = [past EXCEPT !.finished = @ \cup {[arm |-> ctl.arm, chosen |-> c]}]

\* A superseded commit drops its answer, but still releases the session it held.
DeliverCall ==
  /\ ctl.calls # <<>> /\ Head(ctl.calls).answer # "none"
  /\ LET call == Head(ctl.calls)
         c == [ctl EXCEPT !.calls = Tail(@)]
         blank == [i \in DOMAIN c.sessions |-> [c.sessions[i] EXCEPT !.shown = 0]]
     IN IF call.live
          THEN /\ \E reopened \in Reopen : ctl' = AfterCall(c, call, reopened)
               /\ store' = IF call.answer = "ok" THEN call.doc ELSE store
               /\ IF call.kind = "apply" /\ call.answer = "ok" /\ ctl.tool \notin Multi
                    THEN Finishes({1}) ELSE UNCHANGED past
          ELSE /\ ctl' = IF call.kind = "apply" /\ call.tool \notin Multi
                           THEN [c EXCEPT !.sessions = blank] ELSE c
               /\ UNCHANGED <<store, past>>
  /\ UNCHANGED <<doc, acts>>

\* The committed bodies entered the scene, or the wait for them ran out.
BodiesLoaded ==
  /\ ctl.commit.pc = "loading"
  /\ ctl' = OnToolChange(ctl) /\ Finishes(1..ctl.chosen)
  /\ UNCHANGED <<doc, store, acts>>

\* Somebody else's edit of the document.
Edit ==
  /\ Act
  /\ "edit_mid_commit" \in Rare \/ (ctl.calls = <<>> /\ ~Committing)
  /\ doc' = [rev |-> doc.rev + 1, recs |-> Append(doc.recs, [arm |-> 0, region |-> 1, ok |-> TRUE])]
  /\ UNCHANGED <<ctl, store, past>>

\* Mutant of Hear: an armed tool survives a change of the model it is bound to.
HearOnly ==
  /\ doc.rev > store.rev /\ store' = doc
  /\ UNCHANGED <<ctl, doc, past, acts>>

Hear ==
  /\ doc.rev > store.rev /\ store' = doc
  /\ ctl' = IF ctl.phase = "armed" /\ ctl.tool \in Bound THEN OnToolChange(ctl) ELSE ctl
  /\ UNCHANGED <<doc, past, acts>>

(* -- The specification ---------------------------------------------------- *)

Init ==
  /\ ctl = [tool |-> "select", phase |-> "idle", value |-> 0, regions |-> <<>>, basis |-> <<>>,
            prepared |-> -1, sessions |-> <<>>, latch |-> FALSE, retried |-> FALSE,
            throttle |-> NoThrottle, timer |-> FALSE, commit |-> NoCommit, arm |-> 0,
            chosen |-> 0, lane |-> <<>>, kernel |-> <<>>, calls |-> <<>>]
  /\ doc = [rev |-> 0, recs |-> <<>>] /\ store = doc
  /\ past = [finished |-> {}, abandoned |-> {}]
  /\ acts = 0

Next ==
  \/ \E t \in Tools : \E regions \in Subjects(t) : SetTool(t, regions)
  \/ ArmAnswered \/ ArmRefused \/ ArmWithoutPreview
  \/ PickRevolveAxis \/ ResetRevolveAxis \/ Leave
  \/ \E v \in 1..MaxValue : SetValue(v)
  \/ FlipKind \/ Confirm \/ RecordAnswered \/ BarrierTimeout
  \/ HandleCall \/ DeliverCall \/ BodiesLoaded
  \/ Edit \/ Hear
  \/ \E out \in {"good", "bad", "stale"} : Answer(out)
  \/ FloorOpens \/ TimerFires

Spec == Init /\ [][Next]_vars

(* -- Properties ----------------------------------------------------------- *)

Sids == {ctl.sessions[i].sid : i \in DOMAIN ctl.sessions}

\* The shape of the controller: one question per session at the kernel, one commit at a time.
LaneTypeOK ==
  /\ ctl.tool \in Tools \cup {"select"}
  /\ ctl.phase \in {"idle", "waiting", "axisPick", "armed", "committing"}
  /\ ctl.commit.pc \in {"none", "record", "barrier", "apply", "undo", "loading"}
  /\ (ctl.phase = "committing") = Committing
  /\ ctl.throttle.inFlight \in {0, ctl.throttle.epoch} /\ ctl.throttle.pending \in 0..MaxValue
  /\ \A s \in DOMAIN ctl.lane :
       Cardinality({j \in DOMAIN ctl.kernel : ctl.kernel[j].sid = s}) =
         IF ctl.lane[s].busy THEN 1 ELSE 0
  /\ Cardinality(Sids) = Len(ctl.sessions) /\ ctl.arm \in 0..MaxArms

\* No lane session outlives the tool that opened it, and an armed tool can reach every session it
\* lists, whatever was refused, timed out, undone or left in between.
LaneIsOwned ==
  /\ DOMAIN ctl.lane \subseteq Sids
  /\ ctl.phase = "armed" => Sids \subseteq DOMAIN ctl.lane

\* The latch that blocks every confirm is up exactly while some session's newest answer is a
\* refusal: a failure neither outlives its session nor gets lost.
LatchIsFailure == ctl.phase = "armed" => ctl.latch = Failing(ctl)

\* Once the kernel has answered everything and no timer is set, each session of an armed tool
\* shows the value the user sees, or its failure.
PreviewSettles ==
  ctl.phase = "armed" /\ ctl.kernel = <<>> /\ ~ctl.timer =>
    \A i \in DOMAIN ctl.sessions :
      ctl.sessions[i].failed \/ ctl.sessions[i].shown = ctl.value

\* What an armed tool says of its preview is true: the value is the one shown, and the latch on
\* the confirm is about a refusal that still stands.
PreviewIsTrue == PreviewSettles /\ LatchIsFailure

Records(arm, region, ok) ==
  {i \in DOMAIN doc.recs : doc.recs[i] = [arm |-> arm, region |-> region, ok |-> ok]}

\* However often a commit failed and was retried, no region is built twice, and a commit that
\* ended built each region the user chose.
OneRecordEach ==
  /\ \A a \in 1..MaxArms, r \in 1..MaxRegions : Cardinality(Records(a, r, TRUE)) <= 1
  /\ \A f \in past.finished : \A r \in f.chosen : Records(f.arm, r, TRUE) # {}

\* An undo that rolls a commit back pops the failed record of that very commit, and a failed
\* record is left only by a commit the user walked away from.
RollbackIsOwn ==
  /\ ctl.calls # <<>> /\ Head(ctl.calls).kind = "undo" /\ Head(ctl.calls).answer = "none" =>
       doc.recs # <<>> /\ Last(doc.recs) =
         [arm |-> Head(ctl.calls).arm, region |-> Head(ctl.calls).region, ok |-> FALSE]
  /\ \A i \in DOMAIN doc.recs :
       \/ doc.recs[i].ok \/ doc.recs[i].arm \in past.abandoned
       \/ Committing /\ doc.recs[i].arm = ctl.arm

\* The timeline holds what the commits meant: each region once, and no failure they rolled back.
RecordsAreRight == OneRecordEach /\ RollbackIsOwn

\* A strict operation is applied only with the value the kernel has approved; every other with
\* the value on screen.
CommitsWhatIsShown ==
  \A i \in DOMAIN ctl.calls :
    ctl.calls[i].kind = "apply" =>
      /\ ctl.calls[i].tool \in Strict => ctl.calls[i].approved
      /\ ctl.calls[i].live => ctl.calls[i].value = ctl.value

\* A tool bound to topology is armed only over the model its picks were made on.
PicksAreCurrent == ctl.phase = "armed" /\ ctl.tool \in Bound => ctl.basis = Good(store.recs)

\* An armed strict tool over the model of its picks can be confirmed.
ArmedCanConfirm ==
  ctl.phase = "armed" /\ ctl.tool \in Strict /\ ctl.basis = Good(store.recs) =>
    ctl.prepared = store.rev

\* A commit that is under way awaits exactly one thing that comes: a timeout, or the answer to
\* the one call nobody superseded.
CommitIsAwaited ==
  LET n == Len(ctl.calls)
  IN /\ {i \in 1..n : ctl.calls[i].live} = IF ctl.commit.pc \in {"apply", "undo"} THEN {n} ELSE {}
     /\ ctl.commit.pc \in {"apply", "undo"} =>
          n > 0 /\ ctl.calls[n].kind = ctl.commit.pc /\ ctl.calls[n].arm = ctl.arm
     /\ ctl.commit.pc = "barrier" =>
          /\ ctl.commit.k \in DOMAIN ctl.sessions
          /\ ctl.sessions[ctl.commit.k].sid \in DOMAIN ctl.lane
=============================================================================
