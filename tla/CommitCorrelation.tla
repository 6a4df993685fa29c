-------------------------- MODULE CommitCorrelation --------------------------
(***************************************************************************)
(* How the frontend learns what became of a command: the correlation of    *)
(* src/ipc/tauriClient.ts (applyEditRaw, its awaiters and the event        *)
(* handlers), with the busy count of documentStore.ts, the projections of  *)
(* projectionHydration.ts and the callers that write a result back         *)
(* (historyActions.ts, treeActions.ts, ModelToolController.applyResult).   *)
(*                                                                         *)
(* A command is answered as soon as the document is edited; the regen that *)
(* the edit asks for runs later, may be overtaken by another edit, and     *)
(* reports with events.  A command waits for the first report that covers  *)
(* the revision it was answered with.  Commands are handled and answered   *)
(* in the order they were sent; events keep the order they were emitted    *)
(* in; between answers and events there is no order.                       *)
(***************************************************************************)
EXTENDS Integers, Sequences, FiniteSets, SequencesExt

CONSTANTS Records,      \* record ids
          Kinds,        \* the commands the user may give
          Openable,     \* the timelines of the documents that can be opened
          MaxCommands,  \* bound: commands of one behaviour
          Rare          \* the rare circumstances a run allows (see the README)

ASSUME CorrelationBounds ==
  /\ MaxCommands \in Nat
  /\ Kinds \subseteq {"add", "reedit", "remove", "roll", "variable", "undo", "rename", "open"}
  /\ \A t \in Openable : t \in Seq(Records) /\ IsInjective(t)
  /\ Rare \subseteq {"late_answer", "fast_open", "late_event", "no_regen", "bare_revision",
                     "overlap", "past_halt", "abandoned", "same_file"}

VARIABLES doc,      \* the DocumentRuntime: [inst, id, rev, recs, cursor, status, past, snap, shown]
          sched,    \* the regen scheduler: [on, from, job, gate]
          events,   \* the events on their way, oldest first
          cmds,     \* the commands in the order they were sent, each with its awaiter
          last,     \* lastPublishedChange: the revision of the newest published change, or 0
          snapshot, \* currentSnapshotId
          busy,     \* documentStore.regenBusy
          store     \* documentStore: the projection it holds

client == <<last, snapshot, busy>>
vars == <<doc, sched, events, cmds, client, store>>

-----------------------------------------------------------------------------
(* The backend: edits, the scheduler, the regen driver.                     *)

Dirty == [r \in Records |-> "dirty"]
NoSnapshot == <<0, 0>>
Projection(d) == [id |-> d.id, rev |-> d.rev, recs |-> d.recs, cursor |-> d.cursor,
                  status |-> d.status]
ProjectionEvent(d) == [type |-> "projection", inst |-> d.inst, view |-> Projection(d)]
Applied(d) == {d.recs[i] : i \in 1..d.cursor}
Place(d, r) == CHOOSE i \in DOMAIN d.recs : d.recs[i] = r

Runtime(inst, id, recs) ==
  [inst |-> inst, id |-> id, rev |-> 1, recs |-> recs, cursor |-> Len(recs), status |-> Dirty,
   past |-> <<>>, snap |-> NoSnapshot, shown |-> FALSE]

\* after_mutation: every step is Dirty again and the revision moves, also after a rename.
Mutated(d, recs, cursor, model) ==
  [d EXCEPT !.rev = @ + 1, !.recs = recs, !.cursor = cursor, !.status = Dirty,
            !.past = Append(@, [recs |-> d.recs, cursor |-> d.cursor, model |-> model])]

Refused(c, d) == \/ c.kind \in {"reedit", "remove"} /\ ~Contains(d.recs, c.rec)
                 \/ c.kind = "add" /\ Contains(d.recs, c.rec)

\* The documents a command can leave, each with the floor it asks a regen from (-1: none).
Edited(c, d) ==
  CASE c.kind = "add" ->
         {[doc |-> Mutated(d, InsertAt(d.recs, d.cursor + 1, c.rec), d.cursor + 1, TRUE),
           from |-> d.cursor]}
    [] c.kind = "reedit" ->
         {[doc |-> Mutated(d, d.recs, d.cursor, TRUE), from |-> Place(d, c.rec) - 1]}
    [] c.kind = "remove" ->
         LET i == Place(d, c.rec) IN
         {[doc |-> Mutated(d, RemoveAt(d.recs, i), IF i <= d.cursor THEN d.cursor - 1 ELSE d.cursor,
                           TRUE),
           from |-> i - 1]}
    [] c.kind = "roll" ->
         {[doc |-> Mutated(d, d.recs, k, TRUE), from |-> IF k = d.cursor THEN -1 ELSE 0] :
            k \in {k \in 1..Len(d.recs) : "no_regen" \in Rare \/ k # d.cursor}}
    [] c.kind = "variable" ->
         {[doc |-> Mutated(d, d.recs, d.cursor, d.recs # <<>>),
           from |-> IF d.recs = <<>> THEN -1 ELSE 0]}
    [] c.kind = "rename" ->
         {[doc |-> Mutated(d, d.recs, d.cursor, FALSE), from |-> -1]}
    [] c.kind = "undo" ->
         IF d.past = <<>> THEN {[doc |-> d, from |-> -1]}
         ELSE LET was == Last(d.past) IN
              {[doc |-> [d EXCEPT !.rev = @ + 1, !.recs = was.recs, !.cursor = was.cursor,
                                  !.status = Dirty, !.past = Front(@)],
                from |-> IF was.model THEN 0 ELSE -1]}

NoJob == [inst |-> 0, source |-> 0, cancelled |-> FALSE]
Idle == sched.job = NoJob /\ ~sched.on

\* RegenScheduler.on_request: the job under way is cancelled, the newest request waits.
Request(s, from) == [s EXCEPT !.on = TRUE, !.from = from,
                              !.job = IF @ = NoJob THEN @ ELSE [@ EXCEPT !.cancelled = TRUE]]

-----------------------------------------------------------------------------
(* The frontend: verdicts, the store, awaiters.                             *)

OfRecord(c) == c.kind \in {"add", "reedit"}
SettlesOnFinish(c) == OfRecord(c) \/ c.kind = "variable"
Opens(c) == c.kind = "open"
Metadata(c) == c.kind = "rename"   \* METADATA_ONLY_CMDS: no awaiter
Phase(p) == {i \in DOMAIN cmds : cmds[i].phase = p}

NoReport == [type |-> "none"]
NoVerdict == [terminal |-> "none", change |-> 0, rev |-> 0, by |-> NoReport]
Verdict(terminal, change, rev, by) ==
  [terminal |-> terminal, change |-> change, rev |-> rev, by |-> by]
NoAnswer == [ok |-> FALSE, inst |-> 0, view |-> 0]

\* Mutant of Done: the awaiter resolves but stays registered.
DoneListening(c, v) == [c EXCEPT !.phase = "done", !.verdict = v]

Done(c, v) == [c EXCEPT !.phase = "done", !.waits = FALSE, !.verdict = v]
TimedOut(c) == Done(c, Verdict("timeout", 0, c.answer.view.rev, NoReport))

\* keepsRecord: the callers write a result back unless it failed; undo always does.
Written(c) == \/ c.kind = "undo"
              \/ c.kind # "variable" /\ c.verdict.terminal \in {"published", "noop", "needsRepair"}

\* applyResult: the rows of the command's own projection, at the revision of the verdict.
ApplyResult(s, c) == [s EXCEPT !.rev = c.verdict.rev, !.recs = c.answer.view.recs,
                               !.cursor = c.answer.view.cursor, !.status = c.answer.view.status]

\* The commands in S settle as in "then"; awaiters resolve in the order they were registered.
Settle(then, S) ==
  /\ cmds' = then
  /\ store' = LET W == {i \in S : then[i].phase = "done" /\ Written(then[i])} IN
              IF W = {} THEN store
              ELSE ApplyResult(store, then[CHOOSE i \in W : \A j \in W : j <= i])

\* Mutant of Covered: the report of the very revision a command was answered with is passed over.
CoveredLater(c, rev) == c.waits /\ c.phase = "waiting" /\ rev > c.answer.view.rev

Covered(c, rev) == c.waits /\ c.phase = "waiting" /\ rev >= c.answer.view.rev

OnChange(c, e) == IF SettlesOnFinish(c) THEN [c EXCEPT !.buffered = e.rev]
                  ELSE Done(c, Verdict("published", e.rev, e.rev, e))

Change(c) == IF c.buffered # 0 THEN c.buffered ELSE last

\* Mutant of Failed: a failing step is looked for only when the whole regen failed.
FailedAsAWhole(c, e) == e.outcome = "failed"

Failed(c, e) == \/ e.outcome = "failed"
                \/ OfRecord(c) /\ c.rec \in e.bad
                \/ ~OfRecord(c) /\ e.bad # {}

OnFinish(c, e) ==
  CASE SettlesOnFinish(c) /\ Failed(c, e) -> Done(c, Verdict("failed", 0, e.rev, e))
    [] SettlesOnFinish(c) /\ ~Failed(c, e) ->
         Done(c, Verdict(IF OfRecord(c) /\ c.rec \in e.repair THEN "needsRepair" ELSE e.outcome,
                         Change(c), e.rev, e))
    [] ~SettlesOnFinish(c) /\ e.outcome # "published" -> Done(c, Verdict(e.outcome, 0, e.rev, e))
    [] OTHER -> c

-----------------------------------------------------------------------------
(* Commands: sent, handled by the backend, answered.                        *)

Open(i) == cmds[i].phase # "done"
InFlight == {i \in DOMAIN cmds : Open(i)}

\* The user does not undo, remove or roll over a commit in flight, nor work while a document opens.
OneAtATime(kind) ==
  /\ \A i \in InFlight : ~Opens(cmds[i])
  /\ kind \in {"undo", "remove", "roll"} => \A i \in InFlight : ~OfRecord(cmds[i])
  /\ kind = "open" => \A i \in InFlight : SettlesOnFinish(cmds[i])

Send == \E kind \in Kinds, r \in Records :
  /\ Len(cmds) < MaxCommands
  /\ kind \notin {"add", "reedit", "remove"} => r = CHOOSE q \in Records : TRUE
  /\ "overlap" \in Rare \/ OneAtATime(kind)
  /\ cmds' = Append(cmds, [kind |-> kind, rec |-> r, phase |-> "sent",
                           waits |-> kind \notin {"rename", "open"}, buffered |-> 0,
                           answer |-> NoAnswer, verdict |-> NoVerdict])
  /\ UNCHANGED <<doc, sched, events, client, store>>

Next1(p) == CHOOSE i \in Phase(p) : \A j \in Phase(p) : i <= j
Answer(i, d) == cmds' = [cmds EXCEPT ![i].phase = "answered",
                                     ![i].answer = [ok |-> TRUE, inst |-> d.inst,
                                                    view |-> Projection(d)]]

\* apply_edit_command, undo: edit, projection event, regen request, answer.
Handle ==
  /\ Phase("sent") # {}
  /\ LET i == Next1("sent") IN
     /\ ~Opens(cmds[i]) /\ ~Refused(cmds[i], doc)
     /\ \E o \in Edited(cmds[i], doc) :
          /\ o.from = -1 => /\ Idle \/ "bare_revision" \in Rare
                            /\ cmds[i].kind = "undo" => "no_regen" \in Rare
          /\ doc' = o.doc
          /\ events' = Append(events, ProjectionEvent(o.doc))
          /\ sched' = IF o.from = -1 THEN sched ELSE Request(sched, o.from)
          /\ Answer(i, o.doc)
  /\ UNCHANGED <<client, store>>

Refuse ==
  /\ Phase("sent") # {}
  /\ LET i == Next1("sent") IN
     /\ ~Opens(cmds[i]) /\ Refused(cmds[i], doc)
     /\ cmds' = [cmds EXCEPT ![i].phase = "answered"]
  /\ UNCHANGED <<doc, sched, events, client, store>>

\* open_document, new_document, recover: the slot is swapped; the scheduler is global.
OpenDocument ==
  /\ Phase("sent") # {}
  /\ LET i == Next1("sent") IN
     /\ Opens(cmds[i])
     /\ \E recs \in Openable, id \in {doc.inst + 1} \cup {q \in {doc.id} : "same_file" \in Rare} :
          LET new == Runtime(doc.inst + 1, id, recs) IN
          /\ doc' = new
          /\ events' = Append(events, ProjectionEvent(new))
          /\ sched' = [sched EXCEPT !.gate = @ \cup {id}]
          /\ Answer(i, new)
  /\ UNCHANGED <<client, store>>

-----------------------------------------------------------------------------
(* The scheduler and the driver.                                            *)

\* schedule_initial_regen: the worker is ready; the request goes out if the document still is open.
GateOpens == \E id \in sched.gate :
  /\ LET s == [sched EXCEPT !.gate = @ \ {id}] IN
     sched' = IF id = doc.id THEN Request(s, 0) ELSE s
  /\ UNCHANGED <<doc, events, cmds, client, store>>

Finished(d, job, outcome, ran, bad, repair) ==
  [type |-> "finished", inst |-> job.inst, rev |-> d.rev, source |-> job.source,
   outcome |-> outcome, ran |-> ran, bad |-> bad, repair |-> repair]

EmptyPlan == sched.from >= doc.cursor /\ ~(doc.cursor = 0 /\ doc.shown)

\* An empty plan reports at once, without a start.
BeginNothing ==
  /\ sched.on /\ sched.job = NoJob /\ EmptyPlan
  /\ sched' = [sched EXCEPT !.on = FALSE]
  /\ events' = events \o <<ProjectionEvent(doc),
                          Finished(doc, [inst |-> doc.inst, source |-> doc.rev], "noop", {}, {}, {})>>
  /\ UNCHANGED <<doc, cmds, client, store>>

Begin ==
  /\ sched.on /\ sched.job = NoJob /\ ~EmptyPlan
  /\ sched' = [sched EXCEPT !.on = FALSE,
                            !.job = [inst |-> doc.inst, source |-> doc.rev, cancelled |-> FALSE]]
  /\ events' = Append(events, [type |-> "started", inst |-> doc.inst])
  /\ UNCHANGED <<doc, cmds, client, store>>

Current == sched.job.inst = doc.inst /\ sched.job.source = doc.rev
JobEnds == sched' = [sched EXCEPT !.job = NoJob] /\ UNCHANGED <<cmds, client, store>>

\* finish_regen: the snapshot is committed; the timeline stands at its first failing step.
Publish == \E k \in 1..(doc.cursor + 1), how \in {"error", "needsRepair"} :
  LET at(r) == Place(doc, r)
      ran == {r \in Applied(doc) : at(r) < k}
      halted == {r \in Applied(doc) : at(r) = k}
      status == [r \in Records |-> IF r \in ran THEN "ok" ELSE IF r \in halted THEN how ELSE "dirty"]
      d == [doc EXCEPT !.status = status, !.snap = <<doc.inst, doc.rev>>, !.shown = ran # {}]
      only(h) == IF how = h THEN halted ELSE {}
  IN /\ sched.job # NoJob /\ Current
     /\ "past_halt" \in Rare \/ k >= doc.cursor
     /\ halted = {} => how = "error"
     /\ doc' = d
     /\ events' = events \o <<[type |-> "change", inst |-> d.inst, rev |-> d.rev, snap |-> d.snap],
                             ProjectionEvent(d),
                             Finished(d, sched.job, "published", ran, only("error"),
                                      only("needsRepair"))>>
     /\ JobEnds

\* Any other ending: the document moved on, the job was cancelled, the regen failed as a whole.
\* Rarely a cancelled job does not return in time and is dropped: on_cancel_timeout, no event.
Unpublished == \E outcome \in {"superseded", "cancelled", "failed", "abandoned"} :
  /\ sched.job # NoJob
  /\ outcome = "superseded" => ~Current
  /\ outcome = "failed" => Current
  /\ outcome \in {"cancelled", "abandoned"} => sched.job.cancelled
  /\ outcome = "abandoned" => "abandoned" \in Rare
  /\ events' = IF outcome = "abandoned" THEN events
               ELSE events \o <<ProjectionEvent(doc), Finished(doc, sched.job, outcome, {}, {}, {})>>
  /\ JobEnds
  /\ UNCHANGED doc

-----------------------------------------------------------------------------
(* The frontend: events and answers.                                        *)

OpenUnanswered == {i \in Phase("answered") : Opens(cmds[i])}
\* An answer under way that the event is not to overtake.
Overtakes(e, a) == \/ e.type = "finished" /\ a.view.rev <= e.source
                   \/ e.type = "projection" /\ a.view.rev < e.view.rev
Deliverable(e) ==
  /\ "fast_open" \in Rare \/ e.type = "projection" \/ \A i \in OpenUnanswered : e.inst # cmds[i].answer.inst
  /\ "late_answer" \in Rare \/ ~\E i \in Phase("answered") :
       LET a == cmds[i].answer IN a.ok /\ a.inst = e.inst /\ Overtakes(e, a)

Arrives(type) == /\ events # <<>> /\ Head(events).type = type
                 /\ Deliverable(Head(events))
                 /\ events' = Tail(events)
                 /\ UNCHANGED <<doc, sched>>

\* Mutant of Stale: revisions are compared across documents.
StaleByRevision(p) == p.rev < store.rev

\* applyProjectionToStore: dropped if older, within one document.
Stale(p) == p.id = store.id /\ p.rev < store.rev

HearProjection ==
  /\ Arrives("projection")
  /\ LET p == Head(events).view IN
     store' = IF Stale(p) THEN store ELSE p
  /\ UNCHANGED <<cmds, client>>

HearStarted ==
  /\ Arrives("started")
  /\ busy' = busy + 1
  /\ UNCHANGED <<cmds, last, snapshot, store>>

HearChange ==
  /\ Arrives("change")
  /\ LET e == Head(events)
         S == {i \in DOMAIN cmds : Covered(cmds[i], e.rev)} IN
     /\ snapshot' = e.snap
     /\ last' = e.rev
     /\ Settle([i \in DOMAIN cmds |-> IF i \in S THEN OnChange(cmds[i], e) ELSE cmds[i]], S)
  /\ UNCHANGED busy

\* Mutant of CountDown: a regen that was overtaken is ignored altogether.
CountDownCovering(e) == IF e.outcome \in {"superseded", "cancelled"} \/ busy = 0 THEN busy ELSE busy - 1

CountDown(e) == IF busy = 0 THEN 0 ELSE busy - 1

HearFinished ==
  /\ Arrives("finished")
  /\ LET e == Head(events)
         S == {i \in DOMAIN cmds : /\ e.outcome \notin {"superseded", "cancelled"}
                                   /\ Covered(cmds[i], e.source)} IN
     /\ busy' = CountDown(e)
     /\ Settle([i \in DOMAIN cmds |-> IF i \in S THEN OnFinish(cmds[i], e) ELSE cmds[i]], S)
  /\ UNCHANGED <<last, snapshot>>

Inert(c) == LET v == c.answer.view IN
            OfRecord(c) /\ ~\E i \in 1..v.cursor : v.recs[i] = c.rec

\* setTarget: the covering change may have arrived before the answer.
Target(c) ==
  LET w == [c EXCEPT !.phase = "waiting"] IN
  CASE ~c.waits -> TimedOut(c)
    [] c.waits /\ last >= c.answer.view.rev /\ SettlesOnFinish(c) -> [w EXCEPT !.buffered = last]
    [] c.waits /\ last >= c.answer.view.rev /\ ~SettlesOnFinish(c) ->
         Done(c, Verdict("published", last, last, NoReport))
    [] OTHER -> w

\* A variable edit of an empty timeline asks for no regen.
NoRegen(c) == c.kind = "variable" /\ c.answer.view.recs = <<>>

\* What the answer of a command settles at once, or leaves to an awaiter.
Heard(c) ==
  LET at(terminal) == Done(c, Verdict(terminal, 0, c.answer.view.rev, NoReport)) IN
  CASE ~c.answer.ok -> Done(c, Verdict("threw", 0, 0, NoReport))
    [] c.answer.ok /\ Metadata(c) -> at("published")
    [] c.answer.ok /\ NoRegen(c) -> at("noop")
    [] c.answer.ok /\ Inert(c) -> at("inert")
    [] OTHER -> Target(c)

HearAnswer ==
  /\ Phase("answered") # {}
  /\ LET i == Next1("answered") IN
     /\ ~Opens(cmds[i])
     /\ Settle([cmds EXCEPT ![i] = Heard(@)], {i})
  /\ UNCHANGED <<doc, sched, events, client>>

ResetAwaiter(c) == IF c.phase = "waiting" THEN TimedOut(c) ELSE [c EXCEPT !.waits = FALSE]

\* Mutant of FreshSnapshot: the picks of the new document name the snapshot of the old one.
KeptSnapshot == snapshot

FreshSnapshot == NoSnapshot

\* resetCorrelation: every awaiter resolves with nothing.
HearOpened ==
  /\ Phase("answered") # {}
  /\ LET i == Next1("answered") IN
     /\ Opens(cmds[i])
     /\ "late_event" \in Rare \/ \A k \in DOMAIN events :
          events[k].inst < cmds[i].answer.inst => events[k].type = "projection"
     /\ last' = 0 /\ snapshot' = FreshSnapshot /\ busy' = 0
     /\ LET S == Phase("waiting") IN
        Settle([j \in DOMAIN cmds |-> IF j = i THEN Done(cmds[i], NoVerdict)
                                      ELSE ResetAwaiter(cmds[j])], S)
  /\ UNCHANGED <<doc, sched, events>>

\* regenTimeoutMs have passed since the command was sent.
Timeout == \E i \in Phase("waiting") :
  /\ Settle([cmds EXCEPT ![i] = TimedOut(@)], {i})
  /\ UNCHANGED <<doc, sched, events, client>>

Init ==
  /\ \E recs \in Openable :
       /\ doc = Runtime(1, 1, recs)
       /\ sched = [on |-> FALSE, from |-> 0, job |-> NoJob, gate |-> {1}]
       /\ store = Projection(Runtime(1, 1, recs))
  /\ events = <<>> /\ cmds = <<>>
  /\ last = 0 /\ snapshot = NoSnapshot /\ busy = 0

Next == \/ Send \/ Handle \/ Refuse \/ OpenDocument
        \/ GateOpens \/ BeginNothing \/ Begin \/ Publish \/ Unpublished
        \/ HearProjection \/ HearStarted \/ HearChange \/ HearFinished
        \/ HearAnswer \/ HearOpened \/ Timeout

Spec == Init /\ [][Next]_vars

-----------------------------------------------------------------------------
(* Properties.                                                              *)

Statuses == {"dirty", "ok", "error", "needsRepair"}
Views == [id : Nat, rev : Nat, recs : Seq(Records), cursor : Nat, status : [Records -> Statuses]]

\* The types, and what a command's phase says of its awaiter and of its verdict.
CorTypeOK ==
  /\ Projection(doc) \in Views /\ doc.cursor <= Len(doc.recs)
  /\ store \in Views /\ store.cursor <= Len(store.recs)
  /\ {last, busy} \subseteq Nat
  /\ \A i \in DOMAIN cmds :
       /\ cmds[i].phase \in {"sent", "answered", "waiting", "done"}
       /\ cmds[i].phase = "waiting" => cmds[i].waits /\ cmds[i].answer.view \in Views
       /\ cmds[i].phase = "done" => ~cmds[i].waits

Quiet == /\ events = <<>> /\ Idle /\ sched.gate = {}
         /\ Phase("sent") = {} /\ Phase("answered") = {}

\* A commit is told what became of its own work: a success names a regen of its own document that
\* started from its revision or a later one and in which its record ran, with the change that
\* very regen published; a failure names a regen that failed as a whole or at its record
\* (resolveRegenFinished, resolvePublished).
VerdictIsTrue ==
  \A i \in DOMAIN cmds : LET c == cmds[i]  v == c.verdict IN
    c.phase = "done" /\ v.by # NoReport =>
      /\ v.by.inst = c.answer.inst
      /\ v.rev >= c.answer.view.rev
      /\ SettlesOnFinish(c) => v.by.type = "finished" /\ v.by.source >= c.answer.view.rev
      /\ v.terminal = "published" => v.change = v.by.rev
      /\ v.terminal = "published" /\ OfRecord(c) => c.rec \in v.by.ran
      /\ v.terminal = "failed" => v.by.outcome = "failed" \/ v.by.bad # {}

\* No command is left to run into the safety timeout: once the backend is still and every event
\* is delivered, no awaiter waits ("regen-finished fires on every regen", tauriClient.ts:244-247).
EveryCommitEnds == Quiet => Phase("waiting") = {}

\* "Rebuilding..." is shown exactly while a regen of the open document runs.
BusyIsRunning ==
  /\ Quiet => busy = 0
  /\ sched.job # NoJob /\ sched.job.inst = doc.inst /\ OpenUnanswered = {}
       /\ ~(\E k \in DOMAIN events : events[k].type = "started") => busy > 0

\* Picks are promoted against the snapshot the document shows.
SnapshotIsPublished == Quiet => snapshot = doc.snap

\* Whatever overtook what, the timeline the user ends up looking at is the document's, unless a
\* command that edits it failed or timed out, so that its rows were not written: a failed commit
\* is rolled back by its tool (ToolLane), and the rows of a removal or a roll that was given up
\* come with its projection, over which an undo that settles later writes its own, older ones.
Unwritten == \E i \in DOMAIN cmds : /\ cmds[i].kind # "variable" /\ ~Written(cmds[i])
                                   /\ cmds[i].verdict.terminal \in {"failed", "timeout"}
TimelineIsShown ==
  Quiet /\ InFlight = {} /\ ~Unwritten =>
    /\ store.id = doc.id /\ store.rev <= doc.rev
    /\ store.recs = doc.recs /\ store.cursor = doc.cursor

\* ... and so is the state of every row of it.
RowsAreCurrent ==
  Quiet /\ InFlight = {} => \A i \in DOMAIN doc.recs : store.status[doc.recs[i]] = doc.status[doc.recs[i]]
=============================================================================
