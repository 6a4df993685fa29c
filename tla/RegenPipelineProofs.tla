------------------------ MODULE RegenPipelineProofs ------------------------
(***************************************************************************)
(* The pipeline implements LiveModel: whatever edits, cancels, crashes,    *)
(* retries and checkpoints come together, a model that reaches the screen  *)
(* is the geometry of a prefix of the document as it then is.              *)
(*                                                                         *)
(* The worker answers a plan long after it was compiled, and the driver    *)
(* puts the bodies together from two sources, the stored artifacts of a    *)
(* base and the steps of the answer.  The invariant therefore follows the  *)
(* plan in flight: it was cut from the document that bears its revision;   *)
(* its base holds every line below the base, none of them failing; and     *)
(* whatever still carries its job id -- a request in the queue, the        *)
(* worker's scratch, the answer -- is about this plan and not about an     *)
(* earlier attempt under the same id.                                      *)
(***************************************************************************)
EXTENDS RegenPipeline, KernelSessionProofs, SequenceTheorems

(* What a plan asks the worker to run.                                     *)
PlanOps(p) == Lines(p.recs, p.base + 1, p.target)

(* A hash that names its bodies, and bodies without a failing operation.   *)
Honest(st) == st.geom \in Slices /\ st.hash = st.geom /\ Clean(st.geom)

Messages ==
    [kind : {"Restore", "Execute", "Accept", "Discard"}, job : Jobs, epoch : Nat,
     cancel : BOOLEAN, step : Nat, base : SUBSET ((1 .. MaxLen) \X Ops), ops : Slices]
        \cup [kind : {"Save"}, step : Nat, cancel : BOOLEAN, job : {0}]

DocInv ==
    /\ doc \in Timelines /\ cursor \in 0 .. Len(doc) /\ rev \in Nat
    /\ mirror = [recs |-> doc, cursor |-> cursor]

EpochInv == epoch \in Nat /\ wEpoch \in Nat /\ hooks \in Seq(Nat)

RequestInv ==
    /\ outbox \in Seq(Requests)
    /\ pend \in Requests \cup {NoRequest}
    /\ phase = "begin" => req \in Requests

HonestInv ==
    /\ head \in States /\ Honest(head)
    /\ scratch # NoScratch => Honest(scratch)
    /\ \A s \in DOMAIN saved : saved[s] \in States /\ Honest(saved[s])
    /\ \A s \in DOMAIN store : store[s] \in States /\ Honest(store[s])
    /\ saveReply # NoReply /\ saveReply.ok => Honest(saveReply)

(* The plan in flight.                                                     *)
Active == {"restore", "execute", "accept", "discard", "clear", "driven"}

CutFromDoc(p) ==
    /\ p \in Plans
    /\ p.cursor \in 0 .. Len(p.recs)
    /\ p.target \in 0 .. p.cursor /\ p.base \in 0 .. p.target
    /\ Honest(p.art) /\ p.art.geom = Lines(p.recs, 1, p.base)
    /\ p.clear => Lines(p.recs, 1, p.target) = {}

PlanInv ==
    phase \in Active =>
        /\ CutFromDoc(plan)
        /\ plan.rev <= rev
        /\ plan.rev = rev => plan.recs = doc /\ plan.cursor = cursor

(* Requests and scratch under the plan's job id.                           *)
Sent(i) == wq[i].kind = "Execute" /\ wq[i].job = plan.job

NoneSent == \A i \in DOMAIN wq : ~Sent(i)

NotPrepared == scratch # NoScratch => scratch.job # plan.job

QueueInv ==
    /\ wq \in Seq(Messages)
    /\ phase = "restore" => NoneSent /\ NotPrepared
    /\ phase = "discard" /\ after = "retry" => NoneSent /\ NotPrepared
    /\ phase = "execute" =>
         /\ \A i \in DOMAIN wq : Sent(i) => wq[i].ops = PlanOps(plan)
         /\ \A i, j \in DOMAIN wq : Sent(i) /\ Sent(j) => i = j
         /\ scratch # NoScratch /\ scratch.job = plan.job => scratch.steps = Built(PlanOps(plan))
    /\ phase = "execute" /\ reply # NoReply =>
         /\ NoneSent
         /\ IF reply.ok THEN reply.steps = Built(PlanOps(plan)) ELSE NotPrepared
    /\ phase \in {"idle", "begin"} => reply = NoReply
    /\ ~up => scratch = NoScratch

(* What a driven job hands back.                                           *)
DriveInv ==
    /\ phase = "clear" => plan.clear
    /\ phase \in {"restore", "execute", "accept", "discard"} => ~plan.clear
    /\ phase = "accept" => plan.steps = Built(PlanOps(plan))
    /\ phase = "discard" => after # "published"
    /\ phase = "driven" /\ outcome = "published" /\ ~plan.clear => plan.steps = Built(PlanOps(plan))

PipelineInv ==
    DocInv /\ EpochInv /\ RequestInv /\ HonestInv /\ PlanInv /\ QueueInv /\ DriveInv

-----------------------------------------------------------------------------
(* Facts about sequences and timelines.                                    *)

(* A sequence and one element more.                                        *)
LEMMA Appended ==
    ASSUME NEW S, NEW s \in Seq(S), NEW m \in S
    PROVE  /\ Append(s, m) \in Seq(S)
           /\ DOMAIN Append(s, m) = DOMAIN s \cup {Len(s) + 1}
           /\ \A i \in DOMAIN s : Append(s, m)[i] = s[i]
           /\ Append(s, m)[Len(s) + 1] = m
           /\ Len(s) + 1 \notin DOMAIN s
<1>1. Len(s) \in Nat /\ DOMAIN s = 1 .. Len(s)
  BY LenProperties
<1>2. Append(s, m) \in Seq(S) /\ Len(Append(s, m)) = Len(s) + 1
  BY AppendProperties
<1>3. DOMAIN Append(s, m) = 1 .. Len(s) + 1
  BY <1>2, LenProperties
<1>. QED
  BY <1>1, <1>2, <1>3, AppendProperties

(* A sequence and its first element less.                                  *)
LEMMA Tailed ==
    ASSUME NEW S, NEW s \in Seq(S), s # <<>>
    PROVE  /\ Head(s) \in S /\ 1 \in DOMAIN s /\ Head(s) = s[1]
           /\ Tail(s) \in Seq(S)
           /\ \A i \in DOMAIN Tail(s) : i \in Nat \ {0} /\ i + 1 \in DOMAIN s /\ Tail(s)[i] = s[i + 1]
<1>1. Len(s) \in Nat /\ DOMAIN s = 1 .. Len(s) /\ Len(s) # 0
  BY LenProperties, EmptySeq
<1>2. Tail(s) \in Seq(S) /\ Len(Tail(s)) = Len(s) - 1
  BY HeadTailProperties
<1>3. DOMAIN Tail(s) = 1 .. Len(s) - 1
  BY <1>2, LenProperties
<1>4. Head(s) = s[1]
  OBVIOUS
<1>. QED
  BY <1>1, <1>2, <1>3, <1>4, HeadTailProperties

(* Timelines are the sequences of records within the bound.                *)
LEMMA TimelineIsSeq ==
    ASSUME NEW d
    PROVE  d \in Timelines <=> d \in Seq(Records) /\ Len(d) <= MaxLen
<1>1. ASSUME d \in Timelines PROVE d \in Seq(Records) /\ Len(d) <= MaxLen
  <2>1. PICK n \in 0 .. MaxLen : d \in [1 .. n -> Records]
    BY <1>1 DEF Timelines
  <2>2. n \in Nat /\ Len(d) = n
    BY <2>1, OpsAssumption
  <2>. QED
    BY <2>1, <2>2, SeqDef
<1>2. ASSUME d \in Seq(Records), Len(d) <= MaxLen PROVE d \in Timelines
  <2>1. Len(d) \in Nat /\ d \in [1 .. Len(d) -> Records]
    BY <1>2, LenProperties
  <2>2. Len(d) \in 0 .. MaxLen
    BY <1>2, <2>1, OpsAssumption
  <2>. QED
    BY <2>1, <2>2 DEF Timelines
<1>. QED
  BY <1>1, <1>2

(* A timeline without one of its records is a timeline.                    *)
LEMMA TimelineWithout ==
    ASSUME NEW d \in Timelines, NEW i \in DOMAIN d
    PROVE  /\ SubSeq(d, 1, i - 1) \o SubSeq(d, i + 1, Len(d)) \in Timelines
           /\ Len(SubSeq(d, 1, i - 1) \o SubSeq(d, i + 1, Len(d))) = Len(d) - 1
<1>1. d \in Seq(Records) /\ Len(d) <= MaxLen /\ Len(d) \in Nat /\ DOMAIN d = 1 .. Len(d)
  BY TimelineIsSeq, TimelineLength, LenProperties
<1>2. i \in Nat /\ i >= 1 /\ i <= Len(d)
  BY <1>1
<1>3. SubSeq(d, 1, i - 1) \in Seq(Records) /\ Len(SubSeq(d, 1, i - 1)) = i - 1
  <2>1. \A k \in 1 .. i - 1 : d[k] \in Records
    BY <1>1, <1>2, ElementOfSeq
  <2>. QED
    BY <1>2, <2>1, SubSeqProperties
<1>4. SubSeq(d, i + 1, Len(d)) \in Seq(Records) /\ Len(SubSeq(d, i + 1, Len(d))) = Len(d) - i
  <2>1. \A k \in i + 1 .. Len(d) : d[k] \in Records
    BY <1>1, <1>2, ElementOfSeq
  <2>2. Len(SubSeq(d, i + 1, Len(d))) = IF i + 1 <= Len(d) THEN Len(d) - (i + 1) + 1 ELSE 0
    BY <1>1, <1>2, <2>1, SubSeqProperties
  <2>3. SubSeq(d, i + 1, Len(d)) \in Seq(Records)
    BY <1>1, <1>2, <2>1, SubSeqProperties
  <2>. QED
    BY <1>1, <1>2, <2>2, <2>3
<1>. DEFINE a == SubSeq(d, 1, i - 1)
            b == SubSeq(d, i + 1, Len(d))
<1>5. a \o b \in Seq(Records) /\ Len(a \o b) = Len(a) + Len(b)
  BY <1>3, <1>4, ConcatProperties
<1>6. Len(a \o b) = Len(d) - 1 /\ Len(a \o b) <= MaxLen
  BY <1>1, <1>2, <1>3, <1>4, <1>5, OpsAssumption
<1>. QED
  BY <1>5, <1>6, TimelineIsSeq

(* A timeline with one more record is a timeline, if there is room.        *)
LEMMA TimelineWith ==
    ASSUME NEW d \in Timelines, Len(d) < MaxLen, NEW c \in 0 .. Len(d), NEW r \in Records
    PROVE  /\ SubSeq(d, 1, c) \o <<r>> \o SubSeq(d, c + 1, Len(d)) \in Timelines
           /\ Len(SubSeq(d, 1, c) \o <<r>> \o SubSeq(d, c + 1, Len(d))) = Len(d) + 1
<1>1. d \in Seq(Records) /\ Len(d) <= MaxLen /\ Len(d) \in Nat /\ DOMAIN d = 1 .. Len(d)
  BY TimelineIsSeq, TimelineLength, LenProperties
<1>c. c \in Nat
  BY <1>1
<1>2. SubSeq(d, 1, c) \in Seq(Records) /\ Len(SubSeq(d, 1, c)) = c
  <2>1. \A k \in 1 .. c : d[k] \in Records
    BY <1>1, ElementOfSeq
  <2>. QED
    BY <1>1, <2>1, SubSeqProperties
<1>3. SubSeq(d, c + 1, Len(d)) \in Seq(Records) /\ Len(SubSeq(d, c + 1, Len(d))) = Len(d) - c
  <2>1. \A k \in c + 1 .. Len(d) : d[k] \in Records
    BY <1>1, ElementOfSeq
  <2>2. Len(SubSeq(d, c + 1, Len(d))) = IF c + 1 <= Len(d) THEN Len(d) - (c + 1) + 1 ELSE 0
    BY <1>1, <2>1, SubSeqProperties
  <2>3. SubSeq(d, c + 1, Len(d)) \in Seq(Records)
    BY <1>1, <2>1, SubSeqProperties
  <2>4. ASSUME NEW n \in Nat, NEW k \in 0 .. n
        PROVE  (IF k + 1 <= n THEN n - (k + 1) + 1 ELSE 0) = n - k
    OBVIOUS
  <2>5. Len(SubSeq(d, c + 1, Len(d))) = Len(d) - c
    BY <1>1, <2>2, <2>4
  <2>. QED
    BY <2>3, <2>5
<1>4. <<r>> \in Seq(Records) /\ Len(<<r>>) = 1
  OBVIOUS
<1>. DEFINE a == SubSeq(d, 1, c)
            b == SubSeq(d, c + 1, Len(d))
<1>5. a \o <<r>> \in Seq(Records) /\ Len(a \o <<r>>) = c + 1
  BY <1>2, <1>4, ConcatProperties
<1>6. a \o <<r>> \o b \in Seq(Records) /\ Len(a \o <<r>> \o b) = Len(a \o <<r>>) + Len(b)
  BY <1>3, <1>5, ConcatProperties
<1>7. Len(a \o <<r>> \o b) = Len(d) + 1 /\ Len(a \o <<r>> \o b) <= MaxLen
  <2>1. (c + 1) + (Len(d) - c) = Len(d) + 1
    BY <1>1, <1>c
  <2>2. Len(d) + 1 <= MaxLen
    BY <1>1, OpsAssumption
  <2>. QED
    BY <1>3, <1>5, <1>6, <2>1, <2>2
<1>. QED
  BY <1>6, <1>7, TimelineIsSeq

(* What of a slice is built is a slice without failing operations.         *)
LEMMA BuiltOfSlice ==
    ASSUME NEW S \in Slices
    PROVE  Built(S) \in Slices /\ Clean(Built(S))
<1>1. Built(S) \subseteq S
  BY DEF Built
<1>2. ASSUME NEW l \in Built(S), l[2] \in Failing PROVE FALSE
  <2>1. l \in S /\ l[1] < l[1]
    BY <1>2 DEF Built
  <2>2. l[1] \in 1 .. MaxLen
    BY <2>1 DEF Slices
  <2>3. ASSUME NEW k \in 1 .. MaxLen PROVE ~(k < k)
    BY <2>3, OpsAssumption
  <2>. QED
    BY <2>1, <2>2, <2>3
<1>. QED
  BY <1>1, <1>2 DEF Slices, Clean

-----------------------------------------------------------------------------
(* Edits.                                                                  *)

(* What every edit has in common: a new document of legal size, at most    *)
(* one request more on its way, and no checkpoint that was not there.      *)
EditShape(d, c) ==
    /\ d \in Timelines /\ c \in 0 .. Len(d)
    /\ Mutate(d, c)
    /\ outbox' = outbox \/ \E r \in Requests : outbox' = Append(outbox, r)
    /\ \A s \in DOMAIN store' : s \in DOMAIN store /\ store'[s] = store[s]

(* Eviction removes checkpoints and changes none.                          *)
LEMMA EvictKeeps == \A f : \A s \in DOMAIN Evict(f) : s \in DOMAIN store /\ Evict(f)[s] = store[s]
  BY DEF Evict

(* Any step, and the one after the last, may be asked for.                 *)
LEMMA Requested ==
    /\ \A i \in 1 .. MaxLen + 1 : ToEnd(i) \in Requests /\ ToStep(i) \in Requests
    /\ 1 \in 1 .. MaxLen + 1
<1>1. 1 \in 1 .. MaxLen + 1
  BY OpsAssumption
<1>. QED
  BY <1>1 DEF ToEnd, ToStep, Requests

(* Every command has the shape of an edit.                                 *)
LEMMA EditHasShape ==
    ASSUME DocInv, Edit
    PROVE  \E d, c : EditShape(d, c)
<1>. USE DEF DocInv
<1>1. Len(doc) \in Nat /\ Len(doc) <= MaxLen /\ DOMAIN doc = 1 .. Len(doc) /\ cursor \in Nat /\ cursor <= Len(doc)
  BY TimelineLength, TimelineIsSeq, OpsAssumption
<1>2. \A i \in DOMAIN doc, r \in Records :
        [doc EXCEPT ![i] = r] \in Timelines /\ Len([doc EXCEPT ![i] = r]) = Len(doc)
  <2>1. doc \in Seq(Records)
    BY TimelineIsSeq
  <2>. SUFFICES ASSUME NEW i \in DOMAIN doc, NEW r \in Records
                PROVE  [doc EXCEPT ![i] = r] \in Timelines /\ Len([doc EXCEPT ![i] = r]) = Len(doc)
    OBVIOUS
  <2>2. [doc EXCEPT ![i] = r] \in Seq(Records) /\ Len([doc EXCEPT ![i] = r]) = Len(doc)
    BY <1>1, <2>1, ExceptSeq
  <2>. QED
    BY <1>1, <2>2, TimelineIsSeq
<1>3. ASSUME NEW i \in 1 .. MaxLen, NEW op \in Ops, UpdateParams(i, op) PROVE \E d, c : EditShape(d, c)
  <2>1. i \in DOMAIN doc /\ ToEnd(i) \in Requests
    BY <1>3, Requested, OpsAssumption DEF UpdateParams, Editable
  <2>. DEFINE r == IF doc[i] = Suppressed THEN Suppressed ELSE op
  <2>2. r \in Records /\ Mutate([doc EXCEPT ![i] = r], cursor)
    BY <1>3, <2>1 DEF UpdateParams, Records
  <2>3. EditShape([doc EXCEPT ![i] = r], cursor)
    BY <1>1, <1>2, <1>3, <2>1, <2>2, EvictKeeps DEF UpdateParams, EditShape, Post
  <2>. QED
    BY <2>3
<1>4. ASSUME NEW i \in 1 .. MaxLen, NEW r \in Records, SetSuppression(i, r) PROVE \E d, c : EditShape(d, c)
  <2>1. i \in DOMAIN doc /\ ToEnd(i) \in Requests
    BY <1>4, Requested, OpsAssumption DEF SetSuppression, Editable
  <2>2. EditShape([doc EXCEPT ![i] = r], cursor)
    BY <1>1, <1>2, <1>4, <2>1, EvictKeeps DEF SetSuppression, EditShape, Post
  <2>. QED
    BY <2>2
<1>5. ASSUME NEW op \in Ops, AddAtCursor(op) PROVE \E d, c : EditShape(d, c)
  <2>. DEFINE d == SubSeq(doc, 1, cursor) \o <<op>> \o SubSeq(doc, cursor + 1, Len(doc))
  <2>1. d \in Timelines /\ Len(d) = Len(doc) + 1
    BY <1>5, TimelineWith DEF AddAtCursor, Records
  <2>2. cursor + 1 \in 0 .. Len(d)
    <3>1. ASSUME NEW n \in Nat, NEW k \in Nat, k <= n PROVE k + 1 \in 0 .. n + 1
      BY <3>1
    <3>. QED
      BY <1>1, <2>1, <3>1
  <2>3. ToEnd(cursor + 1) \in Requests
    <3>1. cursor + 1 \in 1 .. MaxLen + 1
      BY <1>1, OpsAssumption
    <3>. QED
      BY <3>1, Requested
  <2>4. EditShape(d, cursor + 1)
    BY <1>5, <2>1, <2>2, <2>3, EvictKeeps DEF AddAtCursor, EditShape, Post
  <2>. QED
    BY <2>4
<1>6. ASSUME NEW op \in Ops, AppendParked(op) PROVE \E d, c : EditShape(d, c)
  <2>1. Append(doc, op) \in Timelines /\ Len(Append(doc, op)) = Len(doc) + 1
    <3>1. doc \in Seq(Records) /\ op \in Records
      BY TimelineIsSeq DEF Records
    <3>2. Append(doc, op) \in Seq(Records) /\ Len(Append(doc, op)) = Len(doc) + 1
      BY <3>1, AppendProperties
    <3>3. Len(doc) + 1 <= MaxLen
      BY <1>1, <1>6, OpsAssumption DEF AppendParked
    <3>. QED
      BY <3>2, <3>3, TimelineIsSeq
  <2>2. cursor \in 0 .. Len(Append(doc, op))
    BY <1>1, <2>1
  <2>3. EditShape(Append(doc, op), cursor)
    BY <1>6, <2>1, <2>2, EvictKeeps DEF AppendParked, EditShape
  <2>. QED
    BY <2>3
<1>7. ASSUME NEW i \in 1 .. MaxLen, RemoveStep(i) PROVE \E d, c : EditShape(d, c)
  <2>1. i \in DOMAIN doc /\ ToEnd(i) \in Requests /\ i \in Nat
    BY <1>7, Requested, OpsAssumption DEF RemoveStep, Editable
  <2>. DEFINE c == IF i <= cursor THEN cursor - 1 ELSE cursor
  <2>2. WithoutStep(i) \in Timelines /\ Len(WithoutStep(i)) = Len(doc) - 1
    BY <2>1, TimelineWithout DEF WithoutStep
  <2>3. c \in 0 .. Len(doc) - 1
    BY <1>1, <2>1
  <2>4. EditShape(WithoutStep(i), c)
    BY <1>7, <2>1, <2>2, <2>3, EvictKeeps DEF RemoveStep, EditShape, Post
  <2>. QED
    BY <2>4
<1>8. ASSUME UndoAppend PROVE \E d, c : EditShape(d, c)
  <2>1. cursor \in DOMAIN doc
    BY <1>1, <1>8 DEF UndoAppend
  <2>2. WithoutStep(cursor) \in Timelines /\ Len(WithoutStep(cursor)) = Len(doc) - 1
    BY <2>1, TimelineWithout DEF WithoutStep
  <2>3. cursor - 1 \in 0 .. Len(doc) - 1
    BY <1>1, <1>8 DEF UndoAppend
  <2>4. Larger(cursor - 1, 1) \in 1 .. MaxLen + 1
    BY <1>1, OpsAssumption DEF Larger
  <2>5. ToEnd(Larger(cursor - 1, 1)) \in Requests
    BY <2>4, Requested
  <2>6. EditShape(WithoutStep(cursor), cursor - 1)
    BY <1>8, <2>2, <2>3, <2>5, EvictKeeps DEF UndoAppend, EditShape, Post
  <2>. QED
    BY <2>6
<1>9. ASSUME NEW c \in 0 .. Len(doc), SetRollback(c) PROVE \E d, e : EditShape(d, e)
  <2>1. Larger(c, 1) \in 1 .. MaxLen + 1
    BY <1>1, OpsAssumption DEF Larger
  <2>2. ToStep(Larger(c, 1)) \in Requests
    BY <2>1, Requested
  <2>3. EditShape(doc, c)
    BY <1>9, <2>2 DEF SetRollback, EditShape, Post
  <2>. QED
    BY <2>3
<1>10. ASSUME MetaEdit PROVE \E d, c : EditShape(d, c)
  <2>1. EditShape(doc, cursor)
    BY <1>10 DEF MetaEdit, EditShape
  <2>. QED
    BY <2>1
<1>. QED
  BY <1>3, <1>4, <1>5, <1>6, <1>7, <1>8, <1>9, <1>10 DEF Edit

(* An edit moves the revision past the one a plan in flight was cut at.    *)
LEMMA EditKeepsInv ==
    ASSUME PipelineInv, NEW d, NEW c, EditShape(d, c)
    PROVE  PipelineInv'
<1>. USE DEF PipelineInv
<1>1. /\ doc' = d /\ cursor' = c /\ rev' = rev + 1 /\ mirror' = [recs |-> d, cursor |-> c]
      /\ UNCHANGED <<shownVars, hooks, schedVars, jobVars, up, wq, mintVars, sessionVars>>
  BY DEF EditShape, Mutate
<1>2. DocInv'
  BY <1>1 DEF DocInv, EditShape
<1>3. EpochInv'
  BY <1>1 DEF EpochInv, shownVars, sessionVars
<1>4. RequestInv'
  <2>1. outbox' \in Seq(Requests)
    BY Appended DEF RequestInv, EditShape
  <2>. QED
    BY <1>1, <2>1 DEF RequestInv, schedVars, jobVars
<1>5. HonestInv'
  <2>1. \A s \in DOMAIN store' : store'[s] \in States /\ Honest(store'[s])
    BY DEF HonestInv, EditShape
  <2>. QED
    BY <1>1, <2>1 DEF HonestInv, Honest, sessionVars, mintVars
<1>6. PlanInv'
  <2>1. phase \in Active => ~(plan.rev = rev + 1) /\ plan.rev <= rev + 1
    <3>1. phase \in Active => plan.rev \in Nat /\ plan.rev <= rev
      BY DEF PlanInv, CutFromDoc, Plans
    <3>2. rev \in Nat
      BY DEF DocInv
    <3>. QED
      BY <3>1, <3>2
  <2>. QED
    BY <1>1, <2>1 DEF PlanInv, CutFromDoc, Honest, jobVars
<1>7. QueueInv' /\ DriveInv'
  BY <1>1 DEF QueueInv, DriveInv, NoneSent, Sent, NotPrepared, PlanOps, jobVars, sessionVars
<1>. QED
  BY <1>2, <1>3, <1>4, <1>5, <1>6, <1>7

-----------------------------------------------------------------------------
(* The scheduler.                                                          *)

(* A request reaches the scheduler.                                        *)
LEMMA DeliverKeepsInv ==
    ASSUME PipelineInv, NEW i, Deliver(i)
    PROVE  PipelineInv'
<1>. USE DEF PipelineInv
<1>1. i \in DOMAIN outbox /\ outbox \in Seq(Requests)
  BY DEF Deliver, RequestInv
<1>2. DOMAIN outbox = 1 .. Len(outbox) /\ Len(outbox) \in Nat /\ i \in Nat /\ outbox[i] \in Requests
  BY <1>1, LenProperties
<1>3. outbox' \in Seq(Requests)
  <2>1. SubSeq(outbox, 1, i - 1) \in Seq(Requests)
    <3>1. \A k \in 1 .. i - 1 : outbox[k] \in Requests
      BY <1>1, <1>2, ElementOfSeq
    <3>. QED
      BY <1>2, <3>1, SubSeqProperties
  <2>2. SubSeq(outbox, i + 1, Len(outbox)) \in Seq(Requests)
    <3>1. \A k \in i + 1 .. Len(outbox) : outbox[k] \in Requests
      BY <1>1, <1>2, ElementOfSeq
    <3>. QED
      BY <1>2, <3>1, SubSeqProperties
  <2>. QED
    BY <2>1, <2>2, ConcatProperties DEF Deliver
<1>4. UNCHANGED <<docVars, shownVars, store, hooks, req, jobVars, up, wq, mintVars, sessionVars>>
  BY DEF Deliver
<1>5. RequestInv'
  BY <1>2, <1>3, <1>4 DEF RequestInv, Deliver, jobVars
<1>6. DocInv' /\ EpochInv' /\ HonestInv'
  BY <1>4 DEF DocInv, EpochInv, HonestInv, Honest, docVars, shownVars, sessionVars, mintVars
<1>7. PlanInv'
  BY <1>4 DEF PlanInv, CutFromDoc, Honest, docVars, jobVars
<1>8. QueueInv' /\ DriveInv'
  BY <1>4 DEF QueueInv, DriveInv, NoneSent, Sent, NotPrepared, PlanOps, jobVars, sessionVars
<1>. QED
  BY <1>5, <1>6, <1>7, <1>8

(* The scheduler starts a job for the pending request.                     *)
LEMMA StartJobKeepsInv ==
    ASSUME PipelineInv, StartJob
    PROVE  PipelineInv'
<1>. USE DEF PipelineInv
<1>1. /\ phase = "idle" /\ phase' = "begin" /\ pend # NoRequest /\ req' = pend /\ pend' = NoRequest
      /\ UNCHANGED <<docVars, shownVars, store, sendVars, plan, after, outcome, reply,
                     up, wq, mintVars, sessionVars>>
  BY DEF StartJob
<1>2. DocInv' /\ EpochInv' /\ HonestInv'
  BY <1>1 DEF DocInv, EpochInv, HonestInv, Honest, docVars, shownVars, sendVars, sessionVars, mintVars
<1>3. RequestInv'
  BY <1>1 DEF RequestInv, sendVars
<1>4. PlanInv' /\ QueueInv' /\ DriveInv'
  BY <1>1 DEF PlanInv, QueueInv, DriveInv, Active, sessionVars
<1>. QED
  BY <1>2, <1>3, <1>4

(* Whatever ends a job and leaves the mirror right.                        *)
LEMMA EndJobKeepsInv ==
    ASSUME PipelineInv, EndJob, mirror' = mirror,
           UNCHANGED <<doc, cursor, rev, epoch, store, sendVars, up, wq, mintVars, sessionVars>>
    PROVE  PipelineInv'
<1>. USE DEF PipelineInv
<1>1. phase' = "idle" /\ reply' = NoReply /\ UNCHANGED pend
  BY DEF EndJob
<1>2. DocInv' /\ EpochInv' /\ HonestInv'
  BY DEF DocInv, EpochInv, HonestInv, Honest, sendVars, sessionVars, mintVars
<1>3. RequestInv'
  BY <1>1 DEF RequestInv, sendVars
<1>4. PlanInv' /\ QueueInv' /\ DriveInv'
  BY <1>1 DEF PlanInv, QueueInv, DriveInv, Active, sessionVars
<1>. QED
  BY <1>2, <1>3, <1>4

(* The commit: only a drive that is still current reaches the screen, and  *)
(* what it brings is the geometry of the document's prefix.                *)
LEMMA FoldedIsPrefix ==
    ASSUME PipelineInv, phase = "driven", outcome = "published", Current
    PROVE  /\ Folded = Regen(doc, plan.target)
           /\ plan.target \in 0 .. cursor
           /\ plan.recs = doc /\ plan.cursor = cursor
           /\ Folded \in Slices
<1>. USE DEF PipelineInv
<1>1. /\ CutFromDoc(plan) /\ plan.recs = doc /\ plan.cursor = cursor
      /\ ~plan.clear => plan.steps = Built(PlanOps(plan))
  BY DEF PlanInv, Active, Current, DriveInv
<1>2. /\ plan.cursor \in Nat /\ plan.target \in Nat /\ plan.base \in Nat /\ plan.base <= plan.target
      /\ plan.base + 1 \in Nat /\ 1 <= plan.base + 1
  <2>1. Len(plan.recs) \in Nat
    BY <1>1, TimelineLength, OpsAssumption DEF CutFromDoc
  <2>. QED
    BY <1>1, <2>1 DEF CutFromDoc
<1>3. Folded = Built(Lines(plan.recs, 1, plan.target))
  <2>1. CASE plan.clear
    BY <1>1, <2>1 DEF Folded, CutFromDoc, Built
  <2>2. CASE ~plan.clear
    <3>1. Folded = Lines(plan.recs, 1, plan.base) \cup Built(Lines(plan.recs, plan.base + 1, plan.target))
      BY <1>1, <2>2 DEF Folded, CutFromDoc, PlanOps
    <3>2. Clean(Lines(plan.recs, 1, plan.base))
      BY <1>1 DEF CutFromDoc, Honest
    <3>. QED
      BY <1>2, <3>1, <3>2, BuiltOnBase
  <2>. QED
    BY <2>1, <2>2
<1>4. Lines(plan.recs, 1, plan.target) \in Slices
  <2>1. plan.recs \in Timelines /\ 1 \in Nat /\ 1 <= 1
    BY <1>1 DEF CutFromDoc, Plans
  <2>. QED
    BY <1>2, <2>1, LinesType DEF Slices
<1>. QED
  BY <1>1, <1>3, <1>4, BuiltOfSlice DEF CutFromDoc, Regen

(* A finished job leaves nothing behind that the next could mistake.       *)
LEMMA FinishKeepsInv ==
    ASSUME PipelineInv, FinishRegen
    PROVE  PipelineInv'
<1>1. mirror' = mirror
  BY FoldedIsPrefix DEF FinishRegen, PipelineInv, DocInv
<1>. QED
  BY <1>1, EndJobKeepsInv DEF FinishRegen

-----------------------------------------------------------------------------
(* The plan is compiled.                                                   *)

(* A fresh id is one nobody uses.                                          *)
LEMMA Fresh ==
    ASSUME Jobs \ JobsInUse # {}
    PROVE  FreshJob \in Jobs /\ FreshJob \notin JobsInUse
  BY DEF FreshJob

(* Nothing in the queue or on the worker carries a fresh id.               *)
LEMMA FreshIsUnsent ==
    ASSUME Jobs \ JobsInUse # {}
    PROVE  /\ \A i \in DOMAIN wq : ~(wq[i].kind = "Execute" /\ wq[i].job = FreshJob)
           /\ scratch # NoScratch => scratch.job # FreshJob
<1>1. FreshJob \notin JobsInUse
  BY Fresh
<1>2. ASSUME NEW i \in DOMAIN wq, wq[i].kind = "Execute", wq[i].job = FreshJob PROVE FALSE
  <2>1. wq[i].job \in JobsInUse
    BY <1>2 DEF JobsInUse
  <2>. QED
    BY <1>1, <1>2, <2>1
<1>3. ASSUME scratch # NoScratch, scratch.job = FreshJob PROVE FALSE
  BY <1>1, <1>3 DEF JobsInUse
<1>. QED
  BY <1>2, <1>3

(* An empty prefix has no lines.                                           *)
LEMMA NoLines == ASSUME NEW d PROVE Lines(d, 1, 0) = {}
<1>1. 0 \in Nat /\ 1 \in Nat /\ 0 < 1
  OBVIOUS
<1>. QED
  BY <1>1, NoLinesBelow

(* The head of a fresh worker is honest.                                   *)
LEMMA EmptyIsHonest ==
    ASSUME NEW d
    PROVE  EmptyHead \in States /\ Honest(EmptyHead) /\ EmptyHead.geom = Lines(d, 1, 0)
  BY NoLines DEF Honest, EmptyHead, EmptyPrefix, Clean, States, Slices

(* The end of the slice a request asks for.                                *)
LEMMA TargetInPrefix ==
    ASSUME DocInv, req \in Requests
    PROVE  /\ Applied = cursor /\ Applied \in Nat /\ Target \in 0 .. Applied
           /\ req.at \in Nat
           /\ ~PastEnd => req.at <= Target
<1>1. cursor \in Nat
  BY TimelineLength, OpsAssumption DEF DocInv
<1>2. Applied = cursor
  BY DEF DocInv, Applied
<1>3. req.at \in Nat
  BY OpsAssumption DEF Requests
<1>. QED
  BY <1>1, <1>2, <1>3 DEF Target, Smaller, PastEnd

(* A plan on a usable checkpoint stands on every line below its base.      *)
LEMMA CutAtBase ==
    ASSUME PipelineInv, phase = "begin", ~PastEnd, Jobs \ JobsInUse # {},
           NEW base \in Steps \cup {0}, base \in Usable \cup {0}
    PROVE  CutFromDoc(PlanFor(base))
<1>. USE DEF PipelineInv
<1>1. req \in Requests /\ DocInv
  BY DEF RequestInv
<1>2. /\ Applied = cursor /\ Applied \in Nat /\ Target \in 0 .. Applied
      /\ req.at \in Nat /\ req.at <= Target
  BY <1>1, TargetInPrefix
<1>3. base \in 0 .. Target
  <2>1. CASE base = 0
    BY <1>2, <2>1
  <2>2. CASE base \in Usable
    <3>1. base < req.at /\ base \in DOMAIN store
      BY <2>2 DEF Usable
    <3>2. base \in Nat
      BY SessionAssumption
    <3>. QED
      BY <1>2, <3>1, <3>2
  <2>. QED
    BY <2>1, <2>2
<1>4. /\ PlanFor(base).art \in States /\ Honest(PlanFor(base).art)
      /\ PlanFor(base).art.geom = Lines(mirror.recs, 1, base)
  <2>1. CASE base = 0
    BY <2>1, EmptyIsHonest DEF PlanFor
  <2>2. CASE base \in Usable /\ base # 0
    <3>1. /\ store[base] \in States /\ Honest(store[base])
          /\ store[base].hash = Lines(mirror.recs, 1, base)
      BY <2>2 DEF Usable, HonestInv
    <3>. QED
      BY <2>2, <3>1 DEF PlanFor, Honest
  <2>. QED
    BY <2>1, <2>2
<1>5. PlanFor(base) \in Plans
  <2>1. Target \in Nat /\ base \in Nat /\ {} \in Slices
    BY <1>2, <1>3 DEF Slices
  <2>. QED
    BY <1>1, <1>2, <1>4, <2>1, Fresh DEF PlanFor, Plans, DocInv, EpochInv
<1>. QED
  BY <1>1, <1>2, <1>3, <1>4, <1>5 DEF PlanFor, CutFromDoc, DocInv

PlanKinds == {"Restore", "Execute", "Accept", "Discard"}

(* A request cut from a plan is a well-formed message.                     *)
LEMMA MessageShape ==
    ASSUME NEW p, CutFromDoc(p), NEW kind \in PlanKinds
    PROVE  /\ Message(kind, p) \in Messages
           /\ Message(kind, p).kind = kind
           /\ Message(kind, p).job = p.job
           /\ Message(kind, p).ops = PlanOps(p)
<1>1. /\ p.job \in Jobs /\ p.epoch \in Nat /\ p.recs \in Timelines
      /\ p.target \in Nat /\ p.base \in Nat /\ p.base + 1 \in Nat /\ 1 <= p.base + 1
      /\ 1 <= 1 /\ 1 \in Nat
  BY DEF CutFromDoc, Plans
<1>2. PlanOps(p) \in Slices
  BY <1>1, LinesType DEF PlanOps, Slices
<1>3. Lines(p.recs, 1, p.base) \in SUBSET ((1 .. MaxLen) \X Ops)
  BY <1>1, LinesType
<1>4. p.art.hash \in SUBSET ((1 .. MaxLen) \X Ops)
  BY <1>3 DEF CutFromDoc, Honest
<1>. QED
  BY <1>1, <1>2, <1>4 DEF Message, Messages, PlanKinds, PlanOps

(* begin_regen: the plan is cut from the document as it is.                *)
LEMMA BeginPlanKeepsInv ==
    ASSUME PipelineInv, NEW base \in Steps \cup {0}, BeginPlan(base)
    PROVE  PipelineInv'
<1>. USE DEF PipelineInv
<1>. DEFINE p == PlanFor(base)
            m == Message(IF base = 0 THEN "Execute" ELSE "Restore", p)
<1>1. /\ phase = "begin" /\ plan' = p
      /\ phase' = IF base = 0 THEN "execute" ELSE "restore"
      /\ wq' = Append(wq, m)
      /\ UNCHANGED <<docVars, shownVars, store, sendVars, schedVars,
                     after, outcome, reply, up, mintVars, sessionVars>>
  BY DEF BeginPlan, Send
<1>2. CutFromDoc(p)
  BY CutAtBase DEF BeginPlan
<1>3. /\ m \in Messages /\ m.job = FreshJob /\ m.ops = PlanOps(p)
      /\ m.kind = IF base = 0 THEN "Execute" ELSE "Restore"
  BY <1>2, MessageShape DEF PlanKinds, PlanFor
<1>4. p.job = FreshJob /\ p.rev = rev /\ p.recs = doc /\ p.cursor = cursor /\ ~p.clear
  BY DEF PlanFor, Applied, DocInv
<1>5. reply = NoReply
  BY <1>1 DEF QueueInv
<1>6. DocInv' /\ EpochInv' /\ HonestInv' /\ RequestInv'
  BY <1>1 DEF DocInv, EpochInv, HonestInv, Honest, RequestInv,
              docVars, shownVars, sendVars, schedVars, mintVars, sessionVars
<1>7. PlanInv'
  <2>1. CutFromDoc(plan)'
    BY <1>1, <1>2 DEF CutFromDoc, Honest
  <2>. QED
    BY <1>1, <1>4, <2>1 DEF PlanInv, docVars, DocInv
<1>8. DriveInv'
  BY <1>1, <1>4 DEF DriveInv
<1>9. QueueInv'
  <2>1. /\ wq' \in Seq(Messages) /\ DOMAIN wq' = DOMAIN wq \cup {Len(wq) + 1}
        /\ \A i \in DOMAIN wq : wq'[i] = wq[i]
        /\ wq'[Len(wq) + 1] = m
    BY <1>1, <1>3, Appended DEF QueueInv
  <2>2. /\ \A i \in DOMAIN wq : ~(wq[i].kind = "Execute" /\ wq[i].job = FreshJob)
        /\ scratch # NoScratch => scratch.job # FreshJob
    BY FreshIsUnsent DEF BeginPlan
  <2>3. scratch' = scratch /\ up' = up /\ reply' = NoReply
    BY <1>1, <1>5 DEF sessionVars
  <2>4. base # 0 => NoneSent'
    BY <1>1, <1>3, <1>4, <2>1, <2>2 DEF NoneSent, Sent
  <2>5. NotPrepared'
    BY <1>1, <1>4, <2>2, <2>3 DEF NotPrepared
  <2>6. \A i \in DOMAIN wq' : Sent(i)' => i = Len(wq) + 1
    BY <1>1, <1>4, <2>1, <2>2 DEF Sent
  <2>. QED
    BY <1>1, <1>3, <1>4, <2>1, <2>3, <2>4, <2>5, <2>6
       DEF QueueInv, PlanOps, NotPrepared
<1>. QED
  BY <1>6, <1>7, <1>8, <1>9

(* prepare_clear_regen: the plan of a document without geometry.           *)
LEMMA BeginClearKeepsInv ==
    ASSUME PipelineInv, BeginClear
    PROVE  PipelineInv'
<1>. USE DEF PipelineInv
<1>. DEFINE t == IF PastEnd THEN Applied ELSE Target
            p == [PlanFor(0) EXCEPT !.clear = TRUE, !.target = t]
<1>1. /\ phase = "begin" /\ phase' = "clear" /\ plan' = p
      /\ UNCHANGED <<docVars, shownVars, store, sendVars, schedVars,
                     after, outcome, reply, up, wq, mintVars, sessionVars>>
  BY DEF BeginClear
<1>2. /\ Applied = cursor /\ Applied \in Nat /\ t \in 0 .. Applied
  <2>1. req \in Requests
    BY <1>1 DEF RequestInv
  <2>. QED
    BY <2>1, TargetInPrefix
<1>3. Lines(mirror.recs, 1, t) = {}
  BY DEF BeginClear, NothingLeft
<1>4. /\ p.job = FreshJob /\ p.rev = rev /\ p.epoch = epoch /\ p.recs = mirror.recs /\ p.cursor = Applied
      /\ p.target = t /\ p.base = 0 /\ p.art = EmptyHead /\ p.clear
  BY DEF PlanFor
<1>5. CutFromDoc(p)
  <2>1. PlanFor(0) \in Plans /\ t \in Nat
    <3>1. FreshJob \in Jobs
      BY Fresh DEF BeginClear
    <3>2. Target \in Nat /\ {} \in Slices
      <4>1. req \in Requests
        BY <1>1 DEF RequestInv
      <4>. QED
        BY <4>1, TargetInPrefix DEF Slices
    <3>. QED
      BY <1>2, <3>1, <3>2, EmptyIsHonest DEF PlanFor, Plans, DocInv, EpochInv
  <2>2. p \in Plans
    BY <2>1 DEF Plans
  <2>. QED
    BY <1>2, <1>3, <1>4, <2>2, EmptyIsHonest DEF CutFromDoc, DocInv
<1>6. DocInv' /\ EpochInv' /\ HonestInv' /\ RequestInv'
  BY <1>1 DEF DocInv, EpochInv, HonestInv, Honest, RequestInv,
              docVars, shownVars, sendVars, schedVars, mintVars, sessionVars
<1>7. PlanInv'
  <2>1. CutFromDoc(plan)'
    BY <1>1, <1>5 DEF CutFromDoc, Honest
  <2>. QED
    BY <1>1, <1>2, <1>4, <2>1 DEF PlanInv, docVars, DocInv
<1>8. DriveInv' /\ QueueInv'
  BY <1>1, <1>4 DEF DriveInv, QueueInv, sessionVars
<1>. QED
  BY <1>6, <1>7, <1>8

-----------------------------------------------------------------------------
(* The driver.                                                             *)

(* The driver leaves the document, the stores and the worker alone.        *)
LEMMA DriverFrame ==
    ASSUME PipelineInv, DriverOnly, phase' # "begin"
    PROVE  DocInv' /\ EpochInv' /\ HonestInv' /\ RequestInv'
  BY DEF PipelineInv, DriverOnly, DocInv, EpochInv, HonestInv, Honest, RequestInv,
         docVars, shownVars, sendVars, schedVars, mintVars, sessionVars

(* A plan that stays the plan in flight.                                   *)
LEMMA PlanFrame ==
    ASSUME PipelineInv, phase \in Active, UNCHANGED <<doc, cursor, rev>>, CutFromDoc(plan)',
           plan'.rev = plan.rev, plan'.recs = plan.recs, plan'.cursor = plan.cursor
    PROVE  PlanInv'
  BY DEF PipelineInv, PlanInv

(* A plan kept stays a plan cut from its document.                         *)
LEMMA SamePlan ==
    ASSUME PipelineInv, phase \in Active, UNCHANGED <<doc, cursor, rev, plan>>
    PROVE  PlanInv'
<1>1. CutFromDoc(plan)'
  BY DEF PipelineInv, PlanInv, CutFromDoc, Honest
<1>. QED
  BY <1>1, PlanFrame

(* A frame that is no ExecutePlan joins the queue.                         *)
LEMMA QueueGrows ==
    ASSUME wq \in Seq(Messages), NEW m \in Messages, m.kind # "Execute",
           wq' = Append(wq, m), plan'.job = plan.job
    PROVE  /\ wq' \in Seq(Messages)
           /\ NoneSent => NoneSent'
<1>1. /\ wq' \in Seq(Messages) /\ DOMAIN wq' = DOMAIN wq \cup {Len(wq) + 1}
      /\ \A i \in DOMAIN wq : wq'[i] = wq[i]
      /\ wq'[Len(wq) + 1] = m
  BY Appended
<1>. QED
  BY <1>1 DEF NoneSent, Sent

(* A drive gives up, and a retry will find nothing of this attempt.        *)
LEMMA GiveUpKeepsInv ==
    ASSUME PipelineInv, phase \in {"restore", "execute", "accept"}, NEW then, GiveUp(then),
           then # "published",
           then = "retry" => NoneSent /\ NotPrepared
    PROVE  PipelineInv'
<1>. USE DEF PipelineInv
<1>1. /\ phase' = "discard" /\ reply' = NoReply /\ wq' = Append(wq, Message("Discard", plan))
      /\ after' = then /\ UNCHANGED <<plan, outcome>> /\ DriverOnly
  BY DEF GiveUp, SendNext, Send
<1>2. UNCHANGED <<doc, cursor, rev, scratch, up>>
  BY <1>1 DEF DriverOnly, docVars, sessionVars
<1>3. phase \in Active /\ CutFromDoc(plan)
  BY DEF Active, PlanInv
<1>4. Message("Discard", plan) \in Messages /\ Message("Discard", plan).kind = "Discard"
  BY <1>3, MessageShape DEF PlanKinds
<1>5. wq' \in Seq(Messages) /\ (NoneSent => NoneSent')
  BY <1>1, <1>4, QueueGrows DEF QueueInv
<1>6. QueueInv'
  BY <1>1, <1>2, <1>5 DEF QueueInv, NotPrepared
<1>7. DriveInv'
  BY <1>1 DEF DriveInv
<1>. QED
  BY <1>1, <1>2, <1>3, <1>6, <1>7, DriverFrame, SamePlan

(* The base is restored, or the plan is retried from zero.                 *)
LEMMA RestoreAnsweredKeepsInv ==
    ASSUME PipelineInv, RestoreAnswered
    PROVE  PipelineInv'
<1>. USE DEF PipelineInv
<1>1. phase = "restore" /\ NoneSent /\ NotPrepared
  BY DEF RestoreAnswered, QueueInv
<1>2. CASE ~reply.ok
  BY <1>1, <1>2, GiveUpKeepsInv DEF RestoreAnswered
<1>3. CASE reply.ok
  <2>1. /\ phase' = "execute" /\ reply' = NoReply /\ wq' = Append(wq, Message("Execute", plan))
        /\ UNCHANGED <<plan, after, outcome>> /\ DriverOnly
    BY <1>3 DEF RestoreAnswered, SendNext, Send
  <2>2. UNCHANGED <<doc, cursor, rev, scratch, up>>
    BY <2>1 DEF DriverOnly, docVars, sessionVars
  <2>3. phase \in Active /\ CutFromDoc(plan)
    BY <1>1 DEF Active, PlanInv
  <2>. DEFINE m == Message("Execute", plan)
  <2>4. m \in Messages /\ m.kind = "Execute" /\ m.job = plan.job /\ m.ops = PlanOps(plan)
    BY <2>3, MessageShape DEF PlanKinds
  <2>5. /\ wq' \in Seq(Messages) /\ DOMAIN wq' = DOMAIN wq \cup {Len(wq) + 1}
        /\ \A i \in DOMAIN wq : wq'[i] = wq[i]
        /\ wq'[Len(wq) + 1] = m
    BY <2>1, <2>4, Appended DEF QueueInv
  <2>6. \A i \in DOMAIN wq' : Sent(i)' => i = Len(wq) + 1
    BY <1>1, <2>1, <2>5 DEF NoneSent, Sent
  <2>7. QueueInv'
    BY <1>1, <2>1, <2>2, <2>4, <2>5, <2>6 DEF QueueInv, NotPrepared, PlanOps
  <2>8. DriveInv'
    BY <1>1, <2>1 DEF DriveInv
  <2>. QED
    BY <2>1, <2>2, <2>3, <2>7, <2>8, DriverFrame, SamePlan
<1>. QED
  BY <1>2, <1>3

(* The plan failed: it is retried from zero, or given up.                  *)
LEMMA PlanFailedKeepsInv ==
    ASSUME PipelineInv, PlanFailed
    PROVE  PipelineInv'
<1>1. phase = "execute" /\ NoneSent /\ NotPrepared
  BY DEF PlanFailed, PipelineInv, QueueInv
<1>2. PICK then \in {"retry", "failed"} : GiveUp(then)
  BY DEF PlanFailed
<1>. QED
  BY <1>1, <1>2, GiveUpKeepsInv

(* The answer's steps become the plan's.                                   *)
LEMMA PlanAccepted ==
    ASSUME PipelineInv, phase = "execute", CutFromDoc(plan), ~plan.clear,
           reply.steps = Built(PlanOps(plan)),
           phase' = "accept", reply' = NoReply, wq' \in Seq(Messages),
           plan' = [plan EXCEPT !.steps = reply.steps],
           UNCHANGED <<doc, cursor, rev, scratch, up, after, outcome>>, DriverOnly
    PROVE  PipelineInv'
<1>. USE DEF PipelineInv
<1>1. reply.steps \in Slices
  <2>1. plan.base + 1 \in Nat /\ plan.target \in Nat /\ 1 <= plan.base + 1
    BY DEF CutFromDoc, Plans
  <2>2. PlanOps(plan) \in Slices
    BY <2>1, LinesType DEF CutFromDoc, Plans, PlanOps, Slices
  <2>. QED
    BY <2>2, BuiltOfSlice
<1>2. /\ plan' \in Plans
      /\ plan'.job = plan.job /\ plan'.rev = plan.rev /\ plan'.epoch = plan.epoch
      /\ plan'.recs = plan.recs /\ plan'.cursor = plan.cursor /\ plan'.target = plan.target
      /\ plan'.base = plan.base /\ plan'.art = plan.art /\ plan'.clear = plan.clear
      /\ plan'.steps = reply.steps
  BY <1>1 DEF CutFromDoc, Plans
<1>3. CutFromDoc(plan)'
  BY <1>2 DEF CutFromDoc, Honest
<1>4. PlanInv'
  BY <1>2, <1>3, PlanFrame DEF Active
<1>5. QueueInv' /\ DriveInv'
  BY <1>2 DEF QueueInv, DriveInv, PlanOps
<1>. QED
  BY <1>4, <1>5, DriverFrame

(* on_prepared: the answer is accepted, or the drive gives up.             *)
LEMMA PlanPreparedKeepsInv ==
    ASSUME PipelineInv, PlanPrepared
    PROVE  PipelineInv'
<1>. USE DEF PipelineInv
<1>1. phase = "execute" /\ reply # NoReply /\ reply.ok
  BY DEF PlanPrepared
<1>2. CASE ~(~cancelled /\ EchoMatches /\ Current)
  <2>1. PICK then \in {"cancelled", "superseded", "failed"} : GiveUp(then)
    BY <1>2 DEF PlanPrepared
  <2>. QED
    BY <1>1, <2>1, GiveUpKeepsInv
<1>3. CASE ~cancelled /\ EchoMatches /\ Current
  <2>1. /\ phase' = "accept" /\ reply' = NoReply /\ wq' = Append(wq, Message("Accept", plan))
        /\ plan' = [plan EXCEPT !.steps = reply.steps]
        /\ UNCHANGED <<after, outcome>> /\ DriverOnly
    BY <1>3 DEF PlanPrepared, SendNext, Send
  <2>2. UNCHANGED <<doc, cursor, rev, scratch, up>>
    BY <2>1 DEF DriverOnly, docVars, sessionVars
  <2>3. phase \in Active /\ CutFromDoc(plan) /\ ~plan.clear /\ reply.steps = Built(PlanOps(plan))
    BY <1>1 DEF Active, PlanInv, QueueInv, DriveInv
  <2>4. Message("Accept", plan) \in Messages /\ Message("Accept", plan).kind = "Accept"
    BY <2>3, MessageShape DEF PlanKinds
  <2>5. wq' \in Seq(Messages)
    BY <2>1, <2>4, Appended DEF QueueInv
  <2>. QED
    BY <1>1, <2>1, <2>2, <2>3, <2>5, PlanAccepted
<1>. QED
  BY <1>2, <1>3

(* A flagged message is still a message.                                   *)
LEMMA Flagged ==
    ASSUME NEW m \in Messages, NEW c \in BOOLEAN
    PROVE  [m EXCEPT !.cancel = c] \in Messages
<1>1. CASE m \in [kind : {"Save"}, step : Nat, cancel : BOOLEAN, job : {0}]
  BY <1>1 DEF Messages
<1>2. CASE m \in [kind : {"Restore", "Execute", "Accept", "Discard"}, job : Jobs, epoch : Nat,
                  cancel : BOOLEAN, step : Nat, base : SUBSET ((1 .. MaxLen) \X Ops), ops : Slices]
  BY <1>2 DEF Messages
<1>. QED
  BY <1>1, <1>2 DEF Messages

(* A cancel while the stream is open.                                      *)
LEMMA CancelSeenKeepsInv ==
    ASSUME PipelineInv, CancelSeen
    PROVE  PipelineInv'
<1>. USE DEF PipelineInv
<1>. DEFINE flags == [i \in DOMAIN wq |-> [wq[i] EXCEPT !.cancel = @ \/ wq[i].job = plan.job]]
            m == Message("Discard", plan)
<1>1. /\ phase = "execute" /\ reply = NoReply
      /\ phase' = "discard" /\ after' = "cancelled" /\ wq' = Append(flags, m)
      /\ UNCHANGED <<plan, outcome, reply>> /\ DriverOnly
  BY DEF CancelSeen
<1>2. UNCHANGED <<doc, cursor, rev, scratch, up>>
  BY <1>1 DEF DriverOnly, docVars, sessionVars
<1>3. phase \in Active /\ CutFromDoc(plan)
  BY <1>1 DEF Active, PlanInv
<1>4. m \in Messages
  BY <1>3, MessageShape DEF PlanKinds
<1>5. flags \in Seq(Messages)
  <2>1. Len(wq) \in Nat /\ DOMAIN wq = 1 .. Len(wq) /\ \A i \in DOMAIN wq : wq[i] \in Messages
    BY LenProperties, ElementOfSeq DEF QueueInv
  <2>2. ASSUME NEW i \in DOMAIN wq
        PROVE  [wq[i] EXCEPT !.cancel = @ \/ wq[i].job = plan.job] \in Messages
    <3>1. wq[i] \in Messages /\ (wq[i].cancel \/ wq[i].job = plan.job) \in BOOLEAN
      BY <2>1
    <3>. QED
      BY <3>1, Flagged
  <2>3. flags \in [1 .. Len(wq) -> Messages]
    BY <2>1, <2>2
  <2>. QED
    BY <2>1, <2>3, SeqDef
<1>6. wq' \in Seq(Messages)
  BY <1>1, <1>4, <1>5, Appended
<1>7. QueueInv' /\ DriveInv'
  BY <1>1, <1>2, <1>6 DEF QueueInv, DriveInv
<1>. QED
  BY <1>1, <1>2, <1>3, <1>7, DriverFrame, SamePlan

(* The worker accepted: the steps it reported are the plan's.              *)
LEMMA AcceptAnsweredKeepsInv ==
    ASSUME PipelineInv, AcceptAnswered
    PROVE  PipelineInv'
<1>. USE DEF PipelineInv
<1>1. CASE ~reply.ok
  BY <1>1, GiveUpKeepsInv DEF AcceptAnswered
<1>2. CASE reply.ok
  <2>1. /\ phase = "accept" /\ phase' = "driven" /\ reply' = NoReply
        /\ UNCHANGED <<plan, after, wq>> /\ DriverOnly
    BY <1>2 DEF AcceptAnswered
  <2>2. UNCHANGED <<doc, cursor, rev, scratch, up>>
    BY <2>1 DEF DriverOnly, docVars, sessionVars
  <2>3. QueueInv' /\ DriveInv'
    BY <2>1, <2>2 DEF QueueInv, DriveInv, PlanOps
  <2>. QED
    BY <2>1, <2>2, <2>3, DriverFrame, SamePlan DEF Active
<1>. QED
  BY <1>1, <1>2

(* The retry: same id, same prefix, no base.  Whatever the first attempt   *)
(* sent has been answered, so nothing is left under the id.                *)
LEMMA RetryKeepsInv ==
    ASSUME PipelineInv, phase = "discard", after = "retry",
           phase' = "execute", reply' = NoReply, plan' = FromZero,
           wq' = Append(wq, Message("Execute", FromZero)),
           outcome' = outcome, DriverOnly
    PROVE  PipelineInv'
<1>. USE DEF PipelineInv
<1>1. UNCHANGED <<doc, cursor, rev, scratch, up>>
  BY DEF DriverOnly, docVars, sessionVars
<1>2. CutFromDoc(plan) /\ ~plan.clear /\ NoneSent /\ NotPrepared
  BY DEF Active, PlanInv, QueueInv, DriveInv
<1>3. EmptyHead \in States /\ Honest(EmptyHead) /\ EmptyHead.geom = Lines(plan.recs, 1, 0)
  BY EmptyIsHonest
<1>4. /\ FromZero \in Plans
      /\ FromZero.job = plan.job /\ FromZero.rev = plan.rev /\ FromZero.recs = plan.recs
      /\ FromZero.cursor = plan.cursor /\ FromZero.target = plan.target
      /\ FromZero.base = 0 /\ FromZero.art = EmptyHead /\ FromZero.clear = plan.clear
  BY <1>2, <1>3 DEF CutFromDoc, Plans, FromZero
<1>5. CutFromDoc(FromZero)
  <2>1. 0 \in 0 .. plan.target
    BY <1>2 DEF CutFromDoc, Plans
  <2>. QED
    BY <1>2, <1>3, <1>4, <2>1 DEF CutFromDoc
<1>. DEFINE m == Message("Execute", FromZero)
<1>6. m \in Messages /\ m.kind = "Execute" /\ m.job = plan.job /\ m.ops = PlanOps(FromZero)
  BY <1>4, <1>5, MessageShape DEF PlanKinds
<1>7. PlanInv'
  <2>1. CutFromDoc(plan)'
    BY <1>5 DEF CutFromDoc, Honest
  <2>. QED
    BY <1>1, <1>4, <2>1, PlanFrame DEF Active
<1>8. /\ wq' \in Seq(Messages) /\ DOMAIN wq' = DOMAIN wq \cup {Len(wq) + 1}
      /\ \A i \in DOMAIN wq : wq'[i] = wq[i]
      /\ wq'[Len(wq) + 1] = m
  BY <1>6, Appended DEF QueueInv
<1>9. \A i \in DOMAIN wq' : Sent(i)' => i = Len(wq) + 1
  BY <1>2, <1>4, <1>8 DEF NoneSent, Sent
<1>10. NotPrepared'
  BY <1>1, <1>2, <1>4 DEF NotPrepared
<1>11. PlanOps(plan)' = PlanOps(FromZero)
  BY DEF PlanOps
<1>12. QueueInv' /\ DriveInv'
  BY <1>1, <1>2, <1>4, <1>6, <1>8, <1>9, <1>10, <1>11 DEF QueueInv, DriveInv, NotPrepared
<1>. QED
  BY <1>7, <1>12, DriverFrame

(* A discarded drive ends, or starts again from zero.                      *)
LEMMA DiscardAnsweredKeepsInv ==
    ASSUME PipelineInv, DiscardAnswered
    PROVE  PipelineInv'
<1>. USE DEF PipelineInv
<1>1. CASE after = "retry"
  BY <1>1, RetryKeepsInv DEF DiscardAnswered, SendNext, Send
<1>2. CASE after # "retry"
  <2>1. /\ phase = "discard" /\ phase' = "driven" /\ outcome' = after /\ reply' = NoReply
        /\ UNCHANGED <<plan, wq>> /\ DriverOnly
    BY <1>2 DEF DiscardAnswered
  <2>2. UNCHANGED <<doc, cursor, rev, scratch, up>> /\ outcome' # "published"
    BY <2>1 DEF DriverOnly, docVars, sessionVars, DriveInv
  <2>3. QueueInv' /\ DriveInv'
    BY <2>1, <2>2 DEF QueueInv, DriveInv
  <2>. QED
    BY <2>1, <2>2, <2>3, DriverFrame, SamePlan DEF Active
<1>. QED
  BY <1>1, <1>2

(* drive_clear asks nobody.                                                *)
LEMMA DriveClearKeepsInv ==
    ASSUME PipelineInv, DriveClear
    PROVE  PipelineInv'
<1>. USE DEF PipelineInv
<1>1. /\ phase = "clear" /\ phase' = "driven" /\ plan.clear
      /\ UNCHANGED <<plan, after, reply, wq>> /\ DriverOnly
  BY DEF DriveClear, DriveInv
<1>2. UNCHANGED <<doc, cursor, rev, scratch, up>>
  BY <1>1 DEF DriverOnly, docVars, sessionVars
<1>3. QueueInv' /\ DriveInv'
  BY <1>1, <1>2 DEF QueueInv, DriveInv
<1>. QED
  BY <1>1, <1>2, <1>3, DriverFrame, SamePlan DEF Active

-----------------------------------------------------------------------------
(* The worker.                                                             *)

(* The first message leaves the queue.                                     *)
LEMMA QueueShrinks ==
    ASSUME wq \in Seq(Messages), wq # <<>>, wq' = Tail(wq), plan' = plan
    PROVE  /\ Head(wq) \in Messages /\ Head(wq) = wq[1] /\ 1 \in DOMAIN wq
           /\ wq' \in Seq(Messages)
           /\ \A i \in DOMAIN wq' :
                i \in Nat \ {0} /\ i + 1 \in DOMAIN wq /\ wq'[i] = wq[i + 1] /\ (Sent(i)' => Sent(i + 1))
<1>1. /\ Head(wq) \in Messages /\ 1 \in DOMAIN wq /\ Head(wq) = wq[1]
      /\ Tail(wq) \in Seq(Messages)
      /\ \A i \in DOMAIN Tail(wq) :
            i \in Nat \ {0} /\ i + 1 \in DOMAIN wq /\ Tail(wq)[i] = wq[i + 1]
  BY Tailed
<1>. QED
  BY <1>1 DEF Sent

(* What is said of the plan's requests in the queue stays true.            *)
LEMMA SentShrinks ==
    ASSUME wq \in Seq(Messages), wq # <<>>, wq' = Tail(wq), plan' = plan
    PROVE  /\ NoneSent => NoneSent'
           /\ (\A i \in DOMAIN wq : Sent(i) => wq[i].ops = PlanOps(plan))
                => \A i \in DOMAIN wq' : Sent(i)' => wq'[i].ops = PlanOps(plan)
           /\ (\A i, j \in DOMAIN wq : Sent(i) /\ Sent(j) => i = j)
                => /\ \A i, j \in DOMAIN wq' : Sent(i)' /\ Sent(j)' => i = j
                   /\ Sent(1) => NoneSent'
<1>1. /\ 1 \in DOMAIN wq
      /\ \A i \in DOMAIN wq' :
           i \in Nat \ {0} /\ i + 1 \in DOMAIN wq /\ wq'[i] = wq[i + 1] /\ (Sent(i)' => Sent(i + 1))
  BY QueueShrinks
<1>2. NoneSent => NoneSent'
  BY <1>1 DEF NoneSent
<1>3. (\A i \in DOMAIN wq : Sent(i) => wq[i].ops = PlanOps(plan))
        => \A i \in DOMAIN wq' : Sent(i)' => wq'[i].ops = PlanOps(plan)
  BY <1>1
<1>4. ASSUME \A i, j \in DOMAIN wq : Sent(i) /\ Sent(j) => i = j
      PROVE  /\ \A i, j \in DOMAIN wq' : Sent(i)' /\ Sent(j)' => i = j
             /\ Sent(1) => NoneSent'
  <2>1. ASSUME NEW i \in DOMAIN wq', NEW j \in DOMAIN wq', Sent(i)', Sent(j)' PROVE i = j
    <3>1. i + 1 = j + 1 /\ i \in Nat /\ j \in Nat
      BY <1>1, <1>4, <2>1
    <3>. QED
      BY <3>1
  <2>2. ASSUME Sent(1), NEW i \in DOMAIN wq', Sent(i)' PROVE FALSE
    <3>1. i + 1 = 1 /\ i \in Nat \ {0}
      BY <1>1, <1>4, <2>2
    <3>. QED
      BY <3>1
  <2>. QED
    BY <2>1, <2>2 DEF NoneSent
<1>. QED
  BY <1>2, <1>3, <1>4

(* What serving a request leaves as it was.                                *)
LEMMA ServeFrame ==
    ASSUME PipelineInv, NEW kind, Serve(kind)
    PROVE  /\ DocInv' /\ RequestInv' /\ PlanInv' /\ DriveInv'
           /\ wEpoch' \in Nat => EpochInv'
           /\ wq \in Seq(Messages) /\ wq # <<>> /\ wq' = Tail(wq) /\ Head(wq).kind = kind
           /\ UNCHANGED <<store, phase, plan, after, up>> /\ up
<1>. USE DEF PipelineInv
<1>1. /\ up /\ wq # <<>> /\ Head(wq).kind = kind /\ wq' = Tail(wq)
      /\ UNCHANGED <<docVars, shownVars, store, sendVars, schedVars,
                     phase, plan, after, outcome, up, ticket>>
  BY DEF Serve
<1>2. DocInv' /\ RequestInv' /\ (wEpoch' \in Nat => EpochInv')
  BY <1>1 DEF DocInv, RequestInv, EpochInv, docVars, shownVars, sendVars, schedVars
<1>3. PlanInv' /\ DriveInv'
  BY <1>1 DEF PlanInv, CutFromDoc, Honest, DriveInv, PlanOps, docVars
<1>. QED
  BY <1>1, <1>2, <1>3 DEF QueueInv

(* A message that prepares nothing and does not answer the plan.           *)
LEMMA ServedAside ==
    ASSUME PipelineInv, NEW kind, Serve(kind),
           scratch' \in {scratch, NoScratch},
           phase \in {"idle", "begin", "execute"} => reply' = reply
    PROVE  QueueInv'
<1>. USE DEF PipelineInv
<1>1. /\ wq \in Seq(Messages) /\ wq # <<>> /\ wq' = Tail(wq)
      /\ UNCHANGED <<phase, plan, after, up>> /\ up
  BY ServeFrame
<1>2. wq' \in Seq(Messages)
  BY <1>1, QueueShrinks
<1>3. NotPrepared => NotPrepared'
  BY <1>1 DEF NotPrepared
<1>4. PlanOps(plan)' = PlanOps(plan)
  BY <1>1 DEF PlanOps
<1>. QED
  BY <1>1, <1>2, <1>3, <1>4, SentShrinks DEF QueueInv

(* Only the answer to a plan reaches a driver that waits for its plan.     *)
LEMMA AnsweredElsewhere ==
    ASSUME NEW m, m.kind \in {"Restore", "Accept", "Discard"}, NEW r, Answer(m, r)
    PROVE  phase \in {"idle", "begin", "execute"} => reply' = reply
  BY DEF Answer, Waiting

(* A saved state, honest as it was saved, becomes the head.                *)
LEMMA ServeRestoreKeepsInv ==
    ASSUME PipelineInv, ServeRestore
    PROVE  PipelineInv'
<1>. DEFINE m == Head(wq)
<1>1. Serve("Restore") /\ RestoreCheckpoint(m) /\ Answer(m, RestoreReply(m)) /\ saveReply' = saveReply
  BY DEF ServeRestore
<1>2. m.kind = "Restore" /\ store' = store
  BY <1>1, ServeFrame
<1>3. UNCHANGED <<wEpoch, scratch, saved>> /\ head' \in States /\ Honest(head')
  BY <1>1 DEF RestoreCheckpoint, RestoreFits, PipelineInv, HonestInv
<1>4. HonestInv'
  BY <1>1, <1>2, <1>3 DEF PipelineInv, HonestInv, Honest
<1>5. QueueInv'
  BY <1>1, <1>2, <1>3, AnsweredElsewhere, ServedAside
<1>. QED
  BY <1>1, <1>3, <1>4, <1>5, ServeFrame DEF PipelineInv, EpochInv

(* A cancelled plan leaves no trace.                                       *)
LEMMA ServeCancelledKeepsInv ==
    ASSUME PipelineInv, ServeCancelled
    PROVE  PipelineInv'
<1>1. Serve("Execute") /\ UNCHANGED <<sessionVars, reply, saveReply>>
  BY DEF ServeCancelled
<1>2. store' = store
  BY <1>1, ServeFrame
<1>3. HonestInv'
  BY <1>1, <1>2 DEF PipelineInv, HonestInv, Honest, sessionVars
<1>4. QueueInv'
  BY <1>1, ServedAside DEF sessionVars
<1>. QED
  BY <1>1, <1>3, <1>4, ServeFrame DEF PipelineInv, EpochInv, sessionVars

(* What was prepared honestly becomes an honest head.                      *)
LEMMA ServeAcceptKeepsInv ==
    ASSUME PipelineInv, ServeAccept
    PROVE  PipelineInv'
<1>. DEFINE m == Head(wq)
<1>1. Serve("Accept") /\ AcceptPrepared(m) /\ Answer(m, AcceptReply(m)) /\ saveReply' = saveReply
  BY DEF ServeAccept
<1>2. m.kind = "Accept" /\ store' = store
  BY <1>1, ServeFrame
<1>3. /\ UNCHANGED <<wEpoch, saved>> /\ scratch' \in {scratch, NoScratch}
      /\ head' \in States /\ Honest(head')
  BY <1>1 DEF AcceptPrepared, AcceptFits, PipelineInv, HonestInv, Honest, States
<1>4. HonestInv'
  BY <1>1, <1>2, <1>3 DEF PipelineInv, HonestInv, Honest
<1>5. QueueInv'
  BY <1>1, <1>2, <1>3, AnsweredElsewhere, ServedAside
<1>. QED
  BY <1>1, <1>3, <1>4, <1>5, ServeFrame DEF PipelineInv, EpochInv

(* A discard drops what is prepared.                                       *)
LEMMA ServeDiscardKeepsInv ==
    ASSUME PipelineInv, ServeDiscard
    PROVE  PipelineInv'
<1>. DEFINE m == Head(wq)
<1>1. Serve("Discard") /\ DiscardPrepared(m) /\ Answer(m, DiscardReply(m)) /\ saveReply' = saveReply
  BY DEF ServeDiscard
<1>2. m.kind = "Discard" /\ store' = store
  BY <1>1, ServeFrame
<1>3. UNCHANGED <<wEpoch, head, saved>> /\ scratch' = NoScratch
  BY <1>1 DEF DiscardPrepared
<1>4. HonestInv'
  BY <1>1, <1>2, <1>3 DEF PipelineInv, HonestInv, Honest
<1>5. QueueInv'
  BY <1>1, <1>2, <1>3, AnsweredElsewhere, ServedAside
<1>. QED
  BY <1>1, <1>3, <1>4, <1>5, ServeFrame DEF PipelineInv, EpochInv

(* A save copies the honest head and reports it.                           *)
LEMMA ServeSaveKeepsInv ==
    ASSUME PipelineInv, ServeSave
    PROVE  PipelineInv'
<1>. DEFINE m == Head(wq)
<1>1. /\ Serve("Save") /\ SaveCheckpoint(m) /\ saveReply' = SaveReply(m) /\ reply' = reply
  BY DEF ServeSave
<1>2. store' = store
  BY <1>1, ServeFrame
<1>3. UNCHANGED <<wEpoch, head, scratch>>
  BY <1>1 DEF SaveCheckpoint
<1>4. \A s \in DOMAIN saved' : saved'[s] = head \/ (s \in DOMAIN saved /\ saved'[s] = saved[s])
  BY <1>1 DEF SaveCheckpoint
<1>5. Honest(saveReply')
  BY <1>1 DEF SaveReply, PipelineInv, HonestInv, Honest
<1>6. HonestInv'
  BY <1>2, <1>3, <1>4, <1>5 DEF PipelineInv, HonestInv, Honest
<1>7. QueueInv'
  BY <1>1, <1>3, ServedAside
<1>. QED
  BY <1>1, <1>3, <1>6, <1>7, ServeFrame DEF PipelineInv, EpochInv

(* What the worker prepares is honest, if the request is cut from a        *)
(* document and the head is honest.                                        *)
LEMMA PreparedIsHonest ==
    ASSUME PipelineInv, NEW m \in Messages, m.kind = "Execute", PlanFits(m)
    PROVE  Honest(PreparedBy(m))
<1>1. m.ops \in Slices
  BY DEF Messages
<1>2. Built(m.ops) \in Slices /\ Clean(Built(m.ops))
  BY <1>1, BuiltOfSlice
<1>3. Honest(head) /\ (m.base = {} \/ m.base = head.hash)
  BY DEF PlanFits, EmptyPrefix, PipelineInv, HonestInv
<1>4. CASE m.base = {}
  BY <1>2, <1>4 DEF PreparedBy, EmptyPrefix, Honest
<1>5. CASE m.base # {}
  <2>1. /\ PreparedBy(m).geom = head.geom \cup Built(m.ops)
        /\ PreparedBy(m).hash = head.geom \cup Built(m.ops)
    BY <1>3, <1>5 DEF PreparedBy, EmptyPrefix, Honest
  <2>2. head.geom \cup Built(m.ops) \in Slices
    BY <1>2, <1>3 DEF Honest, Slices
  <2>. QED
    BY <1>2, <1>3, <2>1, <2>2 DEF Honest, Clean
<1>. QED
  BY <1>4, <1>5

(* A plan is executed: what is prepared and what is answered is its own.   *)
LEMMA ServeExecuteKeepsInv ==
    ASSUME PipelineInv, ServeExecute
    PROVE  PipelineInv'
<1>. USE DEF PipelineInv
<1>. DEFINE m == Head(wq)
<1>1. /\ Serve("Execute") /\ ExecutePlan(m) /\ Answer(m, ExecuteReply(m)) /\ saveReply' = saveReply
  BY DEF ServeExecute
<1>2. /\ wq \in Seq(Messages) /\ wq # <<>> /\ wq' = Tail(wq) /\ m.kind = "Execute"
      /\ UNCHANGED <<store, phase, plan, after, up>> /\ up
  BY <1>1, ServeFrame
<1>3. m \in Messages /\ m = wq[1] /\ 1 \in DOMAIN wq /\ wq' \in Seq(Messages)
  BY <1>2, QueueShrinks
<1>4. /\ UNCHANGED <<wEpoch, head, saved>>
      /\ scratch' = IF PlanFits(m) THEN PreparedBy(m) ELSE scratch
  BY <1>1 DEF ExecutePlan
<1>5. HonestInv'
  BY <1>1, <1>2, <1>3, <1>4, PreparedIsHonest DEF HonestInv, Honest
<1>6. PlanOps(plan)' = PlanOps(plan)
  BY <1>2 DEF PlanOps
<1>7. PreparedBy(m).job = m.job /\ PreparedBy(m).steps = Built(m.ops)
  BY DEF PreparedBy
<1>8. m.job # plan.job => (NotPrepared => NotPrepared')
  BY <1>2, <1>4, <1>7 DEF NotPrepared
<1>9. NoneSent => m.job # plan.job
  BY <1>2, <1>3 DEF NoneSent, Sent
<1>10. ASSUME phase = "execute", m.job = plan.job
       PROVE  /\ m.ops = PlanOps(plan) /\ reply = NoReply /\ NoneSent'
              /\ scratch' # NoScratch /\ (scratch').job = plan.job
                   => (scratch').steps = Built(PlanOps(plan))
              /\ reply' = NoReply \/
                   IF (reply').ok THEN (reply').steps = Built(PlanOps(plan)) ELSE NotPrepared'
  <2>1. Sent(1)
    BY <1>2, <1>3, <1>10 DEF Sent
  <2>2. m.ops = PlanOps(plan) /\ reply = NoReply
    BY <1>3, <1>10, <2>1 DEF QueueInv, NoneSent
  <2>3. NoneSent'
    BY <1>2, <1>10, <2>1, SentShrinks DEF QueueInv
  <2>4. scratch # NoScratch /\ scratch.job = plan.job => scratch.steps = Built(PlanOps(plan))
    BY <1>10 DEF QueueInv
  <2>5. reply' = ExecuteReply(m) \/ reply' = NoReply
    BY <1>1, <2>2 DEF Answer
  <2>6. IF ExecuteReply(m).ok THEN ExecuteReply(m).steps = Built(PlanOps(plan)) ELSE NotPrepared'
    <3>1. CASE PlanFits(m)
      BY <1>7, <2>2, <3>1 DEF ExecuteReply, Prepared
    <3>2. CASE ~PlanFits(m) /\ scratch # NoScratch /\ scratch.job = m.job
      BY <1>10, <2>4, <3>2 DEF ExecuteReply, Prepared
    <3>3. CASE ~PlanFits(m) /\ ~(scratch # NoScratch /\ scratch.job = m.job)
      BY <1>2, <1>4, <1>10, <3>3 DEF ExecuteReply, Refused, NotPrepared
    <3>. QED
      BY <3>1, <3>2, <3>3
  <2>. QED
    BY <1>4, <1>7, <2>2, <2>3, <2>4, <2>5, <2>6
<1>11. m.job # plan.job => reply' = reply
  BY <1>1 DEF Answer
<1>12. phase # "execute" => reply' = reply
  BY <1>1, <1>2 DEF Answer, Waiting
<1>13. ASSUME phase = "execute", m.job # plan.job
       PROVE  /\ scratch' # NoScratch /\ (scratch').job = plan.job
                   => (scratch').steps = Built(PlanOps(plan))
              /\ reply' # NoReply =>
                   NoneSent' /\ IF (reply').ok THEN (reply').steps = Built(PlanOps(plan)) ELSE NotPrepared'
  <2>1. scratch' # NoScratch /\ (scratch').job = plan.job
                   => (scratch').steps = Built(PlanOps(plan))
    BY <1>4, <1>7, <1>13 DEF QueueInv
  <2>2. reply # NoReply =>
          NoneSent /\ IF reply.ok THEN reply.steps = Built(PlanOps(plan)) ELSE NotPrepared
    BY <1>13 DEF QueueInv
  <2>3. NoneSent => NoneSent'
    BY <1>2, SentShrinks
  <2>. QED
    BY <1>8, <1>11, <1>13, <2>1, <2>2, <2>3
<1>14. phase = "execute" =>
         /\ \A i \in DOMAIN wq' : Sent(i)' => wq'[i].ops = PlanOps(plan)
         /\ \A i, j \in DOMAIN wq' : Sent(i)' /\ Sent(j)' => i = j
  BY <1>2, SentShrinks DEF QueueInv
<1>15. phase = "execute" /\ reply' # NoReply =>
         /\ NoneSent'
         /\ IF (reply').ok THEN (reply').steps = Built(PlanOps(plan)) ELSE NotPrepared'
  BY <1>10, <1>13
<1>16. NoneSent /\ NotPrepared => NoneSent' /\ NotPrepared'
  BY <1>2, <1>8, <1>9, SentShrinks
<1>17. phase = "execute" /\ scratch' # NoScratch /\ (scratch').job = plan.job
         => (scratch').steps = Built(PlanOps(plan))
  BY <1>10, <1>13
<1>18. QueueInv'
  BY <1>2, <1>3, <1>6, <1>12, <1>14, <1>15, <1>16, <1>17 DEF QueueInv
<1>. QED
  BY <1>1, <1>4, <1>5, <1>18, ServeFrame DEF EpochInv

(* Every service of the worker.                                            *)
LEMMA WorkerKeepsInv ==
    ASSUME PipelineInv, Worker
    PROVE  PipelineInv'
  BY ServeRestoreKeepsInv, ServeExecuteKeepsInv, ServeCancelledKeepsInv,
     ServeAcceptKeepsInv, ServeDiscardKeepsInv, ServeSaveKeepsInv DEF Worker

(* Between two workers: a call fails, and nothing is prepared.             *)
LEMMA NotConnectedKeepsInv ==
    ASSUME PipelineInv, NotConnected
    PROVE  PipelineInv'
<1>. USE DEF PipelineInv
<1>. DEFINE m == Head(wq)
<1>1. /\ ~up /\ wq # <<>> /\ wq' = Tail(wq)
      /\ IF m.kind = "Save"
         THEN saveReply' = Lost(FALSE) /\ UNCHANGED reply
         ELSE Answer(m, Lost(FALSE)) /\ UNCHANGED saveReply
      /\ UNCHANGED <<docVars, shownVars, store, sendVars, schedVars,
                     phase, plan, after, outcome, up, ticket, sessionVars>>
  BY DEF NotConnected
<1>2. DocInv' /\ RequestInv' /\ EpochInv'
  BY <1>1 DEF DocInv, RequestInv, EpochInv, docVars, shownVars, sendVars, schedVars, sessionVars
<1>3. PlanInv' /\ DriveInv'
  BY <1>1 DEF PlanInv, CutFromDoc, Honest, DriveInv, PlanOps, docVars
<1>4. HonestInv'
  BY <1>1 DEF HonestInv, Honest, Lost, sessionVars
<1>5. m \in Messages /\ m = wq[1] /\ 1 \in DOMAIN wq /\ wq' \in Seq(Messages)
  BY <1>1, QueueShrinks DEF QueueInv
<1>6. scratch = NoScratch /\ scratch' = NoScratch
  BY <1>1 DEF QueueInv, sessionVars
<1>7. PlanOps(plan)' = PlanOps(plan)
  BY <1>1 DEF PlanOps
<1>8. NotPrepared'
  BY <1>6 DEF NotPrepared
<1>9. phase \in {"idle", "begin"} => reply' = reply
  <2>1. m.kind \in {"Restore", "Execute", "Accept", "Discard", "Save"}
    BY <1>5 DEF Messages
  <2>2. m.kind # "Save" => Waiting[m.kind] \notin {"idle", "begin"}
    BY <2>1 DEF Waiting
  <2>. QED
    BY <1>1, <2>2 DEF Answer
<1>10. ASSUME phase = "execute", reply' # NoReply
       PROVE  /\ NoneSent'
              /\ IF (reply').ok THEN (reply').steps = Built(PlanOps(plan)) ELSE NotPrepared'
  <2>1. CASE reply' = reply
    BY <1>1, <1>8, <1>10, <2>1, SentShrinks DEF QueueInv
  <2>2. CASE reply' # reply
    <3>1. reply' = Lost(FALSE) /\ plan.job = m.job /\ phase = Waiting[m.kind] /\ m.kind # "Save"
      BY <1>1, <2>2 DEF Answer
    <3>2. m.kind \in {"Restore", "Execute", "Accept", "Discard"}
      BY <1>5, <3>1 DEF Messages
    <3>3. Sent(1)
      BY <1>5, <1>10, <3>1, <3>2 DEF Waiting, Sent
    <3>4. NoneSent'
      BY <1>1, <1>10, <3>3, SentShrinks DEF QueueInv
    <3>. QED
      BY <1>8, <3>1, <3>4 DEF Lost
  <2>. QED
    BY <2>1, <2>2
<1>11. QueueInv'
  BY <1>1, <1>5, <1>6, <1>7, <1>8, <1>9, <1>10, SentShrinks DEF QueueInv
<1>. QED
  BY <1>2, <1>3, <1>4, <1>11

(* The worker dies with everything queued and prepared.                    *)
LEMMA WorkerDiesKeepsInv ==
    ASSUME PipelineInv, WorkerDies
    PROVE  PipelineInv'
<1>. USE DEF PipelineInv
<1>1. PICK seen \in BOOLEAN :
        reply' = IF phase \in {"restore", "execute", "accept", "discard"} /\ reply = NoReply
                 THEN Lost(seen) ELSE reply
  BY DEF WorkerDies
<1>2. /\ up' = FALSE /\ wEpoch' = wEpoch + 1 /\ head' = EmptyHead /\ scratch' = NoScratch
      /\ saved' = <<>> /\ wq' = <<>>
      /\ saveReply' = IF ticket # NoTicket /\ saveReply = NoReply THEN Lost(FALSE) ELSE saveReply
      /\ UNCHANGED <<docVars, shownVars, store, sendVars, schedVars,
                     phase, plan, after, outcome, ticket>>
  BY DEF WorkerDies, OpenSession
<1>3. DocInv' /\ RequestInv'
  BY <1>2 DEF DocInv, RequestInv, docVars, sendVars, schedVars
<1>4. EpochInv'
  <2>1. wEpoch + 1 \in Nat
    BY DEF EpochInv
  <2>. QED
    BY <1>2, <2>1 DEF EpochInv, shownVars, sendVars
<1>5. PlanInv' /\ DriveInv'
  BY <1>2 DEF PlanInv, CutFromDoc, Honest, DriveInv, PlanOps, docVars
<1>6. HonestInv'
  BY <1>2, EmptyIsHonest DEF HonestInv, Honest, Lost
<1>7. wq' \in Seq(Messages) /\ DOMAIN wq' = {}
  BY <1>2, EmptySeq
<1>8. NoneSent' /\ NotPrepared'
  BY <1>2, <1>7 DEF NoneSent, NotPrepared
<1>9. PlanOps(plan)' = PlanOps(plan)
  BY <1>2 DEF PlanOps
<1>10. QueueInv'
  BY <1>1, <1>2, <1>7, <1>8, <1>9 DEF QueueInv, Lost
<1>. QED
  BY <1>3, <1>4, <1>5, <1>6, <1>10

(* The next worker is ready.                                               *)
LEMMA WorkerReadyKeepsInv ==
    ASSUME PipelineInv, WorkerReady
    PROVE  PipelineInv'
<1>. USE DEF PipelineInv
<1>1. /\ up' = TRUE /\ hooks' = Append(hooks, wEpoch)
      /\ UNCHANGED <<docVars, shownVars, store, outbox, schedVars, jobVars, wq, mintVars, sessionVars>>
  BY DEF WorkerReady
<1>2. EpochInv'
  BY <1>1, Appended DEF EpochInv, shownVars, sessionVars
<1>3. DocInv' /\ RequestInv' /\ HonestInv'
  BY <1>1 DEF DocInv, RequestInv, HonestInv, Honest, docVars, schedVars, jobVars, mintVars, sessionVars
<1>4. PlanInv' /\ DriveInv' /\ QueueInv'
  BY <1>1 DEF PlanInv, CutFromDoc, Honest, DriveInv, QueueInv, NoneSent, Sent, NotPrepared, PlanOps,
              docVars, jobVars, sessionVars
<1>. QED
  BY <1>2, <1>3, <1>4

(* Rust adopts the new epoch and asks for a full rebuild.                  *)
LEMMA RestartHookKeepsInv ==
    ASSUME PipelineInv, RestartHook
    PROVE  PipelineInv'
<1>. USE DEF PipelineInv
<1>1. /\ hooks # <<>> /\ hooks' = Tail(hooks) /\ epoch' = Head(hooks)
      /\ outbox' = Append(outbox, ToEnd(1))
      /\ UNCHANGED <<docVars, snap, store, schedVars, jobVars, up, wq, mintVars, sessionVars>>
  BY DEF RestartHook
<1>2. EpochInv'
  BY <1>1, Tailed DEF EpochInv, sessionVars
<1>3. RequestInv'
  <2>1. outbox' \in Seq(Requests)
    BY <1>1, Requested, Appended DEF RequestInv
  <2>. QED
    BY <1>1, <2>1 DEF RequestInv, schedVars, jobVars
<1>4. DocInv' /\ HonestInv'
  BY <1>1 DEF DocInv, HonestInv, Honest, docVars, mintVars, sessionVars
<1>5. PlanInv' /\ DriveInv' /\ QueueInv'
  BY <1>1 DEF PlanInv, CutFromDoc, Honest, DriveInv, QueueInv, NoneSent, Sent, NotPrepared, PlanOps,
              docVars, jobVars, sessionVars
<1>. QED
  BY <1>2, <1>3, <1>4, <1>5

-----------------------------------------------------------------------------
(* Checkpoints.                                                            *)

(* A save joins the queue under no plan's id.                              *)
LEMMA MintPrepareKeepsInv ==
    ASSUME PipelineInv, MintPrepare
    PROVE  PipelineInv'
<1>. USE DEF PipelineInv
<1>. DEFINE m == [kind |-> "Save", step |-> cursor, cancel |-> FALSE, job |-> 0]
<1>1. /\ wq' = Append(wq, m)
      /\ UNCHANGED <<docVars, shownVars, store, sendVars, schedVars, jobVars, up, saveReply, sessionVars>>
  BY DEF MintPrepare, Send
<1>2. m \in Messages
  <2>1. cursor \in Nat
    BY TimelineLength, OpsAssumption DEF DocInv
  <2>. QED
    BY <2>1 DEF Messages
<1>3. /\ wq' \in Seq(Messages) /\ DOMAIN wq' = DOMAIN wq \cup {Len(wq) + 1}
      /\ \A i \in DOMAIN wq : wq'[i] = wq[i]
      /\ wq'[Len(wq) + 1] = m
  BY <1>1, <1>2, Appended DEF QueueInv
<1>4. \A i \in DOMAIN wq' : Sent(i)' => i \in DOMAIN wq /\ Sent(i) /\ wq'[i] = wq[i]
  BY <1>1, <1>3 DEF Sent, jobVars
<1>5. NoneSent => NoneSent'
  BY <1>4 DEF NoneSent
<1>6. NotPrepared => NotPrepared'
  BY <1>1 DEF NotPrepared, sessionVars, jobVars
<1>7. PlanOps(plan)' = PlanOps(plan)
  BY <1>1 DEF PlanOps, jobVars
<1>8. QueueInv'
  BY <1>1, <1>3, <1>4, <1>5, <1>6, <1>7 DEF QueueInv, jobVars, sessionVars
<1>9. DocInv' /\ EpochInv' /\ RequestInv' /\ HonestInv'
  BY <1>1 DEF DocInv, EpochInv, RequestInv, HonestInv, Honest,
              docVars, shownVars, sendVars, schedVars, jobVars, sessionVars
<1>10. PlanInv' /\ DriveInv'
  BY <1>1 DEF PlanInv, CutFromDoc, Honest, DriveInv, PlanOps, docVars, jobVars
<1>. QED
  BY <1>8, <1>9, <1>10

(* A checkpoint that is adopted is as honest as the answer.                *)
LEMMA MintAdoptKeepsInv ==
    ASSUME PipelineInv, MintAdopt
    PROVE  PipelineInv'
<1>. USE DEF PipelineInv
<1>. DEFINE e == [geom |-> saveReply.geom, hash |-> saveReply.hash]
<1>1. /\ saveReply # NoReply /\ saveReply' = NoReply
      /\ UNCHANGED <<docVars, shownVars, sendVars, schedVars, jobVars, up, wq, sessionVars>>
  BY DEF MintAdopt
<1>2. \A s \in DOMAIN store' :
        (saveReply.ok /\ store'[s] = e) \/ (s \in DOMAIN store /\ store'[s] = store[s])
  BY DEF MintAdopt
<1>3. saveReply.ok => e \in States /\ Honest(e)
  BY <1>1 DEF HonestInv, Honest, States
<1>4. HonestInv'
  BY <1>1, <1>2, <1>3 DEF HonestInv, Honest, sessionVars
<1>5. DocInv' /\ EpochInv' /\ RequestInv'
  BY <1>1 DEF DocInv, EpochInv, RequestInv, docVars, shownVars, sendVars, schedVars, jobVars, sessionVars
<1>6. PlanInv' /\ DriveInv' /\ QueueInv'
  BY <1>1 DEF PlanInv, CutFromDoc, Honest, DriveInv, QueueInv, NoneSent, Sent, NotPrepared, PlanOps,
              docVars, jobVars, sessionVars
<1>. QED
  BY <1>4, <1>5, <1>6

-----------------------------------------------------------------------------
(* The invariant.                                                          *)

(* Every step of the driver.                                               *)
LEMMA DriverKeepsInv ==
    ASSUME PipelineInv, Driver
    PROVE  PipelineInv'
<1>1. ASSUME BeginNothing PROVE PipelineInv'
  <2>1. /\ EndJob
        /\ UNCHANGED <<docVars, shownVars, store, sendVars, up, wq, mintVars, sessionVars>>
    BY <1>1 DEF BeginNothing
  <2>. QED
    BY <2>1, EndJobKeepsInv DEF docVars, shownVars
<1>. QED
  BY <1>1, BeginPlanKeepsInv, BeginClearKeepsInv, RestoreAnsweredKeepsInv, PlanFailedKeepsInv,
     PlanPreparedKeepsInv, CancelSeenKeepsInv, AcceptAnsweredKeepsInv, DiscardAnsweredKeepsInv,
     DriveClearKeepsInv, FinishKeepsInv DEF Driver

(* Nothing happens.                                                        *)
LEMMA StutterKeepsInv ==
    ASSUME PipelineInv, UNCHANGED vars
    PROVE  PipelineInv'
<1>. USE DEF PipelineInv, vars
<1>1. DocInv' /\ EpochInv' /\ RequestInv' /\ HonestInv'
  BY DEF DocInv, EpochInv, RequestInv, HonestInv, Honest,
         docVars, shownVars, sendVars, schedVars, jobVars, mintVars, sessionVars
<1>2. PlanInv' /\ DriveInv'
  BY DEF PlanInv, CutFromDoc, Honest, DriveInv, PlanOps, docVars, jobVars
<1>3. QueueInv'
  BY DEF QueueInv, NoneSent, Sent, NotPrepared, PlanOps, jobVars, sessionVars
<1>. QED
  BY <1>1, <1>2, <1>3

(* An opened document over a fresh worker satisfies the invariant.         *)
LEMMA InitInv == Init => PipelineInv
<1>. SUFFICES ASSUME Init PROVE PipelineInv
  OBVIOUS
<1>1. doc \in Timelines /\ Len(doc) \in Nat
  BY PipelineAssumption, TimelineLength, OpsAssumption DEF Init
<1>2. DocInv
  BY <1>1 DEF Init, DocInv
<1>3. EpochInv /\ RequestInv
  <2>1. ToEnd(1) \in Requests
    BY Requested
  <2>2. <<ToEnd(1)>> \in Seq(Requests) /\ <<>> \in Seq(Nat)
    BY <2>1
  <2>. QED
    BY <2>2 DEF Init, EpochInv, RequestInv
<1>4. HonestInv
  BY EmptyIsHonest DEF Init, HonestInv
<1>5. PlanInv /\ DriveInv
  BY DEF Init, PlanInv, DriveInv, Active
<1>6. QueueInv
  BY EmptySeq DEF Init, QueueInv
<1>. QED
  BY <1>2, <1>3, <1>4, <1>5, <1>6 DEF PipelineInv

(* Every step keeps the invariant.                                         *)
LEMMA NextInv == PipelineInv /\ [Next]_vars => PipelineInv'
<1>. SUFFICES ASSUME PipelineInv, [Next]_vars PROVE PipelineInv'
  OBVIOUS
<1>1. ASSUME Edit PROVE PipelineInv'
  <2>1. PICK d, c : EditShape(d, c)
    BY <1>1, EditHasShape DEF PipelineInv
  <2>. QED
    BY <2>1, EditKeepsInv
<1>2. ASSUME Scheduler PROVE PipelineInv'
  BY <1>2, DeliverKeepsInv, StartJobKeepsInv DEF Scheduler
<1>3. ASSUME Abandon PROVE PipelineInv'
  <2>1. /\ EndJob
        /\ UNCHANGED <<docVars, shownVars, store, sendVars, up, wq, mintVars, sessionVars>>
    BY <1>3 DEF Abandon
  <2>. QED
    BY <2>1, EndJobKeepsInv DEF docVars, shownVars
<1>4. ASSUME Saver PROVE PipelineInv'
  BY <1>4, MintPrepareKeepsInv, MintAdoptKeepsInv DEF Saver
<1>. QED
  BY <1>1, <1>2, <1>3, <1>4, DriverKeepsInv, WorkerKeepsInv, WorkerDiesKeepsInv,
     NotConnectedKeepsInv, WorkerReadyKeepsInv, RestartHookKeepsInv, StutterKeepsInv DEF Next

(* The invariant holds in every reachable state.                           *)
THEOREM PipelineInvariant == Spec => []PipelineInv
<1>. QED
  BY InitInv, NextInv, PTL DEF Spec

(* Wherever a hash token travels -- the worker's head and scratch, its     *)
(* checkpoints, the checkpoints Rust keeps -- it names the bodies it       *)
(* travels with, through every edit, crash, retry and stale answer.        *)
THEOREM WorkerAlwaysHonest == Spec => []WorkerHonest
<1>1. PipelineInv => WorkerHonest
  BY DEF PipelineInv, HonestInv, Honest, WorkerHonest
<1>. QED
  BY <1>1, PipelineInvariant, PTL

-----------------------------------------------------------------------------
(* Refinement.                                                             *)

(* A commit shows the geometry of a prefix of the document of that moment: *)
(* one atomic Rebuild of LiveModel.                                        *)
LEMMA ShownAfterCommit ==
    ASSUME PipelineInv, FinishRegen
    PROVE  Live!Next \/ UNCHANGED <<doc, cursor, rev, Shown>>
<1>1. UNCHANGED <<doc, cursor, rev, epoch>>
  BY DEF FinishRegen
<1>2. CASE outcome = "published" /\ Current
  <2>1. /\ Folded = Regen(doc, plan.target) /\ plan.target \in 0 .. cursor /\ Folded \in Slices
    BY <1>2, FoldedIsPrefix DEF FinishRegen
  <2>2. /\ snap' = [geom |-> Folded, upto |-> plan.target, steps |-> plan.steps,
                    rev |-> rev, epoch |-> epoch]
    BY <1>2 DEF FinishRegen
  <2>3. snap' \in Snapshots
    <3>1. plan.steps \in Slices /\ plan.target \in Nat
      BY DEF FinishRegen, PipelineInv, PlanInv, Active, CutFromDoc, Plans
    <3>2. rev \in Nat /\ epoch \in Nat
      BY DEF PipelineInv, DocInv, EpochInv
    <3>. QED
      BY <2>1, <2>2, <3>1, <3>2 DEF Snapshots
  <2>4. Shown' = Regen(doc, plan.target)
    BY <2>1, <2>2, <2>3, PipelineAssumption DEF Shown
  <2>5. Live!Rebuild(plan.target)
    BY <1>1, <2>4 DEF Live!Rebuild, Live!Regen, Live!Built, Live!Lines, Regen, Built, Lines
  <2>. QED
    BY <2>1, <2>5 DEF Live!Next
<1>3. CASE ~(outcome = "published" /\ Current)
  BY <1>1, <1>3 DEF FinishRegen, Shown
<1>. QED
  BY <1>2, <1>3

(* An edit changes the document and not the screen.                        *)
LEMMA ShownAfterEdit ==
    ASSUME NEW d, NEW c, EditShape(d, c)
    PROVE  Live!Next
<1>1. Live!Edit(d, c)
  BY DEF EditShape, Mutate, Live!Edit, Shown, shownVars
<1>2. d \in Live!Timelines /\ c \in 0 .. Len(d)
  BY DEF EditShape, Live!Timelines, Live!Records, Timelines, Records
<1>. QED
  BY <1>1, <1>2 DEF Live!Next

(* Only an edit and a commit reach the document and the screen.            *)
LEMMA Unseen ==
    ASSUME [Next]_vars, ~Edit, ~FinishRegen
    PROVE  UNCHANGED <<doc, cursor, rev, snap>>
<1>1. ASSUME Scheduler \/ Abandon \/ Saver \/ UNCHANGED vars PROVE UNCHANGED <<doc, cursor, rev, snap>>
  BY <1>1 DEF Scheduler, Deliver, StartJob, Abandon, Saver, MintPrepare, MintAdopt, vars,
              docVars, shownVars
<1>2. ASSUME Driver PROVE UNCHANGED <<doc, cursor, rev, snap>>
  BY <1>2 DEF Driver, BeginPlan, BeginClear, BeginNothing, RestoreAnswered, PlanFailed, PlanPrepared,
              CancelSeen, AcceptAnswered, DiscardAnswered, DriveClear, GiveUp, SendNext, DriverOnly,
              docVars, shownVars
<1>3. ASSUME Worker PROVE UNCHANGED <<doc, cursor, rev, snap>>
  BY <1>3 DEF Worker, ServeRestore, ServeExecute, ServeCancelled, ServeAccept, ServeDiscard,
              ServeSave, Serve, docVars, shownVars
<1>4. ASSUME WorkerDies \/ NotConnected \/ WorkerReady \/ RestartHook
      PROVE  UNCHANGED <<doc, cursor, rev, snap>>
  BY <1>4 DEF WorkerDies, NotConnected, WorkerReady, RestartHook, docVars, shownVars
<1>. QED
  BY <1>1, <1>2, <1>3, <1>4 DEF Next

(* Every step is an edit or a rebuild of LiveModel, or leaves both alone.  *)
LEMMA LiveStep ==
    ASSUME PipelineInv, [Next]_vars
    PROVE  [Live!Next]_Live!vars
<1>. SUFFICES Live!Next \/ UNCHANGED <<doc, cursor, rev, Shown>>
  BY DEF Live!vars
<1>1. ASSUME Edit PROVE Live!Next
  BY <1>1, EditHasShape, ShownAfterEdit DEF PipelineInv
<1>2. ASSUME FinishRegen PROVE Live!Next \/ UNCHANGED <<doc, cursor, rev, Shown>>
  BY <1>2, ShownAfterCommit
<1>3. UNCHANGED <<doc, cursor, rev, snap>> => UNCHANGED <<doc, cursor, rev, Shown>>
  BY DEF Shown
<1>. QED
  BY <1>1, <1>2, <1>3, Unseen

(* An opened document shows nothing yet.                                   *)
LEMMA LiveInit == Init => Live!Init
<1>1. InitDocs \subseteq Live!Timelines
  BY PipelineAssumption DEF Live!Timelines, Live!Records, Timelines, Records
<1>. QED
  BY <1>1 DEF Init, Live!Init, Shown

(* Whatever reaches the screen is, at that moment, the geometry of a       *)
(* prefix of the document as it then is: the commit of a drive that raced  *)
(* edits, cancels, crashes and checkpoints is one atomic rebuild.          *)
THEOREM PipelineImplementsLiveModel == Spec => ImplementsLiveModel
<1>1. PipelineInv /\ [Next]_vars => [Live!Next]_Live!vars
  BY LiveStep
<1>. QED
  BY <1>1, LiveInit, PipelineInvariant, PTL DEF Spec, ImplementsLiveModel, Live!Spec

(* -- The driver and the worker ------------------------------------------- *)

(***************************************************************************)
(* The driver and the worker of RegenPipeline understand each other: every *)
(* variable keeps its kind, a plan is refused only by a worker that was    *)
(* replaced meanwhile, and when the worker has accepted a plan, Rust and   *)
(* the worker hold the same bodies.                                        *)
(*                                                                         *)
(* Rust never looks into the worker, so the invariant reads the one queue  *)
(* between them.  A plan that is prepared is, further down the queue,      *)
(* accepted or discarded before the next one is executed, except that the  *)
(* driver may still have to say which.  Behind the request the driver      *)
(* waits for, nothing but checkpoint saves can be queued: what it was told *)
(* of the worker's head therefore still holds when the next request comes. *)
(***************************************************************************)

(* No epoch is known before its worker lives.                              *)
EpochOrder ==
    /\ epoch <= wEpoch /\ (~up => epoch < wEpoch)
    /\ \A i \in DOMAIN hooks : hooks[i] <= wEpoch /\ (~up => hooks[i] < wEpoch)
    /\ phase \in Active => plan.epoch <= wEpoch /\ (~up => plan.epoch < wEpoch)

(* The request the driver waits for is its only one, and the last.         *)
Own(i) == wq[i].kind # "Save" /\ wq[i].job = plan.job

OnlySaves == \A i \in DOMAIN wq : wq[i].kind = "Save"

Asked == [restore |-> "Restore", execute |-> "Execute", accept |-> "Accept", discard |-> "Discard"]

Awaiting == phase \in {"restore", "execute", "accept"} \/ (phase = "discard" /\ after = "retry")

Accepted == phase = "driven" /\ outcome = "published" /\ ~plan.clear

LastInQueue ==
    /\ Awaiting =>
         /\ \A i \in DOMAIN wq : Own(i) =>
              /\ wq[i].kind = Asked[phase] /\ wq[i].epoch = plan.epoch /\ wq[i].base = plan.art.hash
              /\ \A k \in DOMAIN wq : k > i => wq[k].kind = "Save"
         /\ reply # NoReply => OnlySaves
    /\ Accepted => OnlySaves

(* A plan on a base finds the worker's head at it.                         *)
Based ==
    /\ phase = "restore" /\ reply # NoReply /\ reply.ok /\ plan.epoch = wEpoch =>
         head.hash = plan.art.hash
    /\ phase = "execute" /\ plan.art.hash # {} =>
         /\ plan.epoch = wEpoch => head.hash = plan.art.hash
         /\ \A i \in DOMAIN wq : wq[i].kind = "Save" \/ Own(i)

(* What is prepared for the plan in flight, and what became of it.         *)
Bodies(steps) == plan.art.geom \cup steps

PreparedOnBase ==
    phase \in {"execute", "accept"} /\ scratch # NoScratch /\ scratch.job = plan.job =>
        plan.epoch = wEpoch /\ scratch.geom = Bodies(Built(PlanOps(plan)))

HeadIsAccepted ==
    (Accepted \/ (phase = "accept" /\ reply # NoReply /\ reply.ok)) /\ plan.epoch = wEpoch =>
        head.geom = Bodies(plan.steps)

(* Position 0 of the queue is what is prepared already.                    *)
Prepares(i) == IF i = 0 THEN scratch # NoScratch ELSE wq[i].kind = "Execute" /\ wq[i].epoch = wEpoch
JobAt(i)    == IF i = 0 THEN scratch.job ELSE wq[i].job

Ends(k, job) ==
    wq[k].kind = "Discard" \/ (wq[k].kind = "Accept" /\ wq[k].job = job /\ wq[k].epoch = wEpoch)

OneAtATime ==
    \A i \in 0 .. Len(wq) : Prepares(i) =>
        /\ \/ phase = "execute" /\ plan.job = JobAt(i)
           \/ \E k \in i + 1 .. Len(wq) : Ends(k, JobAt(i))
        /\ \A j \in i + 1 .. Len(wq) : Prepares(j) => \E k \in i + 1 .. j - 1 : Ends(k, JobAt(i))

WorkerInv ==
    /\ EpochOrder /\ LastInQueue /\ Based /\ PreparedOnBase /\ HeadIsAccepted /\ OneAtATime
    /\ NeverRefused

-----------------------------------------------------------------------------
(* The queue.                                                              *)

(* The positions of the queue.                                             *)
LEMMA Positions ==
    ASSUME PipelineInv
    PROVE  /\ wq \in Seq(Messages) /\ Len(wq) \in Nat /\ DOMAIN wq = 1 .. Len(wq)
           /\ phase \in Active => plan.epoch \in Nat /\ plan.art.hash = plan.art.geom
           /\ epoch \in Nat /\ wEpoch \in Nat /\ hooks \in Seq(Nat)
<1>1. wq \in Seq(Messages) /\ epoch \in Nat /\ wEpoch \in Nat /\ hooks \in Seq(Nat)
  BY DEF PipelineInv, QueueInv, EpochInv
<1>2. Len(wq) \in Nat /\ DOMAIN wq = 1 .. Len(wq)
  BY <1>1, LenProperties
<1>3. phase \in Active => plan.epoch \in Nat /\ plan.art.hash = plan.art.geom
  BY DEF PipelineInv, PlanInv, CutFromDoc, Plans, Honest
<1>. QED
  BY <1>1, <1>2, <1>3

(* A request joins the queue: whatever is prepared by then either is ended *)
(* by it or goes on waiting for the driver's word.                         *)
LEMMA JoinKeepsOrder ==
    ASSUME PipelineInv, OneAtATime, NEW m,
           Len(wq') = Len(wq) + 1, wq'[Len(wq) + 1] = m,
           \A i \in 1 .. Len(wq) :
             wq'[i].kind = wq[i].kind /\ wq'[i].job = wq[i].job /\ (wq[i].kind # "Save" => wq'[i].epoch = wq[i].epoch),
           UNCHANGED <<scratch, wEpoch>>,
           m.kind = "Execute" => phase # "execute" /\ phase' = "execute" /\ plan'.job = m.job,
           \A i \in 0 .. Len(wq) : Prepares(i) /\ phase = "execute" /\ plan.job = JobAt(i) =>
             \/ phase' = "execute" /\ plan'.job = plan.job
             \/ m.kind = "Discard" \/ (m.kind = "Accept" /\ m.job = JobAt(i) /\ m.epoch = wEpoch)
    PROVE  OneAtATime'
<1>. PICK n \in Nat : n = Len(wq)
  BY Positions
<1>1. n \in Nat /\ n = Len(wq) /\ Len(wq') = n + 1 /\ wq'[n + 1] = m
  OBVIOUS
<1>2. \A i \in 0 .. n : (Prepares(i)' <=> Prepares(i)) /\ JobAt(i)' = JobAt(i)
  BY <1>1 DEF Prepares, JobAt
<1>3. \A k \in 1 .. n : \A job : Ends(k, job)' <=> Ends(k, job)
  BY <1>1 DEF Ends
<1>4. \A job : Ends(n + 1, job)' <=>
        m.kind = "Discard" \/ (m.kind = "Accept" /\ m.job = job /\ m.epoch = wEpoch)
  BY <1>1 DEF Ends
<1>5. Prepares(n + 1)' => m.kind = "Execute" /\ JobAt(n + 1)' = m.job
  BY <1>1 DEF Prepares, JobAt
<1>. SUFFICES ASSUME NEW i \in 0 .. n + 1, Prepares(i)'
              PROVE  /\ \/ phase' = "execute" /\ plan'.job = JobAt(i)'
                        \/ \E k \in i + 1 .. n + 1 : Ends(k, JobAt(i))'
                     /\ \A j \in i + 1 .. n + 1 : Prepares(j)' =>
                          \E k \in i + 1 .. j - 1 : Ends(k, JobAt(i))'
  BY <1>1 DEF OneAtATime
<1>6. CASE i = n + 1
  BY <1>1, <1>5, <1>6
<1>7. CASE i \in 0 .. n
  <2>1. /\ Prepares(i) /\ JobAt(i)' = JobAt(i)
        /\ \/ phase = "execute" /\ plan.job = JobAt(i)
           \/ \E k \in i + 1 .. n : Ends(k, JobAt(i))
        /\ \A j \in i + 1 .. n : Prepares(j) => \E k \in i + 1 .. j - 1 : Ends(k, JobAt(i))
    BY <1>2, <1>7 DEF OneAtATime
  <2>2. \A k \in i + 1 .. n : Ends(k, JobAt(i)) => k \in i + 1 .. n + 1 /\ Ends(k, JobAt(i))'
    BY <1>1, <1>3, <1>7, <2>1
  <2>3. \/ phase' = "execute" /\ plan'.job = JobAt(i)'
        \/ \E k \in i + 1 .. n + 1 : Ends(k, JobAt(i))'
    <3>1. CASE phase = "execute" /\ plan.job = JobAt(i)
      <4>1. n + 1 \in i + 1 .. n + 1
        BY <1>1, <1>7
      <4>2. \/ phase' = "execute" /\ plan'.job = plan.job
            \/ Ends(n + 1, JobAt(i))'
        BY <1>4, <1>7, <2>1, <3>1
      <4>. QED
        BY <2>1, <3>1, <4>1, <4>2
    <3>. QED
      BY <2>1, <2>2, <3>1
  <2>4. ASSUME NEW j \in i + 1 .. n + 1, Prepares(j)'
        PROVE  \E k \in i + 1 .. j - 1 : Ends(k, JobAt(i))'
    <3>1. CASE j \in i + 1 .. n
      <4>1. PICK k \in i + 1 .. j - 1 : Ends(k, JobAt(i))
        BY <1>1, <1>2, <1>7, <2>1, <2>4, <3>1
      <4>2. k \in i + 1 .. n
        BY <1>1, <1>7, <3>1
      <4>. QED
        BY <2>2, <4>1, <4>2
    <3>2. CASE j = n + 1
      <4>1. \E k \in i + 1 .. n : Ends(k, JobAt(i))
        BY <1>5, <2>1, <2>4, <3>2
      <4>2. j - 1 = n
        BY <1>1, <3>2
      <4>. QED
        BY <2>2, <4>1, <4>2
    <3>. QED
      BY <1>1, <1>7, <3>1, <3>2
  <2>. QED
    BY <2>3, <2>4
<1>. QED
  BY <1>1, <1>6, <1>7

(* A request is served: what is prepared afterwards was prepared before    *)
(* and is not ended by it, or was prepared by it.                          *)
LEMMA ServeKeepsOrder ==
    ASSUME PipelineInv, OneAtATime, wq # <<>>, wq' = Tail(wq), UNCHANGED <<wEpoch, phase, plan>>,
           scratch' # NoScratch =>
             \/ scratch' = scratch /\ ~Ends(1, scratch.job)
             \/ Prepares(1) /\ scratch'.job = wq[1].job
    PROVE  OneAtATime'
<1>. PICK n \in Nat : n = Len(wq)
  BY Positions
<1>1. n = Len(wq) /\ n >= 1 /\ Len(wq') = n - 1 /\ \A i \in 1 .. n - 1 : wq'[i] = wq[i + 1]
  BY Positions
<1>2. \A i \in 1 .. n - 1 : (Prepares(i)' <=> Prepares(i + 1)) /\ JobAt(i)' = JobAt(i + 1)
  BY <1>1 DEF Prepares, JobAt
<1>3. \A k \in 1 .. n - 1 : \A job : Ends(k, job)' <=> Ends(k + 1, job)
  BY <1>1 DEF Ends
<1>. SUFFICES ASSUME NEW i \in 0 .. n - 1, Prepares(i)'
              PROVE  /\ \/ phase' = "execute" /\ plan'.job = JobAt(i)'
                        \/ \E k \in i + 1 .. n - 1 : Ends(k, JobAt(i))'
                     /\ \A j \in i + 1 .. n - 1 : Prepares(j)' =>
                          \E k \in i + 1 .. j - 1 : Ends(k, JobAt(i))'
  BY <1>1 DEF OneAtATime
<1>4. PICK b \in {i, i + 1} : b \in 0 .. n /\ Prepares(b) /\ JobAt(b) = JobAt(i)' /\ (b = i => ~Ends(i + 1, JobAt(b)))
  <2>1. CASE i = 0
    <3>1. CASE scratch' = scratch /\ ~Ends(1, scratch.job)
      BY <1>1, <2>1, <3>1 DEF Prepares, JobAt
    <3>2. CASE Prepares(1) /\ scratch'.job = wq[1].job
      BY <1>1, <2>1, <3>2 DEF JobAt
    <3>. QED
      BY <2>1, <3>1, <3>2 DEF Prepares
  <2>2. CASE i # 0
    BY <1>1, <1>2, <2>2
  <2>. QED
    BY <2>1, <2>2
<1>5. /\ \/ phase = "execute" /\ plan.job = JobAt(b)
         \/ \E k \in b + 1 .. n : Ends(k, JobAt(b))
      /\ \A j \in b + 1 .. n : Prepares(j) => \E k \in b + 1 .. j - 1 : Ends(k, JobAt(b))
  BY <1>4 DEF OneAtATime
<1>6. ASSUME NEW t \in 0 .. n, \E k \in b + 1 .. t : Ends(k, JobAt(b))
      PROVE  \E k \in i + 1 .. t - 1 : Ends(k, JobAt(i))'
  <2>1. PICK k \in b + 1 .. t : Ends(k, JobAt(b))
    BY <1>6
  <2>2. k # i + 1
    BY <1>1, <1>4, <2>1
  <2>3. k - 1 \in i + 1 .. t - 1 /\ k - 1 \in 1 .. n - 1 /\ (k - 1) + 1 = k
    BY <1>1, <1>4, <2>1, <2>2
  <2>4. Ends(k - 1, JobAt(b))'  <=> Ends(k, JobAt(b)')
    BY <1>3, <2>3
  <2>. QED
    BY <1>3, <1>4, <2>1, <2>3
<1>7. \/ phase' = "execute" /\ plan'.job = JobAt(i)'
      \/ \E k \in i + 1 .. n - 1 : Ends(k, JobAt(i))'
  BY <1>1, <1>4, <1>5, <1>6
<1>8. ASSUME NEW j \in i + 1 .. n - 1, Prepares(j)'
      PROVE  \E k \in i + 1 .. j - 1 : Ends(k, JobAt(i))'
  <2>1. j + 1 \in b + 1 .. n /\ Prepares(j + 1)
    BY <1>1, <1>2, <1>4, <1>8
  <2>2. \E k \in b + 1 .. j : Ends(k, JobAt(b))
    <3>1. (j + 1) - 1 = j
      BY <1>1, <1>8
    <3>. QED
      BY <1>5, <2>1, <3>1
  <2>3. j \in 0 .. n
    BY <1>1, <1>8
  <2>. QED
    BY <1>6, <2>2, <2>3
<1>. QED
  BY <1>7, <1>8

-----------------------------------------------------------------------------
(* Steps that leave the driver and the worker alone, or end a job.         *)

(* An edit, a request on its way, a checkpoint that Rust adopts.           *)
LEMMA QuietKeeps ==
    ASSUME WorkerInv, UNCHANGED <<epoch, hooks, jobVars, up, wq, sessionVars>>
    PROVE  WorkerInv'
<1>. USE DEF WorkerInv, jobVars, sessionVars
<1>1. EpochOrder'
  BY DEF EpochOrder
<1>2. LastInQueue'
  BY DEF LastInQueue, Own, OnlySaves, Awaiting, Accepted
<1>3. Based' /\ PreparedOnBase' /\ HeadIsAccepted'
  BY DEF Based, PreparedOnBase, HeadIsAccepted, Bodies, Own, Accepted, PlanOps
<1>4. OneAtATime'
  BY DEF OneAtATime, Prepares, JobAt, Ends
<1>5. NeverRefused'
  BY DEF NeverRefused
<1>. QED
  BY <1>1, <1>2, <1>3, <1>4, <1>5

(* A job that begins or ends without a word to the worker.                 *)
LEMMA AsideKeeps ==
    ASSUME PipelineInv, WorkerInv, phase # "execute", ~Awaiting', ~Accepted',
           UNCHANGED <<epoch, hooks, up, wq, sessionVars>>,
           phase' \in Active => plan'.epoch = epoch \/ (phase \in Active /\ plan'.epoch = plan.epoch)
    PROVE  WorkerInv'
<1>. USE DEF WorkerInv, sessionVars
<1>1. EpochOrder'
  BY DEF EpochOrder
<1>2. LastInQueue'
  BY DEF LastInQueue
<1>3. Based' /\ PreparedOnBase' /\ HeadIsAccepted' /\ NeverRefused'
  BY DEF Based, PreparedOnBase, HeadIsAccepted, NeverRefused, Awaiting
<1>4. OneAtATime'
  <2>1. \A i : (Prepares(i)' <=> Prepares(i)) /\ JobAt(i)' = JobAt(i)
    BY DEF Prepares, JobAt
  <2>2. \A k : \A job : Ends(k, job)' <=> Ends(k, job)
    BY DEF Ends
  <2>. QED
    BY <2>1, <2>2 DEF OneAtATime
<1>. QED
  BY <1>1, <1>2, <1>3, <1>4

(* The scheduler starts a job, drops one, finishes one.                    *)
LEMMA SchedulerKeeps ==
    ASSUME PipelineInv, WorkerInv,
           StartJob \/ Abandon \/ BeginClear \/ BeginNothing \/ DriveClear \/ FinishRegen
    PROVE  WorkerInv'
<1>. USE DEF Awaiting, Accepted, Active
<1>1. CASE StartJob
  <2>1. /\ phase = "idle" /\ phase' = "begin"
        /\ UNCHANGED <<epoch, hooks, up, wq, sessionVars>>
    BY <1>1 DEF StartJob, shownVars, sendVars
  <2>. QED
    BY <2>1, AsideKeeps
<1>2. CASE Abandon \/ BeginNothing \/ FinishRegen
  <2>1. /\ phase \in {"begin", "restore", "accept", "discard", "driven"} /\ phase' = "idle"
        /\ UNCHANGED <<epoch, hooks, up, wq, sessionVars>>
    BY <1>2 DEF Abandon, BeginNothing, FinishRegen, EndJob, shownVars, sendVars
  <2>. QED
    BY <2>1, AsideKeeps
<1>3. CASE BeginClear
  <2>1. /\ phase = "begin" /\ phase' = "clear" /\ plan'.epoch = epoch
        /\ UNCHANGED <<epoch, hooks, up, wq, sessionVars>>
    BY <1>3 DEF BeginClear, PlanFor, shownVars, sendVars
  <2>. QED
    BY <2>1, AsideKeeps
<1>4. CASE DriveClear
  <2>1. /\ phase = "clear" /\ phase' = "driven" /\ plan' = plan /\ plan.clear
        /\ UNCHANGED <<epoch, hooks, up, wq, sessionVars>>
    BY <1>4 DEF DriveClear, DriverOnly, shownVars, sendVars, PipelineInv, DriveInv
  <2>. QED
    BY <2>1, AsideKeeps
<1>. QED
  BY <1>1, <1>2, <1>3, <1>4

-----------------------------------------------------------------------------
(* The driver asks.                                                        *)

(* What a request carries of its plan.                                     *)
LEMMA Carries ==
    ASSUME NEW p, NEW kind
    PROVE  /\ Message(kind, p).kind = kind /\ Message(kind, p).job = p.job
           /\ Message(kind, p).epoch = p.epoch /\ Message(kind, p).base = p.art.hash
  BY DEF Message

(* A frame that joins a queue which holds none under its plan's id.        *)
LEMMA AskIsLast ==
    ASSUME PipelineInv, NEW kind \in PlanKinds, NEW p,
           wq' = Append(wq, Message(kind, p)), plan'.job = p.job, plan'.epoch = p.epoch,
           plan'.art = p.art, reply' = NoReply, kind = Asked[phase'], phase' # "driven",
           \A i \in DOMAIN wq : wq[i].kind = "Save" \/ wq[i].job # p.job
    PROVE  /\ LastInQueue'
           /\ Len(wq') = Len(wq) + 1 /\ wq'[Len(wq) + 1] = Message(kind, p)
           /\ \A i \in 1 .. Len(wq) : wq'[i] = wq[i]
<1>1. /\ Len(wq) \in Nat /\ DOMAIN wq = 1 .. Len(wq)
      /\ Len(wq') = Len(wq) + 1 /\ wq'[Len(wq) + 1] = Message(kind, p)
      /\ DOMAIN wq' = 1 .. Len(wq) + 1
      /\ \A i \in 1 .. Len(wq) : wq'[i] = wq[i]
  BY Positions
<1>2. \A i \in DOMAIN wq' : Own(i)' => i = Len(wq) + 1
  BY <1>1 DEF Own
<1>3. LastInQueue'
  BY <1>1, <1>2, Carries DEF LastInQueue, Accepted
<1>. QED
  BY <1>1, <1>3

(* Nothing in the queue or on the worker carries a fresh id.               *)
LEMMA FreshIsUnused ==
    ASSUME Jobs \ JobsInUse # {}
    PROVE  /\ \A i \in DOMAIN wq : wq[i].kind = "Save" \/ wq[i].job # FreshJob
           /\ scratch # NoScratch => scratch.job # FreshJob
  BY Fresh DEF JobsInUse

(* The driver begins: nothing of an earlier attempt carries the fresh id.  *)
LEMMA BeginPlanKeeps ==
    ASSUME PipelineInv, WorkerInv, NEW base \in Steps \cup {0}, BeginPlan(base)
    PROVE  WorkerInv'
<1>. DEFINE p == PlanFor(base)
            kind == IF base = 0 THEN "Execute" ELSE "Restore"
<1>1. /\ phase = "begin" /\ plan' = p /\ Jobs \ JobsInUse # {}
      /\ phase' = IF base = 0 THEN "execute" ELSE "restore"
      /\ wq' = Append(wq, Message(kind, p))
      /\ UNCHANGED <<epoch, hooks, up, reply, after, outcome, sessionVars>>
  BY DEF BeginPlan, Send, shownVars, sendVars
<1>2. /\ p.job = FreshJob /\ p.epoch = epoch /\ (base = 0 => p.art.hash = {})
  BY DEF PlanFor, EmptyHead, EmptyPrefix
<1>3. reply' = NoReply
  BY <1>1 DEF PipelineInv, QueueInv
<1>4. /\ LastInQueue'
      /\ Len(wq') = Len(wq) + 1 /\ wq'[Len(wq) + 1] = Message(kind, p)
      /\ \A i \in 1 .. Len(wq) : wq'[i] = wq[i]
  BY <1>1, <1>2, <1>3, FreshIsUnused, AskIsLast DEF PlanKinds, Asked
<1>5. EpochOrder'
  BY <1>1, <1>2 DEF WorkerInv, EpochOrder, sessionVars
<1>6. PreparedOnBase'
  BY <1>1, <1>2, FreshIsUnused DEF PreparedOnBase, sessionVars
<1>7. Based' /\ HeadIsAccepted' /\ NeverRefused'
  BY <1>1, <1>2, <1>3 DEF Based, HeadIsAccepted, NeverRefused, Accepted
<1>8. OneAtATime'
  BY <1>1, <1>4, Carries, JoinKeepsOrder DEF WorkerInv, sessionVars
<1>. QED
  BY <1>4, <1>5, <1>6, <1>7, <1>8 DEF WorkerInv

(* The driver keeps its plan and changes what it waits for.                *)
LEMMA DriverFrameKeeps ==
    ASSUME PipelineInv, WorkerInv, phase \in Active, DriverOnly, plan'.epoch = plan.epoch
    PROVE  EpochOrder' /\ UNCHANGED <<epoch, hooks, up, wEpoch, head, scratch, saved>>
<1>1. UNCHANGED <<epoch, hooks, up, wEpoch, head, scratch, saved>>
  BY DEF DriverOnly, shownVars, sendVars, sessionVars
<1>. QED
  BY <1>1 DEF WorkerInv, EpochOrder

(* The driver gives up: its Discard comes behind whatever it prepared.     *)
LEMMA GiveUpKeeps ==
    ASSUME PipelineInv, WorkerInv, phase \in {"restore", "execute", "accept"}, reply # NoReply,
           NEW then, GiveUp(then)
    PROVE  WorkerInv'
<1>1. /\ phase' = "discard" /\ reply' = NoReply /\ wq' = Append(wq, Message("Discard", plan))
      /\ after' = then /\ UNCHANGED <<plan, outcome>> /\ DriverOnly
  BY DEF GiveUp, SendNext, Send
<1>2. EpochOrder' /\ UNCHANGED <<epoch, hooks, up, wEpoch, head, scratch, saved>>
  BY <1>1, DriverFrameKeeps DEF Active
<1>3. OnlySaves
  BY DEF WorkerInv, LastInQueue, Awaiting
<1>4. /\ LastInQueue'
      /\ Len(wq') = Len(wq) + 1 /\ wq'[Len(wq) + 1] = Message("Discard", plan)
      /\ \A i \in 1 .. Len(wq) : wq'[i] = wq[i]
  BY <1>1, <1>3, AskIsLast DEF PlanKinds, Asked, OnlySaves
<1>5. OneAtATime'
  BY <1>1, <1>2, <1>4, Carries, JoinKeepsOrder DEF WorkerInv
<1>6. Based' /\ PreparedOnBase' /\ HeadIsAccepted' /\ NeverRefused'
  BY <1>1 DEF Based, PreparedOnBase, HeadIsAccepted, NeverRefused, Accepted
<1>. QED
  BY <1>2, <1>4, <1>5, <1>6 DEF WorkerInv

(* The worker's head is at the base; nothing can move it until the plan runs. *)
LEMMA RestoreAnsweredKeeps ==
    ASSUME PipelineInv, WorkerInv, RestoreAnswered
    PROVE  WorkerInv'
<1>1. phase = "restore" /\ reply # NoReply
  BY DEF RestoreAnswered
<1>2. CASE ~reply.ok
  BY <1>1, <1>2, GiveUpKeeps DEF RestoreAnswered
<1>3. CASE reply.ok
  <2>1. /\ phase' = "execute" /\ reply' = NoReply /\ wq' = Append(wq, Message("Execute", plan))
        /\ UNCHANGED <<plan, after, outcome>> /\ DriverOnly
    BY <1>3 DEF RestoreAnswered, SendNext, Send
  <2>2. EpochOrder' /\ UNCHANGED <<epoch, hooks, up, wEpoch, head, scratch, saved>>
    BY <1>1, <2>1, DriverFrameKeeps DEF Active
  <2>3. OnlySaves
    BY <1>1 DEF WorkerInv, LastInQueue, Awaiting
  <2>4. /\ LastInQueue'
        /\ Len(wq') = Len(wq) + 1 /\ wq'[Len(wq) + 1] = Message("Execute", plan)
        /\ \A i \in 1 .. Len(wq) : wq'[i] = wq[i]
    BY <2>1, <2>3, AskIsLast DEF PlanKinds, Asked, OnlySaves
  <2>5. OneAtATime'
    BY <1>1, <2>1, <2>2, <2>4, Carries, JoinKeepsOrder DEF WorkerInv
  <2>6. Based'
    <3>1. plan.epoch = wEpoch => head.hash = plan.art.hash
      BY <1>1, <1>3 DEF WorkerInv, Based
    <3>2. \A i \in DOMAIN wq' : wq'[i].kind = "Save" \/ Own(i)'
      <4>1. /\ Len(wq) \in Nat /\ DOMAIN wq = 1 .. Len(wq)
            /\ wq' \in Seq(Messages)
        BY <1>3, Positions, RestoreAnsweredKeepsInv DEF PipelineInv, QueueInv
      <4>2. DOMAIN wq' = 1 .. Len(wq) + 1
        BY <2>4, <4>1, LenProperties
      <4>. QED
        BY <2>1, <2>3, <2>4, <4>1, <4>2, Carries DEF OnlySaves, Own
    <3>. QED
      BY <2>1, <2>2, <3>1, <3>2 DEF Based
  <2>7. PreparedOnBase'
    BY <1>1, <2>1, <2>2 DEF PipelineInv, QueueInv, NotPrepared, PreparedOnBase
  <2>8. HeadIsAccepted' /\ NeverRefused'
    BY <2>1 DEF HeadIsAccepted, NeverRefused, Accepted
  <2>. QED
    BY <2>2, <2>4, <2>5, <2>6, <2>7, <2>8 DEF WorkerInv
<1>. QED
  BY <1>2, <1>3

(* The driver takes the steps it was told, and asks the worker to accept.  *)
LEMMA PlanPreparedKeeps ==
    ASSUME PipelineInv, WorkerInv, PlanPrepared
    PROVE  WorkerInv'
<1>1. phase = "execute" /\ reply # NoReply /\ reply.ok
  BY DEF PlanPrepared
<1>2. CASE ~(~cancelled /\ EchoMatches /\ Current)
  <2>1. PICK then \in {"cancelled", "superseded", "failed"} : GiveUp(then)
    BY <1>2 DEF PlanPrepared
  <2>. QED
    BY <1>1, <2>1, GiveUpKeeps
<1>3. CASE ~cancelled /\ EchoMatches /\ Current
  <2>1. /\ phase' = "accept" /\ reply' = NoReply /\ wq' = Append(wq, Message("Accept", plan))
        /\ plan' = [plan EXCEPT !.steps = reply.steps]
        /\ UNCHANGED <<after, outcome>> /\ DriverOnly
    BY <1>3 DEF PlanPrepared, SendNext, Send
  <2>2. /\ plan'.job = plan.job /\ plan'.epoch = plan.epoch /\ plan'.art = plan.art
        /\ PlanOps(plan)' = PlanOps(plan)
    BY <1>1, <2>1 DEF PipelineInv, PlanInv, CutFromDoc, Plans, Active, PlanOps
  <2>3. EpochOrder' /\ UNCHANGED <<epoch, hooks, up, wEpoch, head, scratch, saved>>
    BY <1>1, <2>1, <2>2, DriverFrameKeeps DEF Active
  <2>4. OnlySaves
    BY <1>1 DEF WorkerInv, LastInQueue, Awaiting
  <2>5. /\ LastInQueue'
        /\ Len(wq') = Len(wq) + 1 /\ wq'[Len(wq) + 1] = Message("Accept", plan)
        /\ \A i \in 1 .. Len(wq) : wq'[i] = wq[i]
    BY <2>1, <2>2, <2>4, AskIsLast DEF PlanKinds, Asked, OnlySaves
  <2>6. PreparedOnBase'
    BY <1>1, <2>1, <2>2, <2>3 DEF WorkerInv, PreparedOnBase, Bodies
  <2>7. OneAtATime'
    <3>1. ASSUME NEW i \in 0 .. Len(wq), Prepares(i), plan.job = JobAt(i) PROVE plan.epoch = wEpoch
      <4>1. CASE i = 0
        BY <1>1, <3>1, <4>1 DEF Prepares, JobAt, WorkerInv, PreparedOnBase
      <4>2. CASE i # 0
        BY <2>4, <3>1, <4>2, Positions DEF Prepares, OnlySaves
      <4>. QED
        BY <4>1, <4>2
    <3>. QED
      BY <1>1, <2>1, <2>2, <2>3, <2>5, <3>1, Carries, JoinKeepsOrder DEF WorkerInv
  <2>8. Based' /\ HeadIsAccepted' /\ NeverRefused'
    BY <2>1 DEF Based, HeadIsAccepted, NeverRefused, Accepted
  <2>. QED
    BY <2>3, <2>5, <2>6, <2>7, <2>8 DEF WorkerInv
<1>. QED
  BY <1>2, <1>3

(* A Cancel frame overtakes the queue and changes nothing but flags.       *)
Flags == [i \in DOMAIN wq |-> [wq[i] EXCEPT !.cancel = @ \/ wq[i].job = plan.job]]

(* The flagged queue holds the same requests.                              *)
LEMMA FlagsOnly ==
    ASSUME PipelineInv
    PROVE  /\ Flags \in Seq(Messages) /\ Len(Flags) = Len(wq)
           /\ \A i \in 1 .. Len(wq) :
                /\ Flags[i].kind = wq[i].kind /\ Flags[i].job = wq[i].job /\ Flags[i].step = wq[i].step
                /\ wq[i].kind # "Save" => Flags[i].epoch = wq[i].epoch
<1>1. /\ Len(wq) \in Nat /\ DOMAIN wq = 1 .. Len(wq) /\ \A i \in DOMAIN wq : wq[i] \in Messages
  BY Positions, ElementOfSeq
<1>2. \A x \in Messages : \A c :
        LET y == [x EXCEPT !.cancel = c]
        IN  y.kind = x.kind /\ y.job = x.job /\ y.step = x.step /\ (x.kind # "Save" => y.epoch = x.epoch)
  BY DEF Messages
<1>3. ASSUME NEW i \in DOMAIN wq
      PROVE  [wq[i] EXCEPT !.cancel = @ \/ wq[i].job = plan.job] \in Messages
  <2>1. wq[i] \in Messages /\ (wq[i].cancel \/ wq[i].job = plan.job) \in BOOLEAN
    BY <1>1
  <2>. QED
    BY <2>1, Flagged
<1>4. Flags \in [1 .. Len(wq) -> Messages]
  BY <1>1, <1>3 DEF Flags
<1>5. Flags \in Seq(Messages) /\ Len(Flags) = Len(wq)
  BY <1>1, <1>4, SeqDef
<1>. QED
  BY <1>1, <1>2, <1>5 DEF Flags

(* A cancel while the stream is open: whatever the plan prepares, the      *)
(* Discard comes behind it.                                                *)
LEMMA CancelSeenKeeps ==
    ASSUME PipelineInv, WorkerInv, CancelSeen
    PROVE  WorkerInv'
<1>. DEFINE m == Message("Discard", plan)
<1>1. /\ phase = "execute" /\ reply = NoReply
      /\ phase' = "discard" /\ after' = "cancelled" /\ wq' = Append(Flags, m)
      /\ UNCHANGED <<plan, outcome, reply>> /\ DriverOnly
  BY DEF CancelSeen, Flags
<1>2. EpochOrder' /\ UNCHANGED <<epoch, hooks, up, wEpoch, head, scratch, saved>>
  BY <1>1, DriverFrameKeeps DEF Active
<1>3. /\ Len(wq') = Len(wq) + 1 /\ wq'[Len(wq) + 1] = m
      /\ \A i \in 1 .. Len(wq) : wq'[i] = Flags[i]
  BY <1>1, FlagsOnly, Positions
<1>4. OneAtATime'
  BY <1>1, <1>2, <1>3, FlagsOnly, Carries, JoinKeepsOrder DEF WorkerInv
<1>5. LastInQueue' /\ Based' /\ PreparedOnBase' /\ HeadIsAccepted' /\ NeverRefused'
  BY <1>1 DEF LastInQueue, Based, PreparedOnBase, HeadIsAccepted, NeverRefused, Awaiting, Accepted
<1>. QED
  BY <1>2, <1>4, <1>5 DEF WorkerInv

(* The worker has accepted: its head is what Rust is about to publish.     *)
LEMMA AcceptAnsweredKeeps ==
    ASSUME PipelineInv, WorkerInv, AcceptAnswered
    PROVE  WorkerInv'
<1>1. phase = "accept" /\ reply # NoReply
  BY DEF AcceptAnswered
<1>2. CASE ~reply.ok
  BY <1>1, <1>2, GiveUpKeeps DEF AcceptAnswered
<1>3. CASE reply.ok
  <2>1. /\ phase' = "driven" /\ reply' = NoReply
        /\ UNCHANGED <<plan, after, wq>> /\ DriverOnly
    BY <1>3 DEF AcceptAnswered
  <2>2. EpochOrder' /\ UNCHANGED <<epoch, hooks, up, wEpoch, head, scratch, saved>>
    BY <1>1, <2>1, DriverFrameKeeps DEF Active
  <2>3. LastInQueue'
    BY <1>1, <2>1 DEF WorkerInv, LastInQueue, Awaiting, OnlySaves
  <2>4. HeadIsAccepted'
    BY <1>1, <1>3, <2>1, <2>2 DEF WorkerInv, HeadIsAccepted, Bodies
  <2>5. Based' /\ PreparedOnBase' /\ NeverRefused'
    BY <2>1 DEF Based, PreparedOnBase, NeverRefused
  <2>6. OneAtATime'
    <3>1. \A i : (Prepares(i)' <=> Prepares(i)) /\ JobAt(i)' = JobAt(i)
      BY <2>1, <2>2 DEF Prepares, JobAt
    <3>2. \A k : \A job : Ends(k, job)' <=> Ends(k, job)
      BY <2>1, <2>2 DEF Ends
    <3>. QED
      BY <1>1, <2>1, <3>1, <3>2 DEF WorkerInv, OneAtATime
  <2>. QED
    BY <2>2, <2>3, <2>4, <2>5, <2>6 DEF WorkerInv
<1>. QED
  BY <1>2, <1>3

(* The retry starts from zero, so that it fits any head.                   *)
LEMMA DiscardAnsweredKeeps ==
    ASSUME PipelineInv, WorkerInv, DiscardAnswered
    PROVE  WorkerInv'
<1>1. phase = "discard" /\ reply # NoReply
  BY DEF DiscardAnswered
<1>2. CASE after = "retry"
  <2>1. /\ phase' = "execute" /\ reply' = NoReply /\ plan' = FromZero
        /\ wq' = Append(wq, Message("Execute", FromZero)) /\ outcome' = outcome /\ DriverOnly
    BY <1>2 DEF DiscardAnswered, SendNext, Send
  <2>2. FromZero.job = plan.job /\ FromZero.epoch = plan.epoch /\ FromZero.art.hash = {}
    BY <1>1 DEF PipelineInv, PlanInv, CutFromDoc, Plans, Active, FromZero, EmptyHead, EmptyPrefix
  <2>3. EpochOrder' /\ UNCHANGED <<epoch, hooks, up, wEpoch, head, scratch, saved>>
    BY <1>1, <2>1, <2>2, DriverFrameKeeps DEF Active
  <2>4. OnlySaves
    BY <1>1, <1>2 DEF WorkerInv, LastInQueue, Awaiting
  <2>5. /\ LastInQueue'
        /\ Len(wq') = Len(wq) + 1 /\ wq'[Len(wq) + 1] = Message("Execute", FromZero)
        /\ \A i \in 1 .. Len(wq) : wq'[i] = wq[i]
    BY <2>1, <2>4, AskIsLast DEF PlanKinds, Asked, OnlySaves
  <2>6. OneAtATime'
    BY <1>1, <2>1, <2>3, <2>5, Carries, JoinKeepsOrder DEF WorkerInv
  <2>7. PreparedOnBase'
    BY <1>1, <1>2, <2>1, <2>2, <2>3 DEF PipelineInv, QueueInv, NotPrepared, PreparedOnBase
  <2>8. Based' /\ HeadIsAccepted' /\ NeverRefused'
    BY <2>1, <2>2 DEF Based, HeadIsAccepted, NeverRefused, Accepted
  <2>. QED
    BY <2>3, <2>5, <2>6, <2>7, <2>8 DEF WorkerInv
<1>3. CASE after # "retry"
  <2>1. /\ phase' = "driven" /\ outcome' = after /\ reply' = NoReply
        /\ UNCHANGED <<plan, wq>> /\ DriverOnly
    BY <1>3 DEF DiscardAnswered
  <2>2. after # "published"
    BY <1>1 DEF PipelineInv, DriveInv
  <2>3. UNCHANGED <<epoch, hooks, up, wq, sessionVars>>
    BY <2>1 DEF DriverOnly, shownVars, sendVars
  <2>. QED
    BY <1>1, <2>1, <2>2, <2>3, AsideKeeps DEF Awaiting, Accepted, Active
<1>. QED
  BY <1>2, <1>3

(* Every step of the driver.                                               *)
LEMMA DriverKeeps ==
    ASSUME PipelineInv, WorkerInv, Driver
    PROVE  WorkerInv'
<1>1. ASSUME PlanFailed PROVE WorkerInv'
  <2>1. phase = "execute" /\ reply # NoReply /\ \E then \in {"retry", "failed"} : GiveUp(then)
    BY <1>1 DEF PlanFailed
  <2>. QED
    BY <2>1, GiveUpKeeps
<1>. QED
  BY <1>1, BeginPlanKeeps, SchedulerKeeps, RestoreAnsweredKeeps, PlanPreparedKeeps, CancelSeenKeeps,
     AcceptAnsweredKeeps, DiscardAnsweredKeeps DEF Driver

-----------------------------------------------------------------------------
(* The worker serves.                                                      *)

(* The queue after its first request is gone.                              *)
LEMMA Shifted ==
    ASSUME PipelineInv, wq # <<>>, wq' = Tail(wq), UNCHANGED plan
    PROVE  /\ Head(wq) = wq[1] /\ 1 \in DOMAIN wq /\ wq[1] \in Messages
           /\ \A i \in DOMAIN wq' :
                /\ i \in Nat \ {0} /\ i + 1 \in DOMAIN wq /\ wq'[i] = wq[i + 1]
                /\ Own(i)' <=> Own(i + 1)
           /\ OnlySaves => OnlySaves'
<1>1. /\ Head(wq) = wq[1] /\ 1 \in DOMAIN wq /\ wq[1] \in Messages
      /\ \A i \in DOMAIN wq' : i \in Nat \ {0} /\ i + 1 \in DOMAIN wq /\ wq'[i] = wq[i + 1]
  BY Positions, Tailed
<1>. QED
  BY <1>1 DEF Own, OnlySaves

(* A request leaves the queue, and nobody but its own driver is answered.  *)
LEMMA ConsumedKeeps ==
    ASSUME PipelineInv, EpochOrder, LastInQueue, wq # <<>>, wq' = Tail(wq),
           UNCHANGED <<epoch, hooks, up, wEpoch, phase, plan, after, outcome>>,
           reply' = reply \/ Own(1)
    PROVE  EpochOrder' /\ LastInQueue'
<1>1. EpochOrder'
  BY DEF EpochOrder
<1>2. Accepted' => OnlySaves'
  BY Shifted DEF LastInQueue, Accepted
<1>3. ASSUME Awaiting'
      PROVE  /\ \A i \in DOMAIN wq' : Own(i)' =>
                  /\ wq'[i].kind = Asked[phase] /\ wq'[i].epoch = plan.epoch /\ wq'[i].base = plan.art.hash
                  /\ \A k \in DOMAIN wq' : k > i => wq'[k].kind = "Save"
             /\ reply' # NoReply => OnlySaves'
  <2>1. Awaiting
    BY <1>3 DEF Awaiting
  <2>2. ASSUME NEW i \in DOMAIN wq', Own(i)'
        PROVE  /\ wq'[i].kind = Asked[phase] /\ wq'[i].epoch = plan.epoch /\ wq'[i].base = plan.art.hash
               /\ \A k \in DOMAIN wq' : k > i => wq'[k].kind = "Save"
    <3>1. i + 1 \in DOMAIN wq /\ Own(i + 1) /\ wq'[i] = wq[i + 1] /\ i \in Nat
      BY <2>2, Shifted
    <3>2. ASSUME NEW k \in DOMAIN wq', k > i PROVE wq'[k].kind = "Save"
      <4>1. k + 1 \in DOMAIN wq /\ wq'[k] = wq[k + 1] /\ k \in Nat
        BY Shifted
      <4>2. k + 1 > i + 1
        BY <3>1, <3>2, <4>1
      <4>. QED
        BY <2>1, <3>1, <4>1, <4>2 DEF LastInQueue
    <3>. QED
      BY <2>1, <3>1, <3>2 DEF LastInQueue
  <2>3. ASSUME reply' # NoReply PROVE OnlySaves'
    <3>1. CASE reply' = reply
      BY <2>1, <2>3, <3>1, Shifted DEF LastInQueue
    <3>2. CASE Own(1)
      <4>. SUFFICES ASSUME NEW i \in DOMAIN wq' PROVE wq'[i].kind = "Save"
        BY DEF OnlySaves
      <4>1. 1 \in DOMAIN wq /\ i + 1 \in DOMAIN wq /\ wq'[i] = wq[i + 1] /\ i \in Nat \ {0}
        BY Shifted
      <4>2. i + 1 > 1
        BY <4>1
      <4>. QED
        BY <2>1, <3>2, <4>1, <4>2 DEF LastInQueue
    <3>. QED
      BY <3>1, <3>2
  <2>. QED
    BY <2>2, <2>3
<1>. QED
  BY <1>1, <1>2, <1>3 DEF LastInQueue

(* Whom an answer reaches.                                                 *)
LEMMA AnswerReaches ==
    ASSUME PipelineInv, wq # <<>>, Head(wq).kind # "Save", NEW r, Answer(Head(wq), r)
    PROVE  \/ reply' = reply
           \/ reply' = r /\ Own(1) /\ phase = Waiting[Head(wq).kind]
  BY Positions, Tailed DEF Answer, Own

(* A request that leaves the head alone and prepares nothing: a cancelled  *)
(* plan, a save, a discard, a refusal, a call between two workers.         *)
LEMMA ServedQuietly ==
    ASSUME PipelineInv, WorkerInv, wq # <<>>, wq' = Tail(wq),
           UNCHANGED <<epoch, hooks, up, wEpoch, head, phase, plan, after, outcome>>,
           scratch' # NoScratch => scratch' = scratch /\ ~Ends(1, scratch.job),
           \/ reply' = reply
           \/ Own(1) /\ phase = "discard"
           \/ Own(1) /\ ~(reply').ok /\ (phase = "execute" => plan.epoch # wEpoch)
    PROVE  WorkerInv'
<1>. USE DEF WorkerInv
<1>1. EpochOrder' /\ LastInQueue'
  BY ConsumedKeeps
<1>2. Based'
  <2>1. ASSUME phase = "execute", plan.art.hash # {}, NEW i \in DOMAIN wq'
        PROVE  wq'[i].kind = "Save" \/ Own(i)'
    BY <2>1, Shifted DEF Based
  <2>. QED
    BY <2>1 DEF Based
<1>3. PreparedOnBase'
  BY DEF PreparedOnBase, Bodies, PlanOps
<1>4. HeadIsAccepted' /\ NeverRefused'
  BY DEF HeadIsAccepted, NeverRefused, Accepted, Bodies
<1>5. OneAtATime'
  BY ServeKeepsOrder
<1>. QED
  BY <1>1, <1>2, <1>3, <1>4, <1>5

(* What every request served has in common.                                *)
LEMMA Served ==
    ASSUME PipelineInv, NEW kind, Serve(kind)
    PROVE  /\ wq # <<>> /\ wq' = Tail(wq) /\ wq[1].kind = kind /\ Head(wq) = wq[1] /\ 1 \in DOMAIN wq
           /\ UNCHANGED <<epoch, hooks, up, phase, plan, after, outcome>>
<1>1. /\ wq # <<>> /\ wq' = Tail(wq) /\ Head(wq).kind = kind
      /\ UNCHANGED <<epoch, hooks, up, phase, plan, after, outcome>>
  BY DEF Serve, shownVars, sendVars
<1>. QED
  BY <1>1, Shifted

(* A restore moves the head: only the driver that asked for it may look.   *)
LEMMA ServeRestoreKeeps ==
    ASSUME PipelineInv, WorkerInv, ServeRestore
    PROVE  WorkerInv'
<1>. DEFINE m == Head(wq)
<1>1. Serve("Restore") /\ RestoreCheckpoint(m) /\ Answer(m, RestoreReply(m))
  BY DEF ServeRestore
<1>2. /\ wq # <<>> /\ wq' = Tail(wq) /\ m = wq[1] /\ m.kind = "Restore" /\ 1 \in DOMAIN wq
      /\ UNCHANGED <<epoch, hooks, up, phase, plan, after, outcome, wEpoch, scratch>>
  BY <1>1, Served DEF RestoreCheckpoint
<1>3. reply' = reply \/ (reply' = RestoreReply(m) /\ Own(1) /\ phase = "restore")
  BY <1>1, <1>2, AnswerReaches DEF Waiting
<1>4. ~Ends(1, scratch.job)
  BY <1>2 DEF Ends
<1>5. CASE ~RestoreFits(m)
  BY <1>1, <1>2, <1>3, <1>4, <1>5, ServedQuietly DEF RestoreCheckpoint, RestoreReply
<1>6. CASE RestoreFits(m)
  <2>1. (head').hash = m.base
    BY <1>1, <1>6 DEF RestoreCheckpoint, RestoreFits
  <2>2. ~OnlySaves /\ ~(phase \in {"execute", "accept"} /\ Own(1))
    BY <1>2 DEF OnlySaves, WorkerInv, LastInQueue, Awaiting, Asked
  <2>3. EpochOrder' /\ LastInQueue'
    BY <1>2, <1>3, ConsumedKeeps DEF WorkerInv
  <2>4. Based'
    <3>1. ASSUME phase = "restore", reply' # NoReply PROVE (head').hash = plan.art.hash
      <4>1. Own(1)
        BY <1>3, <2>2, <3>1 DEF WorkerInv, LastInQueue, Awaiting
      <4>. QED
        BY <1>2, <2>1, <3>1, <4>1 DEF WorkerInv, LastInQueue, Awaiting
    <3>2. ~(phase = "execute" /\ plan.art.hash # {})
      BY <1>2, <2>2 DEF WorkerInv, Based
    <3>. QED
      BY <1>2, <3>1, <3>2 DEF Based
  <2>5. HeadIsAccepted'
    BY <1>2, <1>3, <2>2 DEF HeadIsAccepted, Accepted, WorkerInv, LastInQueue, Awaiting
  <2>6. PreparedOnBase' /\ NeverRefused'
    BY <1>2, <1>3 DEF WorkerInv, PreparedOnBase, Bodies, PlanOps, NeverRefused
  <2>7. OneAtATime'
    BY <1>2, <1>4, ServeKeepsOrder DEF WorkerInv
  <2>. QED
    BY <2>3, <2>4, <2>5, <2>6, <2>7 DEF WorkerInv
<1>. QED
  BY <1>5, <1>6

(* An accept publishes what was prepared for the plan that asks for it.    *)
LEMMA ServeAcceptKeeps ==
    ASSUME PipelineInv, WorkerInv, ServeAccept
    PROVE  WorkerInv'
<1>. DEFINE m == Head(wq)
<1>1. Serve("Accept") /\ AcceptPrepared(m) /\ Answer(m, AcceptReply(m))
  BY DEF ServeAccept
<1>2. /\ wq # <<>> /\ wq' = Tail(wq) /\ m = wq[1] /\ m.kind = "Accept" /\ 1 \in DOMAIN wq
      /\ UNCHANGED <<epoch, hooks, up, phase, plan, after, outcome, wEpoch>>
  BY <1>1, Served DEF AcceptPrepared
<1>3. reply' = reply \/ (reply' = AcceptReply(m) /\ Own(1) /\ phase = "accept")
  BY <1>1, <1>2, AnswerReaches DEF Waiting
<1>4. CASE ~AcceptFits(m)
  <2>1. scratch # NoScratch => ~Ends(1, scratch.job)
    BY <1>2, <1>4 DEF Ends, AcceptFits
  <2>. QED
    BY <1>1, <1>2, <1>3, <1>4, <2>1, ServedQuietly DEF AcceptPrepared, AcceptReply
<1>5. CASE AcceptFits(m)
  <2>1. (head').geom = scratch.geom /\ scratch' = NoScratch
    BY <1>1, <1>5 DEF AcceptPrepared
  <2>2. ~OnlySaves /\ ~(phase \in {"restore", "execute"} /\ Own(1))
    BY <1>2 DEF OnlySaves, WorkerInv, LastInQueue, Awaiting, Asked
  <2>3. EpochOrder' /\ LastInQueue'
    BY <1>2, <1>3, ConsumedKeeps DEF WorkerInv
  <2>4. Based'
    BY <1>2, <1>3, <2>2 DEF Based, WorkerInv, LastInQueue, Awaiting
  <2>5. HeadIsAccepted'
    <3>1. ASSUME phase = "accept", reply' # NoReply PROVE (head').geom = Bodies(plan.steps)
      <4>1. Own(1)
        BY <1>3, <2>2, <3>1 DEF WorkerInv, LastInQueue, Awaiting
      <4>2. scratch # NoScratch /\ scratch.job = plan.job
        BY <1>2, <1>5, <4>1 DEF AcceptFits, Own
      <4>. QED
        BY <2>1, <3>1, <4>2 DEF WorkerInv, PreparedOnBase, PipelineInv, DriveInv
    <3>2. ~Accepted
      BY <2>2 DEF WorkerInv, LastInQueue
    <3>. QED
      BY <1>2, <3>1, <3>2 DEF HeadIsAccepted, Accepted, Bodies
  <2>6. PreparedOnBase' /\ NeverRefused'
    BY <1>2, <1>3, <2>1 DEF WorkerInv, PreparedOnBase, NeverRefused
  <2>7. OneAtATime'
    BY <1>2, <2>1, ServeKeepsOrder DEF WorkerInv
  <2>. QED
    BY <2>3, <2>4, <2>5, <2>6, <2>7 DEF WorkerInv
<1>. QED
  BY <1>4, <1>5

(* A plan is executed: no other is prepared, and its base is the head.     *)
LEMMA ServeExecuteKeeps ==
    ASSUME PipelineInv, WorkerInv, ServeExecute
    PROVE  WorkerInv'
<1>. DEFINE m == Head(wq)
<1>1. Serve("Execute") /\ ExecutePlan(m) /\ Answer(m, ExecuteReply(m))
  BY DEF ServeExecute
<1>2. /\ wq # <<>> /\ wq' = Tail(wq) /\ m = wq[1] /\ m.kind = "Execute" /\ 1 \in DOMAIN wq
      /\ UNCHANGED <<epoch, hooks, up, phase, plan, after, outcome, wEpoch, head>>
      /\ scratch' = IF PlanFits(m) THEN PreparedBy(m) ELSE scratch
  BY <1>1, Served DEF ExecutePlan
<1>3. reply' = reply \/ (reply' = ExecuteReply(m) /\ Own(1) /\ phase = "execute")
  BY <1>1, <1>2, AnswerReaches DEF Waiting
<1>4. phase = "execute" /\ Own(1) => m.epoch = plan.epoch /\ m.base = plan.art.hash /\ m.ops = PlanOps(plan)
  BY <1>2 DEF WorkerInv, LastInQueue, Awaiting, Own, PipelineInv, QueueInv, Sent
<1>5. EpochOrder' /\ LastInQueue'
  BY <1>2, <1>3, ConsumedKeeps DEF WorkerInv
<1>6. Based'
  <2>1. ASSUME phase = "execute", plan.art.hash # {}, NEW i \in DOMAIN wq'
        PROVE  wq'[i].kind = "Save" \/ Own(i)'
    BY <1>2, <2>1, Shifted DEF WorkerInv, Based
  <2>. QED
    BY <1>2, <1>3, <2>1 DEF WorkerInv, Based
<1>7. PreparedOnBase'
  <2>1. CASE ~PlanFits(m)
    BY <1>2, <2>1 DEF WorkerInv, PreparedOnBase, Bodies, PlanOps
  <2>2. CASE PlanFits(m)
    <3>. SUFFICES ASSUME phase \in {"execute", "accept"}, m.job = plan.job
                  PROVE  plan.epoch = wEpoch /\ PreparedBy(m).geom = Bodies(Built(PlanOps(plan)))
      BY <1>2, <2>2 DEF PreparedOnBase, PreparedBy, Bodies, PlanOps
    <3>1. phase = "execute" /\ Own(1)
      BY <1>2 DEF Own, WorkerInv, LastInQueue, Awaiting, Asked
    <3>2. plan.art.geom = plan.art.hash /\ head.hash = head.geom
      BY <3>1, Positions DEF Active, PipelineInv, HonestInv, Honest
    <3>. QED
      BY <1>4, <2>2, <3>1, <3>2 DEF PlanFits, PreparedBy, Bodies, EmptyPrefix
  <2>. QED
    BY <2>1, <2>2
<1>8. HeadIsAccepted'
  BY <1>2, <1>3 DEF WorkerInv, HeadIsAccepted, Accepted, Bodies
<1>9. NeverRefused'
  <2>. SUFFICES ASSUME phase = "execute", Own(1), plan.epoch = wEpoch
                PROVE  ExecuteReply(m).ok
    BY <1>2, <1>3 DEF WorkerInv, NeverRefused
  <2>1. m.epoch = wEpoch /\ m.base \in {EmptyPrefix, head.hash}
    BY <1>4 DEF WorkerInv, Based, EmptyPrefix
  <2>2. scratch = NoScratch
    <3>. SUFFICES ASSUME scratch # NoScratch PROVE FALSE
      OBVIOUS
    <3>1. Prepares(0) /\ Prepares(1)
      BY <1>2, <2>1 DEF Prepares
    <3>2. 0 \in 0 .. Len(wq) /\ 1 \in 0 + 1 .. Len(wq)
      BY <1>2, Positions
    <3>3. \E k \in 0 + 1 .. 1 - 1 : Ends(k, JobAt(0))
      BY <3>1, <3>2 DEF WorkerInv, OneAtATime
    <3>. QED
      BY <3>3
  <2>. QED
    BY <2>1, <2>2 DEF ExecuteReply, PlanFits, Prepared
<1>10. OneAtATime'
  <2>1. CASE PlanFits(m)
    <3>1. Prepares(1) /\ (scratch').job = wq[1].job
      BY <1>2, <2>1 DEF Prepares, PlanFits, PreparedBy
    <3>. QED
      BY <1>2, <3>1, ServeKeepsOrder DEF WorkerInv
  <2>2. CASE ~PlanFits(m)
    <3>1. scratch' = scratch /\ ~Ends(1, scratch.job)
      BY <1>2, <2>2 DEF Ends
    <3>. QED
      BY <1>2, <3>1, ServeKeepsOrder DEF WorkerInv
  <2>. QED
    BY <2>1, <2>2
<1>. QED
  BY <1>5, <1>6, <1>7, <1>8, <1>9, <1>10 DEF WorkerInv

(* The worker's other services, which leave its head alone.                *)
LEMMA WorkerKeeps ==
    ASSUME PipelineInv, WorkerInv, Worker
    PROVE  WorkerInv'
<1>1. ASSUME ServeCancelled PROVE WorkerInv'
  <2>1. Serve("Execute") /\ UNCHANGED <<sessionVars, reply>>
    BY <1>1 DEF ServeCancelled
  <2>. QED
    BY <2>1, Served, ServedQuietly DEF Ends, sessionVars
<1>2. ASSUME ServeDiscard PROVE WorkerInv'
  <2>1. /\ Serve("Discard") /\ Answer(Head(wq), DiscardReply(Head(wq)))
        /\ UNCHANGED <<wEpoch, head>> /\ scratch' = NoScratch
    BY <1>2 DEF ServeDiscard, DiscardPrepared
  <2>2. wq # <<>> /\ Head(wq).kind = "Discard"
    BY <2>1, Served
  <2>3. reply' = reply \/ (Own(1) /\ phase = "discard")
    BY <2>1, <2>2, AnswerReaches DEF Waiting
  <2>. QED
    BY <2>1, <2>3, Served, ServedQuietly
<1>3. ASSUME ServeSave PROVE WorkerInv'
  <2>1. Serve("Save") /\ UNCHANGED <<wEpoch, head, scratch, reply>>
    BY <1>3 DEF ServeSave, SaveCheckpoint
  <2>. QED
    BY <2>1, Served, ServedQuietly DEF Ends
<1>. QED
  BY <1>1, <1>2, <1>3, ServeRestoreKeeps, ServeAcceptKeeps, ServeExecuteKeeps DEF Worker

-----------------------------------------------------------------------------
(* The worker dies and is replaced.                                        *)

(* Between two workers every call fails, but none for a living epoch.      *)
LEMMA NotConnectedKeeps ==
    ASSUME PipelineInv, WorkerInv, NotConnected
    PROVE  WorkerInv'
<1>. DEFINE m == Head(wq)
<1>1. /\ ~up /\ wq # <<>> /\ wq' = Tail(wq)
      /\ IF m.kind = "Save" THEN reply' = reply ELSE Answer(m, Lost(FALSE))
      /\ UNCHANGED <<epoch, hooks, up, wEpoch, head, scratch, phase, plan, after, outcome>>
  BY DEF NotConnected, shownVars, sendVars, sessionVars
<1>2. scratch' = NoScratch
  BY <1>1 DEF PipelineInv, QueueInv
<1>3. reply' = reply \/ (reply' = Lost(FALSE) /\ Own(1))
  BY <1>1, AnswerReaches
<1>4. phase = "execute" => plan.epoch # wEpoch
  BY <1>1, Positions DEF WorkerInv, EpochOrder, Active
<1>. QED
  BY <1>1, <1>2, <1>3, <1>4, ServedQuietly DEF Lost

(* A new epoch is nobody's yet.                                            *)
LEMMA WorkerDiesKeeps ==
    ASSUME PipelineInv, WorkerInv, WorkerDies
    PROVE  WorkerInv'
<1>1. /\ up' = FALSE /\ wEpoch' = wEpoch + 1 /\ scratch' = NoScratch /\ wq' = <<>>
      /\ UNCHANGED <<epoch, hooks, phase, plan, after, outcome>>
  BY DEF WorkerDies, OpenSession, shownVars, sendVars
<1>2. DOMAIN wq' = {} /\ Len(wq') = 0
  BY <1>1, EmptySeq
<1>3. /\ epoch <= wEpoch /\ \A i \in DOMAIN hooks : hooks[i] <= wEpoch /\ hooks[i] \in Nat
      /\ phase \in Active => plan.epoch <= wEpoch /\ plan.epoch \in Nat
      /\ epoch \in Nat /\ wEpoch \in Nat
  BY Positions, ElementOfSeq, LenProperties DEF WorkerInv, EpochOrder
<1>4. EpochOrder'
  BY <1>1, <1>3 DEF EpochOrder
<1>5. phase \in Active => plan.epoch # wEpoch'
  BY <1>1, <1>3
<1>6. LastInQueue' /\ Based' /\ PreparedOnBase' /\ HeadIsAccepted' /\ NeverRefused'
  BY <1>1, <1>2, <1>5 DEF LastInQueue, OnlySaves, Based, PreparedOnBase, HeadIsAccepted, Accepted,
                          NeverRefused, Active
<1>7. OneAtATime'
  BY <1>1, <1>2 DEF OneAtATime, Prepares
<1>. QED
  BY <1>4, <1>6, <1>7 DEF WorkerInv

(* The next worker is ready, and Rust learns of it.                        *)
LEMMA RestartKeeps ==
    ASSUME PipelineInv, WorkerInv, WorkerReady \/ RestartHook
    PROVE  WorkerInv'
<1>1. UNCHANGED <<jobVars, wq, sessionVars>>
  BY DEF WorkerReady, RestartHook
<1>2. EpochOrder'
  <2>1. CASE WorkerReady
    <3>1. up' = TRUE /\ hooks' = Append(hooks, wEpoch) /\ UNCHANGED <<epoch, wEpoch, phase, plan>>
      BY <2>1 DEF WorkerReady, shownVars, jobVars, sessionVars
    <3>2. \A i \in DOMAIN hooks' : (i \in DOMAIN hooks /\ hooks'[i] = hooks[i]) \/ hooks'[i] = wEpoch
      BY <3>1, Positions, Appended
    <3>. QED
      BY <3>1, <3>2, Positions DEF WorkerInv, EpochOrder
  <2>2. CASE RestartHook
    <3>1. /\ hooks # <<>> /\ hooks' = Tail(hooks) /\ epoch' = Head(hooks)
          /\ UNCHANGED <<up, wEpoch, phase, plan>>
      BY <2>2 DEF RestartHook, jobVars, sessionVars
    <3>. QED
      BY <3>1, Positions, Tailed DEF WorkerInv, EpochOrder
  <2>. QED
    BY <2>1, <2>2
<1>3. LastInQueue' /\ Based' /\ PreparedOnBase' /\ HeadIsAccepted'
  BY <1>1 DEF WorkerInv, LastInQueue, Own, OnlySaves, Awaiting, Accepted, Based, PreparedOnBase,
              HeadIsAccepted, Bodies, PlanOps, jobVars, sessionVars
<1>4. OneAtATime' /\ NeverRefused'
  BY <1>1 DEF WorkerInv, OneAtATime, Prepares, JobAt, Ends, NeverRefused, jobVars, sessionVars
<1>. QED
  BY <1>2, <1>3, <1>4 DEF WorkerInv

-----------------------------------------------------------------------------
(* The invariant.                                                          *)

(* A save joins the queue.                                                 *)
LEMMA MintPrepareKeeps ==
    ASSUME PipelineInv, WorkerInv, MintPrepare
    PROVE  WorkerInv'
<1>. DEFINE m == [kind |-> "Save", step |-> cursor, cancel |-> FALSE, job |-> 0]
<1>1. /\ wq' = Append(wq, m)
      /\ UNCHANGED <<epoch, hooks, jobVars, up, sessionVars>>
  BY DEF MintPrepare, Send, shownVars, sendVars
<1>2. /\ Len(wq) \in Nat /\ DOMAIN wq = 1 .. Len(wq)
      /\ DOMAIN wq' = 1 .. Len(wq) + 1 /\ Len(wq') = Len(wq) + 1 /\ wq'[Len(wq) + 1] = m
      /\ \A i \in 1 .. Len(wq) : wq'[i] = wq[i]
  BY <1>1, Positions
<1>3. \A i \in DOMAIN wq' : wq'[i].kind = "Save" \/ (i \in DOMAIN wq /\ wq'[i] = wq[i] /\ (Own(i)' <=> Own(i)))
  BY <1>1, <1>2 DEF Own, jobVars
<1>4. OnlySaves => OnlySaves'
  BY <1>3 DEF OnlySaves
<1>5. EpochOrder' /\ NeverRefused'
  BY <1>1 DEF WorkerInv, EpochOrder, NeverRefused, jobVars, sessionVars
<1>6. LastInQueue'
  <2>1. \A i \in DOMAIN wq' : Own(i)' => i \in DOMAIN wq /\ Own(i) /\ wq'[i] = wq[i]
    BY <1>3 DEF Own
  <2>. QED
    BY <1>1, <1>3, <1>4, <2>1 DEF WorkerInv, LastInQueue, Awaiting, Accepted, jobVars
<1>7. Based' /\ PreparedOnBase' /\ HeadIsAccepted'
  BY <1>1, <1>3 DEF WorkerInv, Based, PreparedOnBase, HeadIsAccepted, Accepted, Bodies, PlanOps,
                    jobVars, sessionVars
<1>8. OneAtATime'
  BY <1>1, <1>2, JoinKeepsOrder DEF WorkerInv, jobVars, sessionVars
<1>. QED
  BY <1>5, <1>6, <1>7, <1>8 DEF WorkerInv

(* At the start nothing is asked and nothing prepared.                     *)
LEMMA WorkerInitInv == Init => WorkerInv
<1>. SUFFICES ASSUME Init PROVE WorkerInv
  OBVIOUS
<1>1. DOMAIN wq = {} /\ Len(wq) = 0 /\ DOMAIN hooks = {}
  BY EmptySeq DEF Init
<1>2. EpochOrder
  BY <1>1 DEF Init, EpochOrder, Active
<1>3. LastInQueue /\ Based /\ PreparedOnBase /\ HeadIsAccepted /\ NeverRefused
  BY DEF Init, LastInQueue, Awaiting, Accepted, Based, PreparedOnBase, HeadIsAccepted, NeverRefused
<1>4. OneAtATime
  BY <1>1 DEF Init, OneAtATime, Prepares
<1>. QED
  BY <1>2, <1>3, <1>4 DEF WorkerInv

(* Every step keeps the invariant.                                         *)
LEMMA WorkerNextInv == PipelineInv /\ WorkerInv /\ [Next]_vars => WorkerInv'
<1>. SUFFICES ASSUME PipelineInv, WorkerInv, [Next]_vars PROVE WorkerInv'
  OBVIOUS
<1>1. ASSUME Edit PROVE WorkerInv'
  <2>1. PICK d, c : EditShape(d, c)
    BY <1>1, EditHasShape DEF PipelineInv
  <2>2. UNCHANGED <<epoch, hooks, jobVars, up, wq, sessionVars>>
    BY <2>1 DEF EditShape, Mutate, shownVars
  <2>. QED
    BY <2>2, QuietKeeps
<1>2. ASSUME NEW i, Deliver(i) PROVE WorkerInv'
  BY <1>2, QuietKeeps DEF Deliver, shownVars
<1>3. ASSUME MintAdopt \/ UNCHANGED vars PROVE WorkerInv'
  BY <1>3, QuietKeeps DEF MintAdopt, vars, shownVars, sendVars
<1>. QED
  BY <1>1, <1>2, <1>3, DriverKeeps, SchedulerKeeps, WorkerKeeps, WorkerDiesKeeps, NotConnectedKeeps,
     RestartKeeps, MintPrepareKeeps DEF Next, Scheduler, Saver

(* The invariant holds in every reachable state.                           *)
THEOREM WorkerInvariant == Spec => []WorkerInv
<1>. QED
  BY WorkerInitInv, WorkerNextInv, PipelineInvariant, PTL DEF Spec

(* A plan is refused only by a worker that came after the one it was       *)
(* compiled for: while that worker lives, nothing else can be prepared in  *)
(* its place and its base cannot move away from under it, whatever was     *)
(* cancelled, abandoned, saved or retried before (drive, fence_and_clone). *)
THEOREM PlanIsNeverRefused == Spec => []NeverRefused
<1>1. WorkerInv => NeverRefused
  BY DEF WorkerInv
<1>. QED
  BY <1>1, WorkerInvariant, PTL

(* Whenever the worker has accepted a plan and Rust is about to publish    *)
(* it, both hold the same bodies, although Rust added the steps it heard   *)
(* of to stored artifacts and the worker ran them on its head.             *)
THEOREM RustAndWorkerAgree == Spec => []RustWorkerAgree
<1>1. WorkerInv => RustWorkerAgree
  BY DEF WorkerInv, HeadIsAccepted, Accepted, RustWorkerAgree, Folded, Bodies
<1>. QED
  BY <1>1, WorkerInvariant, PTL

-----------------------------------------------------------------------------
(* Every variable keeps its kind.                                          *)

EpochKind == epoch \in 1 .. MaxEpoch /\ wEpoch \in 1 .. MaxEpoch /\ hooks \in Seq(1 .. MaxEpoch)

SnapKind ==
    /\ rev \in 0 .. MaxRev
    /\ snap # NoSnap =>
         snap.geom \in Slices /\ snap.steps \in Slices /\ snap.rev \in 0 .. rev /\ snap.upto \in 0 .. MaxLen

JobKind ==
    /\ cancelled \in BOOLEAN /\ up \in BOOLEAN
    /\ req \in Requests \cup {NoRequest}
    /\ phase \in {"idle", "begin"} \cup Active
    /\ (phase = "idle") <=> (req = NoRequest)

(* One checkpoint is in the making: its save is queued, or answered.       *)
Saving(i) ==
    /\ wq[i].step \in Steps /\ ticket # NoTicket /\ saveReply = NoReply
    /\ \A j \in DOMAIN wq : wq[j].kind = "Save" => i = j

SaveKind ==
    /\ DOMAIN store \subseteq Steps /\ DOMAIN saved \subseteq Steps
    /\ ticket # NoTicket => ticket.step \in Steps
    /\ saveReply # NoReply => ticket # NoTicket
    /\ \A i \in DOMAIN wq : wq[i].kind = "Save" => Saving(i)

KindInv == EpochKind /\ SnapKind /\ JobKind /\ SaveKind

(* A new epoch stays in the bound, and hooks and Rust only hear of those   *)
(* that were.                                                              *)
LEMMA EpochKindStep ==
    ASSUME EpochKind, [Next]_vars
    PROVE  EpochKind'
<1>. USE DEF EpochKind
<1>1. ASSUME WorkerDies PROVE EpochKind'
  BY <1>1, SessionAssumption DEF WorkerDies, OpenSession, shownVars, sendVars
<1>2. ASSUME WorkerReady PROVE EpochKind'
  <2>1. hooks' = Append(hooks, wEpoch) /\ UNCHANGED <<epoch, wEpoch>>
    BY <1>2 DEF WorkerReady, shownVars, sessionVars
  <2>. QED
    BY <2>1, Appended
<1>3. ASSUME RestartHook PROVE EpochKind'
  <2>1. hooks # <<>> /\ hooks' = Tail(hooks) /\ epoch' = Head(hooks) /\ wEpoch' = wEpoch
    BY <1>3 DEF RestartHook, sessionVars
  <2>. QED
    BY <2>1, Tailed
<1>4. ASSUME Edit PROVE UNCHANGED <<epoch, hooks, wEpoch>>
  BY <1>4 DEF Edit, UpdateParams, SetSuppression, AddAtCursor, AppendParked, RemoveStep, UndoAppend,
              SetRollback, MetaEdit, Mutate, shownVars, sessionVars
<1>5. ASSUME Scheduler \/ Abandon \/ Saver \/ NotConnected \/ UNCHANGED vars
      PROVE  UNCHANGED <<epoch, hooks, wEpoch>>
  BY <1>5 DEF Scheduler, Deliver, StartJob, Abandon, Saver, MintPrepare, MintAdopt, NotConnected, vars,
              shownVars, sendVars, sessionVars
<1>6. ASSUME Driver PROVE UNCHANGED <<epoch, hooks, wEpoch>>
  BY <1>6 DEF Driver, BeginPlan, BeginClear, BeginNothing, RestoreAnswered, PlanFailed, PlanPrepared,
              CancelSeen, AcceptAnswered, DiscardAnswered, DriveClear, FinishRegen, GiveUp, SendNext,
              DriverOnly, shownVars, sendVars, sessionVars
<1>7. ASSUME Worker PROVE UNCHANGED <<epoch, hooks, wEpoch>>
  BY <1>7 DEF Worker, ServeRestore, ServeExecute, ServeCancelled, ServeAccept, ServeDiscard, ServeSave,
              Serve, RestoreCheckpoint, ExecutePlan, AcceptPrepared, DiscardPrepared, SaveCheckpoint,
              shownVars, sendVars, sessionVars
<1>. QED
  BY <1>1, <1>2, <1>3, <1>4, <1>5, <1>6, <1>7 DEF Next

(* What is committed is of a prefix of the document at its revision.       *)
LEMMA SnapKindStep ==
    ASSUME PipelineInv, SnapKind, [Next]_vars
    PROVE  SnapKind'
<1>1. rev \in Nat /\ MaxRev \in Nat
  BY PipelineAssumption DEF PipelineInv, DocInv
<1>2. ASSUME Edit PROVE SnapKind'
  <2>1. rev < MaxRev
    BY <1>2 DEF Edit, UpdateParams, SetSuppression, AddAtCursor, AppendParked, RemoveStep, UndoAppend,
                SetRollback, MetaEdit, MayEdit
  <2>2. rev' = rev + 1 /\ snap' = snap
    BY <1>2 DEF Edit, UpdateParams, SetSuppression, AddAtCursor, AppendParked, RemoveStep, UndoAppend,
                SetRollback, MetaEdit, Mutate, shownVars
  <2>3. snap # NoSnap => snap.rev \in 0 .. rev + 1
    BY <1>1 DEF SnapKind
  <2>. QED
    BY <1>1, <2>1, <2>2, <2>3 DEF SnapKind
<1>3. ASSUME FinishRegen PROVE SnapKind'
  <2>1. CASE outcome = "published" /\ Current
    <3>1. /\ plan.target \in 0 .. cursor /\ Folded \in Slices
      BY <1>3, <2>1, FoldedIsPrefix DEF FinishRegen
    <3>2. plan.steps \in Slices
      BY <1>3 DEF FinishRegen, PipelineInv, PlanInv, Active, CutFromDoc, Plans
    <3>3. plan.target \in 0 .. MaxLen
      <4>1. cursor \in 0 .. Len(doc) /\ Len(doc) \in Nat /\ Len(doc) <= MaxLen
        BY TimelineIsSeq, TimelineLength DEF PipelineInv, DocInv
      <4>. QED
        BY <3>1, <4>1, OpsAssumption
    <3>4. snap' = [geom |-> Folded, upto |-> plan.target, steps |-> plan.steps, rev |-> rev, epoch |-> epoch]
      BY <1>3, <2>1 DEF FinishRegen
    <3>5. /\ (snap').geom \in Slices /\ (snap').steps \in Slices
          /\ (snap').rev = rev /\ (snap').upto \in 0 .. MaxLen
      BY <3>1, <3>2, <3>3, <3>4
    <3>6. rev' = rev
      BY <1>3 DEF FinishRegen
    <3>. QED
      BY <1>1, <3>5, <3>6 DEF SnapKind
  <2>2. CASE ~(outcome = "published" /\ Current)
    BY <1>3, <2>2 DEF FinishRegen, SnapKind
  <2>. QED
    BY <2>1, <2>2
<1>. QED
  BY <1>2, <1>3, Unseen DEF SnapKind

(* The scheduler holds a request exactly while a job runs.                 *)
LEMMA JobKindStep ==
    ASSUME PipelineInv, JobKind, [Next]_vars
    PROVE  JobKind'
<1>. USE DEF JobKind, Active
<1>1. ASSUME NEW i, Deliver(i) PROVE JobKind'
  <2>1. (phase # "idle") \in BOOLEAN
    OBVIOUS
  <2>. QED
    BY <1>1, <2>1 DEF Deliver, jobVars
<1>2. ASSUME StartJob PROVE JobKind'
  BY <1>2 DEF StartJob, PipelineInv, RequestInv
<1>3. ASSUME Abandon \/ BeginNothing \/ FinishRegen PROVE JobKind'
  BY <1>3 DEF Abandon, BeginNothing, FinishRegen, EndJob
<1>4. ASSUME Driver, ~BeginNothing, ~FinishRegen
      PROVE  UNCHANGED <<cancelled, up, req>> /\ phase \in Active \cup {"begin"} /\ phase' \in Active
  BY <1>4 DEF Driver, BeginPlan, BeginClear, RestoreAnswered, PlanFailed, PlanPrepared,
              CancelSeen, AcceptAnswered, DiscardAnswered, DriveClear, GiveUp, SendNext,
              DriverOnly, schedVars
<1>5. ASSUME Worker PROVE UNCHANGED <<cancelled, up, req, phase>>
  BY <1>5 DEF Worker, ServeRestore, ServeExecute, ServeCancelled, ServeAccept, ServeDiscard, ServeSave,
              Serve, schedVars
<1>6. ASSUME WorkerDies \/ NotConnected \/ WorkerReady \/ RestartHook \/ Saver
      PROVE  up' \in {up, TRUE, FALSE} /\ UNCHANGED <<cancelled, req, phase>>
  BY <1>6 DEF WorkerDies, NotConnected, WorkerReady, RestartHook, Saver, MintPrepare, MintAdopt,
              schedVars, jobVars
<1>7. ASSUME Edit \/ UNCHANGED vars PROVE UNCHANGED <<cancelled, up, req, phase>>
  BY <1>7 DEF Edit, UpdateParams, SetSuppression, AddAtCursor, AppendParked, RemoveStep, UndoAppend,
              SetRollback, MetaEdit, Mutate, vars, schedVars, jobVars
<1>. QED
  BY <1>1, <1>2, <1>3, <1>4, <1>5, <1>6, <1>7 DEF Next, Scheduler

(* No save more in the queue than before, and nothing adopted.             *)
LEMMA SavesKept ==
    ASSUME SaveKind, NEW d \in {0, 1},
           \A i \in DOMAIN wq' : wq'[i].kind = "Save" =>
             /\ i \in Nat /\ i + d \in DOMAIN wq
             /\ wq[i + d].kind = "Save" /\ wq'[i].step = wq[i + d].step,
           DOMAIN store' \subseteq Steps, DOMAIN saved' \subseteq Steps, UNCHANGED <<ticket, saveReply>>
    PROVE  SaveKind'
<1>1. ASSUME NEW i \in DOMAIN wq', wq'[i].kind = "Save" PROVE Saving(i)'
  <2>1. /\ i \in Nat /\ i + d \in DOMAIN wq
        /\ wq[i + d].kind = "Save" /\ wq'[i].step = wq[i + d].step /\ Saving(i + d)
    BY <1>1 DEF SaveKind
  <2>2. ASSUME NEW j \in DOMAIN wq', wq'[j].kind = "Save" PROVE i = j
    <3>1. j \in Nat /\ i + d = j + d
      BY <2>1, <2>2 DEF Saving
    <3>. QED
      BY <2>1, <3>1
  <2>. QED
    BY <2>1, <2>2 DEF Saving
<1>. QED
  BY <1>1 DEF SaveKind

(* A queue that loses its first request.                                   *)
LEMMA SavesShift ==
    ASSUME PipelineInv, SaveKind, wq # <<>>, wq' = Tail(wq),
           DOMAIN store' \subseteq Steps, DOMAIN saved' \subseteq Steps
    PROVE  /\ UNCHANGED <<ticket, saveReply>> => SaveKind'
           /\ wq[1].kind = "Save" /\ UNCHANGED ticket => SaveKind'
<1>1. /\ 1 \in DOMAIN wq
      /\ \A i \in DOMAIN wq' : i \in Nat \ {0} /\ i + 1 \in DOMAIN wq /\ wq'[i] = wq[i + 1]
  BY Positions, Tailed
<1>2. UNCHANGED <<ticket, saveReply>> => SaveKind'
  BY <1>1, SavesKept
<1>3. ASSUME wq[1].kind = "Save", UNCHANGED ticket PROVE SaveKind'
  <2>1. ticket # NoTicket /\ \A j \in DOMAIN wq : wq[j].kind = "Save" => 1 = j
    BY <1>1, <1>3 DEF SaveKind, Saving
  <2>2. \A i \in DOMAIN wq' : wq'[i].kind # "Save"
    <3>1. ASSUME NEW i \in DOMAIN wq', wq'[i].kind = "Save" PROVE FALSE
      <4>1. i + 1 = 1 /\ i \in Nat \ {0}
        BY <1>1, <2>1, <3>1
      <4>. QED
        BY <4>1
    <3>. QED
      BY <3>1
  <2>. QED
    BY <1>3, <2>1, <2>2 DEF SaveKind
<1>. QED
  BY <1>2, <1>3

(* The driver's requests are not saves.                                    *)
LEMMA DriverSaves ==
    ASSUME PipelineInv, SaveKind, Driver
    PROVE  SaveKind'
<1>1. UNCHANGED <<store, saved, ticket, saveReply>>
  BY DEF Driver, BeginPlan, BeginClear, BeginNothing, RestoreAnswered, PlanFailed, PlanPrepared,
         CancelSeen, AcceptAnswered, DiscardAnswered, DriveClear, FinishRegen, GiveUp, SendNext,
         DriverOnly, mintVars, sessionVars
<1>2. /\ Len(wq) \in Nat /\ DOMAIN wq = 1 .. Len(wq) /\ \A i \in DOMAIN wq : wq[i] \in Messages
  BY Positions, ElementOfSeq
<1>3. ASSUME NEW kind \in PlanKinds, NEW p, NEW q, wq' = Append(q, Message(kind, p)),
             Len(q) = Len(wq), \A i \in DOMAIN wq : q[i].kind = wq[i].kind /\ q[i].step = wq[i].step
      PROVE  SaveKind'
  <2>1. /\ DOMAIN wq' = 1 .. Len(wq) + 1 /\ wq'[Len(wq) + 1].kind # "Save"
        /\ \A i \in 1 .. Len(wq) : wq'[i] = q[i]
    BY <1>2, <1>3, Carries DEF PlanKinds
  <2>2. ASSUME NEW i \in DOMAIN wq', wq'[i].kind = "Save"
        PROVE  /\ i \in Nat /\ i + 0 \in DOMAIN wq
               /\ wq[i + 0].kind = "Save" /\ wq'[i].step = wq[i + 0].step
    <3>1. i \in 1 .. Len(wq) /\ i + 0 = i
      BY <1>2, <2>1, <2>2
    <3>. QED
      BY <1>2, <1>3, <2>1, <2>2, <3>1
  <2>. QED
    BY <1>1, <2>2, SavesKept DEF SaveKind
<1>4. ASSUME wq' = wq PROVE SaveKind'
  BY <1>1, <1>4 DEF SaveKind, Saving
<1>5. ASSUME NEW kind \in PlanKinds, NEW p, Send(Message(kind, p)) PROVE SaveKind'
  BY <1>3, <1>5 DEF Send
<1>6. ASSUME CancelSeen PROVE SaveKind'
  <2>1. wq' = Append(Flags, Message("Discard", plan))
    BY <1>6 DEF CancelSeen, Flags
  <2>. QED
    BY <1>2, <1>3, <2>1, FlagsOnly DEF PlanKinds
<1>7. ASSUME NEW base, BeginPlan(base) PROVE SaveKind'
  BY <1>5, <1>7 DEF BeginPlan, PlanKinds
<1>8. ASSUME NEW then, GiveUp(then) PROVE SaveKind'
  BY <1>5, <1>8 DEF GiveUp, SendNext, PlanKinds
<1>9. ASSUME RestoreAnswered \/ PlanFailed \/ PlanPrepared PROVE SaveKind'
  BY <1>5, <1>8, <1>9 DEF RestoreAnswered, PlanFailed, PlanPrepared, SendNext, PlanKinds
<1>10. ASSUME AcceptAnswered \/ DiscardAnswered PROVE SaveKind'
  BY <1>4, <1>5, <1>8, <1>10 DEF AcceptAnswered, DiscardAnswered, SendNext, PlanKinds
<1>11. ASSUME BeginClear \/ BeginNothing \/ DriveClear \/ FinishRegen PROVE SaveKind'
  BY <1>4, <1>11 DEF BeginClear, BeginNothing, DriveClear, FinishRegen
<1>. QED
  BY <1>6, <1>7, <1>9, <1>10, <1>11 DEF Driver

(* A checkpoint is saved, answered and adopted under a step of the plan.   *)
LEMMA SaveKindStep ==
    ASSUME PipelineInv, SnapKind, SaveKind, [Next]_vars
    PROVE  SaveKind'
<1>1. ASSUME Edit PROVE SaveKind'
  <2>1. PICK d, c : EditShape(d, c)
    BY <1>1, EditHasShape DEF PipelineInv
  <2>2. UNCHANGED <<wq, saved, ticket, saveReply>> /\ DOMAIN store' \subseteq DOMAIN store
    BY <2>1 DEF EditShape, Mutate, mintVars, sessionVars
  <2>. QED
    BY <2>2 DEF SaveKind, Saving
<1>2. ASSUME Scheduler \/ Abandon \/ WorkerReady \/ RestartHook \/ UNCHANGED vars PROVE SaveKind'
  <2>1. UNCHANGED <<store, wq, saved, ticket, saveReply>>
    BY <1>2 DEF Scheduler, Deliver, StartJob, Abandon, WorkerReady, RestartHook, vars, mintVars, sessionVars
  <2>. QED
    BY <2>1 DEF SaveKind, Saving
<1>3. ASSUME Worker PROVE SaveKind'
  <2>1. CASE ServeSave
    <3>1. Serve("Save") /\ SaveCheckpoint(Head(wq)) /\ UNCHANGED <<store, ticket>>
      BY <2>1 DEF ServeSave, Serve
    <3>2. wq # <<>> /\ wq' = Tail(wq) /\ Head(wq) = wq[1] /\ wq[1].kind = "Save" /\ 1 \in DOMAIN wq
      BY <3>1, Served
    <3>3. DOMAIN saved' = DOMAIN saved \cup {wq[1].step} /\ wq[1].step \in Steps
      BY <3>1, <3>2 DEF SaveCheckpoint, SaveKind, Saving
    <3>. QED
      BY <3>1, <3>2, <3>3, SavesShift DEF SaveKind
  <2>2. CASE ~ServeSave
    <3>1. /\ \E kind : Serve(kind)
          /\ UNCHANGED <<store, saved, ticket, saveReply>>
      BY <1>3, <2>2 DEF Worker, ServeRestore, ServeExecute, ServeCancelled, ServeAccept, ServeDiscard,
           Serve, RestoreCheckpoint, ExecutePlan, AcceptPrepared, DiscardPrepared, sessionVars
    <3>. QED
      BY <3>1, Served, SavesShift DEF SaveKind
  <2>. QED
    BY <2>1, <2>2
<1>4. ASSUME WorkerDies PROVE SaveKind'
  <2>1. /\ wq' = <<>> /\ saved' = <<>> /\ UNCHANGED <<store, ticket>>
        /\ saveReply' = IF ticket # NoTicket /\ saveReply = NoReply THEN Lost(FALSE) ELSE saveReply
    BY <1>4 DEF WorkerDies, OpenSession
  <2>2. DOMAIN wq' = {} /\ DOMAIN saved' = {}
    BY <2>1, EmptySeq
  <2>. QED
    BY <2>1, <2>2 DEF SaveKind
<1>5. ASSUME NotConnected PROVE SaveKind'
  <2>1. /\ wq # <<>> /\ wq' = Tail(wq) /\ UNCHANGED <<store, saved, ticket>>
        /\ Head(wq).kind = "Save" \/ UNCHANGED saveReply
    BY <1>5 DEF NotConnected, sessionVars
  <2>2. Head(wq) = wq[1]
    BY <2>1
  <2>. QED
    BY <2>1, <2>2, SavesShift DEF SaveKind
<1>6. ASSUME MintPrepare PROVE SaveKind'
  <2>. DEFINE m == [kind |-> "Save", step |-> cursor, cancel |-> FALSE, job |-> 0]
  <2>1. /\ ticket = NoTicket /\ snap # NoSnap /\ \E l \in snap.steps : l[1] = cursor
        /\ ticket' = [step |-> cursor, rev |-> rev, epoch |-> epoch]
        /\ wq' = Append(wq, m) /\ UNCHANGED <<store, saved, saveReply>>
    BY <1>6 DEF MintPrepare, Send, sessionVars
  <2>2. cursor \in Steps
    BY <2>1, PipelineAssumption DEF SnapKind, Slices
  <2>3. ticket' # NoTicket /\ (ticket').step = cursor
    <3>1. ticket' \in [step : Nat, rev : Nat, epoch : Nat]
      BY <2>1, <2>2, SessionAssumption DEF PipelineInv, DocInv, EpochInv
    <3>. QED
      BY <2>1, <3>1, PipelineAssumption
  <2>4. saveReply = NoReply /\ \A i \in DOMAIN wq : wq[i].kind # "Save"
    BY <2>1 DEF SaveKind, Saving
  <2>5. /\ DOMAIN wq' = DOMAIN wq \cup {Len(wq) + 1} /\ wq'[Len(wq) + 1] = m
        /\ \A i \in DOMAIN wq : wq'[i] = wq[i]
    BY <2>1, Positions
  <2>6. \A i \in DOMAIN wq' : wq'[i].kind = "Save" => i = Len(wq) + 1
    BY <2>4, <2>5
  <2>. QED
    BY <2>1, <2>2, <2>3, <2>4, <2>5, <2>6 DEF SaveKind, Saving
<1>7. ASSUME MintAdopt PROVE SaveKind'
  <2>1. /\ saveReply # NoReply /\ saveReply' = NoReply /\ ticket' = NoTicket
        /\ UNCHANGED <<wq, saved>> /\ DOMAIN store' \subseteq DOMAIN store \cup {ticket.step}
    BY <1>7 DEF MintAdopt, sessionVars
  <2>2. ticket.step \in Steps /\ \A i \in DOMAIN wq : wq[i].kind # "Save"
    BY <2>1 DEF SaveKind, Saving
  <2>. QED
    BY <2>1, <2>2 DEF SaveKind
<1>. QED
  BY <1>1, <1>2, <1>3, <1>4, <1>5, <1>6, <1>7, DriverSaves DEF Next, Saver

(* Every variable starts as a value of its kind.                           *)
LEMMA KindInit == Init => KindInv
<1>. SUFFICES ASSUME Init PROVE KindInv
  OBVIOUS
<1>1. EpochKind
  BY SessionAssumption DEF Init, EpochKind
<1>2. SnapKind
  BY PipelineAssumption DEF Init, SnapKind
<1>3. JobKind
  BY DEF Init, JobKind
<1>4. SaveKind
  BY EmptySeq DEF Init, SaveKind
<1>. QED
  BY <1>1, <1>2, <1>3, <1>4 DEF KindInv

(* The kinds hold in every reachable state.                                *)
THEOREM KindInvariant == Spec => []KindInv
<1>1. PipelineInv /\ KindInv /\ [Next]_vars => KindInv'
  BY EpochKindStep, SnapKindStep, JobKindStep, SaveKindStep DEF KindInv
<1>. QED
  BY <1>1, KindInit, PipelineInvariant, PTL DEF Spec

(* Every variable holds a value of its kind: among them, no checkpoint of  *)
(* a step that is none, no revision or epoch that was never reached, and a *)
(* request with the scheduler exactly while a job runs.                    *)
THEOREM PipelineTypes == Spec => []TypeOK
<1>1. PipelineInv /\ KindInv => TypeOK
  <2>. SUFFICES ASSUME PipelineInv, KindInv PROVE TypeOK
    OBVIOUS
  <2>1. scratch # NoScratch => scratch.geom \in Slices /\ scratch.hash \in Slices
    BY DEF PipelineInv, HonestInv, Honest
  <2>2. /\ doc \in Timelines /\ cursor \in 0 .. Len(doc)
        /\ head \in States /\ \A s \in DOMAIN store : store[s] \in States
        /\ \A s \in DOMAIN saved : saved[s] \in States
        /\ outbox \in Seq(Requests) /\ pend \in Requests \cup {NoRequest}
    BY DEF PipelineInv, DocInv, RequestInv, HonestInv
  <2>. QED
    BY <2>1, <2>2 DEF KindInv, EpochKind, SnapKind, JobKind, SaveKind, Active, TypeOK
<1>. QED
  BY <1>1, PipelineInvariant, KindInvariant, PTL

-----------------------------------------------------------------------------
(***************************************************************************)
(* At rest the screen shows the whole applied prefix of the document.      *)
(*                                                                         *)
(* ImplementsLiveModel says that what is published is right; this part     *)
(* says that it is the last word.  A job may be cancelled, superseded,     *)
(* abandoned, refused or killed, its request may be replaced before it is  *)
(* looked at, and each of these ends with nothing published.  The          *)
(* invariant says why that is no loss: as long as the screen is behind,    *)
(* there is either a later request on its way that covers the document as  *)
(* it is, or a worker that died and whose restart will ask for everything, *)
(* or the job in flight is for the current document, nobody cancelled it   *)
(* and the worker cannot refuse it.                                        *)
(***************************************************************************)

(* No empty plan but for an empty model.  A document in which nothing is   *)
(* suppressed has none; nor has any, without checkpoints to stand on.      *)
Gapless(d) == \A i \in DOMAIN d : d[i] # Suppressed

NothingHidden == "suppress" \notin EditKinds /\ \A d \in InitDocs : Gapless(d)

(* The circumstances under which the screen is known to catch up: commands *)
(* reach the scheduler in order, edits are at or below the bar, every new  *)
(* revision asks for a regen, and of a step that is there.                 *)
CatchUpKinds ==
    /\ InOrder /\ ~EditAboveBar
    /\ {"park", "meta", "remove_top"} \cap EditKinds = {}
    /\ ~Minting \/ NothingHidden

(* A request that is enough for the document as it is.                     *)
Good(r) ==
    /\ r \in Requests
    /\ r.at <= Larger(cursor, 1)
    /\ r.kind = "step" => r.at = Larger(cursor, 1)

(* The worker is dead, or replaced and Rust has not yet heard of it.       *)
Behind == ~up \/ hooks # <<>> \/ epoch # wEpoch

(* No request waits behind the job in flight.                              *)
Alone == outbox = <<>> /\ pend = NoRequest

(* The job in flight is about the document as it is.                       *)
OnTrack ==
    /\ plan.rev = rev /\ plan.epoch = epoch /\ plan.target = cursor
    /\ plan.epoch = wEpoch =>
         /\ phase = "discard" => after = "retry"
         /\ phase = "driven" => outcome = "published"

CaughtUp ==
    /\ cancelled => pend # NoRequest /\ phase # "idle"
    /\ outbox # <<>> => Good(outbox[Len(outbox)])
    /\ outbox = <<>> /\ pend # NoRequest => Good(pend)
    /\ Alone =>
         /\ phase = "idle" => Behind \/ Shown = Regen(doc, cursor)
         /\ phase # "idle" => Good(req)
         /\ phase \in Active => OnTrack

(* What the plan prepared is there to be accepted.                         *)
Mine == scratch # NoScratch /\ scratch.job = plan.job

Kept ==
    /\ phase = "execute" /\ reply # NoReply /\ reply.ok =>
         /\ EchoMatches
         /\ plan.epoch = wEpoch => Mine
    /\ phase = "accept" =>
         /\ \A i \in DOMAIN wq : wq[i].kind = "Save" \/ Own(i)
         /\ plan.epoch = wEpoch => IF reply = NoReply THEN Mine ELSE reply.ok

StoreKind ==
    /\ ~Minting => ticket = NoTicket /\ DOMAIN store = {}
    /\ NothingHidden => Gapless(doc)

CatchUpInv == Kept /\ StoreKind /\ CaughtUp

-----------------------------------------------------------------------------
(* Edits.                                                                  *)

(* A timeline hides nothing exactly if it is a sequence of operations.     *)
LEMMA GaplessIsSeq ==
    ASSUME NEW d \in Timelines
    PROVE  Gapless(d) <=> d \in Seq(Ops)
<1>1. d \in Seq(Records) /\ DOMAIN d = 1 .. Len(d) /\ Len(d) \in Nat
  BY TimelineIsSeq, LenProperties
<1>2. \A i \in DOMAIN d : d[i] \in Ops \cup {Suppressed}
  BY <1>1, ElementOfSeq DEF Records
<1>3. ASSUME Gapless(d) PROVE d \in Seq(Ops)
  <2>1. d \in [1 .. Len(d) -> Ops]
    <3>1. \A i \in 1 .. Len(d) : d[i] \in Ops
      BY <1>1, <1>2, <1>3 DEF Gapless
    <3>. QED
      BY <1>1, <3>1, LenProperties
  <2>. QED
    BY <1>1, <2>1, SeqDef
<1>4. ASSUME d \in Seq(Ops) PROVE Gapless(d)
  BY <1>4, ElementOfSeq, LenProperties, OpsAssumption DEF Gapless
<1>. QED
  BY <1>3, <1>4

(* A part of such a sequence is one, and two of them make one.             *)
LEMMA PartOfOps ==
    ASSUME NEW d \in Seq(Ops), NEW a \in Nat, 1 <= a, NEW b \in Int, b <= Len(d)
    PROVE  SubSeq(d, a, b) \in Seq(Ops)
<1>1. Len(d) \in Nat /\ DOMAIN d = 1 .. Len(d)
  BY LenProperties
<1>2. \A k \in a .. b : d[k] \in Ops
  BY <1>1, ElementOfSeq
<1>. QED
  BY <1>2, SubSeqProperties

(* Without one of its records, too.                                        *)
LEMMA WithoutIsGapless ==
    ASSUME DocInv, Gapless(doc), NEW i \in DOMAIN doc
    PROVE  Gapless(WithoutStep(i))
<1>1. doc \in Seq(Ops) /\ doc \in Timelines
  BY GaplessIsSeq DEF DocInv
<1>2. Len(doc) \in Nat /\ i \in Nat /\ 1 <= i /\ i <= Len(doc)
  BY <1>1, LenProperties
<1>3. SubSeq(doc, 1, i - 1) \in Seq(Ops) /\ SubSeq(doc, i + 1, Len(doc)) \in Seq(Ops)
  BY <1>1, <1>2, PartOfOps
<1>4. WithoutStep(i) \in Seq(Ops)
  BY <1>3, ConcatProperties DEF WithoutStep
<1>5. WithoutStep(i) \in Timelines
  BY <1>1, TimelineWithout DEF WithoutStep
<1>. QED
  BY <1>4, <1>5, GaplessIsSeq

(* Every edit at or below the bar asks for enough, and none of them hides  *)
(* a record unless suppression is among the commands.                      *)
LEMMA EditAsks ==
    ASSUME CatchUpKinds, DocInv, Edit
    PROVE  /\ \E r : outbox' = Append(outbox, r) /\ Good(r)'
           /\ NothingHidden /\ Gapless(doc) => Gapless(doc')
<1>. USE DEF DocInv
<1>1. /\ Len(doc) \in Nat /\ Len(doc) <= MaxLen /\ DOMAIN doc = 1 .. Len(doc)
      /\ cursor \in Nat /\ cursor <= Len(doc) /\ MaxLen \in Nat
  BY TimelineLength, TimelineIsSeq, OpsAssumption
<1>2. ~EditAboveBar /\ "park" \notin EditKinds /\ "meta" \notin EditKinds /\ "remove_top" \notin EditKinds
  BY DEF CatchUpKinds
<1>3. \A n \in 1 .. MaxLen + 1 :
        /\ ToEnd(n) \in Requests /\ ToStep(n) \in Requests
        /\ ToEnd(n).at = n /\ ToEnd(n).kind = "end" /\ ToStep(n).at = n /\ ToStep(n).kind = "step"
  BY Requested DEF ToEnd, ToStep
<1>4. ASSUME NEW i \in 1 .. MaxLen, NEW op \in Ops, UpdateParams(i, op)
      PROVE  /\ \E r : outbox' = Append(outbox, r) /\ Good(r)'
             /\ Gapless(doc) => Gapless(doc')
  <2>1. /\ i \in DOMAIN doc /\ i <= cursor /\ cursor' = cursor /\ outbox' = Append(outbox, ToEnd(i))
        /\ doc' = [doc EXCEPT ![i] = IF @ = Suppressed THEN Suppressed ELSE op]
    BY <1>2, <1>4 DEF UpdateParams, Editable, Mutate, Post
  <2>2. i \in 1 .. MaxLen + 1 /\ i <= Larger(cursor, 1)
    BY <1>1, <2>1 DEF Larger
  <2>3. Good(ToEnd(i))'
    BY <1>3, <2>1, <2>2 DEF Good
  <2>4. Gapless(doc) => Gapless(doc')
    BY <2>1, OpsAssumption DEF Gapless
  <2>. QED
    BY <2>1, <2>3, <2>4
<1>5. ASSUME NEW i \in 1 .. MaxLen, NEW q \in Records, SetSuppression(i, q)
      PROVE  /\ \E r : outbox' = Append(outbox, r) /\ Good(r)'
             /\ ~NothingHidden
  <2>1. /\ "suppress" \in EditKinds
        /\ i \in DOMAIN doc /\ i <= cursor /\ cursor' = cursor /\ outbox' = Append(outbox, ToEnd(i))
    BY <1>2, <1>5 DEF SetSuppression, Editable, Mutate, Post, MayEdit
  <2>2. i \in 1 .. MaxLen + 1 /\ i <= Larger(cursor, 1)
    BY <1>1, <2>1 DEF Larger
  <2>3. Good(ToEnd(i))'
    BY <1>3, <2>1, <2>2 DEF Good
  <2>. QED
    BY <2>1, <2>3 DEF NothingHidden
<1>6. ASSUME NEW op \in Ops, AddAtCursor(op)
      PROVE  /\ \E r : outbox' = Append(outbox, r) /\ Good(r)'
             /\ Gapless(doc) => Gapless(doc')
  <2>1. /\ Len(doc) < MaxLen /\ cursor' = cursor + 1 /\ outbox' = Append(outbox, ToEnd(cursor + 1))
        /\ doc' = SubSeq(doc, 1, cursor) \o <<op>> \o SubSeq(doc, cursor + 1, Len(doc))
    BY <1>6 DEF AddAtCursor, Mutate, Post
  <2>2. PICK n \in 1 .. MaxLen + 1 : n = cursor + 1 /\ n <= Larger(cursor + 1, 1)
    BY <1>1, <2>1 DEF Larger
  <2>3. Good(ToEnd(n))'
    BY <1>3, <2>1, <2>2 DEF Good
  <2>4. ASSUME Gapless(doc) PROVE Gapless(doc')
    <3>1. doc \in Seq(Ops) /\ <<op>> \in Seq(Ops)
      BY <2>4, GaplessIsSeq
    <3>2. SubSeq(doc, 1, cursor) \in Seq(Ops) /\ SubSeq(doc, cursor + 1, Len(doc)) \in Seq(Ops)
      BY <1>1, <3>1, PartOfOps
    <3>3. doc' \in Seq(Ops)
      BY <2>1, <3>1, <3>2, ConcatProperties
    <3>4. doc' \in Timelines
      BY <2>1, TimelineWith DEF Records
    <3>. QED
      BY <3>3, <3>4, GaplessIsSeq
  <2>. QED
    BY <2>1, <2>2, <2>3, <2>4
<1>7. ASSUME NEW i \in 1 .. MaxLen, RemoveStep(i)
      PROVE  /\ \E r : outbox' = Append(outbox, r) /\ Good(r)'
             /\ Gapless(doc) => Gapless(doc')
  <2>1. /\ i # cursor /\ i \in DOMAIN doc /\ i <= cursor /\ doc' = WithoutStep(i)
        /\ cursor' = IF i <= cursor THEN cursor - 1 ELSE cursor
        /\ outbox' = Append(outbox, ToEnd(i))
    BY <1>2, <1>7 DEF RemoveStep, MayEdit, Editable, Mutate, Post
  <2>2. i \in 1 .. MaxLen + 1 /\ cursor' = cursor - 1 /\ i <= Larger(cursor - 1, 1)
    BY <1>1, <2>1 DEF Larger
  <2>3. Good(ToEnd(i))'
    BY <1>3, <2>1, <2>2 DEF Good
  <2>. QED
    BY <2>1, <2>3, WithoutIsGapless
<1>8. ASSUME UndoAppend
      PROVE  /\ \E r : outbox' = Append(outbox, r) /\ Good(r)'
             /\ Gapless(doc) => Gapless(doc')
  <2>1. /\ cursor > 0 /\ cursor = Len(doc) /\ doc' = WithoutStep(cursor) /\ cursor' = cursor - 1
        /\ outbox' = Append(outbox, ToEnd(Larger(cursor - 1, 1)))
    BY <1>8 DEF UndoAppend, Mutate, Post
  <2>2. PICK n \in 1 .. MaxLen + 1 : n = Larger(cursor - 1, 1)
    BY <1>1, <2>1 DEF Larger
  <2>3. Good(ToEnd(n))'
    BY <1>3, <2>1, <2>2 DEF Good, Larger
  <2>4. cursor \in DOMAIN doc
    BY <1>1, <2>1
  <2>. QED
    BY <2>1, <2>2, <2>3, <2>4, WithoutIsGapless
<1>9. ASSUME NEW c \in 0 .. Len(doc), SetRollback(c)
      PROVE  /\ \E r : outbox' = Append(outbox, r) /\ Good(r)'
             /\ Gapless(doc) => Gapless(doc')
  <2>1. doc' = doc /\ cursor' = c /\ outbox' = Append(outbox, ToStep(Larger(c, 1)))
    BY <1>9 DEF SetRollback, Mutate, Post
  <2>2. Larger(c, 1) \in 1 .. MaxLen + 1
    BY <1>1 DEF Larger
  <2>3. Good(ToStep(Larger(c, 1)))'
    BY <1>1, <1>3, <2>1, <2>2 DEF Good
  <2>. QED
    BY <2>1, <2>3
<1>10. ~MetaEdit /\ \A op \in Ops : ~AppendParked(op)
  BY <1>2 DEF MetaEdit, AppendParked, MayEdit
<1>. QED
  BY <1>4, <1>5, <1>6, <1>7, <1>8, <1>9, <1>10 DEF Edit

-----------------------------------------------------------------------------
(* Checkpoints.                                                            *)

(* Without saves there are no checkpoints, and what hides nothing at first *)
(* never does.                                                             *)
LEMMA StoreKindStep ==
    ASSUME CatchUpKinds, PipelineInv, SaveKind, StoreKind, [Next]_vars
    PROVE  StoreKind'
<1>1. ASSUME Edit PROVE StoreKind'
  <2>1. PICK d, c : EditShape(d, c)
    BY <1>1, EditHasShape DEF PipelineInv
  <2>2. ticket' = ticket /\ DOMAIN store' \subseteq DOMAIN store
    BY <2>1 DEF EditShape, Mutate, mintVars
  <2>. QED
    BY <1>1, <2>2, EditAsks DEF StoreKind, PipelineInv
<1>2. ASSUME MintPrepare \/ MintAdopt PROVE StoreKind'
  <2>1. Minting
    BY <1>2 DEF MintPrepare, MintAdopt, SaveKind, StoreKind
  <2>2. doc' = doc
    BY <1>2 DEF MintPrepare, MintAdopt, docVars
  <2>. QED
    BY <2>1, <2>2 DEF StoreKind
<1>3. ASSUME ~Edit, ~(MintPrepare \/ MintAdopt) PROVE StoreKind'
  <2>1. ASSUME Scheduler \/ Abandon \/ UNCHANGED vars PROVE UNCHANGED <<doc, store, ticket>>
    BY <2>1 DEF Scheduler, Deliver, StartJob, Abandon, vars, docVars, mintVars
  <2>2. ASSUME Driver PROVE UNCHANGED <<doc, store, ticket>>
    BY <2>2 DEF Driver, BeginPlan, BeginClear, BeginNothing, RestoreAnswered, PlanFailed, PlanPrepared,
                CancelSeen, AcceptAnswered, DiscardAnswered, DriveClear, FinishRegen, GiveUp, SendNext,
                DriverOnly, docVars, mintVars
  <2>3. ASSUME Worker PROVE UNCHANGED <<doc, store, ticket>>
    BY <2>3 DEF Worker, ServeRestore, ServeExecute, ServeCancelled, ServeAccept, ServeDiscard,
                ServeSave, Serve, docVars
  <2>4. ASSUME WorkerDies \/ NotConnected \/ WorkerReady \/ RestartHook
        PROVE  UNCHANGED <<doc, store, ticket>>
    BY <2>4 DEF WorkerDies, NotConnected, WorkerReady, RestartHook, docVars, mintVars
  <2>5. UNCHANGED <<doc, store, ticket>>
    BY <1>3, <2>1, <2>2, <2>3, <2>4 DEF Next, Saver
  <2>. QED
    BY <2>5 DEF StoreKind
<1>. QED
  BY <1>1, <1>2, <1>3

-----------------------------------------------------------------------------
(* What the plan prepared is kept for it.                                  *)

(* A job that does not wait for an accept, nor has its answer.             *)
LEMMA NothingToKeep ==
    ASSUME phase' \notin {"execute", "accept"} \/ (phase' = "execute" /\ reply' = NoReply)
    PROVE  Kept'
  BY DEF Kept

(* A step that leaves the driver, the queue and the worker's scratch alone. *)
LEMMA KeptAside ==
    ASSUME Kept, UNCHANGED <<phase, plan, reply, wq, wEpoch, scratch>>
    PROVE  Kept'
  BY DEF Kept, EchoMatches, Mine, Own

(* Every step of the driver.                                               *)
LEMMA DriverKeepsPrepared ==
    ASSUME PipelineInv, WorkerInv, Kept, Driver
    PROVE  Kept'
<1>1. ASSUME NEW then, GiveUp(then) PROVE Kept'
  BY <1>1, NothingToKeep DEF GiveUp, SendNext
<1>2. ASSUME NEW base, BeginPlan(base) PROVE Kept'
  BY <1>2, NothingToKeep DEF BeginPlan, PipelineInv, QueueInv
<1>3. ASSUME BeginClear \/ BeginNothing \/ DriveClear \/ FinishRegen \/ CancelSeen PROVE Kept'
  BY <1>3, NothingToKeep DEF BeginClear, BeginNothing, DriveClear, FinishRegen, CancelSeen, EndJob
<1>4. ASSUME RestoreAnswered \/ PlanFailed \/ AcceptAnswered \/ DiscardAnswered PROVE Kept'
  BY <1>1, <1>4, NothingToKeep DEF RestoreAnswered, PlanFailed, AcceptAnswered, DiscardAnswered, SendNext
<1>5. ASSUME PlanPrepared, \A then : ~GiveUp(then) PROVE Kept'
  <2>1. /\ phase = "execute" /\ reply # NoReply /\ reply.ok
        /\ phase' = "accept" /\ reply' = NoReply /\ wq' = Append(wq, Message("Accept", plan))
        /\ plan' = [plan EXCEPT !.steps = reply.steps] /\ UNCHANGED <<wEpoch, scratch>>
    BY <1>5 DEF PlanPrepared, SendNext, Send, DriverOnly, sessionVars
  <2>2. plan'.job = plan.job /\ plan'.epoch = plan.epoch
    BY <2>1 DEF PipelineInv, PlanInv, CutFromDoc, Plans, Active
  <2>3. OnlySaves
    BY <2>1 DEF WorkerInv, LastInQueue, Awaiting
  <2>4. DOMAIN wq' = DOMAIN wq \cup {Len(wq) + 1} /\ wq'[Len(wq) + 1] = Message("Accept", plan)
        /\ \A i \in DOMAIN wq : wq'[i] = wq[i]
    BY <2>1, Positions
  <2>5. \A i \in DOMAIN wq' : wq'[i].kind = "Save" \/ Own(i)'
    BY <2>2, <2>3, <2>4, Carries DEF OnlySaves, Own
  <2>. QED
    BY <2>1, <2>2, <2>5 DEF Kept, Mine
<1>. QED
  BY <1>1, <1>2, <1>3, <1>4, <1>5 DEF Driver

(* What the queue holds for an accept, after its first request is gone.    *)
LEMMA KeptShift ==
    ASSUME PipelineInv, Kept, phase = "accept", wq # <<>>, wq' = Tail(wq), UNCHANGED plan
    PROVE  /\ \A i \in DOMAIN wq' : wq'[i].kind = "Save" \/ Own(i)'
           /\ wq[1].kind = "Save" \/ Own(1)
  BY Shifted DEF Kept

(* A request is served that has nothing to do with what is prepared.       *)
LEMMA KeptQuietly ==
    ASSUME PipelineInv, Kept, wq # <<>>, wq' = Tail(wq),
           UNCHANGED <<phase, plan, wEpoch>>,
           phase \in {"execute", "accept"} => scratch' = scratch /\ reply' = reply
    PROVE  Kept'
<1>1. phase = "accept" => \A i \in DOMAIN wq' : wq'[i].kind = "Save" \/ Own(i)'
  BY KeptShift
<1>. QED
  BY <1>1 DEF Kept, EchoMatches, Mine

(* The plan is executed: the answer echoes its base, the bodies are there. *)
LEMMA ExecuteKeepsPrepared ==
    ASSUME PipelineInv, WorkerInv, Kept, ServeExecute
    PROVE  Kept'
<1>. DEFINE m == Head(wq)
<1>1. Serve("Execute") /\ ExecutePlan(m) /\ Answer(m, ExecuteReply(m))
  BY DEF ServeExecute
<1>2. /\ wq # <<>> /\ wq' = Tail(wq) /\ m = wq[1] /\ m.kind = "Execute" /\ 1 \in DOMAIN wq
      /\ UNCHANGED <<phase, plan, wEpoch>>
      /\ scratch' = IF PlanFits(m) THEN PreparedBy(m) ELSE scratch
  BY <1>1, Served DEF ExecutePlan
<1>3. reply' = reply \/ (reply' = ExecuteReply(m) /\ Own(1) /\ phase = "execute")
  BY <1>1, <1>2, AnswerReaches DEF Waiting
<1>4. phase # "accept"
  BY <1>2, KeptShift DEF WorkerInv, LastInQueue, Awaiting, Asked
<1>5. CASE reply' = reply
  <2>1. ~(phase = "execute" /\ reply # NoReply)
    BY <1>2 DEF WorkerInv, LastInQueue, Awaiting, OnlySaves
  <2>. QED
    BY <1>2, <1>4, <1>5, <2>1 DEF Kept
<1>6. CASE reply' = ExecuteReply(m) /\ Own(1) /\ phase = "execute"
  <2>1. m.epoch = plan.epoch /\ m.base = plan.art.hash /\ m.job = plan.job
    BY <1>2, <1>6 DEF WorkerInv, LastInQueue, Awaiting, Own
  <2>2. ASSUME ~PlanFits(m) PROVE ~(reply').ok
    <3>1. ASSUME scratch # NoScratch, scratch.job = m.job PROVE FALSE
      <4>1. m.epoch = wEpoch
        BY <1>6, <2>1, <3>1 DEF WorkerInv, PreparedOnBase
      <4>2. Prepares(0) /\ Prepares(1)
        BY <1>2, <3>1, <4>1 DEF Prepares
      <4>3. 0 \in 0 .. Len(wq) /\ 1 \in 0 + 1 .. Len(wq)
        BY <1>2, Positions
      <4>4. \E k \in 0 + 1 .. 1 - 1 : Ends(k, JobAt(0))
        BY <4>2, <4>3 DEF WorkerInv, OneAtATime
      <4>. QED
        BY <4>4
    <3>. QED
      BY <1>6, <2>2, <3>1 DEF ExecuteReply, Refused
  <2>3. ASSUME PlanFits(m) PROVE Kept'
    <3>1. /\ reply' = Prepared(PreparedBy(m)) /\ scratch' = PreparedBy(m)
      BY <1>2, <1>6, <2>3 DEF ExecuteReply
    <3>2. (reply').hash = plan.art.hash \cup (reply').steps
      BY <2>1, <3>1 DEF Prepared, PreparedBy
    <3>3. PreparedBy(m) # NoScratch
      <4>1. m \in Messages /\ m.kind = "Execute"
        BY <1>2, Positions, ElementOfSeq
      <4>2. m.job \in Jobs /\ m.base \in Slices /\ m.ops \in Slices
        BY <4>1 DEF Messages, Slices
      <4>3. head.geom \in Slices /\ Built(m.ops) \in Slices
        BY <4>2, BuiltOfSlice DEF PipelineInv, HonestInv, Honest
      <4>4. PreparedBy(m) \in [job : Jobs, geom : Slices, hash : Slices, steps : Slices]
        BY <4>2, <4>3 DEF PreparedBy, Slices
      <4>. QED
        BY <4>4, SessionAssumption DEF Slices
    <3>4. Mine'
      BY <1>2, <2>1, <3>1, <3>3 DEF Mine, PreparedBy
    <3>. QED
      BY <1>2, <1>4, <3>2, <3>4 DEF Kept, EchoMatches
  <2>. QED
    BY <1>2, <1>4, <2>2, <2>3 DEF Kept
<1>. QED
  BY <1>3, <1>5, <1>6

(* The accept finds what was prepared, and says so.                        *)
LEMMA AcceptKeepsPrepared ==
    ASSUME PipelineInv, WorkerInv, Kept, ServeAccept
    PROVE  Kept'
<1>. DEFINE m == Head(wq)
<1>1. Serve("Accept") /\ AcceptPrepared(m) /\ Answer(m, AcceptReply(m))
  BY DEF ServeAccept
<1>2. /\ wq # <<>> /\ wq' = Tail(wq) /\ m = wq[1] /\ m.kind = "Accept" /\ 1 \in DOMAIN wq
      /\ UNCHANGED <<phase, plan, wEpoch>>
  BY <1>1, Served DEF AcceptPrepared
<1>3. reply' = reply \/ (reply' = AcceptReply(m) /\ Own(1) /\ phase = "accept")
  BY <1>1, <1>2, AnswerReaches DEF Waiting
<1>4. ~(phase \in {"execute", "accept"} /\ reply # NoReply)
  BY <1>2 DEF WorkerInv, LastInQueue, Awaiting, OnlySaves
<1>5. CASE phase = "accept"
  <2>1. /\ Own(1) /\ \A i \in DOMAIN wq' : wq'[i].kind = "Save" \/ Own(i)'
    BY <1>2, <1>5, KeptShift
  <2>2. m.job = plan.job /\ m.epoch = plan.epoch
    BY <1>2, <1>5, <2>1 DEF Own, WorkerInv, LastInQueue, Awaiting
  <2>3. reply' = AcceptReply(m)
    <3>1. plan # NoPlan
      BY <1>5, PipelineAssumption DEF PipelineInv, PlanInv, CutFromDoc, Active
    <3>. QED
      BY <1>1, <1>2, <1>5, <2>2, <3>1 DEF Answer, Waiting
  <2>4. ASSUME plan.epoch = wEpoch PROVE (reply').ok /\ reply' # NoReply
    <3>1. AcceptFits(m)
      BY <1>4, <1>5, <2>2, <2>4 DEF Kept, Mine, AcceptFits
    <3>2. reply' = [ok |-> TRUE]
      BY <2>3, <3>1 DEF AcceptReply
    <3>3. reply' \in [ok : BOOLEAN]
      BY <3>2
    <3>. QED
      BY <3>2, <3>3, PipelineAssumption
  <2>. QED
    BY <1>2, <1>5, <2>1, <2>4 DEF Kept
<1>6. CASE phase # "accept"
  BY <1>2, <1>3, <1>4, <1>6 DEF Kept
<1>. QED
  BY <1>5, <1>6

(* Every other service of the worker.                                      *)
LEMMA WorkerKeepsPrepared ==
    ASSUME PipelineInv, WorkerInv, Kept, Worker
    PROVE  Kept'
<1>1. ASSUME NEW kind, Serve(kind) PROVE wq # <<>> /\ wq' = Tail(wq) /\ UNCHANGED <<phase, plan>>
  BY <1>1, Served
<1>2. ASSUME ServeCancelled \/ ServeSave PROVE Kept'
  <2>1. (\E kind : Serve(kind)) /\ UNCHANGED <<wEpoch, scratch, reply>>
    BY <1>2 DEF ServeCancelled, ServeSave, SaveCheckpoint, sessionVars
  <2>. QED
    BY <1>1, <2>1, KeptQuietly
<1>3. ASSUME ServeRestore PROVE Kept'
  <2>1. /\ Serve("Restore") /\ UNCHANGED <<wEpoch, scratch>>
        /\ Answer(Head(wq), RestoreReply(Head(wq)))
    BY <1>3 DEF ServeRestore, RestoreCheckpoint
  <2>2. phase \in {"execute", "accept"} => reply' = reply
    BY <2>1, Served, AnswerReaches DEF Waiting
  <2>. QED
    BY <1>1, <2>1, <2>2, KeptQuietly
<1>4. ASSUME ServeDiscard PROVE Kept'
  <2>1. /\ Serve("Discard") /\ UNCHANGED wEpoch
        /\ Answer(Head(wq), DiscardReply(Head(wq)))
    BY <1>4 DEF ServeDiscard, DiscardPrepared
  <2>2. /\ wq[1].kind = "Discard" /\ Head(wq) = wq[1] /\ wq # <<>> /\ wq' = Tail(wq) /\ 1 \in DOMAIN wq
        /\ UNCHANGED <<phase, plan>>
    BY <2>1, Served
  <2>3. phase \in {"execute", "accept"} => reply' = reply /\ reply = NoReply
    BY <2>1, <2>2, AnswerReaches DEF Waiting, WorkerInv, LastInQueue, Awaiting, OnlySaves
  <2>4. phase # "accept"
    BY <2>2, KeptShift DEF WorkerInv, LastInQueue, Awaiting, Asked
  <2>. QED
    BY <2>2, <2>3, <2>4 DEF Kept
<1>. QED
  BY <1>2, <1>3, <1>4, ExecuteKeepsPrepared, AcceptKeepsPrepared DEF Worker

(* Dead, the worker has forgotten it, and every request fails.             *)
LEMMA DeathKeepsPrepared ==
    ASSUME PipelineInv, WorkerInv, Kept, WorkerDies \/ NotConnected
    PROVE  Kept'
<1>1. CASE WorkerDies
  <2>1. /\ wEpoch' = wEpoch + 1 /\ wq' = <<>> /\ UNCHANGED <<phase, plan>>
        /\ reply' = reply \/ \E seen : reply' = Lost(seen)
    BY <1>1 DEF WorkerDies, OpenSession
  <2>2. DOMAIN wq' = {}
    BY <2>1, EmptySeq
  <2>3. phase \in Active => plan.epoch # wEpoch'
    BY <2>1, Positions DEF WorkerInv, EpochOrder
  <2>4. reply' = reply \/ ~(reply').ok
    BY <2>1 DEF Lost
  <2>. QED
    BY <2>1, <2>2, <2>3, <2>4 DEF Kept, EchoMatches, Active
<1>2. CASE NotConnected
  <2>1. /\ ~up /\ wq # <<>> /\ wq' = Tail(wq) /\ UNCHANGED <<phase, plan, wEpoch>>
        /\ IF Head(wq).kind = "Save" THEN reply' = reply ELSE Answer(Head(wq), Lost(FALSE))
    BY <1>2 DEF NotConnected, sessionVars
  <2>2. reply' = reply \/ ~(reply').ok
    BY <2>1, AnswerReaches DEF Lost
  <2>3. phase \in Active => plan.epoch # wEpoch
    BY <2>1, Positions DEF WorkerInv, EpochOrder
  <2>4. phase = "accept" => \A i \in DOMAIN wq' : wq'[i].kind = "Save" \/ Own(i)'
    BY <2>1, KeptShift
  <2>. QED
    BY <2>1, <2>2, <2>3, <2>4 DEF Kept, EchoMatches, Active
<1>. QED
  BY <1>1, <1>2

(* Every step keeps what is prepared for the plan in flight.               *)
LEMMA KeptStep ==
    ASSUME PipelineInv, WorkerInv, Kept, [Next]_vars
    PROVE  Kept'
<1>1. ASSUME Edit PROVE Kept'
  <2>1. PICK d, c : EditShape(d, c)
    BY <1>1, EditHasShape DEF PipelineInv
  <2>2. UNCHANGED <<phase, plan, reply, wq, wEpoch, scratch>>
    BY <2>1 DEF EditShape, Mutate, jobVars, sessionVars
  <2>. QED
    BY <2>2, KeptAside
<1>2. ASSUME \E i : Deliver(i) PROVE Kept'
  BY <1>2, KeptAside DEF Deliver, jobVars, sessionVars
<1>3. ASSUME StartJob \/ Abandon PROVE Kept'
  BY <1>3, NothingToKeep DEF StartJob, Abandon, EndJob
<1>4. ASSUME WorkerReady \/ RestartHook \/ MintAdopt \/ UNCHANGED vars PROVE Kept'
  BY <1>4, KeptAside DEF WorkerReady, RestartHook, MintAdopt, vars, jobVars, sessionVars
<1>5. ASSUME MintPrepare PROVE Kept'
  <2>1. PICK m : m.kind = "Save" /\ wq' = Append(wq, m)
    BY <1>5 DEF MintPrepare, Send
  <2>2. UNCHANGED <<phase, plan, reply, wEpoch, scratch>>
    BY <1>5 DEF MintPrepare, jobVars, sessionVars
  <2>3. DOMAIN wq' = DOMAIN wq \cup {Len(wq) + 1} /\ wq'[Len(wq) + 1] = m
        /\ \A i \in DOMAIN wq : wq'[i] = wq[i]
    BY <2>1, Positions
  <2>4. phase = "accept" => \A i \in DOMAIN wq' : wq'[i].kind = "Save" \/ Own(i)'
    BY <2>1, <2>2, <2>3 DEF Kept, Own
  <2>. QED
    BY <2>2, <2>4 DEF Kept, EchoMatches, Mine
<1>. QED
  BY <1>1, <1>2, <1>3, <1>4, <1>5, DriverKeepsPrepared, WorkerKeepsPrepared, DeathKeepsPrepared
     DEF Next, Scheduler, Saver

-----------------------------------------------------------------------------
(* The screen catches up.                                                  *)

(* What the catch-up is about.                                             *)
caughtVars ==
    <<doc, cursor, rev, snap, epoch, sendVars, schedVars, phase, plan, after, outcome, up, wEpoch>>

(* A step that leaves all of it alone.                                     *)
LEMMA CaughtAside ==
    ASSUME CaughtUp, UNCHANGED caughtVars
    PROVE  CaughtUp'
  BY DEF caughtVars, sendVars, schedVars, CaughtUp, Good, Alone, Behind, Shown, OnTrack

(* While the driver works on, only the plan's fate is at stake.            *)
LEMMA CaughtDriving ==
    ASSUME CaughtUp, phase # "idle", phase' # "idle",
           UNCHANGED <<cursor, sendVars, schedVars>>,
           Alone /\ phase' \in Active => OnTrack'
    PROVE  CaughtUp'
  BY DEF sendVars, schedVars, CaughtUp, Good, Alone

(* A request that is posted covers the document as it then is.             *)
LEMMA CaughtPosted ==
    ASSUME PipelineInv, CaughtUp, UNCHANGED <<schedVars, phase>>,
           NEW r, outbox' = Append(outbox, r), Good(r)'
    PROVE  CaughtUp'
<1>1. outbox \in Seq(Requests) /\ r \in Requests
  BY DEF PipelineInv, RequestInv, Good
<1>2. /\ outbox' \in Seq(Requests) /\ Len(outbox') = Len(outbox) + 1 /\ Len(outbox) \in Nat
      /\ outbox'[Len(outbox')] = r
  BY <1>1, AppendProperties, LenProperties
<1>3. outbox' # <<>>
  BY <1>1, AppendProperties
<1>. QED
  BY <1>2, <1>3 DEF CaughtUp, Alone, schedVars

(* The first request on its way reaches the scheduler.                     *)
LEMMA CaughtDelivered ==
    ASSUME CatchUpKinds, PipelineInv, CaughtUp, NEW i, Deliver(i)
    PROVE  CaughtUp'
<1>1. /\ i = 1 /\ 1 \in DOMAIN outbox /\ pend' = outbox[1]
      /\ outbox' = SubSeq(outbox, 1, 0) \o SubSeq(outbox, 2, Len(outbox))
      /\ cancelled' = (phase # "idle") /\ UNCHANGED <<cursor, phase>>
  BY DEF Deliver, CatchUpKinds, docVars, jobVars
<1>2. outbox \in Seq(Requests) /\ Len(outbox) \in Nat \ {0} /\ DOMAIN outbox = 1 .. Len(outbox)
  BY <1>1, LenProperties DEF PipelineInv, RequestInv
<1>3. pend' \in Requests /\ pend' # NoRequest
  BY <1>1, <1>2, ElementOfSeq, PipelineAssumption
<1>. DEFINE t == SubSeq(outbox, 2, Len(outbox))
<1>4. t \in Seq(Requests) /\ Len(t) = Len(outbox) - 1 /\ \A k \in 1 .. Len(outbox) - 1 : t[k] = outbox[k + 1]
  <2>1. \A k \in 2 .. Len(outbox) : outbox[k] \in Requests
    BY <1>2, ElementOfSeq
  <2>. QED
    BY <1>2, <2>1, SubSeqProperties
<1>5. outbox' = t
  <2>1. SubSeq(outbox, 1, 0) = <<>>
    BY SubSeqEmpty
  <2>2. <<>> \o t = t
    BY <1>4, ConcatEmptySeq
  <2>. QED
    BY <1>1, <2>1, <2>2
<1>6. outbox # <<>> /\ Good(outbox[Len(outbox)])
  BY <1>2, EmptySeq DEF CaughtUp
<1>7. ASSUME outbox' = <<>> PROVE Good(pend)'
  <2>1. Len(outbox) = 1
    <3>1. Len(t) = 0
      BY <1>5, <1>7, EmptySeq
    <3>. QED
      BY <1>2, <1>4, <3>1
  <2>. QED
    BY <1>1, <1>6, <2>1 DEF Good
<1>8. ASSUME outbox' # <<>> PROVE Good(outbox[Len(outbox)])'
  <2>1. Len(t) # 0 /\ t[Len(t)] = outbox[Len(outbox)]
    BY <1>2, <1>4, <1>5, <1>8, EmptySeq
  <2>. QED
    BY <1>1, <1>5, <1>6, <2>1 DEF Good
<1>. QED
  BY <1>1, <1>3, <1>7, <1>8 DEF CaughtUp, Alone

(* The scheduler starts the job, or drops one that was told to stop.       *)
LEMMA CaughtScheduled ==
    ASSUME CatchUpKinds, PipelineInv, JobKind, CaughtUp, StartJob \/ Abandon
    PROVE  CaughtUp'
<1>1. CASE StartJob
  <2>1. /\ phase = "idle" /\ phase' = "begin" /\ pend # NoRequest /\ req' = pend /\ pend' = NoRequest
        /\ UNCHANGED <<cursor, outbox, cancelled>>
    BY <1>1 DEF StartJob, docVars, sendVars
  <2>. QED
    BY <2>1 DEF CaughtUp, Good, Alone, Active
<1>2. CASE Abandon
  <2>1. /\ cancelled /\ cancelled' = FALSE
        /\ UNCHANGED <<cursor, outbox, pend>>
    BY <1>2 DEF Abandon, EndJob, docVars, sendVars
  <2>. QED
    BY <2>1 DEF CaughtUp, Good, Alone
<1>. QED
  BY <1>1, <1>2

(* A request that is enough reaches to the end of the applied prefix.      *)
LEMMA GoodTarget ==
    ASSUME DocInv, Good(req)
    PROVE  /\ Applied = cursor /\ cursor \in Nat
           /\ PastEnd <=> cursor = 0
           /\ ~PastEnd => Target = cursor /\ req.at <= cursor
<1>1. /\ Applied = cursor /\ cursor \in Nat
  BY TargetInPrefix DEF Good
<1>2. req.at \in Nat /\ 1 <= req.at /\ req.at <= Larger(cursor, 1)
      /\ (req.kind = "step" => req.at = Larger(cursor, 1))
  BY OpsAssumption DEF Good, Requests
<1>. QED
  BY <1>1, <1>2 DEF PastEnd, Target, Smaller, Larger

(* A plan is compiled: it is about the document as it is.                  *)
LEMMA CaughtBegun ==
    ASSUME PipelineInv, CaughtUp, (\E base : BeginPlan(base)) \/ BeginClear
    PROVE  CaughtUp'
<1>1. /\ phase = "begin" /\ phase' \in {"execute", "restore", "clear"}
      /\ plan'.rev = rev /\ plan'.epoch = epoch
      /\ plan'.target = IF PastEnd THEN Applied ELSE Target
      /\ UNCHANGED <<cursor, rev, epoch, sendVars, schedVars>>
  <2>1. CASE BeginClear
    <3>1. /\ plan' = [PlanFor(0) EXCEPT !.clear = TRUE, !.target = IF PastEnd THEN Applied ELSE Target]
          /\ phase = "begin" /\ phase' = "clear" /\ UNCHANGED <<cursor, rev, epoch, sendVars, schedVars>>
      BY <2>1 DEF BeginClear, docVars, shownVars
    <3>. QED
      BY <3>1 DEF PlanFor
  <2>2. ASSUME NEW base, BeginPlan(base)
        PROVE  /\ plan' = PlanFor(base) /\ ~PastEnd /\ phase = "begin" /\ phase' \in {"execute", "restore"}
               /\ UNCHANGED <<cursor, rev, epoch, sendVars, schedVars>>
    BY <2>2 DEF BeginPlan, docVars, shownVars
  <2>. QED
    BY <2>1, <2>2 DEF PlanFor
<1>2. Alone => plan'.target = cursor
  BY <1>1, GoodTarget DEF CaughtUp, PipelineInv
<1>. QED
  BY <1>1, <1>2, CaughtDriving DEF OnTrack

(* Nothing to do: nothing is missing on the screen.                        *)
LEMMA NothingMissing ==
    ASSUME CatchUpKinds, PipelineInv, SaveKind, StoreKind, Good(req), EmptyPlan, ~(NothingLeft /\ Shown # {})
    PROVE  Shown = Regen(doc, cursor)
<1>1. /\ Applied = cursor /\ cursor \in Nat /\ mirror.recs = doc
      /\ PastEnd <=> cursor = 0
      /\ ~PastEnd => Target = cursor /\ req.at <= cursor
  BY GoodTarget DEF PipelineInv, DocInv
<1>2. NothingLeft <=> Lines(doc, 1, cursor) = {}
  BY <1>1 DEF NothingLeft
<1>3. NothingLeft
  <2>1. CASE PastEnd
    BY <1>1, <1>2, <2>1, NoLines
  <2>2. CASE ~PastEnd
    <3>1. PICK base \in Usable \cup {0} : Lines(doc, base + 1, cursor) = {}
      BY <1>1, <2>2 DEF EmptyPlan, PlannedFrom
    <3>2. CASE base = 0
      BY <1>2, <3>1, <3>2
    <3>3. CASE base # 0
      <4>1. base \in DOMAIN store /\ base < req.at
        BY <3>1, <3>3 DEF Usable
      <4>2. Gapless(doc)
        BY <4>1 DEF CatchUpKinds, StoreKind
      <4>3. base \in Nat /\ req.at \in Nat
        <5>1. base \in Steps
          BY <4>1 DEF SaveKind
        <5>. QED
          BY <5>1, SessionAssumption, OpsAssumption DEF Good, Requests
      <4>4. cursor \in base + 1 .. cursor /\ cursor \in DOMAIN doc
        BY <1>1, <2>2, <4>1, <4>3, TimelineLength DEF PipelineInv, DocInv
      <4>5. doc[cursor] # Suppressed
        BY <4>2, <4>4 DEF Gapless
      <4>6. <<cursor, doc[cursor]>> \in Lines(doc, base + 1, cursor)
        BY <4>4, <4>5 DEF Lines
      <4>. QED
        BY <3>1, <4>6
    <3>. QED
      BY <3>2, <3>3
  <2>. QED
    BY <2>1, <2>2
<1>4. Regen(doc, cursor) = {}
  BY <1>2, <1>3 DEF Regen, Built
<1>. QED
  BY <1>3, <1>4

(* A job ends without a plan only if there was nothing to do.              *)
LEMMA CaughtNothing ==
    ASSUME CatchUpKinds, PipelineInv, SaveKind, StoreKind, CaughtUp, BeginNothing
    PROVE  CaughtUp'
<1>1. /\ phase = "begin" /\ EmptyPlan /\ ~(NothingLeft /\ Shown # {})
      /\ phase' = "idle" /\ cancelled' = FALSE
      /\ UNCHANGED <<doc, cursor, snap, outbox, pend>>
  BY DEF BeginNothing, EndJob, docVars, shownVars, sendVars
<1>2. Alone => Shown = Regen(doc, cursor)
  BY <1>1, NothingMissing DEF CaughtUp
<1>3. (Shown = Regen(doc, cursor)) => (Shown = Regen(doc, cursor))'
  BY <1>1 DEF Shown
<1>. QED
  BY <1>1, <1>2, <1>3 DEF CaughtUp, Good, Alone, Active

(* The driver goes on: while nobody cancels, no edit intervenes and the    *)
(* worker lives, nothing but a retry keeps the plan from the screen.       *)
LEMMA CaughtDriven ==
    ASSUME PipelineInv, WorkerInv, Kept, CaughtUp,
           \/ RestoreAnswered \/ PlanFailed \/ PlanPrepared \/ CancelSeen
           \/ AcceptAnswered \/ DiscardAnswered \/ DriveClear
    PROVE  CaughtUp'
<1>1. /\ phase \in Active /\ phase' # "idle" /\ phase # "idle" /\ DriverOnly
      /\ plan' \in {plan, [plan EXCEPT !.steps = reply.steps], FromZero}
  BY DEF RestoreAnswered, PlanFailed, PlanPrepared, CancelSeen, AcceptAnswered, DiscardAnswered, DriveClear,
         GiveUp, SendNext, Active
<1>2. UNCHANGED <<cursor, rev, epoch, wEpoch, sendVars, schedVars>>
  BY <1>1 DEF DriverOnly, docVars, shownVars, sessionVars
<1>. SUFFICES ASSUME Alone PROVE OnTrack'
  BY <1>1, <1>2, CaughtDriving
<1>3. plan.rev = rev /\ plan.epoch = epoch /\ plan.target = cursor /\ ~cancelled
  BY <1>1 DEF CaughtUp, OnTrack, Alone
<1>4. plan'.rev = rev /\ plan'.epoch = epoch /\ plan'.target = cursor /\ plan'.epoch = plan.epoch
  BY <1>1, <1>3 DEF PipelineInv, PlanInv, CutFromDoc, Plans, FromZero
<1>. SUFFICES ASSUME plan.epoch = wEpoch
              PROVE  (phase' = "discard" => after' = "retry") /\ (phase' = "driven" => outcome' = "published")
  BY <1>2, <1>4 DEF OnTrack
<1>5. CASE RestoreAnswered
  BY <1>5 DEF RestoreAnswered, GiveUp, SendNext
<1>6. CASE PlanFailed
  BY <1>6 DEF PlanFailed, WorkerInv, NeverRefused
<1>7. CASE PlanPrepared
  <2>1. EchoMatches /\ Current
    BY <1>3, <1>7 DEF PlanPrepared, Kept, Current
  <2>. QED
    BY <1>3, <1>7, <2>1 DEF PlanPrepared, SendNext
<1>8. CASE CancelSeen
  BY <1>3, <1>8 DEF CancelSeen
<1>9. CASE AcceptAnswered
  BY <1>9 DEF AcceptAnswered, Kept
<1>10. CASE DiscardAnswered
  BY <1>1, <1>10 DEF DiscardAnswered, SendNext, CaughtUp, OnTrack
<1>11. CASE DriveClear
  BY <1>3, <1>11 DEF DriveClear
<1>. QED
  BY <1>5, <1>6, <1>7, <1>8, <1>9, <1>10, <1>11

(* The job is finished: it published, or its worker is not the current one. *)
LEMMA CaughtFinished ==
    ASSUME PipelineInv, CaughtUp, FinishRegen
    PROVE  CaughtUp'
<1>1. /\ phase = "driven" /\ phase' = "idle" /\ cancelled' = FALSE
      /\ UNCHANGED <<doc, cursor, rev, epoch, sendVars, pend, up, wEpoch>>
  BY DEF FinishRegen, EndJob, sessionVars
<1>2. ASSUME Alone PROVE (Behind \/ Shown = Regen(doc, cursor))'
  <2>1. OnTrack
    BY <1>1, <1>2 DEF CaughtUp, Active
  <2>2. CASE plan.epoch # wEpoch
    BY <1>1, <2>1, <2>2 DEF OnTrack, Behind
  <2>3. CASE plan.epoch = wEpoch
    <3>1. outcome = "published" /\ Current /\ plan.target = cursor
      BY <1>1, <2>1, <2>3 DEF OnTrack, Current
    <3>2. Folded = Regen(doc, cursor) /\ Folded \in Slices
      BY <1>1, <3>1, FoldedIsPrefix
    <3>3. snap' = [geom |-> Folded, upto |-> plan.target, steps |-> plan.steps, rev |-> rev, epoch |-> epoch]
      BY <3>1 DEF FinishRegen
    <3>4. snap' \in Snapshots
      <4>1. plan.steps \in Slices /\ plan.target \in Nat
        BY <1>1 DEF PipelineInv, PlanInv, Active, CutFromDoc, Plans
      <4>2. rev \in Nat /\ epoch \in Nat
        BY DEF PipelineInv, DocInv, EpochInv
      <4>. QED
        BY <3>2, <3>3, <4>1, <4>2 DEF Snapshots
    <3>5. Shown' = Folded
      BY <3>3, <3>4, PipelineAssumption DEF Shown
    <3>. QED
      BY <1>1, <3>2, <3>5
  <2>. QED
    BY <2>2, <2>3
<1>. QED
  BY <1>1, <1>2 DEF CaughtUp, Good, Alone, Active, sendVars

(* The worker dies: whatever the job in flight still brings, a restart is  *)
(* to follow that asks for everything.                                     *)
LEMMA CaughtDying ==
    ASSUME PipelineInv, WorkerInv, CaughtUp, WorkerDies
    PROVE  CaughtUp'
<1>1. /\ up' = FALSE /\ wEpoch' = wEpoch + 1
      /\ UNCHANGED <<cursor, rev, epoch, sendVars, schedVars, phase, plan>>
  BY DEF WorkerDies, OpenSession, docVars, shownVars
<1>2. Behind'
  BY <1>1 DEF Behind
<1>3. phase \in Active => plan.epoch # wEpoch'
  BY <1>1, Positions DEF WorkerInv, EpochOrder
<1>. QED
  BY <1>1, <1>2, <1>3 DEF sendVars, schedVars, CaughtUp, Good, Alone, OnTrack

(* The next worker is ready: its hook is on its way, and asks for all.     *)
LEMMA CaughtRestarting ==
    ASSUME PipelineInv, CaughtUp, WorkerReady \/ RestartHook
    PROVE  CaughtUp'
<1>1. CASE WorkerReady
  <2>1. /\ hooks' = Append(hooks, wEpoch)
        /\ UNCHANGED <<cursor, rev, epoch, wEpoch, outbox, schedVars, phase, plan, after, outcome>>
    BY <1>1 DEF WorkerReady, docVars, shownVars, jobVars, sessionVars
  <2>2. hooks' # <<>>
    BY <2>1, Positions, AppendProperties
  <2>. QED
    BY <2>1, <2>2 DEF schedVars, CaughtUp, Good, Alone, Behind, OnTrack
<1>2. CASE RestartHook
  <2>1. outbox' = Append(outbox, ToEnd(1)) /\ UNCHANGED <<schedVars, phase>>
    BY <1>2 DEF RestartHook, jobVars
  <2>2. 1 <= Larger(cursor', 1)
    <3>1. cursor' = cursor /\ cursor \in Nat
      BY <1>2, TimelineLength, OpsAssumption DEF RestartHook, docVars, PipelineInv, DocInv
    <3>. QED
      BY <3>1 DEF Larger
  <2>3. Good(ToEnd(1))'
    BY <2>2, Requested DEF Good, ToEnd
  <2>. QED
    BY <2>1, <2>3, CaughtPosted
<1>. QED
  BY <1>1, <1>2

-----------------------------------------------------------------------------
(* The invariant.                                                          *)

(* Every step keeps the screen on the way to the document.                 *)
LEMMA CaughtUpStep ==
    ASSUME CatchUpKinds, PipelineInv, WorkerInv, KindInv, CatchUpInv, [Next]_vars
    PROVE  CaughtUp'
<1>. USE DEF CatchUpInv, KindInv
<1>1. ASSUME Edit PROVE CaughtUp'
  <2>1. PICK r : outbox' = Append(outbox, r) /\ Good(r)'
    BY <1>1, EditAsks DEF PipelineInv
  <2>2. PICK d, c : EditShape(d, c)
    BY <1>1, EditHasShape DEF PipelineInv
  <2>3. UNCHANGED <<schedVars, phase>>
    BY <2>2 DEF EditShape, Mutate, jobVars
  <2>. QED
    BY <2>1, <2>3, CaughtPosted
<1>2. ASSUME Worker PROVE CaughtUp'
  <2>1. UNCHANGED caughtVars
    BY <1>2 DEF Worker, ServeRestore, ServeExecute, ServeCancelled, ServeAccept, ServeDiscard, ServeSave,
                Serve, RestoreCheckpoint, ExecutePlan, AcceptPrepared, DiscardPrepared, SaveCheckpoint,
                docVars, shownVars, sessionVars, caughtVars
  <2>. QED
    BY <2>1, CaughtAside
<1>3. ASSUME NotConnected \/ Saver \/ UNCHANGED vars PROVE CaughtUp'
  <2>1. UNCHANGED caughtVars
    BY <1>3 DEF NotConnected, Saver, MintPrepare, MintAdopt, vars, docVars, shownVars, jobVars, sessionVars,
                caughtVars
  <2>. QED
    BY <2>1, CaughtAside
<1>4. ASSUME Scheduler PROVE CaughtUp'
  BY <1>4, CaughtDelivered, CaughtScheduled DEF Scheduler
<1>5. ASSUME Driver PROVE CaughtUp'
  BY <1>5, CaughtBegun, CaughtNothing, CaughtDriven, CaughtFinished DEF Driver
<1>. QED
  BY <1>1, <1>2, <1>3, <1>4, <1>5, CaughtScheduled, CaughtDying, CaughtRestarting DEF Next

(* An opened document is asked for from its first step.                    *)
LEMMA CatchUpInit == CatchUpKinds /\ Init => CatchUpInv
<1>. SUFFICES ASSUME CatchUpKinds, Init PROVE CatchUpInv
  OBVIOUS
<1>1. Kept
  BY DEF Init, Kept
<1>2. StoreKind
  BY DEF Init, StoreKind, NothingHidden
<1>3. CaughtUp
  <2>1. outbox = <<ToEnd(1)>> /\ outbox # <<>> /\ Len(outbox) = 1 /\ outbox[1] = ToEnd(1)
    BY DEF Init
  <2>2. 1 <= Larger(cursor, 1)
    <3>1. cursor \in Nat
      BY InitInv, TimelineLength, OpsAssumption DEF PipelineInv, DocInv
    <3>. QED
      BY <3>1 DEF Larger
  <2>3. Good(ToEnd(1))
    BY <2>2, Requested DEF Good, ToEnd
  <2>4. ~cancelled
    BY DEF Init
  <2>. QED
    BY <2>1, <2>3, <2>4 DEF CaughtUp, Alone
<1>. QED
  BY <1>1, <1>2, <1>3 DEF CatchUpInv

(* The invariant holds in every reachable state.                           *)
THEOREM CatchUpInvariant == ASSUME CatchUpKinds PROVE Spec => []CatchUpInv
<1>1. PipelineInv /\ WorkerInv /\ KindInv /\ CatchUpInv /\ [Next]_vars => CatchUpInv'
  BY KeptStep, StoreKindStep, CaughtUpStep DEF CatchUpInv, KindInv
<1>2. Init => CatchUpInv
  BY CatchUpInit
<1>. QED
  BY <1>1, <1>2, PipelineInvariant, WorkerInvariant, KindInvariant, PTL DEF Spec

(* Whenever nothing is left to do -- no request on its way or pending, no  *)
(* job, no restart to heed -- the screen shows the whole applied prefix of *)
(* the document, however many requests were replaced, jobs cancelled,      *)
(* abandoned or retried and workers lost on the way (regen_scheduler.rs,   *)
(* begin_regen, finish_regen).                                             *)
THEOREM IdleIsCaughtUp == ASSUME CatchUpKinds PROVE Spec => []IdleShowsDocument
<1>1. CatchUpInv => IdleShowsDocument
  BY DEF CatchUpInv, CaughtUp, IdleShowsDocument, Settled, Alone, Behind
<1>. QED
  BY <1>1, CatchUpInvariant, PTL

=============================================================================
