----------------------- MODULE CommitCorrelationProofs -----------------------
(***************************************************************************)
(* What the frontend learns of its commands, proved for any records, any   *)
(* files to open and any number of commands.                               *)
(*                                                                         *)
(* KindInv says what each part is, and what the phase of a command says of *)
(* its awaiter, answer and verdict. It needs no hypothesis.                *)
(* OpenInv says that commands are handled in the order they were sent,     *)
(* that documents are opened one after the other, and that while any open  *)
(* is still to be heard of the newest one is.                              *)
(* SnapInv says what the snapshot of the frontend will be once the events  *)
(* in flight are heard: the last change of the document open now carries   *)
(* the snapshot that document shows; with no such change in flight the     *)
(* frontend holds it already, or its document is still to be heard of and  *)
(* has none.                                                               *)
(* BusyInv says the same of the busy count: starts and ends take turns in  *)
(* the queue, and a start without an end is that of the job that runs.     *)
(* The two theorems on what is heard leave out the orders that do break    *)
(* them: "late_event" (an event of a document left behind, heard after the *)
(* answer of the open), "fast_open" (an event of a document, heard before  *)
(* the answer that opened it) and "abandoned" (a job that ends without a   *)
(* report).                                                                *)
(***************************************************************************)
EXTENDS CommitCorrelation, SequenceTheorems, WellFoundedInduction, TLAPS

Snaps    == Nat \X Nat
Pasts    == [recs : Seq(Records), cursor : Nat, model : BOOLEAN]
Docs     == [inst : Nat, id : Nat, rev : Nat, recs : Seq(Records), cursor : Nat,
             status : [Records -> Statuses], past : Seq(Pasts), snap : Snaps, shown : BOOLEAN]
Jobs     == [inst : Nat, source : Nat, cancelled : BOOLEAN]
Scheds   == [on : BOOLEAN, from : Int, job : Jobs, gate : SUBSET Nat]

ProjectionEvents == [type : {"projection"}, inst : Nat, view : Views]
Starts   == [type : {"started"}, inst : Nat]
Changes  == [type : {"change"}, inst : Nat, rev : Nat, snap : Snaps]
Outcomes == {"published", "noop", "superseded", "cancelled", "failed"}
Finishes == [type : {"finished"}, inst : Nat, rev : Nat, source : Nat, outcome : Outcomes,
             ran : SUBSET Records, bad : SUBSET Records, repair : SUBSET Records]
Events   == ProjectionEvents \cup Starts \cup Changes \cup Finishes

Answers  == [ok : {TRUE}, inst : Nat, view : Views]
Terminals == Outcomes \cup {"none", "timeout", "needsRepair", "threw", "inert"}
Verdicts == [terminal : Terminals, change : Nat, rev : Nat, by : {NoReport} \cup Changes \cup Finishes]
Cmds     == [kind : Kinds, rec : Records, phase : {"sent", "answered", "waiting", "done"},
             waits : BOOLEAN, buffered : Nat, answer : {NoAnswer} \cup Answers, verdict : Verdicts]

-----------------------------------------------------------------------------
(* The invariants.                                                         *)

(* A document: its cursor, and that of each state it can go back to, lies  *)
(* among its records.                                                      *)
DocKind(d) ==
    /\ d \in Docs /\ d.inst >= 1 /\ d.cursor <= Len(d.recs)
    /\ \A i \in DOMAIN d.past : d.past[i].cursor <= Len(d.past[i].recs)

(* What the phase of a command says of its awaiter, answer and verdict,    *)
(* when "inst" documents have been opened.                                 *)
CmdKind(c, inst) ==
    /\ c \in Cmds
    /\ c.phase = "sent" => c.answer = NoAnswer
    /\ c.phase = "waiting" => c.waits /\ c.answer.ok
    /\ c.phase = "done" => ~c.waits
    /\ c.kind \in {"rename", "open"} => ~c.waits
    /\ c.phase # "sent" /\ c.kind \in {"undo", "open"} => c.answer.ok
    /\ c.answer.ok => c.answer.inst <= inst /\ c.answer.view.cursor <= Len(c.answer.view.recs)
    /\ c.phase = "done" /\ c.verdict.terminal \in {"published", "noop", "needsRepair"} => c.answer.ok

(* An event; a projection's cursor lies among its records.                 *)
EventKind(e) == e \in Events /\ (e.type = "projection" => e.view.cursor <= Len(e.view.recs))

(* Every part is of its kind.                                              *)
KindInv ==
    /\ DocKind(doc) /\ sched \in Scheds /\ sched.job.inst <= doc.inst
    /\ store \in Views /\ store.cursor <= Len(store.recs)
    /\ events \in Seq(Events) /\ \A k \in DOMAIN events : EventKind(events[k])
    /\ last \in Nat /\ snapshot \in Snaps /\ busy \in Nat
    /\ cmds \in Seq(Cmds) /\ \A i \in DOMAIN cmds : CmdKind(cmds[i], doc.inst)

(* Documents are opened one after the other, and heard of in that order.   *)
Unheard(inst) == \E i \in OpenUnanswered : cmds[i].answer.inst = inst

OpenInv ==
    /\ \A i, j \in DOMAIN cmds : i < j /\ cmds[i].phase = "sent" => cmds[j].phase = "sent"
    /\ \A i, j \in DOMAIN cmds : i < j /\ Opens(cmds[i]) /\ Opens(cmds[j]) /\ cmds[j].phase # "sent" =>
         cmds[i].answer.inst < cmds[j].answer.inst
    /\ OpenUnanswered # {} => Unheard(doc.inst)

(* The events that bring a snapshot.                                       *)
IsChange(k)  == events[k].type = "change"
LastChange(k) == IsChange(k) /\ \A m \in DOMAIN events : m > k => ~IsChange(m)

(* What the frontend will hold as the snapshot once the events are heard.  *)
SnapInv ==
    /\ \A k \in DOMAIN events : IsChange(k) =>
         /\ events[k].inst <= doc.inst
         /\ events[k].inst < doc.inst => OpenUnanswered # {}
    /\ \A k \in DOMAIN events : LastChange(k) /\ events[k].inst = doc.inst => events[k].snap = doc.snap
    /\ (\A k \in DOMAIN events : IsChange(k) => events[k].inst # doc.inst) =>
         IF Unheard(doc.inst) THEN doc.snap = NoSnapshot ELSE snapshot = doc.snap

(* The events that raise and lower the busy count.                         *)
IsStart(k)  == events[k].type = "started"
IsFinish(k) == events[k].type = "finished"
(* A start not yet followed by its end.                                    *)
Trails(k) == IsStart(k) /\ \A m \in DOMAIN events : m > k => ~IsFinish(m)

(* Between two starts there is an end, and what is counted now is ended    *)
(* before the next start; a start without an end is the start of the job   *)
(* that runs.                                                              *)
BusyInv ==
    /\ busy \in {0, 1}
    /\ \A k, m \in DOMAIN events : k < m /\ IsStart(k) /\ IsStart(m) =>
         \E n \in DOMAIN events : k < n /\ n < m /\ IsFinish(n)
    /\ busy = 1 => \A k \in DOMAIN events : IsStart(k) => \E n \in DOMAIN events : n < k /\ IsFinish(n)
    /\ sched.job = NoJob => /\ \A k \in DOMAIN events : ~Trails(k)
                            /\ busy = 1 => \E n \in DOMAIN events : IsFinish(n)
    /\ sched.job # NoJob => \A k \in DOMAIN events : Trails(k) => events[k].inst = sched.job.inst
    /\ sched.job # NoJob /\ sched.job.inst = doc.inst =>
         \/ \E k \in DOMAIN events : Trails(k)
         \/ ~Unheard(doc.inst) /\ busy = 1 /\ \A n \in DOMAIN events : ~IsFinish(n)

-----------------------------------------------------------------------------
(* Sequences.                                                              *)

(* A queue is its length and its members.                                  *)
LEMMA SeqIs ==
    ASSUME NEW T, NEW s \in Seq(T)
    PROVE  /\ Len(s) \in Nat /\ DOMAIN s = 1 .. Len(s)
           /\ \A i \in DOMAIN s : s[i] \in T
  BY LenProperties, ElementOfSeq

(* A function on the first places is a queue.                              *)
LEMMA FunctionIsQueue ==
    ASSUME NEW T, NEW n \in Nat, NEW t \in [1 .. n -> T]
    PROVE  t \in Seq(T) /\ Len(t) = n
<1>1. t \in Seq(T)
  BY SeqDef
<1>2. Len(t) \in Nat /\ DOMAIN t = 1 .. Len(t)
  BY <1>1, LenProperties
<1>. QED
  BY <1>1, <1>2

(* What a function on the places of a queue makes of it is a queue.        *)
LEMMA SeqMap ==
    ASSUME NEW T, NEW s \in Seq(T), NEW U, NEW t, DOMAIN t = DOMAIN s,
           t = [i \in DOMAIN s |-> t[i]], \A i \in DOMAIN s : t[i] \in U
    PROVE  t \in Seq(U) /\ Len(t) = Len(s)
<1>1. Len(s) \in Nat /\ DOMAIN s = 1 .. Len(s)
  BY SeqIs
<1>2. t \in [1 .. Len(s) -> U]
  BY <1>1
<1>. QED
  BY <1>1, <1>2, SeqDef, LenProperties

(* What comes to the end of a queue.                                       *)
LEMMA QueueGrows ==
    ASSUME NEW T, NEW s \in Seq(T), NEW t \in Seq(T)
    PROVE  /\ s \o t \in Seq(T) /\ Len(s \o t) = Len(s) + Len(t)
           /\ DOMAIN (s \o t) = 1 .. Len(s) + Len(t)
           /\ \A i \in DOMAIN s : (s \o t)[i] = s[i]
           /\ \A i \in DOMAIN t : (s \o t)[Len(s) + i] = t[i]
  BY ConcatProperties, LenProperties, SeqIs

(* One more at the end of a queue.                                         *)
LEMMA QueueGrowsByOne ==
    ASSUME NEW T, NEW s \in Seq(T), NEW e \in T
    PROVE  /\ Append(s, e) \in Seq(T) /\ Len(Append(s, e)) = Len(s) + 1
           /\ DOMAIN Append(s, e) = 1 .. Len(s) + 1
           /\ \A i \in DOMAIN s : Append(s, e)[i] = s[i]
           /\ Append(s, e)[Len(s) + 1] = e
  BY AppendProperties, LenProperties, SeqIs

(* What leaves its front.                                                  *)
LEMMA QueueShrinks ==
    ASSUME NEW T, NEW s \in Seq(T), s # <<>>
    PROVE  /\ Tail(s) \in Seq(T) /\ Len(Tail(s)) = Len(s) - 1 /\ Len(s) > 0
           /\ DOMAIN Tail(s) = 1 .. Len(s) - 1 /\ 1 \in DOMAIN s /\ Head(s) = s[1]
           /\ \A i \in DOMAIN Tail(s) : i + 1 \in DOMAIN s /\ Tail(s)[i] = s[i + 1]
<1>1. Len(s) \in Nat /\ Len(s) # 0 /\ DOMAIN s = 1 .. Len(s)
  BY EmptySeq, LenProperties, SeqIs
<1>2. Tail(s) \in Seq(T) /\ Len(Tail(s)) = Len(s) - 1 /\ Head(s) = s[1]
      /\ \A i \in 1 .. Len(Tail(s)) : Tail(s)[i] = s[i + 1]
  BY HeadTailProperties
<1>. QED
  BY <1>1, <1>2, LenProperties

(* One queue after the other.                                              *)
LEMMA JoinIs ==
    ASSUME NEW T, NEW s \in Seq(T), NEW t \in Seq(T), NEW u, u = s \o t
    PROVE  /\ u \in Seq(T) /\ Len(u) = Len(s) + Len(t) /\ Len(s) \in Nat /\ Len(t) \in Nat
           /\ \A k \in 1 .. Len(s) : u[k] = s[k]
           /\ \A k \in Len(s) + 1 .. Len(s) + Len(t) : u[k] = t[k - Len(s)]
<1>1. Len(s) \in Nat /\ Len(t) \in Nat
  BY LenProperties
<1>2. /\ u \in Seq(T) /\ Len(u) = Len(s) + Len(t)
      /\ \A k \in 1 .. Len(s) + Len(t) : u[k] = IF k <= Len(s) THEN s[k] ELSE t[k - Len(s)]
  BY ConcatProperties
<1>. QED
  BY <1>1, <1>2

(* A record put between two others moves the later ones on by one place.   *)
LEMMA InsertIs ==
    ASSUME NEW T, NEW s \in Seq(T), NEW i \in 1 .. Len(s) + 1, NEW e \in T,
           NEW t, t = InsertAt(s, i, e)
    PROVE  /\ t \in Seq(T) /\ Len(t) = Len(s) + 1
           /\ \A k \in 1 .. i - 1 : t[k] = s[k]
           /\ t[i] = e
           /\ \A k \in i + 1 .. Len(s) + 1 : t[k] = s[k - 1]
<1>1. Len(s) \in Nat /\ DOMAIN s = 1 .. Len(s) /\ \A k \in 1 .. Len(s) : s[k] \in T
  BY SeqIs
<1>. DEFINE a == SubSeq(s, 1, i - 1)  z == SubSeq(s, i, Len(s))  u == <<e>>  m == a \o u
<1>2. a \in Seq(T) /\ Len(a) = i - 1 /\ \A k \in 1 .. i - 1 : a[k] = s[k]
  BY <1>1, SubSeqProperties
<1>3. z \in Seq(T) /\ Len(z) = Len(s) - i + 1 /\ \A k \in 1 .. Len(s) - i + 1 : z[k] = s[i + k - 1]
  BY <1>1, SubSeqProperties
<1>4. u \in Seq(T) /\ Len(u) = 1 /\ u[1] = e
  OBVIOUS
<1>5. t = m \o z
  BY DEF InsertAt
<1>. HIDE DEF a, z, u
<1>6. m = a \o u
  OBVIOUS
<1>. HIDE DEF m
<1>7. m \in Seq(T) /\ Len(m) = i /\ m[i] = e /\ \A k \in 1 .. i - 1 : m[k] = s[k]
  <2>1. /\ m \in Seq(T) /\ Len(m) = Len(a) + Len(u)
        /\ \A k \in 1 .. Len(a) : m[k] = a[k]
        /\ \A k \in Len(a) + 1 .. Len(a) + Len(u) : m[k] = u[k - Len(a)]
    <3>1. a \in Seq(T) /\ u \in Seq(T)
      BY <1>2, <1>4
    <3>. QED
      BY <1>6, <3>1, JoinIs
  <2>. QED
    BY <1>1, <1>2, <1>4, <2>1
<1>8. /\ t \in Seq(T) /\ Len(t) = Len(m) + Len(z)
      /\ \A k \in 1 .. Len(m) : t[k] = m[k]
      /\ \A k \in Len(m) + 1 .. Len(m) + Len(z) : t[k] = z[k - Len(m)]
  BY <1>3, <1>5, <1>7, JoinIs
<1>. QED
  BY <1>1, <1>3, <1>7, <1>8

(* A record taken out lets the later ones back by one place.               *)
LEMMA RemoveIs ==
    ASSUME NEW T, NEW s \in Seq(T), NEW i \in 1 .. Len(s), NEW t, t = RemoveAt(s, i)
    PROVE  /\ t \in Seq(T) /\ Len(t) = Len(s) - 1
           /\ \A k \in 1 .. i - 1 : t[k] = s[k]
           /\ \A k \in i .. Len(s) - 1 : t[k] = s[k + 1]
<1>1. Len(s) \in Nat /\ DOMAIN s = 1 .. Len(s) /\ \A k \in 1 .. Len(s) : s[k] \in T
  BY SeqIs
<1>. DEFINE a == SubSeq(s, 1, i - 1)  z == SubSeq(s, i + 1, Len(s))
<1>2. a \in Seq(T) /\ Len(a) = i - 1 /\ \A k \in 1 .. i - 1 : a[k] = s[k]
  <2>1. \A k \in 1 .. i - 1 : s[k] \in T
    BY <1>1
  <2>. QED
    BY <1>1, <2>1, SubSeqProperties
<1>3. z \in Seq(T) /\ Len(z) = Len(s) - i /\ \A k \in 1 .. Len(s) - i : z[k] = s[i + k]
  <2>1. \A k \in i + 1 .. Len(s) : s[k] \in T
    BY <1>1
  <2>2. i + 1 \in Int /\ Len(s) \in Int
    BY <1>1
  <2>3. /\ z \in Seq(T)
        /\ Len(z) = IF i + 1 <= Len(s) THEN Len(s) - (i + 1) + 1 ELSE 0
        /\ \A k \in 1 .. Len(s) - (i + 1) + 1 : z[k] = s[i + 1 + k - 1]
    BY <2>1, <2>2, SubSeqProperties
  <2>. HIDE DEF z
  <2>4. ASSUME NEW k \in 1 .. Len(s) - i PROVE z[k] = s[i + k]
    <3>1. k \in 1 .. Len(s) - (i + 1) + 1 /\ i + 1 + k - 1 = i + k
      BY <1>1
    <3>. QED
      BY <2>3, <3>1
  <2>5. Len(z) = Len(s) - i
    <3>1. Len(s) \in Nat /\ i \in 1 .. Len(s) /\ Len(z) = IF i + 1 <= Len(s) THEN Len(s) - (i + 1) + 1 ELSE 0
      BY <1>1, <2>3
    <3>2. CASE i + 1 <= Len(s)
      BY <3>1, <3>2
    <3>3. CASE i = Len(s)
      BY <3>1, <3>3
    <3>. QED
      BY <3>1, <3>2, <3>3
  <2>. QED
    BY <2>3, <2>4, <2>5
<1>4. t = a \o z
  BY DEF RemoveAt
<1>. HIDE DEF a, z
<1>5. /\ t \in Seq(T) /\ Len(t) = Len(a) + Len(z)
      /\ \A k \in 1 .. Len(a) : t[k] = a[k]
      /\ \A k \in Len(a) + 1 .. Len(a) + Len(z) : t[k] = z[k - Len(a)]
  <2>1. a \in Seq(T) /\ z \in Seq(T)
    BY <1>2, <1>3
  <2>. QED
    BY <1>4, <2>1, JoinIs
<1>6. Len(t) = Len(s) - 1 /\ \A k \in 1 .. i - 1 : t[k] = s[k]
  BY <1>1, <1>2, <1>3, <1>5
<1>7. ASSUME NEW k \in i .. Len(s) - 1 PROVE t[k] = s[k + 1]
  <2>1. k \in Len(a) + 1 .. Len(a) + Len(z) /\ k - Len(a) \in 1 .. Len(s) - i /\ i + (k - Len(a)) = k + 1
    BY <1>1, <1>2, <1>3
  <2>2. t[k] = z[k - Len(a)] /\ z[k - Len(a)] = s[i + (k - Len(a))]
    BY <1>3, <1>5, <2>1
  <2>. QED
    BY <2>1, <2>2
<1>. QED
  BY <1>5, <1>6, <1>7

(* The least of some numbers, and the greatest of finitely many.           *)
LEMMA LeastBy ==
    ASSUME NEW S, NEW R, IsWellFoundedOn(R, S), NEW W, W \subseteq S, W # {}
    PROVE  \E i \in W : \A j \in W : ~(<<j, i>> \in R)
  BY WFMin, SMT

(* A set of numbers that is not empty has a least one.                     *)
LEMMA LeastOf ==
    ASSUME NEW W, W \subseteq Nat, W # {}
    PROVE  \E i \in W : \A j \in W : i <= j
<1>1. IsWellFoundedOn(OpToRel(<, Nat), Nat)
  BY NatLessThanWellFounded
<1>2. \A x, y \in Nat : x < y => <<x, y>> \in OpToRel(<, Nat)
  BY DEF OpToRel
<1>3. PICK i \in W : \A j \in W : ~(<<j, i>> \in OpToRel(<, Nat))
  BY <1>1, LeastBy, Zenon
<1>4. ASSUME NEW j \in W PROVE i <= j
  <2>1. i \in Nat /\ j \in Nat
    OBVIOUS
  <2>2. ~(j < i)
    BY <1>2, <1>3, <2>1, Zenon
  <2>. QED
    BY <2>1, <2>2
<1>. QED
  BY <1>4

(* A set of places that is not empty has a last one.                       *)
LEMMA GreatestOf ==
    ASSUME NEW n \in Nat, NEW W, W \subseteq 1 .. n, W # {}
    PROVE  \E i \in W : \A j \in W : j <= i
<1>. DEFINE V == {n - i : i \in W}
<1>1. V \subseteq Nat
  <2>. SUFFICES ASSUME NEW i \in W PROVE n - i \in Nat
    OBVIOUS
  <2>1. i \in 1 .. n
    OBVIOUS
  <2>. QED
    BY <2>1
<1>2. V # {}
  OBVIOUS
<1>3. PICK v \in V : \A u \in V : v <= u
  BY <1>1, <1>2, LeastOf
<1>4. PICK i \in W : v = n - i
  OBVIOUS
<1>5. ASSUME NEW j \in W PROVE j <= i
  <2>1. i \in 1 .. n /\ j \in 1 .. n /\ n - i <= n - j
    BY <1>3, <1>4
  <2>. QED
    BY <2>1
<1>. QED
  BY <1>5

-----------------------------------------------------------------------------
(* The documents and the events of the backend.                            *)

(* What a document shows of itself is a projection the frontend can hold.  *)
LEMMA ProjectionKind ==
    ASSUME NEW d, DocKind(d)
    PROVE  /\ Projection(d) \in Views /\ ProjectionEvent(d) \in ProjectionEvents
           /\ EventKind(ProjectionEvent(d)) /\ ProjectionEvent(d).type = "projection"
           /\ ProjectionEvent(d).view = Projection(d) /\ ProjectionEvent(d).inst = d.inst
  BY DEF DocKind, Docs, Projection, ProjectionEvent, ProjectionEvents, EventKind, Events, Views

(* The report at the end of a regen names the document, the revision it    *)
(* ran from and its outcome.                                               *)
LEMMA FinishKind ==
    ASSUME NEW d, DocKind(d), NEW job, job.inst \in Nat, job.source \in Nat, NEW outcome \in Outcomes,
           NEW ran \in SUBSET Records, NEW bad \in SUBSET Records, NEW repair \in SUBSET Records
    PROVE  LET e == Finished(d, job, outcome, ran, bad, repair)
           IN /\ e \in Finishes /\ EventKind(e) /\ e.type = "finished" /\ e.inst = job.inst /\ e.rev = d.rev
              /\ e.source = job.source /\ e.outcome = outcome
              /\ e.ran = ran /\ e.bad = bad /\ e.repair = repair
  BY DEF DocKind, Docs, Finished, Finishes, EventKind, Events

(* A document just opened shows no snapshot.                               *)
LEMMA OpenedKind ==
    ASSUME NEW inst \in Nat, inst >= 1, NEW id \in Nat, NEW recs \in Seq(Records),
           NEW d, d = Runtime(inst, id, recs)
    PROVE  DocKind(d) /\ d.inst = inst /\ d.id = id /\ d.snap = NoSnapshot
<1>1. Len(recs) \in Nat /\ Dirty \in [Records -> Statuses] /\ NoSnapshot \in Snaps
  BY SeqIs DEF Dirty, Statuses, NoSnapshot, Snaps
<1>2. d = [inst |-> inst, id |-> id, rev |-> 1, recs |-> recs, cursor |-> Len(recs), status |-> Dirty,
           past |-> <<>>, snap |-> NoSnapshot, shown |-> FALSE]
  BY DEF Runtime
<1>3. <<>> \in Seq(Pasts) /\ DOMAIN <<>> = {}
  OBVIOUS
<1>4. d \in Docs
  BY <1>1, <1>2, <1>3 DEF Docs
<1>. QED
  BY <1>1, <1>2, <1>3, <1>4 DEF DocKind

(* An edit counts the revision up, and leaves the file, the snapshot and   *)
(* the mesh.                                                               *)
LEMMA MutatedKind ==
    ASSUME NEW d, DocKind(d), NEW recs \in Seq(Records), NEW cursor \in 0 .. Len(recs), NEW model \in BOOLEAN,
           NEW e, e = Mutated(d, recs, cursor, model)
    PROVE  /\ DocKind(e) /\ e.inst = d.inst /\ e.id = d.id /\ e.snap = d.snap /\ e.shown = d.shown
           /\ e.rev = d.rev + 1 /\ e.recs = recs /\ e.cursor = cursor
<1>. DEFINE was == [recs |-> d.recs, cursor |-> d.cursor, model |-> model]
            past == Append(d.past, was)
<1>1. d \in Docs /\ d.cursor <= Len(d.recs) /\ Dirty \in [Records -> Statuses] /\ cursor \in Nat
  BY LenProperties DEF DocKind, Dirty, Statuses
<1>2. was \in Pasts /\ was.cursor = d.cursor /\ was.recs = d.recs
  BY <1>1 DEF Docs, Pasts
<1>. HIDE DEF was
<1>3. /\ past \in Seq(Pasts) /\ DOMAIN past = 1 .. Len(d.past) + 1 /\ Len(d.past) \in Nat
      /\ DOMAIN d.past = 1 .. Len(d.past)
      /\ \A i \in DOMAIN d.past : past[i] = d.past[i]
      /\ past[Len(d.past) + 1] = was
  BY <1>1, <1>2, QueueGrowsByOne, SeqIs DEF Docs
<1>4. \A i \in DOMAIN past : past[i].cursor <= Len(past[i].recs)
  <2>. SUFFICES ASSUME NEW i \in DOMAIN past PROVE past[i].cursor <= Len(past[i].recs)
    OBVIOUS
  <2>1. i \in DOMAIN d.past \/ i = Len(d.past) + 1
    BY <1>3
  <2>. QED
    BY <1>1, <1>2, <1>3, <2>1 DEF DocKind
<1>5. e = [inst |-> d.inst, id |-> d.id, rev |-> d.rev + 1, recs |-> recs, cursor |-> cursor,
           status |-> Dirty, past |-> past, snap |-> d.snap, shown |-> d.shown]
  BY <1>1 DEF Mutated, Docs, was
<1>. HIDE DEF past
<1>6. e \in Docs
  BY <1>1, <1>3, <1>5 DEF Docs
<1>. QED
  BY <1>1, <1>4, <1>5, <1>6 DEF DocKind

(* What a handled command is to leave: a document of the same kind, file   *)
(* and snapshot.                                                           *)
Keeps(o, d) ==
    /\ DocKind(o.doc) /\ o.doc.inst = d.inst /\ o.doc.id = d.id /\ o.doc.snap = d.snap
    /\ o.from \in Int

(* So does a command that only edits.                                      *)
LEMMA LeavesKind ==
    ASSUME NEW d, DocKind(d), NEW recs \in Seq(Records), NEW cursor \in 0 .. Len(recs), NEW model \in BOOLEAN,
           NEW o, o.doc = Mutated(d, recs, cursor, model), o.from \in Int
    PROVE  Keeps(o, d)
<1>. DEFINE e == o.doc
<1>1. e = Mutated(d, recs, cursor, model)
  OBVIOUS
<1>. HIDE DEF e
<1>2. DocKind(e) /\ e.inst = d.inst /\ e.id = d.id /\ e.snap = d.snap
  BY <1>1, MutatedKind
<1>. QED
  BY <1>2 DEF e, Keeps

(* What a command leaves of the document.                                  *)
LEMMA EditedKind ==
    ASSUME NEW d, DocKind(d), NEW c \in Cmds, ~Opens(c), ~Refused(c, d), NEW o \in Edited(c, d)
    PROVE  Keeps(o, d)
<1>1. d \in Docs /\ d.cursor \in 0 .. Len(d.recs) /\ Len(d.recs) \in Nat /\ d.recs \in Seq(Records)
      /\ DOMAIN d.recs = 1 .. Len(d.recs)
  BY SeqIs DEF DocKind, Docs
<1>2. c.kind \in {"reedit", "remove"} => Place(d, c.rec) \in 1 .. Len(d.recs)
  <2>1. c.kind \in {"reedit", "remove"} => \E i \in DOMAIN d.recs : d.recs[i] = c.rec
    BY <1>1 DEF Refused, Contains
  <2>. QED
    BY <1>1, <2>1 DEF Place
<1>3. c.rec \in Records /\ c.kind \in {"add", "reedit", "remove", "roll", "variable", "undo", "rename"}
  BY CorrelationBounds DEF Cmds, Opens
<1>4. CASE c.kind = "add"
  <2>. DEFINE recs == InsertAt(d.recs, d.cursor + 1, c.rec)
  <2>1. recs \in Seq(Records) /\ Len(recs) = Len(d.recs) + 1
    <3>1. d.cursor + 1 \in 1 .. Len(d.recs) + 1
      BY <1>1
    <3>. QED
      BY <1>1, <1>3, <3>1, InsertIs
  <2>2. o.doc = Mutated(d, recs, d.cursor + 1, TRUE) /\ o.from \in Int
    <3>1. o = [doc |-> Mutated(d, recs, d.cursor + 1, TRUE), from |-> d.cursor]
      BY <1>4 DEF Edited
    <3>. QED
      BY <1>1, <3>1
  <2>3. d.cursor + 1 \in 0 .. Len(recs)
    BY <1>1, <2>1
  <2>. HIDE DEF recs
  <2>. QED
    BY <2>1, <2>2, <2>3, LeavesKind
<1>5. CASE c.kind = "reedit"
  <2>1. o.doc = Mutated(d, d.recs, d.cursor, TRUE) /\ o.from \in Int
    <3>1. o = [doc |-> Mutated(d, d.recs, d.cursor, TRUE), from |-> Place(d, c.rec) - 1]
      BY <1>5 DEF Edited
    <3>. QED
      BY <1>2, <1>5, <3>1
  <2>. QED
    BY <1>1, <2>1, LeavesKind
<1>6. CASE c.kind = "remove"
  <2>. DEFINE i == Place(d, c.rec)  recs == RemoveAt(d.recs, i)
              cursor == IF i <= d.cursor THEN d.cursor - 1 ELSE d.cursor
  <2>1. i \in 1 .. Len(d.recs)
    BY <1>2, <1>6
  <2>2. o = [doc |-> Mutated(d, recs, cursor, TRUE), from |-> i - 1]
    BY <1>6 DEF Edited
  <2>. HIDE DEF i
  <2>3. recs \in Seq(Records) /\ Len(recs) = Len(d.recs) - 1
    BY <1>1, <2>1, RemoveIs
  <2>. HIDE DEF recs
  <2>4. cursor \in 0 .. Len(recs)
    BY <1>1, <2>1, <2>3
  <2>. HIDE DEF cursor
  <2>5. o.doc = Mutated(d, recs, cursor, TRUE) /\ o.from \in Int
    BY <2>1, <2>2
  <2>. QED
    BY <2>3, <2>4, <2>5, LeavesKind
<1>7. CASE c.kind = "roll"
  <2>1. PICK k \in 1 .. Len(d.recs) :
          o = [doc |-> Mutated(d, d.recs, k, TRUE), from |-> IF k = d.cursor THEN -1 ELSE 0]
    BY <1>7 DEF Edited
  <2>2. o.doc = Mutated(d, d.recs, k, TRUE) /\ o.from \in Int /\ k \in 0 .. Len(d.recs)
    BY <1>1, <2>1
  <2>. QED
    BY <1>1, <2>2, LeavesKind
<1>8. CASE c.kind = "variable"
  <2>1. o.doc = Mutated(d, d.recs, d.cursor, d.recs # <<>>) /\ o.from \in Int /\ (d.recs # <<>>) \in BOOLEAN
    BY <1>8 DEF Edited
  <2>. QED
    BY <1>1, <2>1, LeavesKind
<1>9. CASE c.kind = "rename"
  <2>1. o.doc = Mutated(d, d.recs, d.cursor, FALSE) /\ o.from \in Int
    <3>1. o = [doc |-> Mutated(d, d.recs, d.cursor, FALSE), from |-> -1]
      BY <1>9 DEF Edited
    <3>. QED
      BY <3>1
  <2>. QED
    BY <1>1, <2>1, LeavesKind
<1>10. CASE c.kind = "undo" /\ d.past = <<>>
  <2>1. o = [doc |-> d, from |-> -1]
    BY <1>10 DEF Edited
  <2>. QED
    BY <2>1 DEF Keeps
<1>11. CASE c.kind = "undo" /\ d.past # <<>>
  <2>1. o = LET was == Last(d.past) IN
              [doc |-> [d EXCEPT !.rev = @ + 1, !.recs = was.recs, !.cursor = was.cursor,
                                 !.status = Dirty, !.past = Front(@)],
               from |-> IF was.model THEN 0 ELSE -1]
    BY <1>11 DEF Edited
  <2>2. d.past \in Seq(Pasts) /\ Len(d.past) \in Nat /\ Len(d.past) # 0 /\ DOMAIN d.past = 1 .. Len(d.past)
    BY <1>1, <1>11, EmptySeq, SeqIs DEF Docs
  <2>. DEFINE was == Last(d.past)  past == Front(d.past)
  <2>3. was \in Pasts /\ was.cursor <= Len(was.recs)
    BY <2>2, SeqIs DEF Last, DocKind
  <2>4. past \in Seq(Pasts) /\ DOMAIN past \subseteq DOMAIN d.past /\ \A i \in DOMAIN past : past[i] = d.past[i]
    <3>1. Len(d.past) - 1 \in Int /\ \A i \in 1 .. Len(d.past) - 1 : d.past[i] \in Pasts
      BY <2>2, SeqIs
    <3>2. /\ past \in Seq(Pasts)
          /\ Len(past) = IF 1 <= Len(d.past) - 1 THEN Len(d.past) - 1 - 1 + 1 ELSE 0
          /\ \A i \in 1 .. Len(d.past) - 1 - 1 + 1 : past[i] = d.past[1 + i - 1]
      BY <3>1, SubSeqProperties DEF Front
    <3>. HIDE DEF past
    <3>3. DOMAIN past = 1 .. Len(d.past) - 1
      BY <2>2, <3>2, SeqIs
    <3>4. \A i \in 1 .. Len(d.past) - 1 : past[i] = d.past[i]
      BY <2>2, <3>2
    <3>. QED
      BY <2>2, <3>2, <3>3, <3>4
  <2>. HIDE DEF was, past
  <2>5. o.doc = [inst |-> d.inst, id |-> d.id, rev |-> d.rev + 1, recs |-> was.recs, cursor |-> was.cursor,
                 status |-> Dirty, past |-> past, snap |-> d.snap, shown |-> d.shown]
        /\ o.from \in Int
    <3>1. o.doc = [d EXCEPT !.rev = d.rev + 1, !.recs = was.recs, !.cursor = was.cursor,
                            !.status = Dirty, !.past = past]
          /\ o.from \in Int
      BY <1>1, <2>1 DEF was, past
    <3>. QED
      BY <1>1, <3>1 DEF Docs
  <2>6. o.doc \in Docs
    BY <1>1, <2>3, <2>4, <2>5 DEF Docs, Pasts, Dirty, Statuses
  <2>. QED
    BY <1>1, <2>3, <2>4, <2>5, <2>6 DEF DocKind, Keeps
<1>. QED
  BY <1>3, <1>4, <1>5, <1>6, <1>7, <1>8, <1>9, <1>10, <1>11

(* A request changes what is to run next, never which document runs.       *)
LEMMA RequestKind ==
    ASSUME NEW s \in Scheds, NEW from \in Int
    PROVE  Request(s, from) \in Scheds /\ Request(s, from).job.inst = s.job.inst
           /\ (Request(s, from).job = NoJob <=> s.job = NoJob)
<1>. DEFINE job == IF s.job = NoJob THEN s.job ELSE [s.job EXCEPT !.cancelled = TRUE]
<1>1. s = [on |-> s.on, from |-> s.from, job |-> s.job, gate |-> s.gate] /\ s.job \in Jobs /\ s.gate \in SUBSET Nat
  BY DEF Scheds
<1>2. job \in Jobs /\ job.inst = s.job.inst /\ (job = NoJob <=> s.job = NoJob)
  BY <1>1 DEF Jobs, NoJob
<1>3. Request(s, from) = [s EXCEPT !.on = TRUE, !.from = from, !.job = job]
  BY DEF Request
<1>. HIDE DEF job
<1>4. Request(s, from) = [on |-> TRUE, from |-> from, job |-> job, gate |-> s.gate]
  BY <1>3 DEF Scheds
<1>. QED
  BY <1>1, <1>2, <1>4 DEF Scheds

(* A scheduler that starts or ends a job is still one.                     *)
LEMMA JobChanges ==
    ASSUME NEW s \in Scheds, NEW on \in BOOLEAN, NEW job \in Jobs, NEW t, t = [s EXCEPT !.on = on, !.job = job]
    PROVE  t \in Scheds /\ t.job = job
<1>1. t = [on |-> on, from |-> s.from, job |-> job, gate |-> s.gate]
  BY DEF Scheds
<1>. QED
  BY <1>1 DEF Scheds

(* So is one whose gate is opened.                                         *)
LEMMA GateChanges ==
    ASSUME NEW s \in Scheds, NEW gate \in SUBSET Nat, NEW t, t = [s EXCEPT !.gate = gate]
    PROVE  t \in Scheds /\ t.job = s.job
<1>1. t = [on |-> s.on, from |-> s.from, job |-> s.job, gate |-> gate]
  BY DEF Scheds
<1>. QED
  BY <1>1 DEF Scheds

(* A command answered well holds a projection.                             *)
LEMMA AnswerIs ==
    ASSUME NEW n, NEW c, CmdKind(c, n), c.answer.ok
    PROVE  c.answer \in Answers /\ c.answer.inst \in Nat /\ c.answer.view \in Views /\ c.answer.view.rev \in Nat
<1>1. c.answer \in {NoAnswer} \cup Answers
  BY DEF CmdKind, Cmds
<1>2. c.answer # NoAnswer
  BY DEF NoAnswer
<1>. QED
  BY <1>1, <1>2 DEF Answers, Views

(* Everything said of a command stays true while documents are opened.     *)
LEMMA KindStays ==
    ASSUME NEW n \in Nat, NEW c, CmdKind(c, n)
    PROVE  CmdKind(c, n + 1)
<1>1. c \in Cmds /\ (c.answer.ok => c.answer.inst \in Nat)
  BY AnswerIs DEF CmdKind
<1>. QED
  BY <1>1 DEF CmdKind

-----------------------------------------------------------------------------
(* What the frontend does with a command.                                  *)

(* Nothing the frontend hears changes what a command is, or its answer;    *)
(* an open is settled by nothing but its own answer.                       *)
Moves(c, d) ==
    /\ d.kind = c.kind /\ d.rec = c.rec /\ d.answer = c.answer
    /\ d.phase = "sent" <=> c.phase = "sent"
    /\ Opens(c) => d.phase = c.phase

(* A verdict by its parts.                                                 *)
LEMMA VerdictKind ==
    ASSUME NEW terminal \in Terminals, NEW change \in Nat, NEW rev \in Nat,
           NEW by \in {NoReport} \cup Changes \cup Finishes
    PROVE  Verdict(terminal, change, rev, by) \in Verdicts /\ Verdict(terminal, change, rev, by).terminal = terminal
  BY DEF Verdict, Verdicts

(* A command that is settled, with a verdict its answer allows.            *)
LEMMA DoneKind ==
    ASSUME NEW n, NEW c, CmdKind(c, n), c.phase # "sent", NEW v \in Verdicts,
           v.terminal \in {"published", "noop", "needsRepair"} => c.answer.ok
    PROVE  CmdKind(Done(c, v), n) /\ Done(c, v).phase = "done" /\ Done(c, v).kind = c.kind
           /\ (~Opens(c) => Moves(c, Done(c, v)))
<1>. DEFINE d == [kind |-> c.kind, rec |-> c.rec, phase |-> "done", waits |-> FALSE, buffered |-> c.buffered,
                  answer |-> c.answer, verdict |-> v]
<1>1. c \in Cmds
  BY DEF CmdKind
<1>2. Done(c, v) = d
  <2>1. Done(c, v) = [c EXCEPT !.phase = "done", !.waits = FALSE, !.verdict = v]
    BY DEF Done
  <2>. QED
    BY <1>1, <2>1 DEF Cmds
<1>3. d \in Cmds
  BY <1>1 DEF Cmds
<1>. QED
  BY <1>2, <1>3 DEF CmdKind, Moves, Opens

(* A command whose wait is given up.                                       *)
LEMMA TimedOutKind ==
    ASSUME NEW n, NEW c, CmdKind(c, n), c.answer.ok, c.phase # "sent", ~Opens(c)
    PROVE  CmdKind(TimedOut(c), n) /\ Moves(c, TimedOut(c))
<1>. DEFINE v == Verdict("timeout", 0, c.answer.view.rev, NoReport)
<1>1. v \in Verdicts /\ v.terminal = "timeout"
  <2>1. c.answer.view.rev \in Nat /\ "timeout" \in Terminals
    BY AnswerIs DEF Terminals
  <2>. QED
    BY <2>1, VerdictKind
<1>. HIDE DEF v
<1>2. CmdKind(Done(c, v), n) /\ Moves(c, Done(c, v))
  BY <1>1, DoneKind
<1>. QED
  BY <1>2 DEF TimedOut, v

(* What waits was answered, and is not an open.                            *)
LEMMA WaitsKind ==
    ASSUME NEW n, NEW c, CmdKind(c, n), c.phase = "waiting"
    PROVE  ~Opens(c) /\ c.answer.ok /\ c.waits
  BY DEF CmdKind, Opens

(* A command that waits hears a change.                                    *)
LEMMA OnChangeKind ==
    ASSUME NEW n, NEW c, CmdKind(c, n), c.phase = "waiting", NEW e \in Changes
    PROVE  CmdKind(OnChange(c, e), n) /\ Moves(c, OnChange(c, e))
<1>1. ~Opens(c) /\ c.answer.ok /\ e.rev \in Nat /\ c \in Cmds
  BY WaitsKind DEF Changes, CmdKind
<1>2. CASE SettlesOnFinish(c)
  <2>. DEFINE d == [kind |-> c.kind, rec |-> c.rec, phase |-> c.phase, waits |-> c.waits, buffered |-> e.rev,
                    answer |-> c.answer, verdict |-> c.verdict]
  <2>1. OnChange(c, e) = d
    BY <1>1, <1>2 DEF OnChange, Cmds
  <2>2. d \in Cmds
    BY <1>1 DEF Cmds
  <2>. QED
    BY <2>1, <2>2 DEF CmdKind, Moves
<1>3. CASE ~SettlesOnFinish(c)
  <2>. DEFINE v == Verdict("published", e.rev, e.rev, e)
  <2>1. v \in Verdicts
    BY <1>1, VerdictKind DEF Terminals, Outcomes
  <2>2. OnChange(c, e) = Done(c, v)
    BY <1>3 DEF OnChange
  <2>. HIDE DEF v
  <2>3. CmdKind(Done(c, v), n) /\ Moves(c, Done(c, v))
    BY <1>1, <2>1, DoneKind
  <2>. QED
    BY <2>2, <2>3
<1>. QED
  BY <1>2, <1>3

(* A command that waits hears the end of a regen.                          *)
LEMMA OnFinishKind ==
    ASSUME NEW n, NEW c, CmdKind(c, n), c.phase = "waiting", NEW e \in Finishes, last \in Nat
    PROVE  CmdKind(OnFinish(c, e), n) /\ Moves(c, OnFinish(c, e))
<1>1. ~Opens(c) /\ c.answer.ok /\ e.rev \in Nat /\ c \in Cmds /\ c.buffered \in Nat
  BY WaitsKind DEF Finishes, CmdKind, Cmds
<1>2. ASSUME NEW v \in Verdicts, OnFinish(c, e) = Done(c, v)
      PROVE  CmdKind(OnFinish(c, e), n) /\ Moves(c, OnFinish(c, e))
  <2>1. CmdKind(Done(c, v), n) /\ Moves(c, Done(c, v))
    BY <1>1, DoneKind
  <2>. QED
    BY <1>2, <2>1
<1>3. e.outcome \in Terminals /\ "failed" \in Terminals /\ "needsRepair" \in Terminals /\ Change(c) \in Nat
  BY <1>1 DEF Finishes, Terminals, Outcomes, Change
<1>4. CASE SettlesOnFinish(c) /\ Failed(c, e)
  <2>1. Verdict("failed", 0, e.rev, e) \in Verdicts
    BY <1>1, <1>3, VerdictKind
  <2>. QED
    BY <1>2, <1>4, <2>1 DEF OnFinish
<1>5. CASE SettlesOnFinish(c) /\ ~Failed(c, e)
  <2>. DEFINE terminal == IF OfRecord(c) /\ c.rec \in e.repair THEN "needsRepair" ELSE e.outcome
  <2>1. terminal \in Terminals
    BY <1>3
  <2>2. OnFinish(c, e) = Done(c, Verdict(terminal, Change(c), e.rev, e))
    BY <1>5 DEF OnFinish
  <2>. HIDE DEF terminal
  <2>3. Verdict(terminal, Change(c), e.rev, e) \in Verdicts
    BY <1>1, <1>3, <2>1, VerdictKind
  <2>. QED
    BY <1>2, <2>2, <2>3
<1>6. CASE ~SettlesOnFinish(c) /\ e.outcome # "published"
  <2>1. Verdict(e.outcome, 0, e.rev, e) \in Verdicts
    BY <1>1, <1>3, VerdictKind
  <2>. QED
    BY <1>2, <1>6, <2>1 DEF OnFinish
<1>7. CASE ~SettlesOnFinish(c) /\ e.outcome = "published"
  <2>1. OnFinish(c, e) = c
    BY <1>7 DEF OnFinish
  <2>. QED
    BY <2>1 DEF Moves
<1>. QED
  BY <1>4, <1>5, <1>6, <1>7

(* An answered command starts to wait.                                     *)
LEMMA WaitingKind ==
    ASSUME NEW n, NEW c, CmdKind(c, n), c.phase # "sent", c.answer.ok, c.waits, NEW buffered \in Nat,
           NEW d, d = [c EXCEPT !.phase = "waiting", !.buffered = buffered]
    PROVE  CmdKind(d, n) /\ Moves(c, d)
<1>1. c \in Cmds /\ ~Opens(c)
  BY DEF CmdKind, Opens
<1>2. d = [kind |-> c.kind, rec |-> c.rec, phase |-> "waiting", waits |-> c.waits, buffered |-> buffered,
           answer |-> c.answer, verdict |-> c.verdict]
  BY <1>1 DEF Cmds
<1>3. d \in Cmds
  BY <1>1, <1>2 DEF Cmds
<1>. QED
  BY <1>1, <1>2, <1>3 DEF CmdKind, Moves

(* An answer names the revision to wait for: it may be published already.  *)
LEMMA TargetKind ==
    ASSUME NEW n, NEW c, CmdKind(c, n), c.phase # "sent", c.answer.ok, ~Opens(c), last \in Nat
    PROVE  CmdKind(Target(c), n) /\ Moves(c, Target(c))
<1>1. c \in Cmds /\ c.buffered \in Nat /\ c.waits \in BOOLEAN
  BY DEF CmdKind, Cmds
<1>2. CASE ~c.waits
  BY <1>2, TimedOutKind DEF Target
<1>3. CASE c.waits /\ last >= c.answer.view.rev /\ SettlesOnFinish(c)
  <2>1. Target(c) = [[c EXCEPT !.phase = "waiting"] EXCEPT !.buffered = last]
    BY <1>3 DEF Target
  <2>2. Target(c) = [c EXCEPT !.phase = "waiting", !.buffered = last]
    BY <1>1, <2>1 DEF Cmds
  <2>. QED
    BY <1>3, <2>2, WaitingKind
<1>4. CASE c.waits /\ last >= c.answer.view.rev /\ ~SettlesOnFinish(c)
  <2>1. Verdict("published", last, last, NoReport) \in Verdicts
    <3>1. "published" \in Terminals
      BY DEF Terminals, Outcomes
    <3>. QED
      BY <3>1, VerdictKind
  <2>2. Target(c) = Done(c, Verdict("published", last, last, NoReport))
    BY <1>4 DEF Target
  <2>. QED
    BY <2>1, <2>2, DoneKind
<1>5. CASE c.waits /\ ~(last >= c.answer.view.rev)
  <2>1. Target(c) = [c EXCEPT !.phase = "waiting"]
    BY <1>5 DEF Target
  <2>2. Target(c) = [c EXCEPT !.phase = "waiting", !.buffered = c.buffered]
    BY <1>1, <2>1 DEF Cmds
  <2>. QED
    BY <1>1, <1>5, <2>2, WaitingKind
<1>. QED
  BY <1>1, <1>2, <1>3, <1>4, <1>5

(* A command hears its answer, a refusal or a projection.                  *)
LEMMA HeardKind ==
    ASSUME NEW n, NEW c, CmdKind(c, n), c.phase # "sent", ~Opens(c), last \in Nat
    PROVE  CmdKind(Heard(c), n) /\ Moves(c, Heard(c))
<1>1. ASSUME NEW terminal \in Terminals, NEW rev \in Nat,
             Heard(c) = Done(c, Verdict(terminal, 0, rev, NoReport)),
             terminal \in {"published", "noop", "needsRepair"} => c.answer.ok
      PROVE  CmdKind(Heard(c), n) /\ Moves(c, Heard(c))
  <2>. DEFINE v == Verdict(terminal, 0, rev, NoReport)
  <2>1. v \in Verdicts /\ v.terminal = terminal
    BY VerdictKind
  <2>. HIDE DEF v
  <2>2. CmdKind(Done(c, v), n) /\ Moves(c, Done(c, v))
    BY <1>1, <2>1, DoneKind
  <2>. QED
    BY <1>1, <2>2 DEF v
<1>2. {"threw", "published", "noop", "inert"} \subseteq Terminals
  BY DEF Terminals, Outcomes
<1>3. CASE ~c.answer.ok
  <2>1. Heard(c) = Done(c, Verdict("threw", 0, 0, NoReport))
    BY <1>3 DEF Heard
  <2>. QED
    BY <1>1, <1>2, <2>1
<1>4. CASE c.answer.ok
  <2>1. c.answer.view.rev \in Nat
    BY <1>4, AnswerIs
  <2>2. \/ Heard(c) = Done(c, Verdict("published", 0, c.answer.view.rev, NoReport))
        \/ Heard(c) = Done(c, Verdict("noop", 0, c.answer.view.rev, NoReport))
        \/ Heard(c) = Done(c, Verdict("inert", 0, c.answer.view.rev, NoReport))
        \/ Heard(c) = Target(c)
    BY <1>4 DEF Heard
  <2>3. Heard(c) = Target(c) => CmdKind(Heard(c), n) /\ Moves(c, Heard(c))
    BY <1>4, TargetKind
  <2>. QED
    BY <1>1, <1>2, <1>4, <2>1, <2>2, <2>3
<1>. QED
  BY <1>3, <1>4

(* The awaiters of the document left behind are reset.                     *)
LEMMA ResetKind ==
    ASSUME NEW n, NEW c, CmdKind(c, n)
    PROVE  CmdKind(ResetAwaiter(c), n) /\ Moves(c, ResetAwaiter(c))
<1>1. c \in Cmds
  BY DEF CmdKind
<1>2. CASE c.phase = "waiting"
  <2>1. ~Opens(c) /\ c.answer.ok
    BY <1>2, WaitsKind
  <2>2. CmdKind(TimedOut(c), n) /\ Moves(c, TimedOut(c))
    BY <1>2, <2>1, TimedOutKind
  <2>. QED
    BY <1>2, <2>2 DEF ResetAwaiter
<1>3. CASE c.phase # "waiting"
  <2>. DEFINE d == [kind |-> c.kind, rec |-> c.rec, phase |-> c.phase, waits |-> FALSE, buffered |-> c.buffered,
                    answer |-> c.answer, verdict |-> c.verdict]
  <2>1. ResetAwaiter(c) = d
    BY <1>1, <1>3 DEF ResetAwaiter, Cmds
  <2>2. d \in Cmds
    BY <1>1 DEF Cmds
  <2>. QED
    BY <1>3, <2>1, <2>2 DEF CmdKind, Moves
<1>. QED
  BY <1>2, <1>3

(* The result a settled command writes back is a projection.               *)
LEMMA ApplyKind ==
    ASSUME NEW n, NEW c, CmdKind(c, n), c.phase = "done", Written(c), NEW s \in Views
    PROVE  ApplyResult(s, c) \in Views /\ ApplyResult(s, c).cursor <= Len(ApplyResult(s, c).recs)
<1>1. c.answer.ok
  BY DEF CmdKind, Written
<1>2. c.answer.view \in Views /\ c.answer.view.cursor <= Len(c.answer.view.recs)
  BY <1>1, AnswerIs DEF CmdKind
<1>3. c.verdict.rev \in Nat
  BY DEF CmdKind, Cmds, Verdicts
<1>. DEFINE v == [id |-> s.id, rev |-> c.verdict.rev, recs |-> c.answer.view.recs,
                  cursor |-> c.answer.view.cursor, status |-> c.answer.view.status]
<1>4. ApplyResult(s, c) = v
  <2>1. ApplyResult(s, c) = [s EXCEPT !.rev = c.verdict.rev, !.recs = c.answer.view.recs,
                                      !.cursor = c.answer.view.cursor, !.status = c.answer.view.status]
    BY DEF ApplyResult
  <2>. QED
    BY <2>1 DEF Views
<1>5. v \in Views /\ v.cursor <= Len(v.recs)
  BY <1>2, <1>3 DEF Views
<1>. QED
  BY <1>4, <1>5

(* The commands and the store, once some commands moved.                   *)
Progress ==
    /\ cmds' \in Seq(Cmds) /\ Len(cmds') = Len(cmds) /\ DOMAIN cmds' = DOMAIN cmds
    /\ \A i \in DOMAIN cmds : CmdKind(cmds'[i], doc.inst)
    /\ store' \in Views /\ store'.cursor <= Len(store'.recs)

(* Commands that moved, the result of the last of them written back.       *)
LEMMA SettleKind ==
    ASSUME KindInv, NEW then, then = [i \in DOMAIN cmds |-> then[i]],
           \A i \in DOMAIN cmds : CmdKind(then[i], doc.inst),
           NEW S \in SUBSET DOMAIN cmds, Settle(then, S)
    PROVE  Progress /\ cmds' = then
<1>1. cmds' = then /\ cmds \in Seq(Cmds) /\ \A i \in DOMAIN cmds : then[i] \in Cmds
  BY DEF Settle, KindInv, CmdKind
<1>2. then \in Seq(Cmds) /\ Len(then) = Len(cmds) /\ DOMAIN then = DOMAIN cmds
  <2>1. DOMAIN then = DOMAIN cmds
    OBVIOUS
  <2>. QED
    BY <1>1, <2>1, SeqMap, Zenon
<1>3. store' \in Views /\ store'.cursor <= Len(store'.recs)
  <2>. DEFINE W == {i \in S : then[i].phase = "done" /\ Written(then[i])}
              k == CHOOSE i \in W : \A j \in W : j <= i
  <2>1. store' = IF W = {} THEN store ELSE ApplyResult(store, then[k])
    BY DEF Settle
  <2>2. store \in Views /\ store.cursor <= Len(store.recs)
    BY DEF KindInv
  <2>3. ASSUME W # {} PROVE k \in W
    <3>1. Len(cmds) \in Nat /\ DOMAIN cmds = 1 .. Len(cmds)
      BY <1>1, SeqIs
    <3>2. W \subseteq 1 .. Len(cmds)
      BY <3>1
    <3>. HIDE DEF W
    <3>3. \E i \in W : \A j \in W : j <= i
      BY <2>3, <3>1, <3>2, GreatestOf
    <3>. QED
      BY <3>3
  <2>4. ASSUME W # {} PROVE CmdKind(then[k], doc.inst) /\ then[k].phase = "done" /\ Written(then[k])
    <3>. HIDE DEF k
    <3>. QED
      BY <2>3, <2>4
  <2>. HIDE DEF W, k
  <2>. QED
    BY <2>1, <2>2, <2>4, ApplyKind
<1>. QED
  BY <1>1, <1>2, <1>3 DEF Progress

-----------------------------------------------------------------------------
(* The kinds are kept.                                                     *)

(* The next command in a phase is the first one.                           *)
LEMMA NextIs ==
    ASSUME KindInv, NEW p, Phase(p) # {}
    PROVE  /\ Next1(p) \in DOMAIN cmds /\ cmds[Next1(p)].phase = p
           /\ \A j \in DOMAIN cmds : cmds[j].phase = p => Next1(p) <= j
<1>1. Phase(p) \subseteq DOMAIN cmds /\ DOMAIN cmds \subseteq Nat
  BY SeqIs DEF Phase, KindInv
<1>2. \E i \in Phase(p) : \A j \in Phase(p) : i <= j
  BY <1>1, LeastOf
<1>3. Next1(p) \in Phase(p) /\ \A j \in Phase(p) : Next1(p) <= j
  BY <1>2 DEF Next1
<1>. QED
  BY <1>3 DEF Phase

(* One command moves on.                                                   *)
LEMMA OneMoves ==
    ASSUME KindInv, NEW i \in DOMAIN cmds, NEW c, CmdKind(c, doc.inst), NEW then,
           then = [cmds EXCEPT ![i] = c]
    PROVE  /\ then = [j \in DOMAIN cmds |-> then[j]]
           /\ then[i] = c /\ \A j \in DOMAIN cmds : j # i => then[j] = cmds[j]
           /\ \A j \in DOMAIN cmds : CmdKind(then[j], doc.inst)
           /\ then \in Seq(Cmds) /\ Len(then) = Len(cmds) /\ DOMAIN then = DOMAIN cmds
<1>1. cmds \in Seq(Cmds) /\ \A j \in DOMAIN cmds : CmdKind(cmds[j], doc.inst)
  BY DEF KindInv
<1>2. DOMAIN then = DOMAIN cmds /\ then = [j \in DOMAIN cmds |-> then[j]]
      /\ then[i] = c /\ \A j \in DOMAIN cmds : j # i => then[j] = cmds[j]
  <2>1. then = [j \in DOMAIN cmds |-> IF j = i THEN c ELSE cmds[j]]
    BY <1>1, SeqIs
  <2>. QED
    BY <2>1
<1>3. \A j \in DOMAIN cmds : CmdKind(then[j], doc.inst)
  BY <1>1, <1>2
<1>4. \A j \in DOMAIN cmds : then[j] \in Cmds
  BY <1>3 DEF CmdKind
<1>. QED
  <2>1. Len(cmds) \in Nat /\ DOMAIN cmds = 1 .. Len(cmds)
    BY <1>1, SeqIs
  <2>. DEFINE n == Len(cmds)
  <2>2. then \in [1 .. n -> Cmds] /\ n \in Nat
    BY <1>2, <1>4, <2>1
  <2>. HIDE DEF n
  <2>3. then \in Seq(Cmds) /\ Len(then) = n
    BY <2>2, FunctionIsQueue
  <2>. QED
    BY <1>2, <1>3, <2>3 DEF n

(* What is heard changes the commands only as Moves says.                  *)
AllMove == \A i \in DOMAIN cmds : Moves(cmds[i], cmds'[i])

(* A change moves the commands it covers.                                  *)
LEMMA ChangeProgress ==
    ASSUME KindInv, HearChange
    PROVE  Progress /\ AllMove /\ Head(events) \in Changes
<1>. DEFINE e == Head(events)
            S == {i \in DOMAIN cmds : Covered(cmds[i], e.rev)}
            then == [i \in DOMAIN cmds |-> IF i \in S THEN OnChange(cmds[i], e) ELSE cmds[i]]
<1>1. e \in Changes
  <2>1. e.type = "change" /\ events # <<>>
    BY DEF HearChange, Arrives
  <2>2. e \in Events
    BY <2>1, QueueShrinks, SeqIs DEF KindInv
  <2>. QED
    BY <2>1, <2>2 DEF Events, ProjectionEvents, Starts, Finishes
<1>2. Settle(then, S)
  BY DEF HearChange
<1>. HIDE DEF e
<1>3. ASSUME NEW i \in DOMAIN cmds PROVE CmdKind(then[i], doc.inst) /\ Moves(cmds[i], then[i])
  <2>1. CmdKind(cmds[i], doc.inst)
    BY DEF KindInv
  <2>2. CASE i \in S
    BY <1>1, <2>1, <2>2, OnChangeKind DEF Covered
  <2>3. CASE i \notin S
    BY <2>1, <2>3 DEF Moves
  <2>. QED
    BY <2>2, <2>3
<1>4. then = [i \in DOMAIN cmds |-> then[i]]
  OBVIOUS
<1>5. S \in SUBSET DOMAIN cmds
  OBVIOUS
<1>. HIDE DEF S, then
<1>6. Progress /\ cmds' = then
  BY <1>2, <1>3, <1>4, <1>5, SettleKind
<1>. QED
  BY <1>1, <1>3, <1>6 DEF AllMove, e

(* The end of a regen moves the commands it covers, unless it was          *)
(* overtaken.                                                              *)
LEMMA FinishProgress ==
    ASSUME KindInv, HearFinished
    PROVE  Progress /\ AllMove /\ Head(events) \in Finishes
<1>. DEFINE e == Head(events)
            S == {i \in DOMAIN cmds : /\ e.outcome \notin {"superseded", "cancelled"}
                                      /\ Covered(cmds[i], e.source)}
            then == [i \in DOMAIN cmds |-> IF i \in S THEN OnFinish(cmds[i], e) ELSE cmds[i]]
<1>1. e \in Finishes
  <2>1. e.type = "finished" /\ events # <<>>
    BY DEF HearFinished, Arrives
  <2>2. e \in Events
    BY <2>1, QueueShrinks, SeqIs DEF KindInv
  <2>. QED
    BY <2>1, <2>2 DEF Events, ProjectionEvents, Starts, Changes
<1>2. Settle(then, S)
  BY DEF HearFinished
<1>. HIDE DEF e
<1>3. ASSUME NEW i \in DOMAIN cmds PROVE CmdKind(then[i], doc.inst) /\ Moves(cmds[i], then[i])
  <2>1. CmdKind(cmds[i], doc.inst) /\ last \in Nat
    BY DEF KindInv
  <2>2. CASE i \in S
    BY <1>1, <2>1, <2>2, OnFinishKind DEF Covered
  <2>3. CASE i \notin S
    BY <2>1, <2>3 DEF Moves
  <2>. QED
    BY <2>2, <2>3
<1>4. then = [i \in DOMAIN cmds |-> then[i]]
  OBVIOUS
<1>5. S \in SUBSET DOMAIN cmds
  OBVIOUS
<1>. HIDE DEF S, then
<1>6. Progress /\ cmds' = then
  BY <1>2, <1>3, <1>4, <1>5, SettleKind
<1>. QED
  BY <1>1, <1>3, <1>6 DEF AllMove, e

(* One command moves, and its result is written back.                      *)
LEMMA OneProgress ==
    ASSUME KindInv, NEW i \in DOMAIN cmds, NEW c, CmdKind(c, doc.inst), Moves(cmds[i], c),
           Settle([cmds EXCEPT ![i] = c], {i})
    PROVE  Progress /\ AllMove
<1>. DEFINE then == [cmds EXCEPT ![i] = c]
<1>1. /\ then = [j \in DOMAIN cmds |-> then[j]]
      /\ then[i] = c /\ \A j \in DOMAIN cmds : j # i => then[j] = cmds[j]
      /\ \A j \in DOMAIN cmds : CmdKind(then[j], doc.inst)
  <2>. HIDE DEF then
  <2>1. then = [cmds EXCEPT ![i] = c]
    BY DEF then
  <2>. QED
    BY <2>1, OneMoves
<1>2. Settle(then, {i}) /\ {i} \in SUBSET DOMAIN cmds
  OBVIOUS
<1>. HIDE DEF then
<1>3. Progress /\ cmds' = then
  BY <1>1, <1>2, SettleKind
<1>4. ASSUME NEW j \in DOMAIN cmds PROVE Moves(cmds[j], then[j])
  <2>1. j # i => Moves(cmds[j], cmds[j])
    BY DEF Moves
  <2>. QED
    BY <1>1, <2>1
<1>. QED
  BY <1>3, <1>4 DEF AllMove

(* An answer moves its own command.                                        *)
LEMMA AnswerProgress ==
    ASSUME KindInv, HearAnswer
    PROVE  Progress /\ AllMove
<1>. DEFINE i == Next1("answered")
<1>1. i \in DOMAIN cmds /\ cmds[i].phase = "answered"
  BY NextIs DEF HearAnswer
<1>2. ~Opens(cmds[i]) /\ Settle([cmds EXCEPT ![i] = Heard(cmds[i])], {i})
  BY DEF HearAnswer
<1>. HIDE DEF i
<1>3. CmdKind(cmds[i], doc.inst) /\ last \in Nat
  BY <1>1 DEF KindInv
<1>4. CmdKind(Heard(cmds[i]), doc.inst) /\ Moves(cmds[i], Heard(cmds[i]))
  BY <1>1, <1>2, <1>3, HeardKind
<1>. QED
  BY <1>1, <1>2, <1>4, OneProgress

(* A timeout moves a command that waits.                                   *)
LEMMA TimeoutProgress ==
    ASSUME KindInv, Timeout
    PROVE  Progress /\ AllMove
<1>1. PICK i \in DOMAIN cmds : cmds[i].phase = "waiting" /\ Settle([cmds EXCEPT ![i] = TimedOut(cmds[i])], {i})
  BY DEF Timeout, Phase
<1>2. CmdKind(cmds[i], doc.inst)
  BY <1>1 DEF KindInv
<1>3. ~Opens(cmds[i]) /\ cmds[i].answer.ok
  BY <1>1, <1>2, WaitsKind
<1>4. CmdKind(TimedOut(cmds[i]), doc.inst) /\ Moves(cmds[i], TimedOut(cmds[i]))
  BY <1>1, <1>2, <1>3, TimedOutKind
<1>. QED
  BY <1>1, <1>4, OneProgress

(* An open that is heard of: the command is done, the awaiters are reset.  *)
LEMMA OpenedProgress ==
    ASSUME KindInv, HearOpened
    PROVE  LET i == Next1("answered")
           IN  /\ Progress /\ i \in DOMAIN cmds /\ cmds[i].phase = "answered" /\ Opens(cmds[i])
               /\ \A j \in DOMAIN cmds : j < i => cmds[j].phase # "answered"
               /\ cmds'[i].phase = "done" /\ cmds'[i].kind = cmds[i].kind /\ cmds'[i].answer = cmds[i].answer
               /\ \A j \in DOMAIN cmds : j # i => cmds'[j] = ResetAwaiter(cmds[j]) /\ Moves(cmds[j], cmds'[j])
<1>. DEFINE i == Next1("answered")
            then == [j \in DOMAIN cmds |-> IF j = i THEN Done(cmds[i], NoVerdict) ELSE ResetAwaiter(cmds[j])]
<1>1. i \in DOMAIN cmds /\ cmds[i].phase = "answered" /\ \A j \in DOMAIN cmds : j < i => cmds[j].phase # "answered"
  <2>1. i \in DOMAIN cmds /\ cmds[i].phase = "answered" /\ \A j \in DOMAIN cmds : cmds[j].phase = "answered" => i <= j
    BY NextIs DEF HearOpened
  <2>2. DOMAIN cmds \subseteq Nat
    BY SeqIs DEF KindInv
  <2>. HIDE DEF i
  <2>. QED
    BY <2>1, <2>2
<1>2. Opens(cmds[i]) /\ Settle(then, Phase("waiting"))
  BY DEF HearOpened
<1>. HIDE DEF i
<1>3. CmdKind(cmds[i], doc.inst)
  BY <1>1 DEF KindInv
<1>4. CmdKind(Done(cmds[i], NoVerdict), doc.inst) /\ Done(cmds[i], NoVerdict).phase = "done"
      /\ Done(cmds[i], NoVerdict).kind = cmds[i].kind /\ Done(cmds[i], NoVerdict).answer = cmds[i].answer
  <2>1. NoVerdict \in Verdicts /\ NoVerdict.terminal = "none"
    BY DEF NoVerdict, Verdicts, Terminals
  <2>2. cmds[i] \in Cmds
    BY <1>3 DEF CmdKind
  <2>3. Done(cmds[i], NoVerdict).answer = cmds[i].answer
    BY <2>2 DEF Done, Cmds
  <2>. QED
    BY <1>1, <1>3, <2>1, <2>3, DoneKind
<1>5. ASSUME NEW j \in DOMAIN cmds, j # i
      PROVE  CmdKind(ResetAwaiter(cmds[j]), doc.inst) /\ Moves(cmds[j], ResetAwaiter(cmds[j]))
  <2>1. CmdKind(cmds[j], doc.inst)
    BY DEF KindInv
  <2>. QED
    BY <2>1, ResetKind
<1>6. /\ then = [j \in DOMAIN cmds |-> then[j]]
      /\ then[i] = Done(cmds[i], NoVerdict)
      /\ \A j \in DOMAIN cmds : j # i => then[j] = ResetAwaiter(cmds[j])
  BY <1>1
<1>7. \A j \in DOMAIN cmds : CmdKind(then[j], doc.inst)
  BY <1>4, <1>5, <1>6
<1>8. Phase("waiting") \in SUBSET DOMAIN cmds
  BY DEF Phase
<1>. HIDE DEF then
<1>9. Progress /\ cmds' = then
  BY <1>2, <1>6, <1>7, <1>8, SettleKind
<1>. QED
  BY <1>1, <1>2, <1>4, <1>5, <1>6, <1>9 DEF i

(* A queue of events, each of its kind.                                    *)
EventsKind(es) == es \in Seq(Events) /\ \A k \in DOMAIN es : EventKind(es[k])

(* Events that join the queue.                                             *)
LEMMA EventsGrow ==
    ASSUME NEW es, EventsKind(es), NEW new, EventsKind(new), NEW t, t = es \o new
    PROVE  EventsKind(t)
<1>1. /\ t \in Seq(Events) /\ Len(t) = Len(es) + Len(new) /\ Len(es) \in Nat /\ Len(new) \in Nat
      /\ \A k \in 1 .. Len(es) : t[k] = es[k]
      /\ \A k \in Len(es) + 1 .. Len(es) + Len(new) : t[k] = new[k - Len(es)]
  BY JoinIs DEF EventsKind
<1>2. DOMAIN t = 1 .. Len(es) + Len(new) /\ DOMAIN es = 1 .. Len(es) /\ DOMAIN new = 1 .. Len(new)
  BY <1>1, SeqIs DEF EventsKind
<1>3. ASSUME NEW k \in DOMAIN t PROVE EventKind(t[k])
  <2>1. CASE k \in 1 .. Len(es)
    BY <1>1, <1>2, <2>1 DEF EventsKind
  <2>2. CASE k \in Len(es) + 1 .. Len(es) + Len(new)
    <3>1. k - Len(es) \in DOMAIN new /\ t[k] = new[k - Len(es)]
      BY <1>1, <1>2, <2>2
    <3>. QED
      BY <3>1 DEF EventsKind
  <2>. QED
    BY <1>1, <1>2, <2>1, <2>2
<1>. QED
  BY <1>1, <1>3 DEF EventsKind

(* One event that joins the queue.                                         *)
LEMMA EventsGrowByOne ==
    ASSUME NEW es, EventsKind(es), NEW e, EventKind(e)
    PROVE  EventsKind(Append(es, e))
<1>1. e \in Events /\ es \in Seq(Events)
  BY DEF EventKind, EventsKind
<1>2. /\ Append(es, e) \in Seq(Events) /\ DOMAIN Append(es, e) = 1 .. Len(es) + 1 /\ DOMAIN es = 1 .. Len(es)
      /\ Len(es) \in Nat
      /\ \A i \in DOMAIN es : Append(es, e)[i] = es[i]
      /\ Append(es, e)[Len(es) + 1] = e
  BY <1>1, QueueGrowsByOne, SeqIs
<1>3. ASSUME NEW k \in DOMAIN Append(es, e) PROVE EventKind(Append(es, e)[k])
  <2>1. k \in DOMAIN es \/ k = Len(es) + 1
    BY <1>2
  <2>. QED
    BY <1>2, <2>1 DEF EventsKind
<1>. QED
  BY <1>2, <1>3 DEF EventsKind

(* The first event leaves the queue.                                       *)
LEMMA EventsShrink ==
    ASSUME NEW es, EventsKind(es), es # <<>>
    PROVE  EventsKind(Tail(es)) /\ EventKind(Head(es)) /\ Head(es) \in Events
<1>1. /\ Tail(es) \in Seq(Events) /\ 1 \in DOMAIN es /\ Head(es) = es[1]
      /\ \A i \in DOMAIN Tail(es) : i + 1 \in DOMAIN es /\ Tail(es)[i] = es[i + 1]
  BY QueueShrinks DEF EventsKind
<1>. QED
  BY <1>1 DEF EventsKind, EventKind

(* The two or three events the driver emits together.                      *)
LEMMA SomeEvents ==
    ASSUME NEW a, EventKind(a), NEW b, EventKind(b), NEW c, EventKind(c)
    PROVE  EventsKind(<<a, b>>) /\ EventsKind(<<a, b, c>>)
<1>1. a \in Events /\ b \in Events /\ c \in Events
  BY DEF EventKind
<1>2. <<a, b>> \in Seq(Events) /\ <<a, b, c>> \in Seq(Events)
  BY <1>1
<1>. QED
  BY <1>2 DEF EventsKind

(* The application starts with one document open and nothing sent.         *)
LEMMA InitKind == Init => KindInv
<1>. SUFFICES ASSUME Init PROVE KindInv
  OBVIOUS
<1>1. PICK recs \in Openable : /\ doc = Runtime(1, 1, recs)
                               /\ sched = [on |-> FALSE, from |-> 0, job |-> NoJob, gate |-> {1}]
                               /\ store = Projection(Runtime(1, 1, recs))
  BY DEF Init
<1>2. recs \in Seq(Records) /\ 1 \in Nat /\ 1 >= 1
  BY CorrelationBounds
<1>3. DocKind(doc) /\ doc.inst = 1
  BY <1>1, <1>2, OpenedKind
<1>4. store \in Views /\ store.cursor <= Len(store.recs)
  BY <1>1, <1>3, ProjectionKind DEF DocKind, Projection
<1>5. sched \in Scheds /\ sched.job.inst = 0
  BY <1>1 DEF Scheds, Jobs, NoJob
<1>6. events = <<>> /\ cmds = <<>> /\ last = 0 /\ snapshot = <<0, 0>> /\ busy = 0
  BY DEF Init, NoSnapshot
<1>7. events \in Seq(Events) /\ cmds \in Seq(Cmds) /\ DOMAIN events = {} /\ DOMAIN cmds = {} /\ snapshot \in Snaps
  BY <1>6 DEF Snaps
<1>. QED
  BY <1>3, <1>4, <1>5, <1>6, <1>7 DEF KindInv

(* The frontend sends a command: nothing is known of it but what it asks.  *)
LEMMA SendKind ==
    ASSUME KindInv, Send
    PROVE  /\ KindInv'
           /\ \E c \in Cmds : c.phase = "sent" /\ cmds' = Append(cmds, c)
<1>1. PICK kind \in Kinds, r \in Records :
        cmds' = Append(cmds, [kind |-> kind, rec |-> r, phase |-> "sent",
                              waits |-> kind \notin {"rename", "open"}, buffered |-> 0,
                              answer |-> NoAnswer, verdict |-> NoVerdict])
  BY DEF Send
<1>. DEFINE w == kind \notin {"rename", "open"}
            c == [kind |-> kind, rec |-> r, phase |-> "sent", waits |-> w, buffered |-> 0,
                  answer |-> NoAnswer, verdict |-> NoVerdict]
<1>2. w \in BOOLEAN /\ NoVerdict \in Verdicts
  BY DEF NoVerdict, Verdicts, Terminals
<1>3. c \in Cmds
  BY <1>2 DEF Cmds
<1>4. cmds' = Append(cmds, c) /\ UNCHANGED <<doc, sched, events, client, store>>
  BY <1>1 DEF Send
<1>5. CmdKind(c, doc.inst)
  BY <1>3 DEF CmdKind, NoAnswer
<1>6. c.phase = "sent"
  OBVIOUS
<1>. HIDE DEF c
<1>7. cmds \in Seq(Cmds) /\ \A i \in DOMAIN cmds : CmdKind(cmds[i], doc.inst)
  BY DEF KindInv
<1>8. cmds' \in Seq(Cmds) /\ \A i \in DOMAIN cmds' : CmdKind(cmds'[i], doc.inst)
  <2>1. /\ cmds' \in Seq(Cmds) /\ DOMAIN cmds' = 1 .. Len(cmds) + 1 /\ DOMAIN cmds = 1 .. Len(cmds)
        /\ Len(cmds) \in Nat
        /\ \A i \in DOMAIN cmds : cmds'[i] = cmds[i]
        /\ cmds'[Len(cmds) + 1] = c
    BY <1>3, <1>4, <1>7, QueueGrowsByOne, SeqIs
  <2>2. ASSUME NEW i \in DOMAIN cmds' PROVE CmdKind(cmds'[i], doc.inst)
    <3>1. i \in DOMAIN cmds \/ i = Len(cmds) + 1
      BY <2>1
    <3>. QED
      BY <1>5, <1>7, <2>1, <3>1
  <2>. QED
    BY <2>1, <2>2
<1>. QED
  BY <1>3, <1>4, <1>6, <1>8 DEF KindInv, client

(* An answered command by its parts.                                       *)
LEMMA AnsweredIs ==
    ASSUME NEW c \in Cmds, NEW a \in Answers, NEW d, d = [c EXCEPT !.phase = "answered", !.answer = a]
    PROVE  d = [kind |-> c.kind, rec |-> c.rec, phase |-> "answered", waits |-> c.waits, buffered |-> c.buffered,
                answer |-> a, verdict |-> c.verdict]
  BY DEF Cmds

(* A command is answered with the projection of the document it left.      *)
LEMMA AnswerKind ==
    ASSUME KindInv, NEW d, DocKind(d), d.inst \in {doc.inst, doc.inst + 1},
           NEW i \in DOMAIN cmds, cmds[i].phase = "sent", Answer(i, d)
    PROVE  /\ cmds' \in Seq(Cmds) /\ Len(cmds') = Len(cmds) /\ DOMAIN cmds' = DOMAIN cmds
           /\ \A j \in DOMAIN cmds : CmdKind(cmds'[j], d.inst)
           /\ \A j \in DOMAIN cmds : j # i => cmds'[j] = cmds[j]
           /\ cmds'[i].phase = "answered" /\ cmds'[i].kind = cmds[i].kind /\ cmds'[i].rec = cmds[i].rec
           /\ cmds'[i].waits = cmds[i].waits /\ cmds'[i].buffered = cmds[i].buffered
           /\ cmds'[i].answer = [ok |-> TRUE, inst |-> d.inst, view |-> Projection(d)]
<1>. DEFINE c == cmds[i]
            a == [ok |-> TRUE, inst |-> d.inst, view |-> Projection(d)]
            e == [kind |-> c.kind, rec |-> c.rec, phase |-> "answered", waits |-> c.waits,
                  buffered |-> c.buffered, answer |-> a, verdict |-> c.verdict]
<1>1. /\ cmds \in Seq(Cmds) /\ \A j \in DOMAIN cmds : CmdKind(cmds[j], doc.inst)
      /\ doc.inst \in Nat /\ d.inst \in Nat
  BY DEF KindInv, DocKind, Docs
<1>2. c \in Cmds /\ CmdKind(c, doc.inst) /\ c.phase = "sent"
  BY <1>1 DEF CmdKind
<1>3. a \in Answers /\ a.view.cursor <= Len(a.view.recs)
  <2>1. Projection(d) \in Views /\ Projection(d).cursor = d.cursor /\ Projection(d).recs = d.recs
    BY ProjectionKind DEF Projection
  <2>. QED
    BY <1>1, <2>1 DEF Answers, DocKind
<1>4. cmds' = [cmds EXCEPT ![i].phase = "answered", ![i].answer = a]
  BY DEF Answer
<1>5. a.ok /\ a.inst = d.inst
  OBVIOUS
<1>. HIDE DEF a
<1>6. cmds' = [j \in DOMAIN cmds |-> IF j = i THEN e ELSE cmds[j]]
  <2>1. cmds' = [cmds EXCEPT ![i] = [cmds[i] EXCEPT !.phase = "answered", !.answer = a]]
    <3>1. cmds = [j \in DOMAIN cmds |-> cmds[j]]
      BY <1>1, SeqIs
    <3>. QED
      BY <1>4, <3>1
  <2>2. [c EXCEPT !.phase = "answered", !.answer = a] = e
    BY <1>2, <1>3, AnsweredIs
  <2>. HIDE DEF e
  <2>. QED
    BY <1>1, <2>1, <2>2, SeqIs
<1>7. e \in Cmds
  BY <1>2, <1>3 DEF Cmds
<1>8. CmdKind(e, d.inst)
  BY <1>1, <1>2, <1>3, <1>5, <1>7 DEF CmdKind
<1>9. /\ e.phase = "answered" /\ e.kind = c.kind /\ e.rec = c.rec /\ e.waits = c.waits /\ e.answer = a
      /\ e.buffered = c.buffered
  OBVIOUS
<1>. HIDE DEF e
<1>10. ASSUME NEW j \in DOMAIN cmds PROVE CmdKind(cmds'[j], d.inst) /\ cmds'[j] \in Cmds
  <2>1. CmdKind(cmds[j], d.inst)
    <3>1. CmdKind(cmds[j], doc.inst) /\ CmdKind(cmds[j], doc.inst + 1)
      BY <1>1, KindStays
    <3>. QED
      BY <3>1
  <2>2. CmdKind(cmds'[j], d.inst)
    BY <1>6, <1>8, <2>1
  <2>. QED
    BY <2>2 DEF CmdKind
<1>11. DOMAIN cmds' = DOMAIN cmds /\ cmds' = [j \in DOMAIN cmds |-> cmds'[j]]
  BY <1>6
<1>12. cmds' \in Seq(Cmds) /\ Len(cmds') = Len(cmds)
  BY <1>1, <1>10, <1>11, SeqMap, Zenon
<1>. QED
  BY <1>6, <1>9, <1>10, <1>11, <1>12 DEF a

(* The next command is handled.                                            *)
LEMMA HandleKind ==
    ASSUME KindInv, Handle
    PROVE  LET i == Next1("sent")
           IN  /\ KindInv' /\ doc'.inst = doc.inst /\ doc'.snap = doc.snap
               /\ i \in DOMAIN cmds /\ cmds[i].phase = "sent" /\ ~Opens(cmds[i])
               /\ \A j \in DOMAIN cmds : cmds[j].phase = "sent" => i <= j
               /\ Len(cmds') = Len(cmds) /\ DOMAIN cmds' = DOMAIN cmds
               /\ \A j \in DOMAIN cmds : j # i => cmds'[j] = cmds[j]
               /\ cmds'[i].phase = "answered" /\ cmds'[i].kind = cmds[i].kind
               /\ \E e \in ProjectionEvents : events' = Append(events, e)
               /\ sched'.job.inst = sched.job.inst /\ (sched'.job = NoJob <=> sched.job = NoJob)
<1>. DEFINE i == Next1("sent")
<1>1. i \in DOMAIN cmds /\ cmds[i].phase = "sent" /\ \A j \in DOMAIN cmds : cmds[j].phase = "sent" => i <= j
  BY NextIs DEF Handle
<1>2. PICK o \in Edited(cmds[i], doc) :
        /\ ~Opens(cmds[i]) /\ ~Refused(cmds[i], doc)
        /\ doc' = o.doc /\ events' = Append(events, ProjectionEvent(o.doc))
        /\ sched' = IF o.from = -1 THEN sched ELSE Request(sched, o.from)
        /\ Answer(i, o.doc)
  BY DEF Handle
<1>. HIDE DEF i
<1>3. cmds[i] \in Cmds /\ DocKind(doc) /\ sched \in Scheds /\ sched.job.inst <= doc.inst /\ EventsKind(events)
  BY <1>1 DEF KindInv, CmdKind, EventsKind
<1>4. DocKind(doc') /\ doc'.inst = doc.inst /\ doc'.snap = doc.snap /\ o.from \in Int
  <2>1. Keeps(o, doc)
    BY <1>2, <1>3, EditedKind
  <2>. QED
    BY <1>2, <2>1 DEF Keeps
<1>5. sched' \in Scheds /\ sched'.job.inst = sched.job.inst /\ (sched'.job = NoJob <=> sched.job = NoJob)
  <2>1. sched' = sched \/ sched' = Request(sched, o.from)
    BY <1>2
  <2>. QED
    BY <1>3, <1>4, <2>1, RequestKind
<1>6. ProjectionEvent(doc') \in ProjectionEvents /\ EventKind(ProjectionEvent(doc'))
  BY <1>4, ProjectionKind
<1>7. events' = Append(events, ProjectionEvent(doc')) /\ EventsKind(events')
  BY <1>2, <1>3, <1>6, EventsGrowByOne
<1>8. /\ cmds' \in Seq(Cmds) /\ Len(cmds') = Len(cmds) /\ DOMAIN cmds' = DOMAIN cmds
      /\ \A j \in DOMAIN cmds : CmdKind(cmds'[j], doc'.inst)
      /\ \A j \in DOMAIN cmds : j # i => cmds'[j] = cmds[j]
      /\ cmds'[i].phase = "answered" /\ cmds'[i].kind = cmds[i].kind
  <2>1. Answer(i, doc') /\ doc'.inst \in {doc.inst, doc.inst + 1}
    BY <1>2, <1>4
  <2>. HIDE DEF i
  <2>. QED
    BY <1>1, <1>4, <2>1, AnswerKind
<1>9. UNCHANGED <<last, snapshot, busy, store>>
  BY DEF Handle, client
<1>10. KindInv'
  BY <1>3, <1>4, <1>5, <1>7, <1>8, <1>9 DEF KindInv, EventsKind
<1>. QED
  BY <1>1, <1>2, <1>4, <1>5, <1>6, <1>7, <1>8, <1>10 DEF i

(* The next command is refused: it has no projection.                      *)
LEMMA RefuseKind ==
    ASSUME KindInv, Refuse
    PROVE  LET i == Next1("sent")
           IN  /\ KindInv'
               /\ i \in DOMAIN cmds /\ cmds[i].phase = "sent" /\ ~Opens(cmds[i])
               /\ \A j \in DOMAIN cmds : cmds[j].phase = "sent" => i <= j
               /\ Len(cmds') = Len(cmds) /\ DOMAIN cmds' = DOMAIN cmds
               /\ \A j \in DOMAIN cmds : j # i => cmds'[j] = cmds[j]
               /\ cmds'[i].phase = "answered" /\ cmds'[i].kind = cmds[i].kind /\ cmds'[i].rec = cmds[i].rec
               /\ cmds'[i].buffered = cmds[i].buffered /\ ~cmds'[i].answer.ok
<1>. DEFINE i == Next1("sent")  c == cmds[i]
            e == [kind |-> c.kind, rec |-> c.rec, phase |-> "answered", waits |-> c.waits,
                  buffered |-> c.buffered, answer |-> c.answer, verdict |-> c.verdict]
<1>1. i \in DOMAIN cmds /\ cmds[i].phase = "sent" /\ \A j \in DOMAIN cmds : cmds[j].phase = "sent" => i <= j
  BY NextIs DEF Refuse
<1>2. ~Opens(cmds[i]) /\ Refused(cmds[i], doc) /\ cmds' = [cmds EXCEPT ![i].phase = "answered"]
      /\ UNCHANGED <<doc, sched, events, last, snapshot, busy, store>>
  BY DEF Refuse, client
<1>. HIDE DEF i
<1>3. CmdKind(c, doc.inst) /\ c \in Cmds /\ c.kind \in {"reedit", "remove", "add"}
  BY <1>1, <1>2 DEF KindInv, CmdKind, Refused
<1>4. /\ e \in Cmds /\ CmdKind(e, doc.inst) /\ e.phase = "answered" /\ e.kind = c.kind /\ e.rec = c.rec
      /\ e.buffered = c.buffered /\ ~e.answer.ok
  <2>1. e \in Cmds
    BY <1>3 DEF Cmds
  <2>. QED
    BY <1>1, <1>3, <2>1 DEF CmdKind, NoAnswer
<1>5. cmds' = [cmds EXCEPT ![i] = e]
  <2>1. cmds' = [cmds EXCEPT ![i] = [cmds[i] EXCEPT !.phase = "answered"]]
    BY <1>2
  <2>2. \A d : d = [c EXCEPT !.phase = "answered"] => d = e
    BY <1>3 DEF Cmds
  <2>. HIDE DEF e
  <2>. QED
    BY <2>1, <2>2
<1>. HIDE DEF e
<1>6. /\ cmds'[i] = e /\ \A j \in DOMAIN cmds : j # i => cmds'[j] = cmds[j]
      /\ \A j \in DOMAIN cmds : CmdKind(cmds'[j], doc.inst)
      /\ cmds' \in Seq(Cmds) /\ Len(cmds') = Len(cmds) /\ DOMAIN cmds' = DOMAIN cmds
  <2>. DEFINE then == [cmds EXCEPT ![i] = e]
  <2>1. then = [cmds EXCEPT ![i] = e] /\ i \in DOMAIN cmds /\ CmdKind(e, doc.inst)
    BY <1>1, <1>4
  <2>. HIDE DEF then
  <2>2. /\ then[i] = e /\ \A j \in DOMAIN cmds : j # i => then[j] = cmds[j]
        /\ \A j \in DOMAIN cmds : CmdKind(then[j], doc.inst)
        /\ then \in Seq(Cmds) /\ Len(then) = Len(cmds) /\ DOMAIN then = DOMAIN cmds
    BY <2>1, OneMoves
  <2>3. cmds' = then
    BY <1>5, <2>1
  <2>. QED
    BY <2>2, <2>3
<1>7. KindInv'
  BY <1>2, <1>6 DEF KindInv
<1>. QED
  BY <1>1, <1>2, <1>4, <1>6, <1>7 DEF i

(* The next command opens a document: it is the newest, without a          *)
(* snapshot.                                                               *)
LEMMA OpenKind ==
    ASSUME KindInv, OpenDocument
    PROVE  LET i == Next1("sent")
           IN  /\ KindInv' /\ doc'.inst = doc.inst + 1 /\ doc'.snap = NoSnapshot
               /\ i \in DOMAIN cmds /\ cmds[i].phase = "sent" /\ Opens(cmds[i])
               /\ \A j \in DOMAIN cmds : cmds[j].phase = "sent" => i <= j
               /\ Len(cmds') = Len(cmds) /\ DOMAIN cmds' = DOMAIN cmds
               /\ \A j \in DOMAIN cmds : j # i => cmds'[j] = cmds[j]
               /\ cmds'[i].phase = "answered" /\ cmds'[i].kind = cmds[i].kind
               /\ cmds'[i].answer.inst = doc'.inst
               /\ \E e \in ProjectionEvents : events' = Append(events, e)
               /\ sched'.job = sched.job
<1>. DEFINE i == Next1("sent")
<1>1. i \in DOMAIN cmds /\ cmds[i].phase = "sent" /\ \A j \in DOMAIN cmds : cmds[j].phase = "sent" => i <= j
  BY NextIs DEF OpenDocument
<1>2. PICK recs \in Openable, id \in {doc.inst + 1} \cup {q \in {doc.id} : "same_file" \in Rare} :
        /\ Opens(cmds[i]) /\ doc' = Runtime(doc.inst + 1, id, recs)
        /\ events' = Append(events, ProjectionEvent(Runtime(doc.inst + 1, id, recs)))
        /\ sched' = [sched EXCEPT !.gate = @ \cup {id}]
        /\ Answer(i, Runtime(doc.inst + 1, id, recs))
  BY DEF OpenDocument
<1>. HIDE DEF i
<1>3. /\ DocKind(doc) /\ sched \in Scheds /\ sched.job.inst <= doc.inst /\ EventsKind(events)
      /\ doc.inst \in Nat /\ doc.inst + 1 >= 1 /\ doc.id \in Nat /\ recs \in Seq(Records) /\ id \in Nat
  BY CorrelationBounds DEF KindInv, EventsKind, DocKind, Docs
<1>4. DocKind(doc') /\ doc'.inst = doc.inst + 1 /\ doc'.snap = NoSnapshot
  BY <1>2, <1>3, OpenedKind
<1>5. sched' \in Scheds /\ sched'.job = sched.job /\ sched'.job.inst <= doc.inst + 1
  <2>1. sched.job.inst \in Nat /\ sched.gate \cup {id} \in SUBSET Nat
    BY <1>3 DEF Scheds, Jobs
  <2>2. sched' = [sched EXCEPT !.gate = sched.gate \cup {id}]
    BY <1>2
  <2>3. sched' \in Scheds /\ sched'.job = sched.job
    <3>. DEFINE gate == sched.gate \cup {id}
    <3>1. gate \in SUBSET Nat /\ sched \in Scheds /\ sched' = [sched EXCEPT !.gate = gate]
      BY <1>3, <2>1, <2>2
    <3>. HIDE DEF gate
    <3>. QED
      BY <3>1, GateChanges
  <2>. QED
    BY <1>3, <2>1, <2>3
<1>6. ProjectionEvent(doc') \in ProjectionEvents /\ EventKind(ProjectionEvent(doc'))
  BY <1>4, ProjectionKind
<1>7. events' = Append(events, ProjectionEvent(doc')) /\ EventsKind(events')
  BY <1>2, <1>3, <1>6, EventsGrowByOne
<1>8. /\ cmds' \in Seq(Cmds) /\ Len(cmds') = Len(cmds) /\ DOMAIN cmds' = DOMAIN cmds
      /\ \A j \in DOMAIN cmds : CmdKind(cmds'[j], doc'.inst)
      /\ \A j \in DOMAIN cmds : j # i => cmds'[j] = cmds[j]
      /\ cmds'[i].phase = "answered" /\ cmds'[i].kind = cmds[i].kind
      /\ cmds'[i].answer = [ok |-> TRUE, inst |-> doc'.inst, view |-> Projection(doc')]
  <2>1. Answer(i, doc') /\ doc'.inst \in {doc.inst, doc.inst + 1}
    BY <1>2, <1>4
  <2>. QED
    BY <1>1, <1>4, <2>1, AnswerKind
<1>9. UNCHANGED <<last, snapshot, busy, store>>
  BY DEF OpenDocument, client
<1>10. KindInv'
  BY <1>3, <1>4, <1>5, <1>7, <1>8, <1>9 DEF KindInv, EventsKind
<1>. QED
  BY <1>1, <1>2, <1>4, <1>5, <1>6, <1>7, <1>8, <1>10 DEF i

(* The scheduler and the driver leave the frontend and the commands alone. *)
LEMMA GateKind ==
    ASSUME KindInv, GateOpens
    PROVE  KindInv' /\ sched'.job.inst = sched.job.inst /\ (sched'.job = NoJob <=> sched.job = NoJob)
<1>1. PICK id \in sched.gate :
        LET s == [sched EXCEPT !.gate = @ \ {id}] IN sched' = IF id = doc.id THEN Request(s, 0) ELSE s
  BY DEF GateOpens
<1>. DEFINE s == [sched EXCEPT !.gate = @ \ {id}]
<1>2. s \in Scheds /\ s.job = sched.job
  <2>. DEFINE gate == sched.gate \ {id}
  <2>1. sched \in Scheds /\ gate \in SUBSET Nat
    BY DEF KindInv, Scheds
  <2>2. s = [sched EXCEPT !.gate = gate]
    OBVIOUS
  <2>. HIDE DEF s, gate
  <2>. QED
    BY <2>1, <2>2, GateChanges
<1>. HIDE DEF s
<1>3. sched' = s \/ sched' = Request(s, 0)
  BY <1>1 DEF s
<1>4. sched' \in Scheds /\ sched'.job.inst = sched.job.inst /\ (sched'.job = NoJob <=> sched.job = NoJob)
  BY <1>2, <1>3, RequestKind
<1>5. UNCHANGED <<doc, events, cmds, last, snapshot, busy, store>>
  BY DEF GateOpens, client
<1>. QED
  BY <1>4, <1>5 DEF KindInv

(* Nothing to run: a report that ends, of a regen that never started.      *)
LEMMA BeginNothingKind ==
    ASSUME KindInv, BeginNothing
    PROVE  /\ KindInv' /\ sched'.job = sched.job /\ sched.job = NoJob
           /\ \E a \in ProjectionEvents, b \in Finishes :
                events' = events \o <<a, b>> /\ b.inst = doc.inst /\ b.source = doc.rev
<1>. DEFINE job == [inst |-> doc.inst, source |-> doc.rev]
            a == ProjectionEvent(doc)
            b == Finished(doc, job, "noop", {}, {}, {})
<1>1. DocKind(doc) /\ sched \in Scheds /\ sched.job = NoJob /\ EventsKind(events)
  BY DEF KindInv, BeginNothing, EventsKind
<1>2. a \in ProjectionEvents /\ EventKind(a)
  BY <1>1, ProjectionKind
<1>3. b \in Finishes /\ EventKind(b) /\ b.inst = doc.inst /\ b.source = doc.rev
  <2>1. job.inst = doc.inst /\ job.source = doc.rev /\ doc.inst \in Nat /\ doc.rev \in Nat /\ "noop" \in Outcomes
    BY <1>1 DEF DocKind, Docs, Outcomes
  <2>. HIDE DEF job
  <2>. QED
    BY <1>1, <2>1, FinishKind
<1>4. events' = events \o <<a, b>>
  BY DEF BeginNothing
<1>. HIDE DEF a, b
<1>5. EventsKind(events')
  <2>1. EventsKind(<<a, b>>)
    BY <1>2, <1>3, SomeEvents
  <2>. QED
    BY <1>1, <1>4, <2>1, EventsGrow
<1>6. sched' \in Scheds /\ sched'.job = sched.job
  <2>1. sched' = [sched EXCEPT !.on = FALSE]
    BY DEF BeginNothing
  <2>2. sched' = [sched EXCEPT !.on = FALSE, !.job = sched.job]
    BY <1>1, <2>1 DEF Scheds
  <2>. QED
    BY <1>1, <2>2, JobChanges DEF Scheds
<1>7. UNCHANGED <<doc, cmds, last, snapshot, busy, store>>
  BY DEF BeginNothing, client
<1>. QED
  BY <1>1, <1>2, <1>3, <1>4, <1>5, <1>6, <1>7 DEF KindInv, EventsKind

(* A regen starts, of the document open now.                               *)
LEMMA BeginKind ==
    ASSUME KindInv, Begin
    PROVE  /\ KindInv' /\ sched.job = NoJob /\ sched'.job # NoJob /\ sched'.job.inst = doc.inst
           /\ \E e \in Starts : events' = Append(events, e) /\ e.inst = doc.inst
<1>. DEFINE job == [inst |-> doc.inst, source |-> doc.rev, cancelled |-> FALSE]
            e == [type |-> "started", inst |-> doc.inst]
<1>1. DocKind(doc) /\ sched \in Scheds /\ sched.job = NoJob /\ EventsKind(events) /\ doc.inst \in Nat
  BY DEF KindInv, Begin, EventsKind, DocKind, Docs
<1>2. job \in Jobs /\ job.inst = doc.inst
  BY <1>1 DEF DocKind, Docs, Jobs
<1>3. e \in Starts /\ EventKind(e) /\ e.inst = doc.inst
  BY <1>1 DEF Starts, EventKind, Events
<1>4. events' = Append(events, e) /\ sched' = [sched EXCEPT !.on = FALSE, !.job = job]
  BY DEF Begin
<1>. HIDE DEF job, e
<1>5. EventsKind(events')
  BY <1>1, <1>3, <1>4, EventsGrowByOne
<1>6. sched' \in Scheds /\ sched'.job = job
  <2>1. sched \in Scheds /\ FALSE \in BOOLEAN /\ job \in Jobs /\ sched' = [sched EXCEPT !.on = FALSE, !.job = job]
    BY <1>1, <1>2, <1>4
  <2>. QED
    BY <2>1, JobChanges
<1>7. UNCHANGED <<doc, cmds, last, snapshot, busy, store>>
  BY DEF Begin, client
<1>8. job # NoJob
  BY <1>1, <1>2 DEF NoJob, DocKind
<1>. QED
  BY <1>1, <1>2, <1>3, <1>4, <1>5, <1>6, <1>7, <1>8 DEF KindInv, EventsKind

(* A job that ends leaves the frontend alone.                              *)
LEMMA JobEndsKind ==
    ASSUME KindInv, JobEnds
    PROVE  /\ sched' \in Scheds /\ sched'.job = NoJob /\ sched'.job.inst = 0
           /\ UNCHANGED <<cmds, last, snapshot, busy, store>>
<1>1. sched \in Scheds /\ sched' = [sched EXCEPT !.job = NoJob] /\ NoJob \in Jobs
  BY DEF KindInv, JobEnds, NoJob, Jobs
<1>2. sched' = [on |-> sched.on, from |-> sched.from, job |-> NoJob, gate |-> sched.gate]
  BY <1>1 DEF Scheds
<1>3. sched' \in Scheds /\ sched'.job = NoJob
  BY <1>1, <1>2 DEF Scheds
<1>. QED
  BY <1>3 DEF JobEnds, client, NoJob

(* A regen publishes: change, projection and end, all of the document open *)
(* now.                                                                    *)
LEMMA PublishKind ==
    ASSUME KindInv, Publish
    PROVE  /\ KindInv' /\ sched.job # NoJob /\ sched.job.inst = doc.inst /\ sched'.job = NoJob
           /\ doc'.inst = doc.inst
           /\ \E a \in Changes, b \in ProjectionEvents, c \in Finishes :
                /\ events' = events \o <<a, b, c>>
                /\ a.inst = doc.inst /\ a.snap = doc'.snap /\ c.inst = doc.inst
<1>1. PICK k \in 1 .. (doc.cursor + 1), how \in {"error", "needsRepair"} :
        LET at(r) == Place(doc, r)
            ran == {r \in Applied(doc) : at(r) < k}
            halted == {r \in Applied(doc) : at(r) = k}
            status == [r \in Records |-> IF r \in ran THEN "ok" ELSE IF r \in halted THEN how ELSE "dirty"]
            d == [doc EXCEPT !.status = status, !.snap = <<doc.inst, doc.rev>>, !.shown = ran # {}]
            only(h) == IF how = h THEN halted ELSE {}
        IN /\ sched.job # NoJob /\ Current
           /\ "past_halt" \in Rare \/ k >= doc.cursor
           /\ halted = {} => how = "error"
           /\ doc' = d
           /\ events' = events \o <<[type |-> "change", inst |-> d.inst, rev |-> d.rev, snap |-> d.snap],
                                   ProjectionEvent(d),
                                   Finished(d, sched.job, "published", ran, only("error"),
                                            only("needsRepair"))>>
           /\ JobEnds
  BY DEF Publish
<1>. DEFINE at(r) == Place(doc, r)
            ran == {r \in Applied(doc) : at(r) < k}
            halted == {r \in Applied(doc) : at(r) = k}
            status == [r \in Records |-> IF r \in ran THEN "ok" ELSE IF r \in halted THEN how ELSE "dirty"]
            shown == ran # {}
            snap == <<doc.inst, doc.rev>>
            bad == IF how = "error" THEN halted ELSE {}
            repair == IF how = "needsRepair" THEN halted ELSE {}
            a == [type |-> "change", inst |-> doc'.inst, rev |-> doc'.rev, snap |-> doc'.snap]
            b == ProjectionEvent(doc')
            c == Finished(doc', sched.job, "published", ran, bad, repair)
<1>2. /\ sched.job # NoJob /\ Current /\ JobEnds
      /\ doc' = [doc EXCEPT !.status = status, !.snap = snap, !.shown = shown]
      /\ events' = events \o <<a, b, c>>
  BY <1>1
<1>3. DocKind(doc) /\ sched \in Scheds /\ EventsKind(events) /\ doc \in Docs /\ sched.job \in Jobs
  BY DEF KindInv, EventsKind, DocKind, Scheds
<1>4. /\ ran \in SUBSET Records /\ bad \in SUBSET Records /\ repair \in SUBSET Records
      /\ status \in [Records -> Statuses] /\ shown \in BOOLEAN /\ snap \in Snaps
  <2>1. doc.recs \in Seq(Records) /\ doc.cursor \in Nat /\ doc.cursor <= Len(doc.recs)
    BY <1>3 DEF DocKind, Docs
  <2>2. \A i \in 1 .. doc.cursor : doc.recs[i] \in Records
    BY <2>1, SeqIs
  <2>3. Applied(doc) \subseteq Records
    BY <2>2 DEF Applied
  <2>4. snap \in Snaps
    BY <1>3 DEF Docs, Snaps
  <2>. QED
    BY <2>3, <2>4 DEF Statuses
<1>. HIDE DEF ran, status, shown, snap, bad, repair
<1>5. doc' = [inst |-> doc.inst, id |-> doc.id, rev |-> doc.rev, recs |-> doc.recs, cursor |-> doc.cursor,
              status |-> status, past |-> doc.past, snap |-> snap, shown |-> shown]
  BY <1>2, <1>3 DEF Docs
<1>6. DocKind(doc') /\ doc'.inst = doc.inst /\ doc'.snap = snap
  <2>1. doc' \in Docs
    BY <1>3, <1>4, <1>5 DEF Docs
  <2>. QED
    BY <1>3, <1>5, <2>1 DEF DocKind
<1>7. a \in Changes /\ EventKind(a) /\ a.inst = doc.inst /\ a.snap = doc'.snap
  <2>1. doc'.inst \in Nat /\ doc'.rev \in Nat /\ doc'.snap \in Snaps
    BY <1>6 DEF DocKind, Docs
  <2>. QED
    BY <1>6, <2>1 DEF Changes, EventKind, Events
<1>8. b \in ProjectionEvents /\ EventKind(b)
  BY <1>6, ProjectionKind
<1>9. c \in Finishes /\ EventKind(c) /\ c.inst = doc.inst
  <2>1. sched.job.inst \in Nat /\ sched.job.source \in Nat /\ "published" \in Outcomes /\ sched.job.inst = doc.inst
    BY <1>2, <1>3 DEF Jobs, Outcomes, Current
  <2>2. c \in Finishes /\ EventKind(c) /\ c.inst = sched.job.inst
    BY <1>4, <1>6, <2>1, FinishKind
  <2>. QED
    BY <2>1, <2>2
<1>10. sched' \in Scheds /\ sched'.job = NoJob /\ sched'.job.inst = 0 /\ UNCHANGED <<cmds, last, snapshot, busy, store>>
  BY <1>2, JobEndsKind
<1>. HIDE DEF a, b, c
<1>11. EventsKind(events')
  <2>1. EventsKind(<<a, b, c>>)
    BY <1>7, <1>8, <1>9, SomeEvents
  <2>. QED
    BY <1>2, <1>3, <2>1, EventsGrow
<1>12. KindInv'
  <2>1. doc.inst \in Nat
    BY <1>3 DEF Docs
  <2>. QED
    BY <1>6, <1>10, <1>11, <2>1 DEF KindInv, EventsKind
<1>. QED
  BY <1>2, <1>6, <1>7, <1>8, <1>9, <1>10, <1>12 DEF Current

(* A regen that publishes nothing ends with a report, unless it is         *)
(* abandoned.                                                              *)
LEMMA UnpublishedKind ==
    ASSUME KindInv, Unpublished
    PROVE  /\ KindInv' /\ sched.job # NoJob /\ sched'.job = NoJob
           /\ UNCHANGED <<doc, cmds, last, snapshot, busy, store>>
           /\ \/ "abandoned" \in Rare /\ events' = events
              \/ \E a \in ProjectionEvents, b \in Finishes : events' = events \o <<a, b>> /\ b.inst = sched.job.inst
<1>1. PICK outcome \in {"superseded", "cancelled", "failed", "abandoned"} :
        /\ sched.job # NoJob /\ JobEnds
        /\ outcome = "abandoned" => "abandoned" \in Rare
        /\ events' = IF outcome = "abandoned" THEN events
                     ELSE events \o <<ProjectionEvent(doc), Finished(doc, sched.job, outcome, {}, {}, {})>>
  BY DEF Unpublished
<1>2. sched' \in Scheds /\ sched'.job = NoJob /\ sched'.job.inst = 0 /\ UNCHANGED <<cmds, last, snapshot, busy, store>>
  BY <1>1, JobEndsKind
<1>3. DocKind(doc) /\ EventsKind(events) /\ sched.job \in Jobs /\ doc.inst \in Nat
  BY DEF KindInv, EventsKind, Scheds, DocKind, Docs
<1>4. doc' = doc
  BY DEF Unpublished
<1>5. CASE outcome = "abandoned"
  BY <1>1, <1>2, <1>3, <1>4, <1>5 DEF KindInv, EventsKind
<1>6. CASE outcome # "abandoned"
  <2>. DEFINE a == ProjectionEvent(doc)  b == Finished(doc, sched.job, outcome, {}, {}, {})
  <2>1. a \in ProjectionEvents /\ EventKind(a)
    BY <1>3, ProjectionKind
  <2>2. b \in Finishes /\ EventKind(b) /\ b.inst = sched.job.inst
    <3>1. sched.job.inst \in Nat /\ sched.job.source \in Nat /\ outcome \in Outcomes
      BY <1>3, <1>6 DEF Jobs, Outcomes
    <3>. QED
      BY <1>3, <3>1, FinishKind
  <2>3. events' = events \o <<a, b>>
    BY <1>1, <1>6
  <2>. HIDE DEF a, b
  <2>4. EventsKind(events')
    <3>1. EventsKind(<<a, b>>)
      BY <2>1, <2>2, SomeEvents
    <3>. QED
      BY <1>3, <2>3, <3>1, EventsGrow
  <2>5. KindInv'
    BY <1>2, <1>3, <1>4, <2>4 DEF KindInv, EventsKind
  <2>. QED
    BY <1>1, <1>2, <1>4, <2>1, <2>2, <2>3, <2>5
<1>. QED
  BY <1>5, <1>6

(* What is heard leaves the backend alone.                                 *)
LEMMA ArrivesKind ==
    ASSUME KindInv, NEW type, Arrives(type)
    PROVE  /\ EventsKind(events') /\ events # <<>> /\ Head(events) \in Events /\ EventKind(Head(events))
           /\ Head(events).type = type /\ Deliverable(Head(events)) /\ events' = Tail(events)
           /\ UNCHANGED <<doc, sched>>
<1>1. EventsKind(events) /\ events # <<>> /\ events' = Tail(events)
  BY DEF KindInv, EventsKind, Arrives
<1>2. EventsKind(Tail(events)) /\ EventKind(Head(events)) /\ Head(events) \in Events
  BY <1>1, EventsShrink
<1>. QED
  BY <1>1, <1>2 DEF Arrives

(* What the frontend hears keeps the kinds.                                *)
LEMMA HearKind ==
    ASSUME KindInv,
           HearProjection \/ HearStarted \/ HearChange \/ HearFinished \/ HearAnswer \/ HearOpened \/ Timeout
    PROVE  KindInv' /\ UNCHANGED <<doc, sched>>
<1>1. CASE HearProjection
  <2>1. Arrives("projection") /\ UNCHANGED <<cmds, last, snapshot, busy>>
    BY <1>1 DEF HearProjection, client
  <2>2. /\ EventsKind(events') /\ Head(events) \in Events /\ EventKind(Head(events))
        /\ Head(events).type = "projection" /\ UNCHANGED <<doc, sched>>
    BY <2>1, ArrivesKind
  <2>3. Head(events).view \in Views /\ Head(events).view.cursor <= Len(Head(events).view.recs)
    BY <2>2 DEF EventKind, Events, ProjectionEvents, Starts, Changes, Finishes
  <2>4. store' = store \/ store' = Head(events).view
    BY <1>1 DEF HearProjection
  <2>. QED
    BY <2>1, <2>2, <2>3, <2>4 DEF KindInv, EventsKind
<1>2. CASE HearStarted
  <2>1. Arrives("started") /\ UNCHANGED <<cmds, last, snapshot, store>> /\ busy' = busy + 1
    BY <1>2 DEF HearStarted
  <2>2. EventsKind(events') /\ UNCHANGED <<doc, sched>>
    BY <2>1, ArrivesKind
  <2>. QED
    BY <2>1, <2>2 DEF KindInv, EventsKind
<1>3. CASE HearChange
  <2>1. Arrives("change") /\ snapshot' = Head(events).snap /\ last' = Head(events).rev /\ busy' = busy
    BY <1>3 DEF HearChange
  <2>2. EventsKind(events') /\ UNCHANGED <<doc, sched>>
    BY <2>1, ArrivesKind
  <2>3. Progress /\ Head(events) \in Changes
    BY <1>3, ChangeProgress
  <2>4. snapshot' \in Snaps /\ last' \in Nat
    BY <2>1, <2>3 DEF Changes
  <2>. QED
    BY <2>1, <2>2, <2>3, <2>4 DEF KindInv, EventsKind, Progress
<1>4. CASE HearFinished
  <2>1. Arrives("finished") /\ UNCHANGED <<last, snapshot>> /\ busy' = CountDown(Head(events))
    BY <1>4 DEF HearFinished
  <2>2. EventsKind(events') /\ UNCHANGED <<doc, sched>>
    BY <2>1, ArrivesKind
  <2>3. Progress
    BY <1>4, FinishProgress
  <2>4. busy' \in Nat
    BY <2>1 DEF CountDown, KindInv
  <2>. QED
    BY <2>1, <2>2, <2>3, <2>4 DEF KindInv, EventsKind, Progress
<1>5. CASE HearAnswer
  <2>1. Progress
    BY <1>5, AnswerProgress
  <2>2. UNCHANGED <<doc, sched, events, last, snapshot, busy>>
    BY <1>5 DEF HearAnswer, client
  <2>. QED
    BY <2>1, <2>2 DEF KindInv, Progress
<1>6. CASE HearOpened
  <2>1. Progress
    BY <1>6, OpenedProgress
  <2>2. UNCHANGED <<doc, sched, events>> /\ last' = 0 /\ snapshot' = <<0, 0>> /\ busy' = 0
    BY <1>6 DEF HearOpened, FreshSnapshot, NoSnapshot
  <2>. QED
    BY <2>1, <2>2 DEF KindInv, Progress, Snaps
<1>7. CASE Timeout
  <2>1. Progress
    BY <1>7, TimeoutProgress
  <2>2. UNCHANGED <<doc, sched, events, last, snapshot, busy>>
    BY <1>7 DEF Timeout, client
  <2>. QED
    BY <2>1, <2>2 DEF KindInv, Progress
<1>. QED
  BY <1>1, <1>2, <1>3, <1>4, <1>5, <1>6, <1>7

(* Every step keeps the kinds.                                             *)
LEMMA StepKind == KindInv /\ [Next]_vars => KindInv'
<1>. SUFFICES ASSUME KindInv, [Next]_vars PROVE KindInv'
  OBVIOUS
<1>1. CASE Send
  BY <1>1, SendKind
<1>2. CASE Handle
  BY <1>2, HandleKind
<1>3. CASE Refuse
  BY <1>3, RefuseKind
<1>4. CASE OpenDocument
  BY <1>4, OpenKind
<1>5. CASE GateOpens
  BY <1>5, GateKind
<1>6. CASE BeginNothing
  BY <1>6, BeginNothingKind
<1>7. CASE Begin
  BY <1>7, BeginKind
<1>8. CASE Publish
  BY <1>8, PublishKind
<1>9. CASE Unpublished
  BY <1>9, UnpublishedKind
<1>10. CASE HearProjection \/ HearStarted \/ HearChange \/ HearFinished \/ HearAnswer \/ HearOpened \/ Timeout
  BY <1>10, HearKind
<1>11. CASE UNCHANGED vars
  BY <1>11 DEF vars, client, KindInv
<1>. QED
  BY <1>1, <1>2, <1>3, <1>4, <1>5, <1>6, <1>7, <1>8, <1>9, <1>10, <1>11 DEF Next

(* A command's phase says what is known of its awaiter and its verdict.    *)
LEMMA KindIsTypes == KindInv => CorTypeOK
<1>. SUFFICES ASSUME KindInv PROVE CorTypeOK
  OBVIOUS
<1>1. Projection(doc) \in Views /\ doc.cursor <= Len(doc.recs)
  BY ProjectionKind DEF KindInv, DocKind
<1>2. ASSUME NEW i \in DOMAIN cmds
      PROVE  /\ cmds[i].phase \in {"sent", "answered", "waiting", "done"}
             /\ cmds[i].phase = "waiting" => cmds[i].waits /\ cmds[i].answer.view \in Views
             /\ cmds[i].phase = "done" => ~cmds[i].waits
  <2>1. CmdKind(cmds[i], doc.inst) /\ cmds[i] \in Cmds
    BY DEF KindInv, CmdKind
  <2>2. cmds[i].answer.ok => cmds[i].answer.view \in Views
    BY <2>1, AnswerIs
  <2>. QED
    BY <2>1, <2>2 DEF CmdKind, Cmds
<1>. QED
  BY <1>1, <1>2 DEF CorTypeOK, KindInv

(* In every state each part is of its kind.                                *)
LEMMA KindAlways == Spec => []KindInv
  BY InitKind, StepKind, PTL DEF Spec

(* The document and the projection of the frontend are of their types; a   *)
(* command waits only once it was answered well, for the document that     *)
(* answered it; a settled one waits for nothing. Whatever the order in     *)
(* which answers, events and timeouts are heard, and whatever is rare.     *)
THEOREM CorTypes == Spec => []CorTypeOK
  BY KindAlways, KindIsTypes, PTL

-----------------------------------------------------------------------------
(* Documents are heard of in the order they were opened.                   *)

(* The opens that are answered and not heard of stay what they are.        *)
OpensStay ==
    /\ OpenUnanswered' = OpenUnanswered
    /\ \A i \in OpenUnanswered : cmds'[i].answer = cmds[i].answer

(* An open is never refused, and names a document that was opened.         *)
LEMMA OpenIs ==
    ASSUME KindInv, NEW i \in DOMAIN cmds, Opens(cmds[i]), cmds[i].phase # "sent"
    PROVE  cmds[i].answer.ok /\ cmds[i].answer.inst \in Nat /\ cmds[i].answer.inst <= doc.inst /\ doc.inst \in Nat
<1>1. CmdKind(cmds[i], doc.inst) /\ doc.inst \in Nat
  BY DEF KindInv, DocKind, Docs
<1>2. cmds[i].answer.ok
  BY <1>1 DEF CmdKind, Opens
<1>. QED
  BY <1>1, <1>2, AnswerIs DEF CmdKind

(* The opens still to be heard of.                                         *)
LEMMA UnheardIs ==
    \A i : i \in OpenUnanswered <=> i \in DOMAIN cmds /\ cmds[i].phase = "answered" /\ Opens(cmds[i])
  BY DEF OpenUnanswered, Phase

(* Steps that open nothing and hear of no open.                            *)
LEMMA OpenByMoves ==
    ASSUME OpenInv, doc'.inst = doc.inst, DOMAIN cmds' = DOMAIN cmds, AllMove
    PROVE  OpenInv' /\ OpensStay
<1>1. ASSUME NEW i \in DOMAIN cmds
      PROVE  /\ cmds'[i].answer = cmds[i].answer /\ (Opens(cmds[i])' <=> Opens(cmds[i]))
             /\ cmds'[i].phase = "sent" <=> cmds[i].phase = "sent"
             /\ Opens(cmds[i]) => cmds'[i].phase = cmds[i].phase
  BY DEF AllMove, Moves, Opens
<1>2. OpenUnanswered' = OpenUnanswered
  BY <1>1 DEF OpenUnanswered, Phase
<1>3. OpensStay
  BY <1>1, <1>2, UnheardIs DEF OpensStay
<1>4. \A i, j \in DOMAIN cmds : i < j /\ cmds'[i].phase = "sent" => cmds'[j].phase = "sent"
  BY <1>1 DEF OpenInv
<1>5. \A i, j \in DOMAIN cmds : i < j /\ Opens(cmds[i])' /\ Opens(cmds[j])' /\ cmds'[j].phase # "sent" =>
        cmds'[i].answer.inst < cmds'[j].answer.inst
  BY <1>1 DEF OpenInv
<1>6. OpenUnanswered' # {} => Unheard(doc.inst)'
  BY <1>2, <1>3 DEF OpenInv, Unheard, OpensStay
<1>. QED
  BY <1>3, <1>4, <1>5, <1>6 DEF OpenInv

(* A command that is sent comes after all the others.                      *)
LEMMA OpenBySend ==
    ASSUME KindInv, OpenInv, doc' = doc, NEW c \in Cmds, c.phase = "sent", cmds' = Append(cmds, c)
    PROVE  OpenInv' /\ OpensStay
<1>1. /\ DOMAIN cmds' = 1 .. Len(cmds) + 1 /\ DOMAIN cmds = 1 .. Len(cmds) /\ Len(cmds) \in Nat
      /\ \A i \in DOMAIN cmds : cmds'[i] = cmds[i]
      /\ cmds'[Len(cmds) + 1] = c
  BY QueueGrowsByOne, SeqIs DEF KindInv
<1>2. OpenUnanswered' = OpenUnanswered
  <2>1. ASSUME NEW i PROVE i \in OpenUnanswered' <=> i \in OpenUnanswered
    <3>1. i \in OpenUnanswered' <=> i \in DOMAIN cmds' /\ cmds'[i].phase = "answered" /\ Opens(cmds'[i])
      BY DEF OpenUnanswered, Phase
    <3>2. i \in DOMAIN cmds' <=> i \in DOMAIN cmds \/ i = Len(cmds) + 1
      BY <1>1
    <3>3. Len(cmds) + 1 \notin DOMAIN cmds /\ cmds'[Len(cmds) + 1].phase # "answered"
      BY <1>1
    <3>. QED
      BY <1>1, <3>1, <3>2, <3>3, UnheardIs
  <2>. QED
    BY <2>1
<1>3. OpensStay
  BY <1>1, <1>2, UnheardIs DEF OpensStay
<1>4. ASSUME NEW i \in DOMAIN cmds', NEW j \in DOMAIN cmds', i < j
      PROVE  i \in DOMAIN cmds /\ (j \in DOMAIN cmds \/ j = Len(cmds) + 1)
  BY <1>1, <1>4
<1>5. \A i, j \in DOMAIN cmds' : i < j /\ cmds'[i].phase = "sent" => cmds'[j].phase = "sent"
  <2>. SUFFICES ASSUME NEW i \in DOMAIN cmds', NEW j \in DOMAIN cmds', i < j, cmds'[i].phase = "sent"
                PROVE  cmds'[j].phase = "sent"
    OBVIOUS
  <2>. QED
    BY <1>1, <1>4 DEF OpenInv
<1>6. \A i, j \in DOMAIN cmds' : i < j /\ Opens(cmds'[i]) /\ Opens(cmds'[j]) /\ cmds'[j].phase # "sent" =>
        cmds'[i].answer.inst < cmds'[j].answer.inst
  <2>. SUFFICES ASSUME NEW i \in DOMAIN cmds', NEW j \in DOMAIN cmds', i < j,
                       Opens(cmds'[i]), Opens(cmds'[j]), cmds'[j].phase # "sent"
                PROVE  cmds'[i].answer.inst < cmds'[j].answer.inst
    OBVIOUS
  <2>1. i \in DOMAIN cmds /\ j \in DOMAIN cmds
    BY <1>1, <1>4
  <2>. QED
    BY <1>1, <2>1 DEF OpenInv
<1>7. OpenUnanswered' # {} => Unheard(doc.inst)'
  BY <1>2, <1>3 DEF OpenInv, Unheard, OpensStay
<1>. QED
  BY <1>3, <1>5, <1>6, <1>7 DEF OpenInv, Opens

(* The first command that was sent is answered.                            *)
LEMMA OpenByAnswer ==
    ASSUME OpenInv, doc'.inst = doc.inst, DOMAIN cmds' = DOMAIN cmds, DOMAIN cmds \subseteq Nat,
           NEW i \in DOMAIN cmds, cmds[i].phase = "sent", ~Opens(cmds[i]),
           \A j \in DOMAIN cmds : cmds[j].phase = "sent" => i <= j,
           \A j \in DOMAIN cmds : j # i => cmds'[j] = cmds[j],
           cmds'[i].phase = "answered", cmds'[i].kind = cmds[i].kind
    PROVE  OpenInv' /\ OpensStay
<1>1. ~Opens(cmds'[i])
  BY DEF Opens
<1>2. OpenUnanswered' = OpenUnanswered
  <2>1. ASSUME NEW j PROVE j \in OpenUnanswered' <=> j \in OpenUnanswered
    <3>1. j \in OpenUnanswered' <=> j \in DOMAIN cmds' /\ cmds'[j].phase = "answered" /\ Opens(cmds'[j])
      BY DEF OpenUnanswered, Phase
    <3>. QED
      BY <1>1, <3>1, UnheardIs
  <2>. QED
    BY <2>1
<1>3. OpensStay
  BY <1>2, UnheardIs DEF OpensStay
<1>4. \A j, k \in DOMAIN cmds' : j < k /\ cmds'[j].phase = "sent" => cmds'[k].phase = "sent"
  <2>. SUFFICES ASSUME NEW j \in DOMAIN cmds', NEW k \in DOMAIN cmds', j < k, cmds'[j].phase = "sent"
                PROVE  cmds'[k].phase = "sent"
    OBVIOUS
  <2>1. j # i /\ cmds[j].phase = "sent"
    OBVIOUS
  <2>2. k # i
    BY <2>1
  <2>. QED
    BY <2>1, <2>2 DEF OpenInv
<1>5. \A j, k \in DOMAIN cmds' : j < k /\ Opens(cmds'[j]) /\ Opens(cmds'[k]) /\ cmds'[k].phase # "sent" =>
        cmds'[j].answer.inst < cmds'[k].answer.inst
  BY <1>1 DEF OpenInv
<1>6. OpenUnanswered' # {} => Unheard(doc.inst)'
  BY <1>2, <1>3 DEF OpenInv, Unheard, OpensStay
<1>. QED
  BY <1>3, <1>4, <1>5, <1>6 DEF OpenInv, Opens

(* The newest document is the last to be heard of.                         *)
LEMMA OpenByOpen ==
    ASSUME KindInv, OpenInv, OpenDocument
    PROVE  OpenInv' /\ OpenUnanswered' # {} /\ Unheard(doc.inst)'
<1>. DEFINE i == Next1("sent")
<1>1. /\ KindInv' /\ doc'.inst = doc.inst + 1
      /\ i \in DOMAIN cmds /\ cmds[i].phase = "sent" /\ Opens(cmds[i])
      /\ \A j \in DOMAIN cmds : cmds[j].phase = "sent" => i <= j
      /\ DOMAIN cmds' = DOMAIN cmds
      /\ \A j \in DOMAIN cmds : j # i => cmds'[j] = cmds[j]
      /\ cmds'[i].phase = "answered" /\ cmds'[i].kind = cmds[i].kind
      /\ cmds'[i].answer.inst = doc'.inst
  BY OpenKind
<1>. HIDE DEF i
<1>2. DOMAIN cmds \subseteq Nat /\ doc.inst \in Nat
  BY SeqIs DEF KindInv, DocKind, Docs
<1>3. Opens(cmds'[i])
  BY <1>1 DEF Opens
<1>4. i \in OpenUnanswered'
  BY <1>1, <1>3 DEF OpenUnanswered, Phase
<1>5. Unheard(doc.inst)'
  BY <1>1, <1>4 DEF Unheard
<1>6. \A j, k \in DOMAIN cmds' : j < k /\ cmds'[j].phase = "sent" => cmds'[k].phase = "sent"
  <2>. SUFFICES ASSUME NEW j \in DOMAIN cmds', NEW k \in DOMAIN cmds', j < k, cmds'[j].phase = "sent"
                PROVE  cmds'[k].phase = "sent"
    OBVIOUS
  <2>1. j # i /\ cmds[j].phase = "sent" /\ j \in DOMAIN cmds
    BY <1>1
  <2>2. k # i
    BY <1>1, <1>2, <2>1
  <2>. QED
    BY <1>1, <2>1, <2>2 DEF OpenInv
<1>7. \A j, k \in DOMAIN cmds' : j < k /\ Opens(cmds'[j]) /\ Opens(cmds'[k]) /\ cmds'[k].phase # "sent" =>
        cmds'[j].answer.inst < cmds'[k].answer.inst
  <2>. SUFFICES ASSUME NEW j \in DOMAIN cmds', NEW k \in DOMAIN cmds', j < k,
                       Opens(cmds'[j]), Opens(cmds'[k]), cmds'[k].phase # "sent"
                PROVE  cmds'[j].answer.inst < cmds'[k].answer.inst
    OBVIOUS
  <2>1. j \in DOMAIN cmds /\ k \in DOMAIN cmds
    BY <1>1
  <2>2. CASE k = i
    <3>1. j # i /\ cmds'[j] = cmds[j] /\ cmds[j].phase # "sent"
      <4>1. j \in Nat /\ i \in Nat /\ ~(i <= j) /\ j # i
        BY <1>2, <2>1, <2>2
      <4>. QED
        BY <1>1, <2>1, <4>1
    <3>2. cmds[j].answer.inst \in Nat /\ cmds[j].answer.inst <= doc.inst
      BY <2>1, <3>1, OpenIs
    <3>. QED
      BY <1>1, <1>2, <2>2, <3>1, <3>2
  <2>3. CASE k # i
    <3>1. cmds'[k] = cmds[k] /\ j # i /\ cmds'[j] = cmds[j]
      <4>1. cmds'[k] = cmds[k] /\ cmds[k].phase # "sent"
        BY <1>1, <2>1, <2>3
      <4>2. j # i
        BY <1>1, <2>1, <4>1 DEF OpenInv
      <4>. QED
        BY <1>1, <2>1, <4>1, <4>2
    <3>. QED
      BY <2>1, <3>1 DEF OpenInv
  <2>. QED
    BY <2>2, <2>3
<1>. QED
  BY <1>4, <1>5, <1>6, <1>7 DEF OpenInv, Opens

(* An open is heard of: another that waits is a later one.                 *)
LEMMA OpenByHeard ==
    ASSUME KindInv, OpenInv, HearOpened
    PROVE  /\ OpenInv' /\ Unheard(doc.inst) /\ doc'.inst = doc.inst
           /\ OpenUnanswered' = {} => cmds[Next1("answered")].answer.inst = doc.inst
<1>. DEFINE i == Next1("answered")
<1>1. /\ Progress /\ i \in DOMAIN cmds /\ cmds[i].phase = "answered" /\ Opens(cmds[i])
      /\ \A j \in DOMAIN cmds : j < i => cmds[j].phase # "answered"
      /\ cmds'[i].phase = "done" /\ cmds'[i].kind = cmds[i].kind /\ cmds'[i].answer = cmds[i].answer
      /\ \A j \in DOMAIN cmds : j # i => Moves(cmds[j], cmds'[j])
  BY OpenedProgress
<1>2. doc' = doc /\ DOMAIN cmds' = DOMAIN cmds /\ DOMAIN cmds \subseteq Nat
  BY <1>1, SeqIs DEF HearOpened, Progress, KindInv
<1>. HIDE DEF i
<1>3. ASSUME NEW j \in DOMAIN cmds
      PROVE  /\ cmds'[j].answer = cmds[j].answer /\ (Opens(cmds'[j]) <=> Opens(cmds[j]))
             /\ cmds'[j].phase = "sent" <=> cmds[j].phase = "sent"
             /\ Opens(cmds[j]) /\ j # i => cmds'[j].phase = cmds[j].phase
  BY <1>1 DEF Moves, Opens
<1>4. ASSUME NEW j PROVE j \in OpenUnanswered' <=> j \in OpenUnanswered /\ j # i
  <2>1. j \in OpenUnanswered' <=> j \in DOMAIN cmds' /\ cmds'[j].phase = "answered" /\ Opens(cmds'[j])
    BY DEF OpenUnanswered, Phase
  <2>. QED
    BY <1>1, <1>2, <1>3, <2>1, UnheardIs
<1>5. i \in OpenUnanswered /\ Unheard(doc.inst)
  BY <1>1, UnheardIs DEF OpenInv
<1>6. PICK k \in OpenUnanswered : cmds[k].answer.inst = doc.inst
  BY <1>5 DEF Unheard
<1>7. OpenUnanswered' # {} => k # i
  <2>. SUFFICES ASSUME OpenUnanswered' # {}, k = i PROVE FALSE
    OBVIOUS
  <2>1. PICK j \in OpenUnanswered : j # i
    BY <1>4
  <2>2. j \in DOMAIN cmds /\ cmds[j].phase = "answered" /\ Opens(cmds[j])
    BY <2>1, UnheardIs
  <2>3. i < j
    <3>1. i \in Nat /\ j \in Nat /\ ~(j < i) /\ j # i
      BY <1>1, <1>2, <2>1, <2>2
    <3>. QED
      BY <3>1
  <2>4. cmds[i].answer.inst < cmds[j].answer.inst
    BY <1>1, <2>2, <2>3 DEF OpenInv
  <2>5. cmds[j].answer.inst \in Nat /\ cmds[j].answer.inst <= doc.inst /\ doc.inst \in Nat
    BY <2>2, OpenIs
  <2>. QED
    BY <1>6, <2>4, <2>5
<1>8. OpenUnanswered' # {} => Unheard(doc.inst)'
  <2>. SUFFICES ASSUME OpenUnanswered' # {} PROVE Unheard(doc.inst)'
    OBVIOUS
  <2>1. k \in OpenUnanswered' /\ cmds'[k].answer = cmds[k].answer
    BY <1>3, <1>4, <1>6, <1>7, UnheardIs
  <2>. QED
    BY <1>2, <1>6, <2>1 DEF Unheard
<1>9. OpenUnanswered' = {} => cmds[i].answer.inst = doc.inst
  <2>1. OpenUnanswered' = {} => k = i
    BY <1>4, <1>6
  <2>. QED
    BY <1>6, <2>1
<1>10. \A j, m \in DOMAIN cmds' : j < m /\ cmds'[j].phase = "sent" => cmds'[m].phase = "sent"
  BY <1>2, <1>3 DEF OpenInv
<1>11. \A j, m \in DOMAIN cmds' : j < m /\ Opens(cmds'[j]) /\ Opens(cmds'[m]) /\ cmds'[m].phase # "sent" =>
         cmds'[j].answer.inst < cmds'[m].answer.inst
  BY <1>2, <1>3 DEF OpenInv
<1>. QED
  BY <1>2, <1>5, <1>8, <1>9, <1>10, <1>11 DEF OpenInv, Opens, i

(* Every other step leaves the opens as they are.                          *)
LEMMA OpenStep ==
    ASSUME KindInv, OpenInv,
           \/ Send \/ Handle \/ Refuse \/ GateOpens \/ BeginNothing \/ Begin \/ Publish \/ Unpublished
           \/ HearProjection \/ HearStarted \/ HearChange \/ HearFinished \/ HearAnswer \/ Timeout
           \/ UNCHANGED vars
    PROVE  OpenInv' /\ OpensStay /\ doc'.inst = doc.inst
<1>1. DOMAIN cmds \subseteq Nat
  BY SeqIs DEF KindInv
<1>2. ASSUME UNCHANGED cmds, doc'.inst = doc.inst PROVE OpenInv' /\ OpensStay
  <2>1. AllMove /\ DOMAIN cmds' = DOMAIN cmds
    BY <1>2 DEF AllMove, Moves
  <2>. QED
    BY <1>2, <2>1, OpenByMoves
<1>3. CASE Send
  <2>1. doc' = doc
    BY <1>3 DEF Send
  <2>2. PICK c \in Cmds : c.phase = "sent" /\ cmds' = Append(cmds, c)
    BY <1>3, SendKind
  <2>. QED
    BY <2>1, <2>2, OpenBySend
<1>4. CASE Handle
  <2>. DEFINE i == Next1("sent")
  <2>1. /\ doc'.inst = doc.inst
        /\ i \in DOMAIN cmds /\ cmds[i].phase = "sent" /\ ~Opens(cmds[i])
        /\ \A j \in DOMAIN cmds : cmds[j].phase = "sent" => i <= j
        /\ DOMAIN cmds' = DOMAIN cmds
        /\ \A j \in DOMAIN cmds : j # i => cmds'[j] = cmds[j]
        /\ cmds'[i].phase = "answered" /\ cmds'[i].kind = cmds[i].kind
    BY <1>4, HandleKind
  <2>. HIDE DEF i
  <2>. QED
    BY <1>1, <2>1, OpenByAnswer
<1>5. CASE Refuse
  <2>. DEFINE i == Next1("sent")
  <2>1. /\ i \in DOMAIN cmds /\ cmds[i].phase = "sent" /\ ~Opens(cmds[i])
        /\ \A j \in DOMAIN cmds : cmds[j].phase = "sent" => i <= j
        /\ DOMAIN cmds' = DOMAIN cmds
        /\ \A j \in DOMAIN cmds : j # i => cmds'[j] = cmds[j]
        /\ cmds'[i].phase = "answered" /\ cmds'[i].kind = cmds[i].kind
    BY <1>5, RefuseKind
  <2>2. doc'.inst = doc.inst
    BY <1>5 DEF Refuse
  <2>. HIDE DEF i
  <2>. QED
    BY <1>1, <2>1, <2>2, OpenByAnswer
<1>6. CASE GateOpens
  BY <1>2, <1>6 DEF GateOpens
<1>7. CASE BeginNothing
  BY <1>2, <1>7 DEF BeginNothing
<1>8. CASE Begin
  BY <1>2, <1>8 DEF Begin
<1>9. CASE Publish
  <2>1. doc'.inst = doc.inst
    BY <1>9, PublishKind
  <2>2. cmds' = cmds
    BY <1>9 DEF Publish, JobEnds
  <2>. QED
    BY <1>2, <2>1, <2>2
<1>10. CASE Unpublished
  BY <1>2, <1>10, UnpublishedKind
<1>11. CASE HearProjection
  BY <1>2, <1>11 DEF HearProjection, Arrives
<1>12. CASE HearStarted
  BY <1>2, <1>12 DEF HearStarted, Arrives
<1>13. CASE HearChange
  <2>1. Progress /\ AllMove
    BY <1>13, ChangeProgress
  <2>2. doc' = doc
    BY <1>13 DEF HearChange, Arrives
  <2>. QED
    BY <2>1, <2>2, OpenByMoves DEF Progress
<1>14. CASE HearFinished
  <2>1. Progress /\ AllMove
    BY <1>14, FinishProgress
  <2>2. doc' = doc
    BY <1>14 DEF HearFinished, Arrives
  <2>. QED
    BY <2>1, <2>2, OpenByMoves DEF Progress
<1>15. CASE HearAnswer
  <2>1. Progress /\ AllMove
    BY <1>15, AnswerProgress
  <2>2. doc' = doc
    BY <1>15 DEF HearAnswer
  <2>. QED
    BY <2>1, <2>2, OpenByMoves DEF Progress
<1>16. CASE Timeout
  <2>1. Progress /\ AllMove
    BY <1>16, TimeoutProgress
  <2>2. doc' = doc
    BY <1>16 DEF Timeout
  <2>. QED
    BY <2>1, <2>2, OpenByMoves DEF Progress
<1>17. CASE UNCHANGED vars
  BY <1>2, <1>17 DEF vars
<1>. QED
  BY <1>3, <1>4, <1>5, <1>6, <1>7, <1>8, <1>9, <1>10, <1>11, <1>12, <1>13, <1>14, <1>15, <1>16, <1>17

(* Then the document open now is heard of, or not, as before.              *)
LEMMA StaysUnheard ==
    ASSUME OpensStay, doc'.inst = doc.inst
    PROVE  (OpenUnanswered' = {} <=> OpenUnanswered = {}) /\ (Unheard(doc.inst)' <=> Unheard(doc.inst))
  BY DEF OpensStay, Unheard

-----------------------------------------------------------------------------
(* The snapshot the frontend holds.                                        *)

(* Events of any other type reach the queue.                               *)
LEMMA SnapGrows ==
    ASSUME KindInv, SnapInv, OpensStay, doc'.inst = doc.inst, doc'.snap = doc.snap, snapshot' = snapshot,
           NEW new \in Seq(Events), events' = events \o new, \A m \in DOMAIN new : new[m].type # "change"
    PROVE  SnapInv'
<1>1. /\ DOMAIN events' = 1 .. Len(events) + Len(new) /\ DOMAIN events = 1 .. Len(events)
      /\ DOMAIN new = 1 .. Len(new) /\ Len(events) \in Nat /\ Len(new) \in Nat
      /\ \A k \in 1 .. Len(events) : events'[k] = events[k]
      /\ \A k \in Len(events) + 1 .. Len(events) + Len(new) : events'[k] = new[k - Len(events)]
  <2>1. /\ events' \in Seq(Events) /\ Len(events') = Len(events) + Len(new) /\ Len(events) \in Nat /\ Len(new) \in Nat
        /\ \A k \in 1 .. Len(events) : events'[k] = events[k]
        /\ \A k \in Len(events) + 1 .. Len(events) + Len(new) : events'[k] = new[k - Len(events)]
    BY JoinIs DEF KindInv
  <2>2. events \in Seq(Events)
    BY DEF KindInv
  <2>. QED
    BY <2>1, <2>2, SeqIs
<1>2. ASSUME NEW k \in DOMAIN events', events'[k].type = "change"
      PROVE  k \in DOMAIN events /\ events'[k] = events[k]
  <2>1. CASE k \in 1 .. Len(events)
    BY <1>1, <2>1
  <2>2. CASE k \in Len(events) + 1 .. Len(events) + Len(new)
    <3>1. k - Len(events) \in DOMAIN new /\ events'[k] = new[k - Len(events)]
      BY <1>1, <2>2
    <3>. QED
      BY <1>2, <3>1
  <2>. QED
    BY <1>1, <2>1, <2>2
<1>3. \A k \in DOMAIN events : k \in DOMAIN events' /\ events'[k] = events[k]
  BY <1>1
<1>4. (OpenUnanswered' = {} <=> OpenUnanswered = {}) /\ (Unheard(doc.inst)' <=> Unheard(doc.inst))
  BY StaysUnheard
<1>5. \A k \in DOMAIN events' : events'[k].type = "change" =>
         /\ events'[k].inst <= doc.inst
         /\ events'[k].inst < doc.inst => OpenUnanswered # {}
  BY <1>2 DEF SnapInv, IsChange
<1>6. ASSUME NEW k \in DOMAIN events', LastChange(k)', events'[k].inst = doc.inst
      PROVE  events'[k].snap = doc.snap
  <2>1. k \in DOMAIN events /\ events'[k] = events[k] /\ events[k].type = "change"
    BY <1>2, <1>6 DEF LastChange, IsChange
  <2>2. \A m \in DOMAIN events : m > k => events[m].type # "change"
    BY <1>3, <1>6 DEF LastChange, IsChange
  <2>. QED
    BY <1>6, <2>1, <2>2 DEF SnapInv, LastChange, IsChange
<1>7. ASSUME \A k \in DOMAIN events' : events'[k].type = "change" => events'[k].inst # doc.inst
      PROVE  \A k \in DOMAIN events : events[k].type = "change" => events[k].inst # doc.inst
  BY <1>3, <1>7
<1>8. (\A k \in DOMAIN events' : events'[k].type = "change" => events'[k].inst # doc.inst) =>
        IF Unheard(doc.inst) THEN doc.snap = NoSnapshot ELSE snapshot = doc.snap
  BY <1>7 DEF SnapInv, IsChange
<1>. QED
  BY <1>4, <1>5, <1>6, <1>8 DEF SnapInv, IsChange

(* A regen publishes its change.                                           *)
LEMMA SnapByPublish ==
    ASSUME KindInv, SnapInv, OpensStay, doc'.inst = doc.inst,
           NEW a \in Changes, NEW b \in ProjectionEvents, NEW c \in Finishes, events' = events \o <<a, b, c>>,
           a.inst = doc.inst, a.snap = doc'.snap
    PROVE  SnapInv'
<1>. DEFINE n == Len(events)
<1>1. /\ DOMAIN events' = 1 .. n + 3 /\ DOMAIN events = 1 .. n /\ n \in Nat
      /\ \A k \in 1 .. n : events'[k] = events[k]
      /\ events'[n + 1] = a /\ events'[n + 2] = b /\ events'[n + 3] = c
  <2>1. <<a, b, c>> \in Seq(Events) /\ Len(<<a, b, c>>) = 3 /\ events \in Seq(Events)
    BY DEF KindInv, Events
  <2>2. /\ events' \in Seq(Events) /\ Len(events') = n + 3 /\ n \in Nat
        /\ \A k \in 1 .. n : events'[k] = events[k]
        /\ \A k \in n + 1 .. n + 3 : events'[k] = <<a, b, c>>[k - n]
    BY <2>1, JoinIs
  <2>3. <<a, b, c>>[1] = a /\ <<a, b, c>>[2] = b /\ <<a, b, c>>[3] = c
    OBVIOUS
  <2>4. /\ n + 1 \in n + 1 .. n + 3 /\ n + 2 \in n + 1 .. n + 3 /\ n + 3 \in n + 1 .. n + 3
        /\ n + 1 - n = 1 /\ n + 2 - n = 2 /\ n + 3 - n = 3
    BY <2>2
  <2>5. events'[n + 1] = a /\ events'[n + 2] = b /\ events'[n + 3] = c
    BY <2>2, <2>3, <2>4
  <2>. QED
    BY <2>1, <2>2, <2>5, SeqIs
<1>2. a.type = "change" /\ b.type = "projection" /\ c.type = "finished"
  BY DEF Changes, ProjectionEvents, Finishes
<1>. HIDE DEF n
<1>3. ASSUME NEW k \in DOMAIN events', events'[k].type = "change"
      PROVE  k = n + 1 \/ (k \in DOMAIN events /\ events'[k] = events[k])
  <2>1. k \in 1 .. n \/ k = n + 1 \/ k = n + 2 \/ k = n + 3
    BY <1>1
  <2>2. k # n + 2 /\ k # n + 3
    BY <1>1, <1>2, <1>3
  <2>3. k \in 1 .. n => k \in DOMAIN events /\ events'[k] = events[k]
    BY <1>1
  <2>. QED
    BY <2>1, <2>2, <2>3
<1>4. (OpenUnanswered' = {} <=> OpenUnanswered = {}) /\ n + 1 \in DOMAIN events' /\ doc.inst \in Nat
  <2>1. doc.inst \in Nat
    BY DEF KindInv, DocKind, Docs
  <2>2. OpenUnanswered' = {} <=> OpenUnanswered = {}
    BY StaysUnheard
  <2>3. n + 1 \in DOMAIN events'
    BY <1>1
  <2>. QED
    BY <2>1, <2>2, <2>3
<1>5. \A k \in DOMAIN events' : events'[k].type = "change" =>
         /\ events'[k].inst <= doc.inst
         /\ events'[k].inst < doc.inst => OpenUnanswered # {}
  <2>. SUFFICES ASSUME NEW k \in DOMAIN events', events'[k].type = "change"
                PROVE  events'[k].inst <= doc.inst /\ (events'[k].inst < doc.inst => OpenUnanswered # {})
    OBVIOUS
  <2>1. CASE k = n + 1
    BY <1>1, <1>4, <2>1
  <2>2. CASE k \in DOMAIN events /\ events'[k] = events[k]
    BY <2>2 DEF SnapInv, IsChange
  <2>. QED
    BY <1>3, <2>1, <2>2
<1>6. ASSUME NEW k \in DOMAIN events', LastChange(k)'
      PROVE  events'[k].snap = doc'.snap
  <2>1. k = n + 1 \/ k \in DOMAIN events
    BY <1>3, <1>6 DEF LastChange, IsChange
  <2>2. k \in DOMAIN events => n + 1 > k
    BY <1>1
  <2>3. k = n + 1
    BY <1>1, <1>2, <1>4, <1>6, <2>1, <2>2 DEF LastChange, IsChange
  <2>. QED
    BY <1>1, <2>3
<1>7. ~(\A k \in DOMAIN events' : events'[k].type = "change" => events'[k].inst # doc.inst)
  BY <1>1, <1>2, <1>4
<1>. QED
  BY <1>4, <1>5, <1>6, <1>7 DEF SnapInv, IsChange

(* What the queue was, from what it is after its first event left.         *)
LEMMA QueueWas ==
    ASSUME KindInv, NEW type, Arrives(type)
    PROVE  /\ 1 \in DOMAIN events /\ events[1] = Head(events) /\ events[1].type = type /\ events[1] \in Events
           /\ DOMAIN events \subseteq Nat \ {0} /\ DOMAIN events' \subseteq Nat \ {0}
           /\ \A k \in DOMAIN events' : k + 1 \in DOMAIN events /\ events'[k] = events[k + 1]
           /\ \A k \in DOMAIN events : k > 1 => k - 1 \in DOMAIN events' /\ events'[k - 1] = events[k]
<1>1. events \in Seq(Events) /\ events # <<>> /\ events' = Tail(events) /\ Head(events).type = type
  BY DEF KindInv, Arrives
<1>2. /\ Tail(events) \in Seq(Events) /\ Len(Tail(events)) = Len(events) - 1 /\ Len(events) > 0
      /\ DOMAIN Tail(events) = 1 .. Len(events) - 1 /\ 1 \in DOMAIN events /\ Head(events) = events[1]
      /\ \A i \in DOMAIN Tail(events) : i + 1 \in DOMAIN events /\ Tail(events)[i] = events[i + 1]
  BY <1>1, QueueShrinks
<1>3. DOMAIN events = 1 .. Len(events) /\ Len(events) \in Nat /\ events[1] \in Events
  BY <1>1, <1>2, SeqIs
<1>4. ASSUME NEW k \in DOMAIN events, k > 1 PROVE k - 1 \in DOMAIN events' /\ events'[k - 1] = events[k]
  <2>1. k - 1 \in DOMAIN Tail(events) /\ (k - 1) + 1 = k
    BY <1>2, <1>3, <1>4
  <2>. QED
    BY <1>1, <1>2, <2>1
<1>5. DOMAIN events \subseteq Nat \ {0} /\ DOMAIN events' \subseteq Nat \ {0}
  BY <1>1, <1>2, <1>3
<1>. QED
  BY <1>1, <1>2, <1>3, <1>4, <1>5

(* Another event is heard.                                                 *)
LEMMA SnapShrinks ==
    ASSUME KindInv, SnapInv, OpensStay, doc' = doc, snapshot' = snapshot, NEW type, type # "change", Arrives(type)
    PROVE  SnapInv'
<1>1. /\ 1 \in DOMAIN events /\ events[1].type = type /\ DOMAIN events \subseteq Nat \ {0}
      /\ DOMAIN events' \subseteq Nat \ {0}
      /\ \A k \in DOMAIN events' : k + 1 \in DOMAIN events /\ events'[k] = events[k + 1]
      /\ \A k \in DOMAIN events : k > 1 => k - 1 \in DOMAIN events' /\ events'[k - 1] = events[k]
  BY QueueWas
<1>2. (OpenUnanswered' = {} <=> OpenUnanswered = {}) /\ (Unheard(doc.inst)' <=> Unheard(doc.inst))
  BY StaysUnheard
<1>3. \A k \in DOMAIN events' : events'[k].type = "change" =>
         /\ events'[k].inst <= doc.inst
         /\ events'[k].inst < doc.inst => OpenUnanswered # {}
  BY <1>1 DEF SnapInv, IsChange
<1>4. ASSUME NEW k \in DOMAIN events', LastChange(k)', events'[k].inst = doc.inst
      PROVE  events'[k].snap = doc.snap
  <2>1. k + 1 \in DOMAIN events /\ events'[k] = events[k + 1] /\ events[k + 1].type = "change"
    BY <1>1, <1>4 DEF LastChange, IsChange
  <2>2. ASSUME NEW m \in DOMAIN events, m > k + 1 PROVE events[m].type # "change"
    <3>1. m > 1 /\ m - 1 > k /\ k \in Nat /\ m \in Nat
      BY <1>1, <2>2
    <3>2. m - 1 \in DOMAIN events' /\ events'[m - 1] = events[m]
      BY <1>1, <3>1
    <3>. QED
      BY <1>4, <3>1, <3>2 DEF LastChange, IsChange
  <2>. QED
    BY <1>4, <2>1, <2>2 DEF SnapInv, LastChange, IsChange
<1>5. ASSUME \A k \in DOMAIN events' : events'[k].type = "change" => events'[k].inst # doc.inst
      PROVE  \A k \in DOMAIN events : events[k].type = "change" => events[k].inst # doc.inst
  <2>. SUFFICES ASSUME NEW k \in DOMAIN events, events[k].type = "change" PROVE events[k].inst # doc.inst
    OBVIOUS
  <2>1. k > 1
    BY <1>1
  <2>. QED
    BY <1>1, <1>5, <2>1
<1>6. (\A k \in DOMAIN events' : events'[k].type = "change" => events'[k].inst # doc.inst) =>
        IF Unheard(doc.inst) THEN doc.snap = NoSnapshot ELSE snapshot = doc.snap
  BY <1>5 DEF SnapInv, IsChange
<1>. QED
  BY <1>2, <1>3, <1>4, <1>6 DEF SnapInv, IsChange

(* A change is heard: it is the document's own, or its open is still to be *)
(* heard of.                                                               *)
LEMMA SnapByChange ==
    ASSUME KindInv, OpenInv, SnapInv, OpensStay, HearChange, "fast_open" \notin Rare
    PROVE  SnapInv'
<1>1. Arrives("change") /\ snapshot' = Head(events).snap /\ doc' = doc
  BY DEF HearChange, Arrives
<1>2. /\ 1 \in DOMAIN events /\ events[1] = Head(events) /\ events[1].type = "change"
      /\ DOMAIN events \subseteq Nat \ {0}
      /\ DOMAIN events' \subseteq Nat \ {0}
      /\ \A k \in DOMAIN events' : k + 1 \in DOMAIN events /\ events'[k] = events[k + 1]
      /\ \A k \in DOMAIN events : k > 1 => k - 1 \in DOMAIN events' /\ events'[k - 1] = events[k]
  BY <1>1, QueueWas
<1>3. (OpenUnanswered' = {} <=> OpenUnanswered = {}) /\ (Unheard(doc.inst)' <=> Unheard(doc.inst))
  BY <1>1, StaysUnheard
<1>4. \A k \in DOMAIN events' : events'[k].type = "change" =>
         /\ events'[k].inst <= doc.inst
         /\ events'[k].inst < doc.inst => OpenUnanswered # {}
  BY <1>2 DEF SnapInv, IsChange
<1>5. ASSUME NEW k \in DOMAIN events', LastChange(k)', events'[k].inst = doc.inst
      PROVE  events'[k].snap = doc.snap
  <2>1. k + 1 \in DOMAIN events /\ events'[k] = events[k + 1] /\ events[k + 1].type = "change"
    BY <1>2, <1>5 DEF LastChange, IsChange
  <2>2. ASSUME NEW m \in DOMAIN events, m > k + 1 PROVE events[m].type # "change"
    <3>1. m > 1 /\ m - 1 > k /\ k \in Nat /\ m \in Nat
      BY <1>2, <2>2
    <3>2. m - 1 \in DOMAIN events' /\ events'[m - 1] = events[m]
      BY <1>2, <3>1
    <3>. QED
      BY <1>5, <3>1, <3>2 DEF LastChange, IsChange
  <2>. QED
    BY <1>5, <2>1, <2>2 DEF SnapInv, LastChange, IsChange
<1>6. ASSUME \A k \in DOMAIN events' : events'[k].type = "change" => events'[k].inst # doc.inst
      PROVE  IF Unheard(doc.inst) THEN doc.snap = NoSnapshot ELSE snapshot' = doc.snap
  <2>1. doc.inst \in Nat /\ events[1].inst <= doc.inst /\ events[1].inst \in Nat
    <3>1. events[1] \in Events
      BY <1>1, QueueWas
    <3>. QED
      BY <1>2, <3>1 DEF KindInv, DocKind, Docs, SnapInv, IsChange, Events, Changes, ProjectionEvents, Starts, Finishes
  <2>2. ASSUME NEW k \in DOMAIN events, k # 1, events[k].type = "change" PROVE events[k].inst # doc.inst
    <3>1. k > 1
      BY <1>2, <2>2
    <3>. QED
      BY <1>2, <1>6, <2>2, <3>1
  <2>3. CASE events[1].inst = doc.inst
    <3>1. ~Unheard(doc.inst)
      <4>1. Deliverable(events[1])
        BY <1>1, <1>2 DEF Arrives
      <4>2. \A i \in OpenUnanswered : events[1].inst # cmds[i].answer.inst
        BY <1>2, <4>1 DEF Deliverable
      <4>. QED
        BY <2>3, <4>2 DEF Unheard
    <3>2. OpenUnanswered = {}
      BY <3>1 DEF OpenInv
    <3>3. ASSUME NEW m \in DOMAIN events, m > 1 PROVE events[m].type # "change"
      <4>1. events[m].type = "change" => events[m].inst # doc.inst /\ events[m].inst <= doc.inst
                                         /\ ~(events[m].inst < doc.inst)
        BY <2>2, <3>2, <3>3 DEF SnapInv, IsChange
      <4>2. events[m].type = "change" => events[m].inst \in Nat
        <5>1. events[m] \in Events
          BY SeqIs DEF KindInv
        <5>. QED
          BY <5>1 DEF Events, Changes, ProjectionEvents, Starts, Finishes
      <4>. QED
        BY <2>1, <4>1, <4>2
    <3>4. LastChange(1)
      BY <1>2, <3>3 DEF LastChange, IsChange
    <3>. QED
      BY <1>1, <1>2, <2>3, <3>1, <3>4 DEF SnapInv
  <2>4. CASE events[1].inst # doc.inst
    <3>1. OpenUnanswered # {}
      BY <1>2, <2>1, <2>4 DEF SnapInv, IsChange
    <3>2. Unheard(doc.inst)
      BY <3>1 DEF OpenInv
    <3>3. \A k \in DOMAIN events : IsChange(k) => events[k].inst # doc.inst
      BY <2>2, <2>4 DEF IsChange
    <3>. QED
      BY <3>2, <3>3 DEF SnapInv
  <2>. QED
    BY <2>3, <2>4
<1>. QED
  BY <1>1, <1>3, <1>4, <1>5, <1>6 DEF SnapInv, IsChange

(* Another document is opened.                                             *)
LEMMA SnapByOpen ==
    ASSUME KindInv, OpenInv, SnapInv, OpenDocument
    PROVE  SnapInv'
<1>1. OpenUnanswered' # {} /\ Unheard(doc.inst)'
  BY OpenByOpen
<1>2. doc'.inst = doc.inst + 1 /\ doc'.snap = NoSnapshot /\ doc.inst \in Nat
  BY OpenKind DEF KindInv, DocKind, Docs
<1>3. PICK e \in ProjectionEvents : events' = Append(events, e)
  BY OpenKind
<1>4. /\ DOMAIN events' = 1 .. Len(events) + 1 /\ DOMAIN events = 1 .. Len(events) /\ Len(events) \in Nat
      /\ \A k \in DOMAIN events : events'[k] = events[k] /\ events[k] \in Events
      /\ events'[Len(events) + 1] = e
  <2>1. e \in Events /\ events \in Seq(Events)
    BY DEF KindInv, Events
  <2>. QED
    BY <1>3, <2>1, QueueGrowsByOne, SeqIs
<1>5. ASSUME NEW k \in DOMAIN events', events'[k].type = "change"
      PROVE  events'[k].inst \in Nat /\ events'[k].inst <= doc.inst
  <2>1. k \in DOMAIN events \/ k = Len(events) + 1
    BY <1>4
  <2>2. e.type = "projection"
    BY DEF ProjectionEvents
  <2>3. k \in DOMAIN events /\ events'[k] = events[k] /\ events[k] \in Events
    BY <1>4, <1>5, <2>1, <2>2
  <2>. QED
    BY <1>5, <2>3 DEF SnapInv, IsChange, Events, Changes, ProjectionEvents, Starts, Finishes
<1>6. \A k \in DOMAIN events' : events'[k].type = "change" =>
        events'[k].inst <= doc'.inst /\ events'[k].inst # doc'.inst
  BY <1>2, <1>5
<1>. QED
  BY <1>1, <1>2, <1>6 DEF SnapInv, IsChange, LastChange

(* It is heard of, once the events of the others are.                      *)
LEMMA SnapByHeard ==
    ASSUME KindInv, OpenInv, SnapInv, HearOpened, "late_event" \notin Rare
    PROVE  SnapInv'
<1>. DEFINE i == Next1("answered")
<1>1. /\ Unheard(doc.inst)
      /\ OpenUnanswered' = {} => cmds[i].answer.inst = doc.inst
  BY OpenByHeard
<1>2. /\ UNCHANGED <<doc, events>> /\ snapshot' = NoSnapshot
      /\ \A k \in DOMAIN events : events[k].inst < cmds[i].answer.inst => events[k].type = "projection"
  BY DEF HearOpened, FreshSnapshot
<1>. HIDE DEF i
<1>3. \A k \in DOMAIN events : events[k].type = "change" =>
        events[k].inst <= doc.inst /\ (events[k].inst < doc.inst => OpenUnanswered' # {})
  BY <1>1, <1>2 DEF SnapInv, IsChange
<1>4. (\A k \in DOMAIN events : events[k].type = "change" => events[k].inst # doc.inst) => doc.snap = NoSnapshot
  BY <1>1 DEF SnapInv, IsChange
<1>5. \A k \in DOMAIN events : LastChange(k)' <=> LastChange(k)
  BY <1>2 DEF LastChange, IsChange
<1>. QED
  BY <1>2, <1>3, <1>4, <1>5 DEF SnapInv, IsChange

(* A step that adds no event adds none of any type.                        *)
LEMMA NothingNew ==
    ASSUME KindInv, events' = events
    PROVE  <<>> \in Seq(Events) /\ events' = events \o <<>> /\ DOMAIN <<>> = {}
<1>1. events \in Seq(Events) /\ <<>> \in Seq(Events)
  BY DEF KindInv
<1>. QED
  BY <1>1, ConcatEmptySeq

(* A step that adds one event.                                             *)
LEMMA OneNew ==
    ASSUME KindInv, NEW e \in Events, events' = Append(events, e)
    PROVE  <<e>> \in Seq(Events) /\ events' = events \o <<e>> /\ DOMAIN <<e>> = {1} /\ <<e>>[1] = e
<1>1. events \in Seq(Events) /\ <<e>> \in Seq(Events) /\ DOMAIN <<e>> = {1} /\ <<e>>[1] = e
  BY DEF KindInv
<1>. QED
  BY <1>1, AppendIsConcat

(* Every step keeps what the frontend is going to hold.                    *)
LEMMA SnapStep ==
    ASSUME "fast_open" \notin Rare, "late_event" \notin Rare, KindInv, OpenInv, SnapInv, [Next]_vars
    PROVE  SnapInv'
<1>1. ASSUME OpensStay, doc'.inst = doc.inst, doc'.snap = doc.snap, snapshot' = snapshot, events' = events
      PROVE  SnapInv'
  <2>1. <<>> \in Seq(Events) /\ events' = events \o <<>> /\ DOMAIN <<>> = {}
    BY <1>1, NothingNew
  <2>2. \A m \in DOMAIN <<>> : <<>>[m].type # "change"
    BY <2>1
  <2>. QED
    BY <1>1, <2>1, <2>2, SnapGrows
<1>2. ASSUME OpensStay, doc'.inst = doc.inst, doc'.snap = doc.snap, snapshot' = snapshot,
             NEW e \in Events, e.type # "change", events' = Append(events, e)
      PROVE  SnapInv'
  <2>1. <<e>> \in Seq(Events) /\ events' = events \o <<e>> /\ DOMAIN <<e>> = {1} /\ <<e>>[1] = e
    BY <1>2, OneNew
  <2>2. \A m \in DOMAIN <<e>> : <<e>>[m].type # "change"
    BY <1>2, <2>1
  <2>. QED
    BY <1>2, <2>1, <2>2, SnapGrows
<1>3. ASSUME OpensStay, doc' = doc, snapshot' = snapshot,
             NEW a \in ProjectionEvents, NEW b \in Finishes, events' = events \o <<a, b>>
      PROVE  SnapInv'
  <2>1. a.type # "change" /\ b.type # "change" /\ a \in Events /\ b \in Events
    BY DEF ProjectionEvents, Finishes, Events
  <2>2. <<a, b>> \in Seq(Events) /\ \A m \in DOMAIN <<a, b>> : <<a, b>>[m].type # "change"
    BY <2>1
  <2>. QED
    BY <1>3, <2>2, SnapGrows
<1>4. CASE Send
  BY <1>1, <1>4, OpenStep DEF Send, client
<1>5. CASE Handle
  <2>1. OpensStay /\ doc'.inst = doc.inst /\ doc'.snap = doc.snap
    BY <1>5, OpenStep, HandleKind
  <2>2. snapshot' = snapshot
    BY <1>5 DEF Handle, client
  <2>3. PICK e \in ProjectionEvents : events' = Append(events, e)
    BY <1>5, HandleKind
  <2>4. e \in Events /\ e.type # "change"
    BY DEF ProjectionEvents, Events
  <2>. QED
    BY <1>2, <2>1, <2>2, <2>3, <2>4
<1>6. CASE Refuse
  BY <1>1, <1>6, OpenStep DEF Refuse, client
<1>7. CASE OpenDocument
  BY <1>7, SnapByOpen
<1>8. CASE GateOpens
  BY <1>1, <1>8, OpenStep DEF GateOpens, client
<1>9. CASE BeginNothing
  <2>1. OpensStay /\ doc' = doc /\ snapshot' = snapshot
    BY <1>9, OpenStep DEF BeginNothing, client
  <2>. QED
    BY <1>3, <1>9, <2>1, BeginNothingKind
<1>10. CASE Begin
  <2>1. OpensStay /\ doc' = doc /\ snapshot' = snapshot
    BY <1>10, OpenStep DEF Begin, client
  <2>2. PICK e \in Starts : events' = Append(events, e)
    BY <1>10, BeginKind
  <2>3. e \in Events /\ e.type # "change"
    BY DEF Starts, Events
  <2>. QED
    BY <1>2, <2>1, <2>2, <2>3
<1>11. CASE Publish
  <2>1. OpensStay /\ doc'.inst = doc.inst
    BY <1>11, OpenStep
  <2>. QED
    BY <1>11, <2>1, PublishKind, SnapByPublish
<1>12. CASE Unpublished
  <2>1. OpensStay /\ doc' = doc /\ snapshot' = snapshot
    BY <1>12, OpenStep, UnpublishedKind
  <2>. QED
    BY <1>1, <1>3, <1>12, <2>1, UnpublishedKind
<1>13. CASE HearProjection
  <2>1. OpensStay
    BY <1>13, OpenStep
  <2>2. doc' = doc /\ snapshot' = snapshot /\ Arrives("projection")
    BY <1>13 DEF HearProjection, Arrives, client
  <2>. QED
    BY <2>1, <2>2, SnapShrinks
<1>14. CASE HearStarted
  <2>1. OpensStay
    BY <1>14, OpenStep
  <2>2. doc' = doc /\ snapshot' = snapshot /\ Arrives("started")
    BY <1>14 DEF HearStarted, Arrives
  <2>. QED
    BY <2>1, <2>2, SnapShrinks
<1>15. CASE HearChange
  BY <1>15, OpenStep, SnapByChange
<1>16. CASE HearFinished
  <2>1. OpensStay
    BY <1>16, OpenStep
  <2>2. doc' = doc /\ snapshot' = snapshot /\ Arrives("finished")
    BY <1>16 DEF HearFinished, Arrives
  <2>. QED
    BY <2>1, <2>2, SnapShrinks
<1>17. CASE HearAnswer
  BY <1>1, <1>17, OpenStep DEF HearAnswer, client
<1>18. CASE HearOpened
  BY <1>18, SnapByHeard
<1>19. CASE Timeout
  BY <1>1, <1>19, OpenStep DEF Timeout, client
<1>20. CASE UNCHANGED vars
  BY <1>1, <1>20, OpenStep DEF vars, client
<1>. QED
  BY <1>4, <1>5, <1>6, <1>7, <1>8, <1>9, <1>10, <1>11, <1>12, <1>13, <1>14, <1>15, <1>16, <1>17, <1>18, <1>19,
     <1>20 DEF Next

(* Every step keeps the order of the opens.                                *)
LEMMA OpenNext ==
    ASSUME KindInv, OpenInv, [Next]_vars
    PROVE  OpenInv'
<1>1. CASE OpenDocument
  BY <1>1, OpenByOpen
<1>2. CASE HearOpened
  BY <1>2, OpenByHeard
<1>3. CASE ~OpenDocument /\ ~HearOpened
  BY <1>3, OpenStep DEF Next
<1>. QED
  BY <1>1, <1>2, <1>3

(* Nothing is opened by a command at the start.                            *)
LEMMA OpenInit == Init => OpenInv
<1>. SUFFICES ASSUME Init PROVE OpenInv
  OBVIOUS
<1>1. DOMAIN cmds = {}
  BY DEF Init
<1>2. OpenUnanswered = {}
  BY <1>1 DEF OpenUnanswered, Phase
<1>. QED
  BY <1>1, <1>2 DEF OpenInv

(* At the start neither side has a snapshot.                               *)
LEMMA SnapInit == Init => SnapInv
<1>. SUFFICES ASSUME Init PROVE SnapInv
  OBVIOUS
<1>1. PICK recs \in Openable : doc = Runtime(1, 1, recs)
  BY DEF Init
<1>2. recs \in Seq(Records) /\ 1 \in Nat /\ 1 >= 1
  BY CorrelationBounds
<1>3. doc.snap = NoSnapshot
  BY <1>1, <1>2, OpenedKind
<1>4. DOMAIN events = {} /\ snapshot = NoSnapshot
  BY DEF Init
<1>. QED
  BY <1>3, <1>4 DEF SnapInv, LastChange

(* Once the backend is still and everything is heard, the frontend holds   *)
(* the snapshot the document shows, whatever regens were overtaken and     *)
(* whatever was opened in between.                                         *)
THEOREM SnapshotIsHeld ==
    ASSUME "fast_open" \notin Rare, "late_event" \notin Rare
    PROVE  Spec => []SnapshotIsPublished
<1>1. Init => KindInv /\ OpenInv /\ SnapInv
  BY InitKind, OpenInit, SnapInit
<1>2. KindInv /\ OpenInv /\ SnapInv /\ [Next]_vars => (KindInv /\ OpenInv /\ SnapInv)'
  BY StepKind, OpenNext, SnapStep
<1>3. KindInv /\ OpenInv /\ SnapInv => SnapshotIsPublished
  <2>. SUFFICES ASSUME SnapInv, Quiet PROVE snapshot = doc.snap
    BY DEF SnapshotIsPublished
  <2>1. DOMAIN events = {} /\ OpenUnanswered = {}
    BY DEF Quiet, OpenUnanswered
  <2>2. ~Unheard(doc.inst)
    BY <2>1 DEF Unheard
  <2>. QED
    BY <2>1, <2>2 DEF SnapInv
<1>. QED
  BY <1>1, <1>2, <1>3, PTL DEF Spec

-----------------------------------------------------------------------------
(* The busy count.                                                         *)

(* Neither a start nor an end reaches the queue.                           *)
LEMMA BusyGrows ==
    ASSUME KindInv, BusyInv, OpensStay, doc'.inst = doc.inst, busy' = busy,
           sched'.job.inst = sched.job.inst, sched'.job = NoJob <=> sched.job = NoJob,
           NEW new \in Seq(Events), events' = events \o new,
           \A m \in DOMAIN new : new[m].type # "started" /\ new[m].type # "finished"
    PROVE  BusyInv'
<1>1. /\ DOMAIN events' = 1 .. Len(events) + Len(new) /\ DOMAIN events = 1 .. Len(events)
      /\ DOMAIN new = 1 .. Len(new) /\ Len(events) \in Nat /\ Len(new) \in Nat
      /\ \A k \in 1 .. Len(events) : events'[k] = events[k]
      /\ \A k \in Len(events) + 1 .. Len(events) + Len(new) : events'[k] = new[k - Len(events)]
  <2>1. /\ events' \in Seq(Events) /\ Len(events') = Len(events) + Len(new) /\ Len(events) \in Nat /\ Len(new) \in Nat
        /\ \A k \in 1 .. Len(events) : events'[k] = events[k]
        /\ \A k \in Len(events) + 1 .. Len(events) + Len(new) : events'[k] = new[k - Len(events)]
    BY JoinIs DEF KindInv
  <2>2. events \in Seq(Events)
    BY DEF KindInv
  <2>. QED
    BY <2>1, <2>2, SeqIs
<1>2. ASSUME NEW k \in DOMAIN events', events'[k].type = "started" \/ events'[k].type = "finished"
      PROVE  k \in DOMAIN events /\ events'[k] = events[k]
  <2>1. CASE k \in 1 .. Len(events)
    BY <1>1, <2>1
  <2>2. CASE k \in Len(events) + 1 .. Len(events) + Len(new)
    <3>1. k - Len(events) \in DOMAIN new /\ events'[k] = new[k - Len(events)]
      BY <1>1, <2>2
    <3>. QED
      BY <1>2, <3>1
  <2>. QED
    BY <1>1, <2>1, <2>2
<1>3. \A k \in DOMAIN events : k \in DOMAIN events' /\ events'[k] = events[k]
  BY <1>1
<1>4. Unheard(doc.inst)' <=> Unheard(doc.inst)
  BY StaysUnheard
<1>5. ASSUME NEW k \in DOMAIN events' PROVE /\ IsStart(k)' <=> k \in DOMAIN events /\ IsStart(k)
                                            /\ IsFinish(k)' <=> k \in DOMAIN events /\ IsFinish(k)
  BY <1>2, <1>3 DEF IsStart, IsFinish
<1>6. ASSUME NEW k \in DOMAIN events' PROVE Trails(k)' <=> k \in DOMAIN events /\ Trails(k)
  BY <1>3, <1>5 DEF Trails
<1>7. ASSUME NEW k \in DOMAIN events', NEW m \in DOMAIN events', k < m, IsStart(k)', IsStart(m)'
      PROVE  \E n \in DOMAIN events' : k < n /\ n < m /\ IsFinish(n)'
  BY <1>3, <1>5, <1>7 DEF BusyInv
<1>8. busy = 1 => \A k \in DOMAIN events' : IsStart(k)' => \E n \in DOMAIN events' : n < k /\ IsFinish(n)'
  BY <1>3, <1>5 DEF BusyInv
<1>9. sched.job = NoJob => /\ \A k \in DOMAIN events' : ~Trails(k)'
                           /\ busy = 1 => \E n \in DOMAIN events' : IsFinish(n)'
  BY <1>3, <1>5, <1>6 DEF BusyInv
<1>10. sched.job # NoJob => \A k \in DOMAIN events' : Trails(k)' => events'[k].inst = sched.job.inst
  BY <1>3, <1>6 DEF BusyInv
<1>11. sched.job # NoJob /\ sched.job.inst = doc.inst =>
         \/ \E k \in DOMAIN events' : Trails(k)'
         \/ ~Unheard(doc.inst) /\ busy = 1 /\ \A n \in DOMAIN events' : ~IsFinish(n)'
  BY <1>3, <1>5, <1>6 DEF BusyInv
<1>12. busy \in {0, 1}
  BY DEF BusyInv
<1>. QED
  BY <1>4, <1>7, <1>8, <1>9, <1>10, <1>11, <1>12 DEF BusyInv

(* The end of the regen reaches the queue, or a report without a regen.    *)
LEMMA BusyByEnd ==
    ASSUME KindInv, BusyInv, busy' = busy, sched'.job = NoJob,
           NEW new \in Seq(Events), events' = events \o new, Len(new) > 0,
           \A m \in DOMAIN new : new[m].type # "started", new[Len(new)].type = "finished"
    PROVE  BusyInv'
<1>1. /\ DOMAIN events' = 1 .. Len(events) + Len(new) /\ DOMAIN events = 1 .. Len(events)
      /\ DOMAIN new = 1 .. Len(new) /\ Len(events) \in Nat /\ Len(new) \in Nat
      /\ \A k \in 1 .. Len(events) : events'[k] = events[k]
      /\ \A k \in Len(events) + 1 .. Len(events) + Len(new) : events'[k] = new[k - Len(events)]
  <2>1. /\ events' \in Seq(Events) /\ Len(events') = Len(events) + Len(new) /\ Len(events) \in Nat /\ Len(new) \in Nat
        /\ \A k \in 1 .. Len(events) : events'[k] = events[k]
        /\ \A k \in Len(events) + 1 .. Len(events) + Len(new) : events'[k] = new[k - Len(events)]
    BY JoinIs DEF KindInv
  <2>2. events \in Seq(Events)
    BY DEF KindInv
  <2>. QED
    BY <2>1, <2>2, SeqIs
<1>0. PICK z : z = Len(events) + Len(new)
  OBVIOUS
<1>2. z \in DOMAIN events' /\ IsFinish(z)' /\ \A k \in DOMAIN events : z > k
  <2>1. z \in Len(events) + 1 .. Len(events) + Len(new) /\ z - Len(events) = Len(new)
    BY <1>0, <1>1
  <2>2. events'[z] = new[Len(new)]
    BY <1>1, <2>1
  <2>. QED
    BY <1>0, <1>1, <2>2 DEF IsFinish
<1>3. ASSUME NEW k \in DOMAIN events', events'[k].type = "started"
      PROVE  k \in DOMAIN events /\ events'[k] = events[k]
  <2>1. CASE k \in 1 .. Len(events)
    BY <1>1, <2>1
  <2>2. CASE k \in Len(events) + 1 .. Len(events) + Len(new)
    <3>1. k - Len(events) \in DOMAIN new /\ events'[k] = new[k - Len(events)]
      BY <1>1, <2>2
    <3>. QED
      BY <1>3, <3>1
  <2>. QED
    BY <1>1, <2>1, <2>2
<1>4. \A k \in DOMAIN events : k \in DOMAIN events' /\ events'[k] = events[k]
  BY <1>1
<1>5. ASSUME NEW k \in DOMAIN events', NEW m \in DOMAIN events', k < m, IsStart(k)', IsStart(m)'
      PROVE  \E n \in DOMAIN events' : k < n /\ n < m /\ IsFinish(n)'
  <2>1. k \in DOMAIN events /\ m \in DOMAIN events /\ IsStart(k) /\ IsStart(m)
    BY <1>3, <1>5 DEF IsStart
  <2>2. PICK n \in DOMAIN events : k < n /\ n < m /\ IsFinish(n)
    BY <1>5, <2>1 DEF BusyInv
  <2>. QED
    BY <1>4, <2>2 DEF IsFinish
<1>6. ASSUME busy = 1, NEW k \in DOMAIN events', IsStart(k)'
      PROVE  \E n \in DOMAIN events' : n < k /\ IsFinish(n)'
  <2>1. k \in DOMAIN events /\ IsStart(k)
    BY <1>3, <1>6 DEF IsStart
  <2>2. PICK n \in DOMAIN events : n < k /\ IsFinish(n)
    BY <1>6, <2>1 DEF BusyInv
  <2>. QED
    BY <1>4, <2>2 DEF IsFinish
<1>7. ASSUME NEW k \in DOMAIN events' PROVE ~Trails(k)'
  <2>1. Trails(k)' => k \in DOMAIN events
    BY <1>3 DEF Trails, IsStart
  <2>. QED
    BY <1>2, <2>1 DEF Trails
<1>8. busy \in {0, 1}
  BY DEF BusyInv
<1>. QED
  BY <1>2, <1>5, <1>6, <1>7, <1>8 DEF BusyInv

(* A regen starts.                                                         *)
LEMMA BusyByStart ==
    ASSUME KindInv, BusyInv, Begin
    PROVE  BusyInv'
<1>0. PICK z : z = Len(events) + 1
  OBVIOUS
<1>1. sched.job = NoJob /\ sched'.job # NoJob /\ sched'.job.inst = doc.inst
  BY BeginKind
<1>2. PICK e \in Starts : events' = Append(events, e) /\ e.inst = doc.inst
  BY BeginKind
<1>3. /\ DOMAIN events' = 1 .. z /\ DOMAIN events = 1 .. Len(events) /\ Len(events) \in Nat
      /\ \A k \in DOMAIN events : k \in DOMAIN events' /\ events'[k] = events[k] /\ k < z
      /\ events'[z] = e /\ z \in DOMAIN events'
      /\ \A k \in DOMAIN events' : k \in DOMAIN events \/ k = z
  <2>1. e \in Events /\ events \in Seq(Events)
    BY DEF KindInv, Events
  <2>2. /\ DOMAIN events' = 1 .. z /\ DOMAIN events = 1 .. Len(events) /\ Len(events) \in Nat
        /\ \A k \in DOMAIN events : events'[k] = events[k]
        /\ events'[z] = e
    BY <1>0, <1>2, <2>1, QueueGrowsByOne, SeqIs
  <2>. QED
    BY <1>0, <2>2
<1>4. e.type = "started" /\ UNCHANGED <<doc, busy>>
  BY DEF Starts, Begin, client
<1>5. IsStart(z)' /\ \A n \in DOMAIN events' : n > z => ~IsFinish(n)'
  <2>1. \A n \in DOMAIN events' : ~(n > z)
    <3>. SUFFICES ASSUME NEW n \in DOMAIN events' PROVE ~(n > z)
      OBVIOUS
    <3>. QED
      BY <1>0, <1>3
  <2>. QED
    BY <1>3, <1>4, <2>1 DEF IsStart
<1>6. \A k \in DOMAIN events : (IsStart(k)' <=> IsStart(k)) /\ (IsFinish(k)' <=> IsFinish(k))
  BY <1>3 DEF IsStart, IsFinish
<1>7. ASSUME NEW k \in DOMAIN events, IsStart(k) PROVE \E n \in DOMAIN events : n > k /\ IsFinish(n)
  BY <1>1, <1>7 DEF BusyInv, Trails
<1>8. ASSUME NEW k \in DOMAIN events', NEW m \in DOMAIN events', k < m, IsStart(k)', IsStart(m)'
      PROVE  \E n \in DOMAIN events' : k < n /\ n < m /\ IsFinish(n)'
  <2>1. k \in DOMAIN events
    <3>1. ~(z < m)
      BY <1>0, <1>3
    <3>. QED
      BY <1>3, <1>8, <3>1
  <2>2. CASE m \in DOMAIN events
    <3>1. IsStart(k) /\ IsStart(m)
      BY <1>6, <1>8, <2>1, <2>2
    <3>2. PICK n \in DOMAIN events : k < n /\ n < m /\ IsFinish(n)
      BY <1>8, <2>1, <2>2, <3>1 DEF BusyInv
    <3>. QED
      BY <1>3, <1>6, <3>2
  <2>3. CASE m = z
    <3>1. PICK n \in DOMAIN events : n > k /\ IsFinish(n)
      BY <1>6, <1>7, <1>8, <2>1
    <3>2. k < n
      BY <1>3, <2>1, <3>1
    <3>. QED
      BY <1>3, <1>6, <2>3, <3>1, <3>2
  <2>. QED
    BY <1>3, <2>2, <2>3
<1>9. ASSUME busy = 1, NEW k \in DOMAIN events', IsStart(k)'
      PROVE  \E n \in DOMAIN events' : n < k /\ IsFinish(n)'
  <2>1. CASE k \in DOMAIN events
    <3>1. PICK n \in DOMAIN events : n < k /\ IsFinish(n)
      BY <1>6, <1>9, <2>1 DEF BusyInv
    <3>. QED
      BY <1>3, <1>6, <3>1
  <2>2. CASE k = z
    <3>1. PICK n \in DOMAIN events : IsFinish(n)
      BY <1>1, <1>9 DEF BusyInv
    <3>. QED
      BY <1>3, <1>6, <2>2, <3>1
  <2>. QED
    BY <1>3, <2>1, <2>2
<1>10. ASSUME NEW k \in DOMAIN events', Trails(k)' PROVE k = z
  <2>. SUFFICES ASSUME k \in DOMAIN events PROVE FALSE
    BY <1>3
  <2>1. PICK n \in DOMAIN events : n > k /\ IsFinish(n)
    BY <1>6, <1>7, <1>10 DEF Trails
  <2>. QED
    BY <1>3, <1>6, <1>10, <2>1 DEF Trails
<1>11. Trails(z)'
  BY <1>5 DEF Trails
<1>12. busy \in {0, 1}
  BY DEF BusyInv
<1>13. \A k \in DOMAIN events' : Trails(k)' => events'[k].inst = sched'.job.inst
  BY <1>1, <1>2, <1>3, <1>10
<1>14. \E k \in DOMAIN events' : Trails(k)'
  BY <1>3, <1>11
<1>. QED
  BY <1>1, <1>4, <1>8, <1>9, <1>12, <1>13, <1>14 DEF BusyInv

(* The places of the queue after its first event left.                     *)
LEMMA BusyWas ==
    ASSUME KindInv, NEW type, Arrives(type)
    PROVE  /\ 1 \in DOMAIN events /\ events[1].type = type
           /\ \A k \in DOMAIN events' : /\ k \in Nat /\ k >= 1 /\ k + 1 \in DOMAIN events /\ events'[k] = events[k + 1]
                                        /\ IsStart(k)' <=> IsStart(k + 1)
                                        /\ IsFinish(k)' <=> IsFinish(k + 1)
                                        /\ Trails(k)' <=> Trails(k + 1)
           /\ \A m \in DOMAIN events : /\ m \in Nat /\ m >= 1
                                       /\ m # 1 => m > 1 /\ m - 1 \in DOMAIN events' /\ (m - 1) + 1 = m
<1>1. /\ 1 \in DOMAIN events /\ events[1].type = type /\ DOMAIN events \subseteq Nat \ {0}
      /\ DOMAIN events' \subseteq Nat \ {0}
      /\ \A k \in DOMAIN events' : k + 1 \in DOMAIN events /\ events'[k] = events[k + 1]
      /\ \A k \in DOMAIN events : k > 1 => k - 1 \in DOMAIN events' /\ events'[k - 1] = events[k]
  BY QueueWas
<1>2. ASSUME NEW m \in DOMAIN events
      PROVE  m \in Nat /\ m >= 1 /\ (m # 1 => m > 1 /\ m - 1 \in DOMAIN events' /\ (m - 1) + 1 = m)
  <2>1. m \in Nat /\ m >= 1 /\ (m # 1 => m > 1 /\ (m - 1) + 1 = m)
    BY <1>1
  <2>. QED
    BY <1>1, <2>1
<1>3. ASSUME NEW k \in DOMAIN events'
      PROVE  /\ k \in Nat /\ k >= 1 /\ k + 1 \in DOMAIN events /\ events'[k] = events[k + 1]
             /\ IsStart(k)' <=> IsStart(k + 1)
             /\ IsFinish(k)' <=> IsFinish(k + 1)
  BY <1>1 DEF IsStart, IsFinish
<1>4. ASSUME NEW k \in DOMAIN events', Trails(k)' PROVE Trails(k + 1)
  <2>1. ASSUME NEW m \in DOMAIN events, m > k + 1 PROVE ~IsFinish(m)
    <3>1. m - 1 \in DOMAIN events' /\ (m - 1) + 1 = m /\ m - 1 > k
      BY <1>2, <1>3, <2>1
    <3>2. ~IsFinish(m - 1)'
      BY <1>4, <3>1 DEF Trails
    <3>. QED
      BY <1>3, <3>1, <3>2
  <2>. QED
    BY <1>3, <1>4, <2>1 DEF Trails
<1>5. ASSUME NEW k \in DOMAIN events', Trails(k + 1) PROVE Trails(k)'
  <2>1. ASSUME NEW m \in DOMAIN events', m > k PROVE ~IsFinish(m)'
    <3>1. m + 1 \in DOMAIN events /\ m + 1 > k + 1
      BY <1>3, <2>1
    <3>. QED
      BY <1>3, <1>5, <3>1 DEF Trails
  <2>. QED
    BY <1>3, <1>5, <2>1 DEF Trails
<1>. QED
  BY <1>1, <1>2, <1>3, <1>4, <1>5

(* What lay between two places of the queue still does.                    *)
LEMMA BusyBetween ==
    ASSUME KindInv, BusyInv, NEW type, Arrives(type)
    PROVE  /\ \A k, m \in DOMAIN events' : k < m /\ IsStart(k)' /\ IsStart(m)' =>
                \E n \in DOMAIN events' : k < n /\ n < m /\ IsFinish(n)'
           /\ \A k \in DOMAIN events' : Trails(k)' <=> Trails(k + 1)
<1>1. /\ 1 \in DOMAIN events /\ events[1].type = type
      /\ \A k \in DOMAIN events' : /\ k \in Nat /\ k >= 1 /\ k + 1 \in DOMAIN events /\ events'[k] = events[k + 1]
                                   /\ IsStart(k)' <=> IsStart(k + 1)
                                   /\ IsFinish(k)' <=> IsFinish(k + 1)
                                   /\ Trails(k)' <=> Trails(k + 1)
      /\ \A m \in DOMAIN events : /\ m \in Nat /\ m >= 1
                                  /\ m # 1 => m > 1 /\ m - 1 \in DOMAIN events' /\ (m - 1) + 1 = m
  BY BusyWas
<1>2. ASSUME NEW k \in DOMAIN events', NEW m \in DOMAIN events', k < m, IsStart(k)', IsStart(m)'
      PROVE  \E n \in DOMAIN events' : k < n /\ n < m /\ IsFinish(n)'
  <2>1. k + 1 \in DOMAIN events /\ m + 1 \in DOMAIN events /\ k + 1 < m + 1 /\ IsStart(k + 1) /\ IsStart(m + 1)
    BY <1>1, <1>2
  <2>2. PICK n \in DOMAIN events : k + 1 < n /\ n < m + 1 /\ IsFinish(n)
    BY <2>1 DEF BusyInv
  <2>3. n - 1 \in DOMAIN events' /\ (n - 1) + 1 = n /\ k < n - 1 /\ n - 1 < m
    BY <1>1, <2>2
  <2>. QED
    BY <1>1, <2>2, <2>3
<1>. QED
  BY <1>1, <1>2

(* The first event, neither a start nor an end, is heard.                  *)
LEMMA BusyShrinks ==
    ASSUME KindInv, BusyInv, OpensStay, doc' = doc, sched' = sched, busy' = busy,
           NEW type \in {"projection", "change"}, Arrives(type)
    PROVE  BusyInv'
<1>1. /\ 1 \in DOMAIN events /\ events[1].type = type
      /\ \A k \in DOMAIN events' : /\ k \in Nat /\ k >= 1 /\ k + 1 \in DOMAIN events /\ events'[k] = events[k + 1]
                                   /\ IsStart(k)' <=> IsStart(k + 1)
                                   /\ IsFinish(k)' <=> IsFinish(k + 1)
                                   /\ Trails(k)' <=> Trails(k + 1)
      /\ \A m \in DOMAIN events : /\ m \in Nat /\ m >= 1
                                  /\ m # 1 => m > 1 /\ m - 1 \in DOMAIN events' /\ (m - 1) + 1 = m
  BY BusyWas
<1>2. ~IsStart(1) /\ ~IsFinish(1) /\ ~Trails(1)
  BY <1>1 DEF IsStart, IsFinish, Trails
<1>3. (Unheard(doc.inst)' <=> Unheard(doc.inst)) /\ busy \in {0, 1}
  BY StaysUnheard DEF BusyInv
<1>4. \A k, m \in DOMAIN events' : k < m /\ IsStart(k)' /\ IsStart(m)' =>
        \E n \in DOMAIN events' : k < n /\ n < m /\ IsFinish(n)'
  BY BusyBetween
<1>5. ASSUME NEW n \in DOMAIN events, IsFinish(n)
      PROVE  n - 1 \in DOMAIN events' /\ (n - 1) + 1 = n /\ IsFinish(n - 1)' /\ n > 1
  BY <1>1, <1>2, <1>5
<1>6. ASSUME busy = 1, NEW k \in DOMAIN events', IsStart(k)'
      PROVE  \E n \in DOMAIN events' : n < k /\ IsFinish(n)'
  <2>1. PICK n \in DOMAIN events : n < k + 1 /\ IsFinish(n)
    BY <1>1, <1>6 DEF BusyInv
  <2>2. n - 1 < k
    BY <1>1, <2>1
  <2>. QED
    BY <1>5, <2>1, <2>2
<1>7. sched.job = NoJob => /\ \A k \in DOMAIN events' : ~Trails(k)'
                           /\ busy = 1 => \E n \in DOMAIN events' : IsFinish(n)'
  BY <1>1, <1>5 DEF BusyInv
<1>8. sched.job # NoJob => \A k \in DOMAIN events' : Trails(k)' => events'[k].inst = sched.job.inst
  BY <1>1 DEF BusyInv
<1>9. ASSUME sched.job # NoJob, sched.job.inst = doc.inst
      PROVE  \/ \E k \in DOMAIN events' : Trails(k)'
             \/ ~Unheard(doc.inst) /\ busy = 1 /\ \A n \in DOMAIN events' : ~IsFinish(n)'
  <2>1. CASE \E k \in DOMAIN events : Trails(k)
    <3>1. PICK k \in DOMAIN events : Trails(k)
      BY <2>1
    <3>2. k - 1 \in DOMAIN events' /\ (k - 1) + 1 = k
      BY <1>1, <1>2, <3>1
    <3>3. Trails(k - 1)'
      BY <1>1, <3>1, <3>2
    <3>. QED
      BY <3>2, <3>3
  <2>2. CASE ~Unheard(doc.inst) /\ busy = 1 /\ \A n \in DOMAIN events : ~IsFinish(n)
    BY <1>1, <2>2
  <2>. QED
    BY <1>9, <2>1, <2>2 DEF BusyInv
<1>. QED
  BY <1>3, <1>4, <1>6, <1>7, <1>8, <1>9 DEF BusyInv

(* A start is heard.                                                       *)
LEMMA BusyByStarted ==
    ASSUME KindInv, BusyInv, OpensStay, HearStarted, "fast_open" \notin Rare
    PROVE  BusyInv'
<1>1. Arrives("started") /\ doc' = doc /\ sched' = sched /\ busy' = busy + 1
  BY DEF HearStarted, Arrives
<1>2. /\ 1 \in DOMAIN events /\ events[1].type = "started"
      /\ \A k \in DOMAIN events' : /\ k \in Nat /\ k >= 1 /\ k + 1 \in DOMAIN events /\ events'[k] = events[k + 1]
                                   /\ IsStart(k)' <=> IsStart(k + 1)
                                   /\ IsFinish(k)' <=> IsFinish(k + 1)
                                   /\ Trails(k)' <=> Trails(k + 1)
      /\ \A m \in DOMAIN events : /\ m \in Nat /\ m >= 1
                                  /\ m # 1 => m > 1 /\ m - 1 \in DOMAIN events' /\ (m - 1) + 1 = m
  BY <1>1, BusyWas
<1>3. IsStart(1) /\ ~IsFinish(1)
  BY <1>2 DEF IsStart, IsFinish
<1>4. \A k, m \in DOMAIN events' : k < m /\ IsStart(k)' /\ IsStart(m)' =>
        \E n \in DOMAIN events' : k < n /\ n < m /\ IsFinish(n)'
  BY <1>1, BusyBetween
<1>5. ASSUME NEW n \in DOMAIN events, IsFinish(n)
      PROVE  n - 1 \in DOMAIN events' /\ (n - 1) + 1 = n /\ IsFinish(n - 1)' /\ n > 1
  BY <1>2, <1>3, <1>5
<1>6. busy = 0 /\ busy' = 1
  <2>1. busy # 1
    <3>. SUFFICES ASSUME busy = 1 PROVE FALSE
      OBVIOUS
    <3>1. PICK n \in DOMAIN events : n < 1 /\ IsFinish(n)
      BY <1>2, <1>3 DEF BusyInv
    <3>. QED
      BY <1>2, <3>1
  <2>. QED
    BY <1>1, <2>1 DEF BusyInv
<1>7. ASSUME NEW k \in DOMAIN events', IsStart(k)'
      PROVE  \E n \in DOMAIN events' : n < k /\ IsFinish(n)'
  <2>1. k + 1 \in DOMAIN events /\ 1 < k + 1 /\ IsStart(k + 1)
    BY <1>2, <1>7
  <2>2. PICK n \in DOMAIN events : 1 < n /\ n < k + 1 /\ IsFinish(n)
    BY <1>2, <1>3, <2>1 DEF BusyInv
  <2>3. n - 1 < k
    BY <1>2, <2>2
  <2>. QED
    BY <1>5, <2>2, <2>3
<1>8. sched.job = NoJob => /\ \A k \in DOMAIN events' : ~Trails(k)'
                           /\ \E n \in DOMAIN events' : IsFinish(n)'
  <2>. SUFFICES ASSUME sched.job = NoJob
                PROVE  (\A k \in DOMAIN events' : ~Trails(k)') /\ \E n \in DOMAIN events' : IsFinish(n)'
    OBVIOUS
  <2>1. \A k \in DOMAIN events : ~Trails(k)
    BY DEF BusyInv
  <2>2. \E n \in DOMAIN events : IsFinish(n)
    BY <1>2, <1>3, <2>1 DEF Trails
  <2>. QED
    BY <1>2, <1>5, <2>1, <2>2
<1>9. sched.job # NoJob => \A k \in DOMAIN events' : Trails(k)' => events'[k].inst = sched.job.inst
  BY <1>2 DEF BusyInv
<1>10. ASSUME sched.job # NoJob, sched.job.inst = doc.inst, \A k \in DOMAIN events' : ~Trails(k)'
       PROVE  ~Unheard(doc.inst) /\ \A n \in DOMAIN events' : ~IsFinish(n)'
  <2>1. \A k \in DOMAIN events : k # 1 => ~Trails(k)
    <3>. SUFFICES ASSUME NEW k \in DOMAIN events, k # 1 PROVE ~Trails(k)
      OBVIOUS
    <3>1. k - 1 \in DOMAIN events' /\ (k - 1) + 1 = k
      BY <1>2
    <3>. QED
      BY <1>2, <1>10, <3>1
  <2>2. \E k \in DOMAIN events : Trails(k)
    BY <1>6, <1>10 DEF BusyInv
  <2>3. Trails(1) /\ events[1].inst = doc.inst
    BY <1>10, <2>1, <2>2 DEF BusyInv
  <2>4. ~Unheard(doc.inst)
    <3>1. Deliverable(events[1])
      BY <1>1, QueueWas DEF Arrives
    <3>2. \A i \in OpenUnanswered : events[1].inst # cmds[i].answer.inst
      BY <1>2, <3>1 DEF Deliverable
    <3>. QED
      BY <2>3, <3>2 DEF Unheard
  <2>5. ASSUME NEW n \in DOMAIN events' PROVE ~IsFinish(n)'
    <3>1. n + 1 \in DOMAIN events /\ n + 1 > 1
      BY <1>2
    <3>. QED
      BY <1>2, <2>3, <3>1 DEF Trails
  <2>. QED
    BY <2>4, <2>5
<1>11. Unheard(doc.inst)' <=> Unheard(doc.inst)
  BY <1>1, StaysUnheard
<1>. QED
  BY <1>1, <1>4, <1>6, <1>7, <1>8, <1>9, <1>10, <1>11 DEF BusyInv

(* The end of a regen is heard.                                            *)
LEMMA BusyByFinished ==
    ASSUME KindInv, BusyInv, HearFinished
    PROVE  BusyInv'
<1>1. Arrives("finished") /\ sched' = sched /\ doc' = doc /\ busy' = CountDown(Head(events))
  BY DEF HearFinished, Arrives
<1>2. busy' = 0
  BY <1>1 DEF CountDown, BusyInv
<1>3. /\ 1 \in DOMAIN events /\ events[1].type = "finished"
      /\ \A k \in DOMAIN events' : /\ k \in Nat /\ k >= 1 /\ k + 1 \in DOMAIN events /\ events'[k] = events[k + 1]
                                   /\ IsStart(k)' <=> IsStart(k + 1)
                                   /\ IsFinish(k)' <=> IsFinish(k + 1)
                                   /\ Trails(k)' <=> Trails(k + 1)
      /\ \A m \in DOMAIN events : /\ m \in Nat /\ m >= 1
                                  /\ m # 1 => m > 1 /\ m - 1 \in DOMAIN events' /\ (m - 1) + 1 = m
  BY <1>1, BusyWas
<1>4. ~IsStart(1) /\ IsFinish(1) /\ ~Trails(1)
  BY <1>3 DEF IsStart, IsFinish, Trails
<1>5. \A k, m \in DOMAIN events' : k < m /\ IsStart(k)' /\ IsStart(m)' =>
        \E n \in DOMAIN events' : k < n /\ n < m /\ IsFinish(n)'
  BY <1>1, BusyBetween
<1>6. sched.job = NoJob => \A k \in DOMAIN events' : ~Trails(k)'
  BY <1>3 DEF BusyInv
<1>7. sched.job # NoJob => \A k \in DOMAIN events' : Trails(k)' => events'[k].inst = sched.job.inst
  BY <1>3 DEF BusyInv
<1>8. ASSUME sched.job # NoJob, sched.job.inst = doc.inst
      PROVE  \E k \in DOMAIN events' : Trails(k)'
  <2>1. PICK k \in DOMAIN events : Trails(k)
    BY <1>3, <1>4, <1>8 DEF BusyInv
  <2>2. k - 1 \in DOMAIN events' /\ (k - 1) + 1 = k
    BY <1>3, <1>4, <2>1
  <2>3. Trails(k - 1)'
    BY <1>3, <2>1, <2>2
  <2>. QED
    BY <2>2, <2>3
<1>. QED
  BY <1>1, <1>2, <1>5, <1>6, <1>7, <1>8 DEF BusyInv

(* Another document is opened, and heard of.                               *)
LEMMA BusyByOpen ==
    ASSUME KindInv, BusyInv, OpenDocument
    PROVE  BusyInv'
<1>1. doc'.inst = doc.inst + 1 /\ sched'.job = sched.job
  BY OpenKind
<1>2. PICK e \in ProjectionEvents : events' = Append(events, e)
  BY OpenKind
<1>3. e.type = "projection" /\ e \in Events /\ busy' = busy /\ sched.job.inst <= doc.inst
      /\ sched.job.inst \in Nat /\ doc.inst \in Nat
  BY DEF ProjectionEvents, Events, OpenDocument, client, KindInv, DocKind, Docs, Scheds, Jobs
<1>4. /\ DOMAIN events' = 1 .. Len(events) + 1 /\ DOMAIN events = 1 .. Len(events) /\ Len(events) \in Nat
      /\ \A k \in DOMAIN events : events'[k] = events[k]
      /\ events'[Len(events) + 1] = e
  <2>1. events \in Seq(Events)
    BY DEF KindInv
  <2>. QED
    BY <1>2, <1>3, <2>1, QueueGrowsByOne, SeqIs
<1>5. \A k \in DOMAIN events : k \in DOMAIN events'
  BY <1>4
<1>6. ASSUME NEW k \in DOMAIN events' PROVE /\ IsStart(k)' <=> k \in DOMAIN events /\ IsStart(k)
                                            /\ IsFinish(k)' <=> k \in DOMAIN events /\ IsFinish(k)
  <2>1. k \in DOMAIN events \/ (k = Len(events) + 1 /\ k \notin DOMAIN events)
    BY <1>4
  <2>. QED
    BY <1>3, <1>4, <2>1 DEF IsStart, IsFinish
<1>7. ASSUME NEW k \in DOMAIN events' PROVE Trails(k)' <=> k \in DOMAIN events /\ Trails(k)
  BY <1>5, <1>6 DEF Trails
<1>8. ASSUME NEW k \in DOMAIN events', NEW m \in DOMAIN events', k < m, IsStart(k)', IsStart(m)'
      PROVE  \E n \in DOMAIN events' : k < n /\ n < m /\ IsFinish(n)'
  BY <1>5, <1>6, <1>8 DEF BusyInv
<1>9. busy = 1 => \A k \in DOMAIN events' : IsStart(k)' => \E n \in DOMAIN events' : n < k /\ IsFinish(n)'
  BY <1>5, <1>6 DEF BusyInv
<1>10. sched.job = NoJob => /\ \A k \in DOMAIN events' : ~Trails(k)'
                            /\ busy = 1 => \E n \in DOMAIN events' : IsFinish(n)'
  BY <1>5, <1>6, <1>7 DEF BusyInv
<1>11. sched.job # NoJob => \A k \in DOMAIN events' : Trails(k)' => events'[k].inst = sched.job.inst
  BY <1>4, <1>7 DEF BusyInv
<1>12. busy \in {0, 1} /\ sched.job.inst # doc'.inst
  BY <1>1, <1>3 DEF BusyInv
<1>. QED
  BY <1>1, <1>3, <1>8, <1>9, <1>10, <1>11, <1>12 DEF BusyInv

(* The frontend hears of another document, and counts from zero.           *)
LEMMA BusyByHeard ==
    ASSUME KindInv, OpenInv, BusyInv, HearOpened
    PROVE  BusyInv'
<1>1. Unheard(doc.inst)
  BY OpenByHeard
<1>2. UNCHANGED <<doc, events, sched>> /\ busy' = 0
  BY DEF HearOpened
<1>3. \A k : (IsStart(k)' <=> IsStart(k)) /\ (IsFinish(k)' <=> IsFinish(k)) /\ (Trails(k)' <=> Trails(k))
  BY <1>2 DEF IsStart, IsFinish, Trails
<1>. QED
  BY <1>1, <1>2, <1>3 DEF BusyInv

(* Every step keeps what the busy count says.                              *)
LEMMA BusyStep ==
    ASSUME "fast_open" \notin Rare, "abandoned" \notin Rare, KindInv, OpenInv, BusyInv, [Next]_vars
    PROVE  BusyInv'
<1>1. ASSUME OpensStay, doc'.inst = doc.inst, busy' = busy, events' = events,
             sched'.job.inst = sched.job.inst, sched'.job = NoJob <=> sched.job = NoJob
      PROVE  BusyInv'
  <2>1. <<>> \in Seq(Events) /\ events' = events \o <<>> /\ DOMAIN <<>> = {}
    BY <1>1, NothingNew
  <2>2. \A m \in DOMAIN <<>> : <<>>[m].type # "started" /\ <<>>[m].type # "finished"
    BY <2>1
  <2>. QED
    BY <1>1, <2>1, <2>2, BusyGrows
<1>2. ASSUME busy' = busy, sched'.job = NoJob,
             NEW a \in ProjectionEvents, NEW b \in Finishes, events' = events \o <<a, b>>
      PROVE  BusyInv'
  <2>1. a.type # "started" /\ b.type = "finished" /\ a \in Events /\ b \in Events
    BY DEF ProjectionEvents, Finishes, Events
  <2>. DEFINE new == <<a, b>>
  <2>2. /\ new \in Seq(Events) /\ Len(new) = 2 /\ \A m \in DOMAIN new : new[m].type # "started"
        /\ new[Len(new)].type = "finished" /\ events' = events \o new
    BY <1>2, <2>1
  <2>3. Len(new) > 0
    BY <2>2
  <2>. HIDE DEF new
  <2>. QED
    BY <1>2, <2>2, <2>3, BusyByEnd
<1>3. CASE Send
  BY <1>1, <1>3, OpenStep DEF Send, client
<1>4. CASE Handle
  <2>1. OpensStay /\ doc'.inst = doc.inst
    BY <1>4, OpenStep
  <2>2. busy' = busy
    BY <1>4 DEF Handle, client
  <2>3. sched'.job.inst = sched.job.inst /\ (sched'.job = NoJob <=> sched.job = NoJob)
    BY <1>4, HandleKind
  <2>4. PICK e \in ProjectionEvents : events' = Append(events, e)
    BY <1>4, HandleKind
  <2>5. e \in Events /\ e.type = "projection"
    BY DEF ProjectionEvents, Events
  <2>6. <<e>> \in Seq(Events) /\ events' = events \o <<e>> /\ DOMAIN <<e>> = {1} /\ <<e>>[1] = e
    BY <2>4, <2>5, OneNew
  <2>7. \A m \in DOMAIN <<e>> : <<e>>[m].type # "started" /\ <<e>>[m].type # "finished"
    BY <2>5, <2>6
  <2>. QED
    BY <2>1, <2>2, <2>3, <2>6, <2>7, BusyGrows
<1>5. CASE Refuse
  BY <1>1, <1>5, OpenStep DEF Refuse, client
<1>6. CASE OpenDocument
  BY <1>6, BusyByOpen
<1>7. CASE GateOpens
  <2>1. sched'.job.inst = sched.job.inst /\ (sched'.job = NoJob <=> sched.job = NoJob)
    BY <1>7, GateKind
  <2>. QED
    BY <1>1, <1>7, <2>1, OpenStep DEF GateOpens, client
<1>8. CASE BeginNothing
  <2>1. sched'.job = NoJob /\ busy' = busy
    BY <1>8, BeginNothingKind DEF BeginNothing, client
  <2>. QED
    BY <1>2, <1>8, <2>1, BeginNothingKind
<1>9. CASE Begin
  BY <1>9, BusyByStart
<1>10. CASE Publish
  <2>1. sched'.job = NoJob /\ busy' = busy
    BY <1>10, PublishKind DEF Publish, JobEnds, client
  <2>2. PICK a \in Changes, b \in ProjectionEvents, c \in Finishes : events' = events \o <<a, b, c>>
    BY <1>10, PublishKind
  <2>3. a.type = "change" /\ b.type = "projection" /\ c.type = "finished" /\ {a, b, c} \subseteq Events
    BY DEF Changes, ProjectionEvents, Finishes, Events
  <2>. DEFINE new == <<a, b, c>>
  <2>4. /\ new \in Seq(Events) /\ Len(new) = 3 /\ \A m \in DOMAIN new : new[m].type # "started"
        /\ new[Len(new)].type = "finished" /\ events' = events \o new
    BY <2>2, <2>3
  <2>5. Len(new) > 0
    BY <2>4
  <2>. HIDE DEF new
  <2>. QED
    BY <2>1, <2>4, <2>5, BusyByEnd
<1>11. CASE Unpublished
  <2>1. sched'.job = NoJob /\ busy' = busy
    BY <1>11, UnpublishedKind
  <2>. QED
    BY <1>2, <1>11, <2>1, UnpublishedKind
<1>12. CASE HearProjection
  <2>1. OpensStay
    BY <1>12, OpenStep
  <2>2. doc' = doc /\ sched' = sched /\ busy' = busy /\ Arrives("projection")
    BY <1>12 DEF HearProjection, Arrives, client
  <2>. QED
    BY <2>1, <2>2, BusyShrinks
<1>13. CASE HearStarted
  BY <1>13, OpenStep, BusyByStarted
<1>14. CASE HearChange
  <2>1. OpensStay
    BY <1>14, OpenStep
  <2>2. doc' = doc /\ sched' = sched /\ busy' = busy /\ Arrives("change")
    BY <1>14 DEF HearChange, Arrives
  <2>. QED
    BY <2>1, <2>2, BusyShrinks
<1>15. CASE HearFinished
  BY <1>15, BusyByFinished
<1>16. CASE HearAnswer
  BY <1>1, <1>16, OpenStep DEF HearAnswer, client
<1>17. CASE HearOpened
  BY <1>17, BusyByHeard
<1>18. CASE Timeout
  BY <1>1, <1>18, OpenStep DEF Timeout, client
<1>19. CASE UNCHANGED vars
  BY <1>1, <1>19, OpenStep DEF vars, client
<1>. QED
  BY <1>3, <1>4, <1>5, <1>6, <1>7, <1>8, <1>9, <1>10, <1>11, <1>12, <1>13, <1>14, <1>15, <1>16, <1>17, <1>18,
     <1>19 DEF Next

(* At the start nothing runs.                                              *)
LEMMA BusyInit == Init => BusyInv
<1>. SUFFICES ASSUME Init PROVE BusyInv
  OBVIOUS
<1>1. DOMAIN events = {} /\ busy = 0 /\ sched.job = NoJob
  BY DEF Init
<1>. QED
  BY <1>1 DEF BusyInv

(* The "Rebuilding..." of the status bar: no overtaken, cancelled or empty *)
(* regen leaves it on, none of the open document leaves it off.            *)
THEOREM BusyMeansRunning ==
    ASSUME "fast_open" \notin Rare, "abandoned" \notin Rare
    PROVE  Spec => []BusyIsRunning
<1>1. Init => KindInv /\ OpenInv /\ BusyInv
  BY InitKind, OpenInit, BusyInit
<1>2. KindInv /\ OpenInv /\ BusyInv /\ [Next]_vars => (KindInv /\ OpenInv /\ BusyInv)'
  BY StepKind, OpenNext, BusyStep
<1>3. BusyInv => BusyIsRunning
  <2>. SUFFICES ASSUME BusyInv PROVE BusyIsRunning
    OBVIOUS
  <2>1. Quiet => busy = 0
    BY DEF Quiet, Idle, BusyInv
  <2>2. ASSUME sched.job # NoJob, sched.job.inst = doc.inst,
               ~(\E k \in DOMAIN events : events[k].type = "started")
        PROVE  busy > 0
    BY <2>2 DEF BusyInv, Trails, IsStart
  <2>. QED
    BY <2>1, <2>2 DEF BusyIsRunning
<1>. QED
  BY <1>1, <1>2, <1>3, PTL DEF Spec

(* -- Verdicts, and that no command is left waiting ----------------------- *)

(***************************************************************************)
(* What a command is told is true of its own work, and every command is    *)
(* told something, proved for any records, any files to open and any       *)
(* number of commands.                                                     *)
(*                                                                         *)
(* A verdict is passed long after the answer, on whatever is heard then,   *)
(* or on what was heard before and buffered.  VerdictInv therefore says of *)
(* every event on its way which document, revision and records it is       *)
(* about, and of every commit that it waits for the document of those      *)
(* events, at a revision above all that was published without its record.  *)
(* OrderInv: what an unsettled commit added, no later command takes out    *)
(* before it is settled.  AnswerInv: an answer is of the document the      *)
(* frontend knows of.  ReportInv: reports come document by document, and a *)
(* regen reports the revision it was made from.  ChangeInv: changes come   *)
(* by revision, and one that was buffered is the last that was heard.      *)
(* PublishedInv: nothing but a projection comes between the change of a    *)
(* regen and its end, so that the change a verdict names is of that regen. *)
(* RecordInv: a publication at or above the revision of a commit tried the *)
(* record of the commit.                                                   *)
(* Three orders do break it and are left out: "overlap" (a command that    *)
(* takes records out while a commit waits), "past_halt" (a bad step below  *)
(* the command's own) and "late_event" (an event of a document left        *)
(* behind, heard after the answer of the open).                            *)
(*                                                                         *)
(* That a command is told anything at all, before its timeout, is the other*)
(* half.  EndsInv: what is owed a regen is settled by a request or a job of*)
(* the scheduler, by an event on its way or by a change that was heard     *)
(* before the answer (OwedInv), unless an open is to give it up; a job is  *)
(* cancelled only by a request in its place, and is otherwise of the       *)
(* document as it is (CallInv); changes come document by document and by   *)
(* revision (RiseInv).  Three other orders break it: "late_answer" (an     *)
(* answer heard after the end of its own regen), "no_regen" (an awaited    *)
(* command that asks for no regen) and "bare_revision" (a rename while a   *)
(* regen runs).                                                            *)
(***************************************************************************)

(* The document the frontend knows of: the open one, or the one before it. *)
Known == IF OpenUnanswered = {} THEN doc.inst ELSE doc.inst - 1

(* A report that is heard as covering what was asked before it.            *)
Covers(e) == e.type = "change" \/ (e.type = "finished" /\ e.outcome \notin {"superseded", "cancelled"})
(* The end of a regen that put bodies on the screen.                       *)
Publishes(e) == e.type = "finished" /\ e.outcome = "published"

(* No command comes after an open, and none that takes records out after a *)
(* commit, before it is settled.                                           *)
OrderInv ==
    /\ \A i, j \in DOMAIN cmds : i # j /\ Opens(cmds[i]) /\ cmds[i].phase # "done" /\ cmds[j].phase # "done" =>
         j < i /\ SettlesOnFinish(cmds[j])
    /\ \A i, j \in DOMAIN cmds :
         i < j /\ OfRecord(cmds[i]) /\ cmds[j].kind \in {"undo", "remove", "roll"} => cmds[i].phase = "done"

(* An answer is of the document the frontend knows; a commit counted its   *)
(* revision up, a document still to be heard of has its first.             *)
Pending(c) == c.phase \in {"answered", "waiting"} /\ ~Opens(c) /\ c.answer.ok
AnswerInv ==
    /\ doc.rev >= 1 /\ (OpenUnanswered # {} => doc.rev = 1)
    /\ \A i \in DOMAIN cmds : Pending(cmds[i]) =>
         /\ cmds[i].answer.inst = Known
         /\ SettlesOnFinish(cmds[i]) => cmds[i].answer.view.rev >= 2

(* The reports on their way are of that document or of the open one, those *)
(* of the former first.                                                    *)
ReportInv ==
    /\ \A k \in DOMAIN events : Covers(events[k]) =>
         /\ events[k].inst \in {Known, doc.inst}
         /\ events[k].type = "finished" => events[k].rev = events[k].source
         /\ events[k].inst = doc.inst => events[k].rev <= doc.rev
    /\ \A k, m \in DOMAIN events : k < m /\ Covers(events[k]) /\ Covers(events[m]) => events[k].inst <= events[m].inst

(* Changes come in the order of their revisions; a commit holds the last   *)
(* one that was heard of, unless its document was left and all of it heard.*)
AllHeard == \A k \in DOMAIN events : Covers(events[k]) => events[k].inst # Known
Holds(c) ==
    /\ c.phase = "waiting" /\ SettlesOnFinish(c)
    /\ (Known # doc.inst /\ AllHeard) \/ (c.buffered = last /\ c.answer.view.rev <= last)
ChangeInv ==
    /\ Known = doc.inst => last <= doc.rev
    /\ \A k \in DOMAIN events : IsChange(k) /\ events[k].inst = Known => last <= events[k].rev
    /\ \A k, m \in DOMAIN events :
         k < m /\ IsChange(k) /\ IsChange(m) /\ events[k].inst = events[m].inst => events[k].rev <= events[m].rev
    /\ \A i \in DOMAIN cmds : cmds[i].buffered # 0 /\ cmds[i].phase # "done" => Holds(cmds[i])

(* The end of a regen that published comes right after its change and      *)
(* projection.                                                             *)
AfterChange(k) ==
    \/ /\ k - 2 \in DOMAIN events /\ k - 1 \in DOMAIN events
       /\ events[k - 1].type = "projection" /\ IsChange(k - 2)
       /\ events[k - 2].inst = events[k].inst /\ events[k - 2].rev = events[k].rev
    \/ /\ k = 1 \/ (k = 2 /\ events[1].type = "projection")
       /\ last = events[k].rev
PublishedInv == \A k \in DOMAIN events : Publishes(events[k]) /\ events[k].rev >= 2 => AfterChange(k)

(* The record of a commit is applied, and ran in whatever was published    *)
(* since.                                                                  *)
Distinct(d) == IsInjective(d.recs) /\ \A i \in DOMAIN d.past : IsInjective(d.past[i].recs)
(* A commit whose record is in the document, waiting or about to.          *)
Commits(c) == Pending(c) /\ OfRecord(c) /\ ~Inert(c)
(* The records that a regen came to.                                       *)
Tried(e) == e.ran \cup e.bad \cup e.repair
RecordInv ==
    /\ Distinct(doc)
    /\ \A i \in DOMAIN cmds : cmds[i].phase = "waiting" => ~Inert(cmds[i])
    /\ \A i \in DOMAIN cmds : Commits(cmds[i]) /\ cmds[i].answer.inst = doc.inst => cmds[i].rec \in Applied(doc)
    /\ \A i \in DOMAIN cmds, k \in DOMAIN events :
         Commits(cmds[i]) /\ Publishes(events[k]) /\ events[k].inst = cmds[i].answer.inst
           /\ events[k].source >= cmds[i].answer.view.rev => cmds[i].rec \in Tried(events[k])

VerdictInv == OrderInv /\ AnswerInv /\ ReportInv /\ ChangeInv /\ PublishedInv /\ RecordInv /\ VerdictIsTrue

-----------------------------------------------------------------------------
(* Documents that name no record twice.                                    *)

(* An edit remembers the timeline it leaves.                               *)
LEMMA MutatedPast ==
    ASSUME NEW d, DocKind(d), NEW recs, NEW cursor, NEW model \in BOOLEAN,
           NEW e, e = Mutated(d, recs, cursor, model)
    PROVE  /\ DOMAIN e.past = 1 .. Len(d.past) + 1 /\ DOMAIN d.past = 1 .. Len(d.past) /\ Len(d.past) \in Nat
           /\ \A i \in DOMAIN d.past : e.past[i] = d.past[i]
           /\ e.past[Len(d.past) + 1].recs = d.recs
<1>. DEFINE was == [recs |-> d.recs, cursor |-> d.cursor, model |-> model]
<1>1. d \in Docs /\ d.past \in Seq(Pasts)
  BY DEF DocKind, Docs
<1>2. was \in Pasts /\ was.recs = d.recs
  BY <1>1 DEF Docs, Pasts
<1>3. e.past = Append(d.past, was)
  BY <1>1 DEF Mutated, Docs
<1>. HIDE DEF was
<1>. QED
  BY <1>1, <1>2, <1>3, QueueGrowsByOne, SeqIs

(* So it names no record twice if the new timeline does not.               *)
LEMMA MutatedDistinct ==
    ASSUME NEW d, DocKind(d), Distinct(d), NEW recs \in Seq(Records), NEW cursor \in 0 .. Len(recs),
           NEW model \in BOOLEAN, IsInjective(recs), NEW e, e = Mutated(d, recs, cursor, model)
    PROVE  Distinct(e) /\ e.rev = d.rev + 1 /\ e.recs = recs /\ e.cursor = cursor
<1>1. e.rev = d.rev + 1 /\ e.recs = recs /\ e.cursor = cursor
  BY MutatedKind
<1>2. ASSUME NEW i \in DOMAIN e.past PROVE IsInjective(e.past[i].recs)
  <2>1. i \in DOMAIN d.past \/ i = Len(d.past) + 1
    BY MutatedPast
  <2>2. i \in DOMAIN d.past => e.past[i] = d.past[i]
    BY MutatedPast
  <2>3. e.past[Len(d.past) + 1].recs = d.recs
    BY MutatedPast
  <2>. QED
    BY <2>1, <2>2, <2>3 DEF Distinct
<1>. QED
  BY <1>1, <1>2 DEF Distinct

(* Where the records are, once one was put between two others.             *)
LEMMA InsertMoves ==
    ASSUME NEW T, NEW s \in Seq(T), NEW i \in 1 .. Len(s) + 1, NEW e \in T, NEW t, t = InsertAt(s, i, e)
    PROVE  \A k \in DOMAIN s : (k < i => t[k] = s[k]) /\ (k >= i => t[k + 1] = s[k])
<1>1. Len(s) \in Nat /\ DOMAIN s = 1 .. Len(s)
  BY SeqIs
<1>2. /\ \A k \in 1 .. i - 1 : t[k] = s[k]
      /\ \A k \in i + 1 .. Len(s) + 1 : t[k] = s[k - 1]
  BY InsertIs
<1>. QED
  BY <1>1, <1>2

(* A new record put among others.                                          *)
LEMMA InsertDistinct ==
    ASSUME NEW s \in Seq(Records), IsInjective(s), NEW i \in 1 .. Len(s) + 1, NEW r \in Records,
           \A k \in 1 .. Len(s) : s[k] # r, NEW t, t = InsertAt(s, i, r)
    PROVE  /\ t \in Seq(Records) /\ Len(t) = Len(s) + 1 /\ IsInjective(t) /\ t[i] = r
           /\ \A k \in 1 .. i - 1 : t[k] = s[k]
<1>1. t \in Seq(Records) /\ Len(t) = Len(s) + 1
  BY InsertIs
<1>2. t[i] = r
  BY InsertIs
<1>3. \A k \in DOMAIN s : (k < i => t[k] = s[k]) /\ (k >= i => t[k + 1] = s[k])
  BY InsertMoves
<1>4. Len(s) \in Nat /\ DOMAIN s = 1 .. Len(s) /\ DOMAIN t = 1 .. Len(s) + 1
  BY <1>1, SeqIs
<1>. DEFINE at(k) == IF k < i THEN k ELSE k - 1
<1>5. \A k \in DOMAIN t : k # i => at(k) \in DOMAIN s /\ t[k] = s[at(k)]
  <2>. SUFFICES ASSUME NEW k \in DOMAIN t, k # i PROVE at(k) \in DOMAIN s /\ t[k] = s[at(k)]
    OBVIOUS
  <2>1. CASE k < i
    BY <1>3, <1>4, <2>1
  <2>2. CASE k > i
    <3>1. k - 1 \in DOMAIN s /\ k - 1 >= i /\ k - 1 + 1 = k
      BY <1>4, <2>2
    <3>. QED
      BY <1>3, <1>4, <2>2, <3>1
  <2>. QED
    BY <1>4, <2>1, <2>2
<1>6. ASSUME NEW a \in DOMAIN t, NEW b \in DOMAIN t, t[a] = t[b] PROVE a = b
  <2>1. CASE a = i \/ b = i
    <3>1. \A k \in DOMAIN t : k # i => t[k] # r
      BY <1>4, <1>5
    <3>. QED
      BY <1>2, <1>6, <2>1, <3>1
  <2>2. CASE a # i /\ b # i
    <3>1. at(a) = at(b)
      BY <1>5, <1>6, <2>2 DEF IsInjective
    <3>. QED
      BY <1>4, <2>2, <3>1
  <2>. QED
    BY <2>1, <2>2
<1>. QED
  BY <1>1, <1>2, <1>3, <1>4, <1>6 DEF IsInjective

(* A record taken out.                                                     *)
LEMMA RemoveDistinct ==
    ASSUME NEW s \in Seq(Records), IsInjective(s), NEW i \in 1 .. Len(s), NEW t, t = RemoveAt(s, i)
    PROVE  t \in Seq(Records) /\ Len(t) = Len(s) - 1 /\ IsInjective(t)
<1>1. /\ t \in Seq(Records) /\ Len(t) = Len(s) - 1
      /\ \A k \in 1 .. i - 1 : t[k] = s[k]
      /\ \A k \in i .. Len(s) - 1 : t[k] = s[k + 1]
  BY ONLY RemoveIs, s \in Seq(Records), i \in 1 .. Len(s), t = RemoveAt(s, i), SMTT(30)
<1>2. Len(s) \in Nat /\ DOMAIN s = 1 .. Len(s) /\ DOMAIN t = 1 .. Len(s) - 1
  BY <1>1, SeqIs
<1>. DEFINE at(k) == IF k < i THEN k ELSE k + 1
<1>3. \A k \in DOMAIN t : at(k) \in DOMAIN s /\ t[k] = s[at(k)]
  BY <1>1, <1>2
<1>4. ASSUME NEW a \in DOMAIN t, NEW b \in DOMAIN t, t[a] = t[b] PROVE a = b
  <2>1. at(a) = at(b)
    BY <1>3, <1>4 DEF IsInjective
  <2>. QED
    BY <1>2, <2>1
<1>. QED
  BY <1>1, <1>4 DEF IsInjective

(* A command leaves a document that names no record twice, and only some   *)
(* kinds take applied records out.                                         *)
Improves(o, d, c) ==
    /\ Distinct(o.doc) /\ o.doc.rev \in {d.rev, d.rev + 1}
    /\ c.kind # "undo" => o.doc.rev = d.rev + 1
    /\ c.kind \notin {"undo", "remove", "roll"} => Applied(d) \subseteq Applied(o.doc)

(* Most commands leave the records where they are.                         *)
LEMMA SameRecords ==
    ASSUME NEW d, DocKind(d), Distinct(d), NEW c, NEW cursor \in 0 .. Len(d.recs), NEW model \in BOOLEAN,
           NEW o, o.doc = Mutated(d, d.recs, cursor, model), cursor = d.cursor \/ c.kind = "roll"
    PROVE  Improves(o, d, c)
<1>. DEFINE e == o.doc
<1>1. e = Mutated(d, d.recs, cursor, model) /\ d.recs \in Seq(Records) /\ IsInjective(d.recs)
  BY DEF DocKind, Docs, Distinct
<1>. HIDE DEF e
<1>2. Distinct(e) /\ e.rev = d.rev + 1 /\ e.recs = d.recs /\ e.cursor = cursor
  BY <1>1, MutatedDistinct
<1>3. c.kind # "roll" => Applied(e) = Applied(d)
  BY <1>2 DEF Applied
<1>. QED
  BY <1>2, <1>3 DEF Improves, e

(* What each command leaves.                                               *)
LEMMA EditedDistinct ==
    ASSUME NEW d, DocKind(d), Distinct(d), NEW c \in Cmds, ~Opens(c), ~Refused(c, d), NEW o \in Edited(c, d)
    PROVE  Improves(o, d, c)
<1>0. DocKind(d) /\ Distinct(d)
  OBVIOUS
<1>1. d \in Docs /\ d.cursor \in 0 .. Len(d.recs) /\ Len(d.recs) \in Nat /\ d.recs \in Seq(Records)
      /\ DOMAIN d.recs = 1 .. Len(d.recs) /\ IsInjective(d.recs)
  BY SeqIs DEF DocKind, Docs, Distinct
<1>2. c.rec \in Records /\ c.kind \in {"add", "reedit", "remove", "roll", "variable", "undo", "rename"}
  BY CorrelationBounds DEF Cmds, Opens
<1>3. CASE c.kind = "add"
  <2>. DEFINE i == d.cursor + 1  recs == InsertAt(d.recs, i, c.rec)  e == o.doc  model == TRUE
  <2>1. i \in 1 .. Len(d.recs) + 1 /\ \A k \in 1 .. Len(d.recs) : d.recs[k] # c.rec
    BY <1>1, <1>3 DEF Refused, Contains
  <2>2. o = [doc |-> Mutated(d, recs, i, TRUE), from |-> d.cursor]
    BY <1>3 DEF Edited
  <2>3. e = Mutated(d, recs, i, model) /\ model \in BOOLEAN
    BY <2>2
  <2>4. recs = InsertAt(d.recs, i, c.rec)
    OBVIOUS
  <2>. HIDE DEF i, recs, e, model
  <2>5. /\ recs \in Seq(Records) /\ Len(recs) = Len(d.recs) + 1 /\ IsInjective(recs) /\ recs[i] = c.rec
        /\ \A k \in 1 .. i - 1 : recs[k] = d.recs[k]
    BY <1>1, <1>2, <2>1, <2>4, InsertDistinct
  <2>6. i \in 0 .. Len(recs)
    BY <1>1, <2>1, <2>5
  <2>7. Distinct(e) /\ e.rev = d.rev + 1 /\ e.recs = recs /\ e.cursor = i
    BY ONLY <1>0, <2>3, <2>5, <2>6, MutatedDistinct
  <2>8. Applied(d) \subseteq Applied(e)
    <3>. SUFFICES ASSUME NEW k \in 1 .. d.cursor PROVE d.recs[k] \in Applied(e)
      BY DEF Applied
    <3>1. k \in 1 .. i /\ k \in 1 .. i - 1
      BY <1>1, <2>1 DEF i
    <3>. QED
      BY <2>5, <2>7, <3>1 DEF Applied
  <2>. QED
    BY <1>3, <2>7, <2>8 DEF Improves, e
<1>4. CASE c.kind = "reedit"
  <2>1. o = [doc |-> Mutated(d, d.recs, d.cursor, TRUE), from |-> Place(d, c.rec) - 1]
    BY <1>4 DEF Edited
  <2>2. o.doc = Mutated(d, d.recs, d.cursor, TRUE)
    BY <2>1
  <2>. QED
    BY <1>1, <2>2, SameRecords
<1>5. CASE c.kind = "remove"
  <2>. DEFINE i == Place(d, c.rec)  recs == RemoveAt(d.recs, i)  e == o.doc
              cursor == IF i <= d.cursor THEN d.cursor - 1 ELSE d.cursor  model == TRUE
  <2>1. i \in 1 .. Len(d.recs)
    <3>1. \E k \in DOMAIN d.recs : d.recs[k] = c.rec
      BY <1>1, <1>5 DEF Refused, Contains
    <3>. QED
      BY <1>1, <3>1 DEF Place
  <2>2. o = [doc |-> Mutated(d, recs, cursor, TRUE), from |-> i - 1]
    BY <1>5 DEF Edited
  <2>3. e = Mutated(d, recs, cursor, model) /\ model \in BOOLEAN /\ recs = RemoveAt(d.recs, i)
    BY <2>2
  <2>. HIDE DEF i, recs, e, model
  <2>4. recs \in Seq(Records) /\ Len(recs) = Len(d.recs) - 1 /\ IsInjective(recs)
    BY <1>1, <2>1, <2>3, RemoveDistinct
  <2>5. cursor \in 0 .. Len(recs)
    BY <1>1, <2>1, <2>4
  <2>. HIDE DEF cursor
  <2>6. Distinct(e) /\ e.rev = d.rev + 1
    <3>1. /\ recs \in Seq(Records) /\ cursor \in 0 .. Len(recs) /\ model \in BOOLEAN /\ IsInjective(recs)
          /\ e = Mutated(d, recs, cursor, model)
      BY <2>3, <2>4, <2>5
    <3>. QED
      BY ONLY <1>0, <3>1, MutatedDistinct
  <2>. QED
    BY <1>5, <2>6 DEF Improves, e
<1>6. CASE c.kind = "roll"
  <2>1. PICK k \in 1 .. Len(d.recs) :
          o = [doc |-> Mutated(d, d.recs, k, TRUE), from |-> IF k = d.cursor THEN -1 ELSE 0]
    BY <1>6 DEF Edited
  <2>2. o.doc = Mutated(d, d.recs, k, TRUE) /\ k \in 0 .. Len(d.recs)
    BY <1>1, <2>1
  <2>. QED
    BY <1>6, <2>2, SameRecords
<1>7. CASE c.kind = "variable"
  <2>1. o.doc = Mutated(d, d.recs, d.cursor, d.recs # <<>>) /\ (d.recs # <<>>) \in BOOLEAN
    BY <1>7 DEF Edited
  <2>. QED
    BY <1>1, <2>1, SameRecords
<1>8. CASE c.kind = "rename"
  <2>1. o = [doc |-> Mutated(d, d.recs, d.cursor, FALSE), from |-> -1]
    BY <1>8 DEF Edited
  <2>2. o.doc = Mutated(d, d.recs, d.cursor, FALSE)
    BY <2>1
  <2>. QED
    BY <1>1, <2>2, SameRecords
<1>9. CASE c.kind = "undo" /\ d.past = <<>>
  <2>1. o.doc = d
    BY <1>9 DEF Edited
  <2>. QED
    BY <1>9, <2>1 DEF Improves
<1>10. CASE c.kind = "undo" /\ d.past # <<>>
  <2>. DEFINE was == Last(d.past)  past == Front(d.past)
  <2>1. o.doc = [d EXCEPT !.rev = @ + 1, !.recs = was.recs, !.cursor = was.cursor, !.status = Dirty, !.past = past]
    BY <1>10 DEF Edited
  <2>2. d.past \in Seq(Pasts) /\ Len(d.past) \in Nat /\ Len(d.past) # 0 /\ DOMAIN d.past = 1 .. Len(d.past)
    BY <1>1, <1>10, EmptySeq, SeqIs DEF Docs
  <2>3. IsInjective(was.recs)
    BY <2>2 DEF Last, Distinct
  <2>4. DOMAIN past \subseteq DOMAIN d.past /\ \A i \in DOMAIN past : past[i] = d.past[i]
    <3>1. Len(d.past) - 1 \in Int /\ \A i \in 1 .. Len(d.past) - 1 : d.past[i] \in Pasts
      BY <2>2, SeqIs
    <3>2. /\ past \in Seq(Pasts)
          /\ Len(past) = IF 1 <= Len(d.past) - 1 THEN Len(d.past) - 1 - 1 + 1 ELSE 0
          /\ \A i \in 1 .. Len(d.past) - 1 - 1 + 1 : past[i] = d.past[1 + i - 1]
      BY <3>1, SubSeqProperties DEF Front
    <3>. HIDE DEF past
    <3>3. DOMAIN past = 1 .. Len(d.past) - 1
      BY <2>2, <3>2, SeqIs
    <3>4. \A i \in 1 .. Len(d.past) - 1 : past[i] = d.past[i]
      BY <2>2, <3>2
    <3>. QED
      BY <2>2, <3>3, <3>4
  <2>. HIDE DEF was, past
  <2>5. o.doc.rev = d.rev + 1 /\ o.doc.recs = was.recs /\ o.doc.past = past
    BY <1>1, <2>1 DEF Docs
  <2>6. Distinct(o.doc)
    BY <2>3, <2>4, <2>5 DEF Distinct
  <2>. QED
    BY <1>10, <2>5, <2>6 DEF Improves
<1>. QED
  BY <1>2, <1>3, <1>4, <1>5, <1>6, <1>7, <1>8, <1>9, <1>10

-----------------------------------------------------------------------------
(* What the frontend does with a command, and the verdict it leaves.       *)

(* What VerdictIsTrue says of one command.                                 *)
TrueVerdict(c) ==
    LET v == c.verdict
    IN  c.phase = "done" /\ v.by # NoReport =>
          /\ v.by.inst = c.answer.inst
          /\ v.rev >= c.answer.view.rev
          /\ SettlesOnFinish(c) => v.by.type = "finished" /\ v.by.source >= c.answer.view.rev
          /\ v.terminal = "published" => v.change = v.by.rev
          /\ v.terminal = "published" /\ OfRecord(c) => c.rec \in v.by.ran
          /\ v.terminal = "failed" => v.by.outcome = "failed" \/ v.by.bad # {}

(* It is the verdict of each command that the property speaks of.          *)
LEMMA VerdictsAre == VerdictIsTrue <=> \A i \in DOMAIN cmds : TrueVerdict(cmds[i])
  BY DEF VerdictIsTrue, TrueVerdict

(* A command keeps what it asked and what it was answered, is answered     *)
(* once, settled once, and waits for nothing that is inert.                *)
Follows(c, d) ==
    /\ d.kind = c.kind /\ d.rec = c.rec /\ d.answer = c.answer
    /\ c.phase = "done" => d.phase = "done"
    /\ d.phase \in {"answered", "waiting"} => c.phase \in {"answered", "waiting"}
    /\ d.phase = "waiting" /\ c.phase # "waiting" => ~Inert(c)

(* A command that is settled.                                              *)
LEMMA DoneIs ==
    ASSUME NEW c \in Cmds, NEW v, NEW d, d = Done(c, v)
    PROVE  /\ d.kind = c.kind /\ d.rec = c.rec /\ d.answer = c.answer /\ d.phase = "done" /\ d.verdict = v
           /\ Follows(c, d)
<1>1. d = [c EXCEPT !.phase = "done", !.waits = FALSE, !.verdict = v]
  BY DEF Done
<1>2. d = [kind |-> c.kind, rec |-> c.rec, phase |-> "done", waits |-> FALSE, buffered |-> c.buffered,
           answer |-> c.answer, verdict |-> v]
  BY <1>1 DEF Cmds
<1>. QED
  BY <1>2 DEF Follows

(* A verdict without a report says nothing that could be untrue.           *)
LEMMA DoneByNothing ==
    ASSUME NEW c \in Cmds, NEW v, v.by = NoReport, NEW d, d = Done(c, v)
    PROVE  d.phase = "done" /\ Follows(c, d) /\ TrueVerdict(d)
  BY DoneIs DEF TrueVerdict

(* So has a command that times out.                                        *)
LEMMA TimedOutTrue ==
    ASSUME NEW c \in Cmds, NEW d, d = TimedOut(c)
    PROVE  d.phase = "done" /\ Follows(c, d) /\ TrueVerdict(d)
<1>. DEFINE v == Verdict("timeout", 0, c.answer.view.rev, NoReport)
<1>1. v.by = NoReport
  BY DEF Verdict
<1>2. d = Done(c, v)
  BY DEF TimedOut
<1>. HIDE DEF v
<1>. QED
  BY <1>1, <1>2, DoneByNothing

(* A command that waits hears a change of its document.                    *)
LEMMA ChangeTrue ==
    ASSUME NEW n, NEW c, CmdKind(c, n), c.phase = "waiting", NEW e \in Changes, e.inst = c.answer.inst,
           e.rev >= c.answer.view.rev, NEW d, d = OnChange(c, e)
    PROVE  /\ Follows(c, d) /\ TrueVerdict(d)
           /\ d.phase # "done" => d.phase = "waiting" /\ SettlesOnFinish(c) /\ d.buffered = e.rev
<1>1. c \in Cmds
  BY DEF CmdKind
<1>2. CASE SettlesOnFinish(c)
  <2>1. d = [c EXCEPT !.buffered = e.rev]
    BY <1>2 DEF OnChange
  <2>2. d = [kind |-> c.kind, rec |-> c.rec, phase |-> c.phase, waits |-> c.waits, buffered |-> e.rev,
             answer |-> c.answer, verdict |-> c.verdict]
    BY <1>1, <2>1 DEF Cmds
  <2>. QED
    BY <1>2, <2>2 DEF Follows, TrueVerdict
<1>3. CASE ~SettlesOnFinish(c)
  <2>. DEFINE v == Verdict("published", e.rev, e.rev, e)
  <2>1. v.by = e /\ v.rev = e.rev /\ v.change = e.rev /\ v.terminal = "published"
    BY DEF Verdict
  <2>2. d = Done(c, v)
    BY <1>3 DEF OnChange
  <2>. HIDE DEF v
  <2>3. /\ d.kind = c.kind /\ d.rec = c.rec /\ d.answer = c.answer /\ d.phase = "done" /\ d.verdict = v
        /\ Follows(c, d)
    BY <1>1, <2>2, DoneIs
  <2>4. ~SettlesOnFinish(d) /\ ~OfRecord(d)
    BY <1>3, <2>3 DEF SettlesOnFinish, OfRecord
  <2>. QED
    BY <2>1, <2>3, <2>4 DEF TrueVerdict
<1>. QED
  BY <1>2, <1>3

(* A command that waits hears the end of a regen of its document.          *)
LEMMA FinishTrue ==
    ASSUME NEW n, NEW c, CmdKind(c, n), c.phase = "waiting", NEW e \in Finishes, e.inst = c.answer.inst,
           e.source >= c.answer.view.rev, e.rev = e.source,
           e.outcome = "published" /\ SettlesOnFinish(c) => Change(c) = e.rev,
           e.outcome = "published" /\ OfRecord(c) => c.rec \in Tried(e),
           NEW d, d = OnFinish(c, e)
    PROVE  /\ Follows(c, d) /\ TrueVerdict(d)
           /\ d.phase # "done" => d = c
<1>1. c \in Cmds /\ e.outcome \in Outcomes
  BY DEF CmdKind, Finishes
<1>2. ASSUME NEW terminal, NEW change, d = Done(c, Verdict(terminal, change, e.rev, e)),
             terminal = "published" => SettlesOnFinish(c) /\ change = e.rev /\ (OfRecord(c) => c.rec \in e.ran),
             terminal = "failed" => e.outcome = "failed" \/ e.bad # {}
      PROVE  Follows(c, d) /\ TrueVerdict(d) /\ d.phase = "done"
  <2>. DEFINE v == Verdict(terminal, change, e.rev, e)
  <2>1. v.by = e /\ v.rev = e.rev /\ v.change = change /\ v.terminal = terminal
    BY DEF Verdict
  <2>2. d = Done(c, v)
    BY <1>2
  <2>. HIDE DEF v
  <2>3. /\ d.kind = c.kind /\ d.rec = c.rec /\ d.answer = c.answer /\ d.phase = "done" /\ d.verdict = v
        /\ Follows(c, d)
    BY <1>1, <2>2, DoneIs
  <2>4. e.type = "finished"
    BY DEF Finishes
  <2>5. OfRecord(d) <=> OfRecord(c)
    BY <2>3 DEF OfRecord
  <2>. QED
    BY <1>2, <2>1, <2>3, <2>4, <2>5 DEF TrueVerdict
<1>3. CASE SettlesOnFinish(c) /\ Failed(c, e)
  <2>1. d = Done(c, Verdict("failed", 0, e.rev, e))
    BY <1>3 DEF OnFinish
  <2>2. e.outcome = "failed" \/ e.bad # {}
    BY <1>3 DEF Failed
  <2>. QED
    BY <1>2, <2>1, <2>2
<1>4. CASE SettlesOnFinish(c) /\ ~Failed(c, e)
  <2>. DEFINE t == IF OfRecord(c) /\ c.rec \in e.repair THEN "needsRepair" ELSE e.outcome
  <2>1. d = Done(c, Verdict(t, Change(c), e.rev, e))
    BY <1>4 DEF OnFinish
  <2>2. t # "failed"
    BY <1>4 DEF Failed
  <2>3. t = "published" => Change(c) = e.rev /\ (OfRecord(c) => c.rec \in e.ran)
    <3>1. t = "published" => e.outcome = "published" /\ ~(OfRecord(c) /\ c.rec \in e.repair)
      OBVIOUS
    <3>2. OfRecord(c) => c.rec \notin e.bad
      BY <1>4 DEF Failed
    <3>. QED
      BY <1>4, <3>1, <3>2 DEF Tried
  <2>. HIDE DEF t
  <2>. QED
    BY <1>2, <1>4, <2>1, <2>2, <2>3
<1>5. CASE ~SettlesOnFinish(c) /\ e.outcome # "published"
  <2>1. d = Done(c, Verdict(e.outcome, 0, e.rev, e))
    BY <1>5 DEF OnFinish
  <2>. QED
    BY <1>2, <1>5, <2>1
<1>6. CASE ~SettlesOnFinish(c) /\ e.outcome = "published"
  <2>1. d = c
    BY <1>6 DEF OnFinish
  <2>. QED
    BY <1>1, <2>1 DEF Follows, TrueVerdict
<1>. QED
  BY <1>3, <1>4, <1>5, <1>6

(* A command hears its answer.                                             *)
LEMMA HeardTrue ==
    ASSUME NEW n, NEW c, CmdKind(c, n), c.phase = "answered", c.buffered = 0, NEW d, d = Heard(c)
    PROVE  /\ Follows(c, d) /\ TrueVerdict(d)
           /\ d.phase # "done" =>
                /\ d.phase = "waiting"
                /\ d.buffered # 0 => SettlesOnFinish(c) /\ d.buffered = last /\ c.answer.view.rev <= last
<1>1. c \in Cmds
  BY DEF CmdKind
<1>2. ASSUME NEW terminal, NEW change, NEW rev, d = Done(c, Verdict(terminal, change, rev, NoReport))
      PROVE  Follows(c, d) /\ TrueVerdict(d) /\ d.phase = "done"
  <2>. DEFINE v == Verdict(terminal, change, rev, NoReport)
  <2>1. v.by = NoReport /\ d = Done(c, v)
    BY <1>2 DEF Verdict
  <2>. HIDE DEF v
  <2>. QED
    BY <1>1, <2>1, DoneByNothing
<1>3. CASE ~c.answer.ok
  <2>1. d = Done(c, Verdict("threw", 0, 0, NoReport))
    BY <1>3 DEF Heard
  <2>. QED
    BY <1>2, <2>1
<1>4. CASE c.answer.ok /\ Metadata(c)
  <2>1. d = Done(c, Verdict("published", 0, c.answer.view.rev, NoReport))
    BY <1>4 DEF Heard, Metadata, NoRegen, Inert, OfRecord
  <2>. QED
    BY <1>2, <2>1
<1>5. CASE c.answer.ok /\ ~Metadata(c) /\ NoRegen(c)
  <2>1. d = Done(c, Verdict("noop", 0, c.answer.view.rev, NoReport))
    BY <1>5 DEF Heard, Metadata, NoRegen, Inert, OfRecord
  <2>. QED
    BY <1>2, <2>1
<1>6. CASE c.answer.ok /\ ~Metadata(c) /\ ~NoRegen(c) /\ Inert(c)
  <2>1. d = Done(c, Verdict("inert", 0, c.answer.view.rev, NoReport))
    BY <1>6 DEF Heard, Metadata, NoRegen, Inert, OfRecord
  <2>. QED
    BY <1>2, <2>1
<1>7. CASE c.answer.ok /\ ~Metadata(c) /\ ~NoRegen(c) /\ ~Inert(c)
  <2>1. d = Target(c)
    BY <1>7 DEF Heard
  <2>2. ASSUME NEW b, d = [kind |-> c.kind, rec |-> c.rec, phase |-> "waiting", waits |-> c.waits, buffered |-> b,
                           answer |-> c.answer, verdict |-> c.verdict]
        PROVE  Follows(c, d) /\ TrueVerdict(d) /\ d.phase = "waiting" /\ d.buffered = b
    BY <1>7, <2>2 DEF Follows, TrueVerdict
  <2>3. CASE ~c.waits
    BY <1>1, <2>1, <2>3, TimedOutTrue DEF Target
  <2>4. CASE c.waits /\ last >= c.answer.view.rev /\ SettlesOnFinish(c)
    <3>1. d = [[c EXCEPT !.phase = "waiting"] EXCEPT !.buffered = last]
      BY <2>1, <2>4 DEF Target
    <3>2. d = [kind |-> c.kind, rec |-> c.rec, phase |-> "waiting", waits |-> c.waits, buffered |-> last,
               answer |-> c.answer, verdict |-> c.verdict]
      BY <1>1, <3>1 DEF Cmds
    <3>. QED
      BY <2>2, <2>4, <3>2
  <2>5. CASE c.waits /\ last >= c.answer.view.rev /\ ~SettlesOnFinish(c)
    <3>1. d = Done(c, Verdict("published", last, last, NoReport))
      BY <2>1, <2>5 DEF Target
    <3>. QED
      BY <1>2, <3>1
  <2>6. CASE c.waits /\ ~(last >= c.answer.view.rev)
    <3>1. d = [c EXCEPT !.phase = "waiting"]
      BY <2>1, <2>6 DEF Target
    <3>2. d = [kind |-> c.kind, rec |-> c.rec, phase |-> "waiting", waits |-> c.waits, buffered |-> c.buffered,
               answer |-> c.answer, verdict |-> c.verdict]
      BY <1>1, <3>1 DEF Cmds
    <3>. QED
      BY <2>2, <3>2
  <2>. QED
    BY <2>3, <2>4, <2>5, <2>6
<1>. QED
  BY <1>3, <1>4, <1>5, <1>6, <1>7

-----------------------------------------------------------------------------
(* The document the frontend knows of.                                     *)

(* Revisions and instances are numbers; the frontend is one document       *)
(* behind while an open is to be heard of.                                 *)
LEMMA KnownIs ==
    ASSUME KindInv
    PROVE  /\ doc.inst \in Nat /\ doc.rev \in Nat /\ Known \in Int /\ last \in Nat
           /\ Known = doc.inst <=> OpenUnanswered = {}
           /\ OpenUnanswered # {} => Known = doc.inst - 1
<1>1. doc.inst \in Nat /\ doc.rev \in Nat /\ last \in Nat
  BY DEF KindInv, DocKind, Docs
<1>. QED
  BY <1>1 DEF Known

(* It stays the one known while no open comes or is heard of.              *)
LEMMA KnownStays ==
    ASSUME OpensStay, doc'.inst = doc.inst
    PROVE  Known' = Known /\ OpenUnanswered' = OpenUnanswered
  BY DEF OpensStay, Known

(* While a command is still to be handled, every open was heard of.        *)
LEMMA NoneOpening ==
    ASSUME KindInv, OpenInv, OrderInv, NEW i \in DOMAIN cmds, cmds[i].phase = "sent"
    PROVE  OpenUnanswered = {} /\ Known = doc.inst
<1>1. ASSUME NEW j \in OpenUnanswered PROVE FALSE
  <2>1. j \in DOMAIN cmds /\ cmds[j].phase = "answered" /\ Opens(cmds[j])
    BY UnheardIs
  <2>2. i # j /\ cmds[i].phase # "done" /\ cmds[j].phase # "done"
    BY <2>1
  <2>3. i < j
    BY <2>1, <2>2 DEF OrderInv
  <2>. QED
    BY <2>1, <2>3 DEF OpenInv
<1>. QED
  BY <1>1 DEF Known

(* At most one is still to be heard of: that of the open document.         *)
LEMMA OneOpening ==
    ASSUME KindInv, OpenInv, OrderInv, NEW j \in OpenUnanswered
    PROVE  cmds[j].answer.inst = doc.inst
<1>1. PICK w \in OpenUnanswered : cmds[w].answer.inst = doc.inst
  BY DEF OpenInv, Unheard
<1>2. /\ j \in DOMAIN cmds /\ cmds[j].phase = "answered" /\ Opens(cmds[j])
      /\ w \in DOMAIN cmds /\ cmds[w].phase = "answered" /\ Opens(cmds[w])
  BY UnheardIs
<1>3. DOMAIN cmds \subseteq Nat
  BY SeqIs DEF KindInv
<1>4. w = j
  <2>1. w # j => w < j /\ j < w
    BY <1>2 DEF OrderInv
  <2>2. w \in Nat /\ j \in Nat
    BY <1>2, <1>3
  <2>. QED
    BY <2>1, <2>2
<1>. QED
  BY <1>1, <1>4

(* Nor is anything else then under way but what settles at the end of a    *)
(* regen.                                                                  *)
LEMMA OpeningSettles ==
    ASSUME OrderInv, OpenUnanswered # {}, NEW i \in DOMAIN cmds, Pending(cmds[i])
    PROVE  SettlesOnFinish(cmds[i])
<1>1. PICK j \in OpenUnanswered : TRUE
  OBVIOUS
<1>2. j \in DOMAIN cmds /\ cmds[j].phase = "answered" /\ Opens(cmds[j])
  BY UnheardIs
<1>3. i # j /\ cmds[i].phase # "done"
  BY <1>2 DEF Pending
<1>. QED
  BY <1>2, <1>3 DEF OrderInv

(* A report that covers a command is of the document it was answered for.  *)
LEMMA CoversItsOwn ==
    ASSUME KindInv, OrderInv, AnswerInv, ReportInv, NEW k \in DOMAIN events, Covers(events[k]), events[k] \in Events,
           NEW i \in DOMAIN cmds, Pending(cmds[i]), cmds[i].answer.view.rev <= events[k].rev
    PROVE  events[k].inst = cmds[i].answer.inst /\ events[k].inst = Known
<1>1. cmds[i].answer.inst = Known /\ (SettlesOnFinish(cmds[i]) => cmds[i].answer.view.rev >= 2)
  BY DEF AnswerInv
<1>2. events[k].inst \in {Known, doc.inst} /\ (events[k].inst = doc.inst => events[k].rev <= doc.rev)
  BY DEF ReportInv
<1>3. CASE OpenUnanswered = {}
  BY <1>1, <1>2, <1>3 DEF Known
<1>4. CASE OpenUnanswered # {}
  <2>1. doc.rev = 1 /\ SettlesOnFinish(cmds[i])
    BY <1>4, OpeningSettles DEF AnswerInv
  <2>2. cmds[i].answer.view.rev \in Nat /\ events[k].rev \in Nat
    <3>1. CmdKind(cmds[i], doc.inst) /\ cmds[i].answer.ok
      BY DEF KindInv, Pending
    <3>2. cmds[i].answer.view.rev \in Nat
      BY <3>1, AnswerIs
    <3>3. events[k].rev \in Nat
      BY DEF Covers, Events, ProjectionEvents, Starts, Changes, Finishes
    <3>. QED
      BY <3>2, <3>3
  <2>3. events[k].inst # doc.inst
    BY <1>1, <1>2, <2>1, <2>2
  <2>. QED
    BY <1>1, <1>2, <2>3
<1>. QED
  BY <1>3, <1>4

-----------------------------------------------------------------------------
(* Steps that only settle commands.                                        *)

(* A step that sends no command and changes only the phases.               *)
Calm == DOMAIN cmds' = DOMAIN cmds /\ \A i \in DOMAIN cmds :
          /\ cmds'[i].kind = cmds[i].kind /\ cmds'[i].rec = cmds[i].rec
          /\ cmds[i].phase = "done" => cmds'[i].phase = "done"

(* Settling a command keeps the order.                                     *)
LEMMA OrderByCalm ==
    ASSUME OrderInv, Calm
    PROVE  OrderInv'
  BY DEF OrderInv, Calm, Opens, SettlesOnFinish, OfRecord

(* A step of the frontend, after which every verdict given is true.        *)
Listens ==
    /\ doc' = doc /\ DOMAIN cmds' = DOMAIN cmds /\ OpensStay
    /\ \A i \in DOMAIN cmds : Follows(cmds[i], cmds'[i]) /\ TrueVerdict(cmds'[i])

(* The first event left the queue.                                         *)
Shifted ==
    \E n \in Nat \ {0} :
      /\ DOMAIN events = 1 .. n /\ DOMAIN events' = 1 .. n - 1
      /\ \A k \in DOMAIN events' : k + 1 \in DOMAIN events /\ events'[k] = events[k + 1]

(* A command that goes on keeps what it waits for, or waits no more.       *)
LEMMA PendingStays ==
    ASSUME NEW c, NEW d, Follows(c, d)
    PROVE  /\ Pending(d) => Pending(c)
           /\ Inert(d) <=> Inert(c)
           /\ Commits(d) => Commits(c)
           /\ SettlesOnFinish(d) <=> SettlesOnFinish(c)
<1>1. /\ OfRecord(d) <=> OfRecord(c)
      /\ SettlesOnFinish(d) <=> SettlesOnFinish(c)
      /\ Opens(d) <=> Opens(c)
  BY DEF Follows, OfRecord, SettlesOnFinish, Opens
<1>2. Inert(d) <=> Inert(c)
  BY <1>1 DEF Follows, Inert
<1>3. Pending(d) => Pending(c)
  BY <1>1 DEF Pending, Follows
<1>. QED
  BY <1>1, <1>2, <1>3 DEF Commits

(* What the frontend does on hearing an event, and on an answer other than *)
(* that of an open, leaves the invariants that are not about changes.      *)
LEMMA ListensKeeps ==
    ASSUME KindInv, OrderInv, AnswerInv, ReportInv, RecordInv, Listens, events' = events \/ Shifted
    PROVE  OrderInv' /\ AnswerInv' /\ ReportInv' /\ RecordInv' /\ VerdictIsTrue'
<1>1. Known' = Known /\ OpenUnanswered' = OpenUnanswered /\ doc' = doc /\ DOMAIN cmds' = DOMAIN cmds
  BY KnownStays DEF Listens
<1>2. ASSUME NEW i \in DOMAIN cmds
      PROVE  /\ Follows(cmds[i], cmds'[i]) /\ TrueVerdict(cmds'[i])
             /\ Pending(cmds'[i]) => Pending(cmds[i])
             /\ Inert(cmds'[i]) <=> Inert(cmds[i])
             /\ Commits(cmds'[i]) => Commits(cmds[i])
             /\ SettlesOnFinish(cmds'[i]) <=> SettlesOnFinish(cmds[i])
             /\ cmds'[i].answer = cmds[i].answer /\ cmds'[i].rec = cmds[i].rec
  BY PendingStays DEF Listens, Follows
<1>3. ASSUME NEW k \in DOMAIN events'
      PROVE  \E m \in DOMAIN events : events'[k] = events[m]
  BY <1>3 DEF Shifted
<1>4. OrderInv'
  <2>1. Calm
    BY <1>1, <1>2 DEF Calm, Follows
  <2>. QED
    BY <2>1, OrderByCalm
<1>5. AnswerInv'
  BY <1>1, <1>2 DEF AnswerInv
<1>6. ReportInv'
  <2>1. \A k \in DOMAIN events' : Covers(events'[k]) =>
         /\ events'[k].inst \in {Known, doc.inst}
         /\ events'[k].type = "finished" => events'[k].rev = events'[k].source
         /\ events'[k].inst = doc.inst => events'[k].rev <= doc.rev
    BY <1>3 DEF ReportInv
  <2>2. ASSUME NEW k \in DOMAIN events', NEW m \in DOMAIN events', k < m, Covers(events'[k]), Covers(events'[m])
        PROVE  events'[k].inst <= events'[m].inst
    <3>1. CASE events' = events
      BY <2>2, <3>1 DEF ReportInv
    <3>2. CASE Shifted
      <4>1. /\ k + 1 \in DOMAIN events /\ events'[k] = events[k + 1]
            /\ m + 1 \in DOMAIN events /\ events'[m] = events[m + 1]
            /\ k \in Nat /\ m \in Nat
        BY <3>2 DEF Shifted
      <4>2. k + 1 < m + 1
        BY <2>2, <4>1
      <4>. QED
        BY <2>2, <4>1, <4>2 DEF ReportInv
    <3>. QED
      BY <3>1, <3>2
  <2>. QED
    BY <1>1, <2>1, <2>2 DEF ReportInv
<1>7. RecordInv'
  <2>1. Distinct(doc)'
    BY <1>1 DEF RecordInv, Distinct
  <2>2. \A i \in DOMAIN cmds : cmds'[i].phase = "waiting" => ~Inert(cmds'[i])
    BY <1>2 DEF RecordInv, Follows
  <2>3. \A i \in DOMAIN cmds : Commits(cmds'[i]) /\ cmds'[i].answer.inst = doc.inst => cmds'[i].rec \in Applied(doc)
    BY <1>2 DEF RecordInv
  <2>4. \A i \in DOMAIN cmds, k \in DOMAIN events' :
         Commits(cmds'[i]) /\ Publishes(events'[k]) /\ events'[k].inst = cmds'[i].answer.inst
           /\ events'[k].source >= cmds'[i].answer.view.rev => cmds'[i].rec \in Tried(events'[k])
    <3>. SUFFICES ASSUME NEW i \in DOMAIN cmds, NEW k \in DOMAIN events',
                         Commits(cmds'[i]), Publishes(events'[k]), events'[k].inst = cmds'[i].answer.inst,
                         events'[k].source >= cmds'[i].answer.view.rev
                  PROVE  cmds'[i].rec \in Tried(events'[k])
      OBVIOUS
    <3>1. PICK m \in DOMAIN events : events'[k] = events[m]
      BY <1>3
    <3>2. Commits(cmds[i]) /\ cmds'[i].answer = cmds[i].answer /\ cmds'[i].rec = cmds[i].rec
      BY <1>2
    <3>. QED
      BY <3>1, <3>2 DEF RecordInv
  <2>. QED
    BY <1>1, <2>1, <2>2, <2>3, <2>4 DEF RecordInv
<1>8. VerdictIsTrue'
  <2>1. \A i \in DOMAIN cmds' : TrueVerdict(cmds'[i])
    BY <1>1, <1>2
  <2>. QED
    BY <2>1 DEF VerdictIsTrue, TrueVerdict
<1>. QED
  BY <1>4, <1>5, <1>6, <1>7, <1>8

(* An event that arrives leaves the queue.                                 *)
LEMMA ArrivesShifted ==
    ASSUME KindInv, NEW type, Arrives(type)
    PROVE  /\ Shifted /\ doc' = doc
           /\ 1 \in DOMAIN events /\ events[1] = Head(events) /\ events[1].type = type /\ events[1] \in Events
<1>1. events \in Seq(Events) /\ events # <<>> /\ events' = Tail(events) /\ doc' = doc
  BY DEF KindInv, Arrives
<1>2. /\ Len(events) \in Nat \ {0} /\ DOMAIN events = 1 .. Len(events) /\ DOMAIN events' = 1 .. Len(events) - 1
      /\ \A k \in DOMAIN events' : k + 1 \in DOMAIN events /\ events'[k] = events[k + 1]
  BY <1>1, QueueShrinks, SeqIs
<1>. QED
  BY <1>1, <1>2, QueueWas DEF Shifted

(* A change and the end of a regen are of their kind.                      *)
LEMMA EventIs ==
    ASSUME NEW e \in Events
    PROVE  /\ e.type = "change" => e \in Changes /\ e.rev \in Nat
           /\ e.type = "finished" => e \in Finishes /\ e.rev \in Nat
           /\ Covers(e) => e.inst \in Nat /\ e.rev \in Nat
           /\ Publishes(e) => Covers(e)
  BY DEF Events, ProjectionEvents, Starts, Changes, Finishes, Covers, Publishes

(* A commit that was just answered holds no change.                        *)
LEMMA AnsweredHoldsNothing ==
    ASSUME ChangeInv, NEW i \in DOMAIN cmds, cmds[i].phase \in {"sent", "answered"}
    PROVE  cmds[i].buffered = 0
  BY DEF ChangeInv, Holds

(* A command of its own stays as it is.                                    *)
LEMMA StaysTrue ==
    ASSUME VerdictIsTrue, NEW i \in DOMAIN cmds, cmds'[i] = cmds[i]
    PROVE  Follows(cmds[i], cmds'[i]) /\ TrueVerdict(cmds'[i])
  BY DEF VerdictIsTrue, TrueVerdict, Follows

(* A command that waits can be covered.                                    *)
LEMMA WaitsPending ==
    ASSUME KindInv, NEW i \in DOMAIN cmds, cmds[i].phase = "waiting"
    PROVE  Pending(cmds[i]) /\ cmds[i].waits /\ CmdKind(cmds[i], doc.inst) /\ cmds[i].answer.view.rev \in Nat
<1>1. CmdKind(cmds[i], doc.inst)
  BY DEF KindInv
<1>2. ~Opens(cmds[i]) /\ cmds[i].answer.ok /\ cmds[i].waits
  BY <1>1, WaitsKind
<1>. QED
  BY <1>1, <1>2, AnswerIs DEF Pending

(* What a change does.                                                     *)
LEMMA ChangeListens ==
    ASSUME KindInv, OrderInv, AnswerInv, ReportInv, VerdictIsTrue, OpensStay, HearChange
    PROVE  /\ Listens /\ last' = events[1].rev
           /\ \A i \in DOMAIN cmds :
                IF Covered(cmds[i], events[1].rev)
                THEN cmds'[i].phase # "done" =>
                       /\ cmds'[i].phase = "waiting" /\ SettlesOnFinish(cmds'[i]) /\ cmds'[i].buffered = events[1].rev
                       /\ cmds'[i].answer.view.rev <= events[1].rev
                ELSE cmds'[i] = cmds[i]
<1>. DEFINE e == events[1]  new(i) == IF Covered(cmds[i], e.rev) THEN OnChange(cmds[i], e) ELSE cmds[i]
<1>1. Arrives("change")
  BY DEF HearChange
<1>2. doc' = doc /\ 1 \in DOMAIN events /\ e = Head(events) /\ e.type = "change" /\ e \in Events
  BY <1>1, ArrivesShifted
<1>3. last' = e.rev /\ cmds' = [i \in DOMAIN cmds |-> new(i)]
  BY <1>2 DEF HearChange, Settle
<1>4. e \in Changes /\ e.rev \in Nat /\ Covers(e)
  BY <1>2, EventIs DEF Covers
<1>. HIDE DEF e
<1>5. ASSUME NEW i \in DOMAIN cmds, Covered(cmds[i], e.rev)
      PROVE  /\ Follows(cmds[i], cmds'[i]) /\ TrueVerdict(cmds'[i])
             /\ cmds'[i].phase # "done" =>
                  /\ cmds'[i].phase = "waiting" /\ SettlesOnFinish(cmds'[i]) /\ cmds'[i].buffered = e.rev
                  /\ cmds'[i].answer.view.rev <= e.rev
  <2>1. cmds[i].phase = "waiting" /\ e.rev >= cmds[i].answer.view.rev
    BY <1>5 DEF Covered
  <2>2. Pending(cmds[i]) /\ CmdKind(cmds[i], doc.inst) /\ cmds[i].answer.view.rev \in Nat
    BY <2>1, WaitsPending
  <2>3. e.inst = cmds[i].answer.inst
    <3>1. events[1] \in Events /\ 1 \in DOMAIN events /\ Covers(events[1])
          /\ cmds[i].answer.view.rev <= events[1].rev
      BY <1>2, <1>4, <2>1, <2>2 DEF e
    <3>2. events[1].inst = cmds[i].answer.inst
      BY <2>2, <3>1, CoversItsOwn
    <3>. QED
      BY <3>2 DEF e
  <2>4. cmds'[i] = OnChange(cmds[i], e)
    BY <1>3, <1>5
  <2>5. /\ Follows(cmds[i], cmds'[i]) /\ TrueVerdict(cmds'[i])
        /\ cmds'[i].phase # "done" =>
             cmds'[i].phase = "waiting" /\ SettlesOnFinish(cmds[i]) /\ cmds'[i].buffered = e.rev
    BY <1>4, <2>1, <2>2, <2>3, <2>4, ChangeTrue
  <2>. QED
    BY <1>4, <2>1, <2>2, <2>5, PendingStays DEF Follows
<1>6. ASSUME NEW i \in DOMAIN cmds, ~Covered(cmds[i], e.rev)
      PROVE  cmds'[i] = cmds[i] /\ Follows(cmds[i], cmds'[i]) /\ TrueVerdict(cmds'[i])
  BY <1>3, <1>6, StaysTrue
<1>7. DOMAIN cmds' = DOMAIN cmds
  BY <1>3
<1>. QED
  BY <1>2, <1>3, <1>5, <1>6, <1>7 DEF Listens, e

(* What the end of a regen does.                                           *)
LEMMA FinishListens ==
    ASSUME KindInv, VerdictInv, OpensStay, HearFinished
    PROVE  /\ Listens /\ last' = last
           /\ \A i \in DOMAIN cmds : cmds'[i].phase # "done" => cmds'[i] = cmds[i]
<1>. DEFINE e == events[1]
            S == {i \in DOMAIN cmds : e.outcome \notin {"superseded", "cancelled"} /\ Covered(cmds[i], e.source)}
            new(i) == IF i \in S THEN OnFinish(cmds[i], e) ELSE cmds[i]
<1>1. Arrives("finished")
  BY DEF HearFinished
<1>2. doc' = doc /\ 1 \in DOMAIN events /\ e = Head(events) /\ e.type = "finished" /\ e \in Events
  BY <1>1, ArrivesShifted
<1>3. last' = last /\ cmds' = [i \in DOMAIN cmds |-> new(i)]
  BY <1>2 DEF HearFinished, Settle
<1>4. e \in Finishes /\ e.rev \in Nat
  BY <1>2, EventIs
<1>5. OrderInv /\ AnswerInv /\ ReportInv /\ ChangeInv /\ PublishedInv /\ RecordInv /\ VerdictIsTrue
  BY DEF VerdictInv
<1>6. DOMAIN cmds' = DOMAIN cmds
  BY <1>3
<1>7. ASSUME NEW i \in DOMAIN cmds, i \notin S
      PROVE  cmds'[i] = cmds[i] /\ Follows(cmds[i], cmds'[i]) /\ TrueVerdict(cmds'[i])
  BY <1>3, <1>5, <1>7, StaysTrue
<1>8. ASSUME NEW i \in DOMAIN cmds, i \in S
      PROVE  /\ Follows(cmds[i], cmds'[i]) /\ TrueVerdict(cmds'[i])
             /\ cmds'[i].phase # "done" => cmds'[i] = cmds[i]
  <2>. DEFINE c == cmds[i]
  <2>1. e.outcome \notin {"superseded", "cancelled"} /\ c.phase = "waiting" /\ e.source >= c.answer.view.rev
        /\ cmds'[i] = OnFinish(c, e)
    BY <1>3, <1>8 DEF Covered
  <2>. HIDE DEF S, new
  <2>2. Covers(e) /\ e.rev = e.source
    BY <1>2, <1>5, <2>1 DEF Covers, ReportInv
  <2>3. Pending(c) /\ CmdKind(c, doc.inst) /\ c.answer.view.rev \in Nat
    BY <2>1, WaitsPending
  <2>4. e.inst = c.answer.inst /\ e.inst = Known
    <3>1. c.answer.view.rev <= e.rev
      BY <1>4, <2>1, <2>2, <2>3
    <3>. QED
      BY <1>2, <1>5, <2>2, <2>3, <3>1, CoversItsOwn
  <2>5. ASSUME e.outcome = "published", SettlesOnFinish(c) PROVE Change(c) = e.rev
    <3>1. e.rev >= 2
      BY <1>4, <1>5, <2>1, <2>2, <2>3, <2>5 DEF AnswerInv
    <3>2. last = e.rev
      <4>1. DOMAIN events \subseteq Nat \ {0}
        BY <1>1, QueueWas
      <4>2. AfterChange(1)
        BY <1>2, <1>5, <2>5, <3>1 DEF PublishedInv, Publishes
      <4>. QED
        BY <4>1, <4>2 DEF AfterChange
    <3>3. c.buffered # 0 => c.buffered = last
      <4>1. ~AllHeard
        BY <1>2, <2>2, <2>4 DEF AllHeard
      <4>. QED
        BY <1>5, <2>1, <4>1 DEF ChangeInv, Holds
    <3>. QED
      BY <3>2, <3>3 DEF Change
  <2>6. ASSUME e.outcome = "published", OfRecord(c) PROVE c.rec \in Tried(e)
    <3>1. Commits(c) /\ Publishes(e)
      BY <1>2, <1>5, <2>1, <2>3, <2>6 DEF RecordInv, Commits, Publishes
    <3>. QED
      BY <1>2, <1>5, <2>1, <2>4, <3>1 DEF RecordInv
  <2>. HIDE DEF c, e
  <2>7. /\ Follows(c, cmds'[i]) /\ TrueVerdict(cmds'[i])
        /\ cmds'[i].phase # "done" => cmds'[i] = c
    <3>1. /\ CmdKind(c, doc.inst) /\ c.phase = "waiting" /\ e \in Finishes /\ e.inst = c.answer.inst
          /\ e.source >= c.answer.view.rev /\ e.rev = e.source
          /\ e.outcome = "published" /\ SettlesOnFinish(c) => Change(c) = e.rev
          /\ e.outcome = "published" /\ OfRecord(c) => c.rec \in Tried(e)
          /\ cmds'[i] = OnFinish(c, e)
      BY <1>4, <2>1, <2>2, <2>3, <2>4, <2>5, <2>6
    <3>. QED
      BY ONLY <3>1, FinishTrue
  <2>. QED
    BY <2>7 DEF c
<1>. QED
  BY <1>2, <1>3, <1>6, <1>7, <1>8 DEF Listens

(* What one answer does.                                                   *)
LEMMA AnswerListens ==
    ASSUME KindInv, ChangeInv, VerdictIsTrue, OpensStay, HearAnswer
    PROVE  /\ Listens /\ last' = last /\ events' = events
           /\ \A i \in DOMAIN cmds : cmds'[i].phase # "done" =>
                \/ cmds'[i] = cmds[i]
                \/ /\ cmds'[i].phase = "waiting"
                   /\ cmds'[i].buffered # 0 => /\ SettlesOnFinish(cmds'[i]) /\ cmds'[i].buffered = last
                                               /\ cmds'[i].answer.view.rev <= last
<1>. DEFINE i == Next1("answered")
<1>1. Phase("answered") # {} /\ UNCHANGED <<doc, events, client>> /\ cmds' = [cmds EXCEPT ![i] = Heard(@)]
  BY DEF HearAnswer, Settle
<1>2. i \in DOMAIN cmds /\ cmds[i].phase = "answered"
  BY <1>1, NextIs
<1>. HIDE DEF i
<1>3. CmdKind(cmds[i], doc.inst)
  BY <1>2 DEF KindInv
<1>4. DOMAIN cmds' = DOMAIN cmds /\ cmds'[i] = Heard(cmds[i]) /\ \A j \in DOMAIN cmds : j # i => cmds'[j] = cmds[j]
  BY <1>1, <1>2
<1>5. cmds[i].buffered = 0
  BY <1>2, AnsweredHoldsNothing
<1>6. /\ Follows(cmds[i], cmds'[i]) /\ TrueVerdict(cmds'[i])
      /\ cmds'[i].phase # "done" =>
           /\ cmds'[i].phase = "waiting"
           /\ cmds'[i].buffered # 0 => SettlesOnFinish(cmds[i]) /\ cmds'[i].buffered = last
                                       /\ cmds[i].answer.view.rev <= last
  BY <1>2, <1>3, <1>4, <1>5, HeardTrue
<1>7. cmds'[i].answer = cmds[i].answer /\ (SettlesOnFinish(cmds'[i]) <=> SettlesOnFinish(cmds[i]))
  BY <1>6, PendingStays DEF Follows
<1>8. \A j \in DOMAIN cmds : Follows(cmds[j], cmds'[j]) /\ TrueVerdict(cmds'[j])
  BY <1>4, <1>6, StaysTrue
<1>9. \A j \in DOMAIN cmds : cmds'[j].phase # "done" =>
        \/ cmds'[j] = cmds[j]
        \/ /\ cmds'[j].phase = "waiting"
           /\ cmds'[j].buffered # 0 => /\ SettlesOnFinish(cmds'[j]) /\ cmds'[j].buffered = last
                                       /\ cmds'[j].answer.view.rev <= last
  BY <1>4, <1>6, <1>7
<1>. QED
  BY <1>1, <1>4, <1>8, <1>9 DEF Listens, client

(* What a timeout does.                                                    *)
LEMMA TimeoutListens ==
    ASSUME KindInv, VerdictIsTrue, OpensStay, Timeout
    PROVE  /\ Listens /\ last' = last /\ events' = events
           /\ \A i \in DOMAIN cmds : cmds'[i].phase # "done" => cmds'[i] = cmds[i]
<1>1. PICK i \in Phase("waiting") : cmds' = [cmds EXCEPT ![i] = TimedOut(@)]
  BY DEF Timeout, Settle
<1>2. i \in DOMAIN cmds /\ cmds[i] \in Cmds /\ UNCHANGED <<doc, events, client>>
  BY <1>1, SeqIs DEF Timeout, Phase, KindInv
<1>3. DOMAIN cmds' = DOMAIN cmds /\ cmds'[i] = TimedOut(cmds[i]) /\ \A j \in DOMAIN cmds : j # i => cmds'[j] = cmds[j]
  BY <1>1, <1>2
<1>4. cmds'[i].phase = "done" /\ Follows(cmds[i], cmds'[i]) /\ TrueVerdict(cmds'[i])
  BY <1>2, <1>3, TimedOutTrue
<1>. QED
  BY <1>2, <1>3, <1>4, StaysTrue DEF Listens, client

(* Some commands are as they were, or wait with what was heard last.       *)
Waits ==
    \A i \in DOMAIN cmds : cmds'[i].phase # "done" =>
      \/ cmds'[i] = cmds[i]
      \/ /\ cmds'[i].phase = "waiting"
         /\ cmds'[i].buffered # 0 => SettlesOnFinish(cmds'[i]) /\ cmds'[i].buffered = last
                                     /\ cmds'[i].answer.view.rev <= last

(* Where no change is heard, what was said of the changes still is so.     *)
LEMMA NoChangeHeard ==
    ASSUME KindInv, VerdictInv, Listens, last' = last, Waits,
           events' = events \/ (Shifted /\ events[1].type # "change")
    PROVE  ChangeInv' /\ PublishedInv'
<1>0. ChangeInv /\ PublishedInv
  BY DEF VerdictInv
<1>1. Known' = Known /\ doc' = doc /\ DOMAIN cmds' = DOMAIN cmds
  BY KnownStays DEF Listens
<1>2. ASSUME NEW k \in DOMAIN events'
      PROVE  \E m \in DOMAIN events : events'[k] = events[m] /\ (IsChange(k)' <=> IsChange(m))
  BY <1>2 DEF Shifted, IsChange
<1>3. ASSUME NEW k \in DOMAIN events', NEW m \in DOMAIN events', k < m, IsChange(k)', IsChange(m)',
             events'[k].inst = events'[m].inst
      PROVE  events'[k].rev <= events'[m].rev
  <2>1. CASE events' = events
    BY <1>0, <1>3, <2>1 DEF ChangeInv, IsChange
  <2>2. CASE Shifted
    <3>1. /\ k + 1 \in DOMAIN events /\ events'[k] = events[k + 1]
          /\ m + 1 \in DOMAIN events /\ events'[m] = events[m + 1]
          /\ k + 1 < m + 1
      BY <1>3, <2>2 DEF Shifted
    <3>2. IsChange(k + 1) /\ IsChange(m + 1)
      BY <1>3, <3>1 DEF IsChange
    <3>. QED
      BY <1>0, <1>3, <3>1, <3>2 DEF ChangeInv
  <2>. QED
    BY <2>1, <2>2
<1>4. AllHeard => AllHeard'
  BY <1>1, <1>2 DEF AllHeard
<1>5. ASSUME NEW i \in DOMAIN cmds, cmds'[i].buffered # 0, cmds'[i].phase # "done"
      PROVE  /\ cmds'[i].phase = "waiting" /\ SettlesOnFinish(cmds'[i])
             /\ \/ Known # doc.inst /\ AllHeard'
                \/ cmds'[i].buffered = last /\ cmds'[i].answer.view.rev <= last
  <2>1. CASE cmds'[i] = cmds[i]
    BY <1>0, <1>1, <1>4, <1>5, <2>1 DEF ChangeInv, Holds
  <2>2. CASE cmds'[i] # cmds[i]
    BY <1>5, <2>2 DEF Waits, Holds
  <2>. QED
    BY <2>1, <2>2
<1>6. ChangeInv'
  <2>1. Known = doc.inst => last <= doc.rev
    BY <1>0 DEF ChangeInv
  <2>2. \A k \in DOMAIN events' : IsChange(k)' /\ events'[k].inst = Known => last <= events'[k].rev
    BY <1>0, <1>2 DEF ChangeInv
  <2>. QED
    BY <1>1, <1>3, <1>5, <2>1, <2>2 DEF ChangeInv, Holds
<1>7. PublishedInv'
  <2>. SUFFICES ASSUME NEW k \in DOMAIN events', Publishes(events'[k]), events'[k].rev >= 2 PROVE AfterChange(k)'
    BY DEF PublishedInv
  <2>1. CASE events' = events
    BY <1>0, <2>1 DEF PublishedInv, AfterChange, IsChange
  <2>2. CASE Shifted /\ events[1].type # "change"
    <3>1. PICK n \in Nat \ {0} :
            /\ DOMAIN events = 1 .. n /\ DOMAIN events' = 1 .. n - 1
            /\ \A m \in DOMAIN events' : m + 1 \in DOMAIN events /\ events'[m] = events[m + 1]
      BY <2>2 DEF Shifted
    <3>. DEFINE m == k + 1
    <3>2. m = k + 1 /\ AfterChange(m) /\ events'[k] = events[m] /\ m \in 2 .. n /\ k \in 1 .. n - 1
      BY <1>0, <3>1 DEF PublishedInv
    <3>. HIDE DEF m
    <3>3. CASE /\ m - 2 \in DOMAIN events /\ m - 1 \in DOMAIN events
               /\ events[m - 1].type = "projection" /\ IsChange(m - 2)
               /\ events[m - 2].inst = events[m].inst /\ events[m - 2].rev = events[m].rev
      <4>1. m - 2 # 1
        BY <2>2, <3>3 DEF IsChange
      <4>2. k - 2 \in DOMAIN events' /\ k - 1 \in DOMAIN events' /\ k - 2 + 1 = m - 2 /\ k - 1 + 1 = m - 1
        BY <3>1, <3>2, <3>3, <4>1
      <4>3. events'[k - 2] = events[m - 2] /\ events'[k - 1] = events[m - 1]
        BY <3>1, <4>2
      <4>. QED
        BY <3>2, <3>3, <4>2, <4>3 DEF AfterChange, IsChange
    <3>4. CASE (m = 1 \/ (m = 2 /\ events[1].type = "projection")) /\ last = events[m].rev
      <4>1. k = 1
        BY <3>2, <3>4
      <4>. QED
        BY <3>2, <3>4, <4>1 DEF AfterChange
    <3>. QED
      BY <3>2, <3>3, <3>4 DEF AfterChange
  <2>. QED
    BY <2>1, <2>2
<1>. QED
  BY <1>6, <1>7

(* A change is heard: the newest of those that were published by then.     *)
LEMMA ChangeByChange ==
    ASSUME KindInv, VerdictInv, OpensStay, HearChange
    PROVE  ChangeInv'
<1>. DEFINE e == events[1]
<1>0. OrderInv /\ AnswerInv /\ ReportInv /\ ChangeInv /\ VerdictIsTrue
  BY DEF VerdictInv
<1>1. Arrives("change")
  BY DEF HearChange
<1>2. Shifted /\ doc' = doc /\ 1 \in DOMAIN events /\ e.type = "change" /\ e \in Events
  BY <1>1, ArrivesShifted
<1>3. /\ Listens /\ last' = e.rev
      /\ \A i \in DOMAIN cmds :
           IF Covered(cmds[i], e.rev)
           THEN cmds'[i].phase # "done" =>
                  /\ cmds'[i].phase = "waiting" /\ SettlesOnFinish(cmds'[i]) /\ cmds'[i].buffered = e.rev
                  /\ cmds'[i].answer.view.rev <= e.rev
           ELSE cmds'[i] = cmds[i]
  BY <1>0, ChangeListens
<1>4. Known' = Known /\ DOMAIN cmds' = DOMAIN cmds
  BY <1>3, KnownStays DEF Listens
<1>5. IsChange(1) /\ Covers(e) /\ e.rev \in Nat
  BY <1>2, EventIs DEF IsChange, Covers
<1>6. ASSUME NEW k \in DOMAIN events'
      PROVE  /\ k + 1 \in DOMAIN events /\ events'[k] = events[k + 1] /\ (IsChange(k)' <=> IsChange(k + 1))
             /\ k \in Nat /\ 1 < k + 1
  BY <1>2 DEF Shifted, IsChange
<1>7. e.inst \in {Known, doc.inst} /\ (e.inst = doc.inst => e.rev <= doc.rev)
  BY <1>0, <1>2, <1>5 DEF ReportInv
<1>8. Known' = doc'.inst => last' <= doc'.rev
  BY <1>2, <1>3, <1>4, <1>7
<1>9. ASSUME e.inst # Known PROVE Known # doc.inst /\ AllHeard'
  <2>1. e.inst = doc.inst /\ Known # doc.inst
    BY <1>7, <1>9
  <2>2. Known = doc.inst - 1 /\ doc.inst \in Nat
    BY <2>1, KnownIs
  <2>3. ASSUME NEW k \in DOMAIN events', Covers(events'[k]) PROVE events'[k].inst # Known
    <3>1. e.inst <= events[k + 1].inst
      BY <1>0, <1>2, <1>5, <1>6, <2>3 DEF ReportInv
    <3>. QED
      BY <1>6, <2>1, <2>2, <3>1
  <2>. QED
    BY <1>4, <2>1, <2>3 DEF AllHeard
<1>10. ASSUME NEW k \in DOMAIN events', IsChange(k)', events'[k].inst = Known PROVE e.rev <= events'[k].rev
  <2>1. Covers(events'[k])
    BY <1>10 DEF IsChange, Covers
  <2>2. e.inst = Known
    BY <1>4, <1>9, <1>10, <2>1 DEF AllHeard
  <2>. QED
    BY <1>0, <1>2, <1>5, <1>6, <1>10, <2>2 DEF ChangeInv
<1>11. ASSUME NEW k \in DOMAIN events', NEW m \in DOMAIN events', k < m, IsChange(k)', IsChange(m)',
              events'[k].inst = events'[m].inst
       PROVE  events'[k].rev <= events'[m].rev
  <2>1. k + 1 < m + 1
    BY <1>6, <1>11
  <2>. QED
    BY <1>0, <1>6, <1>11, <2>1 DEF ChangeInv
<1>12. ASSUME NEW i \in DOMAIN cmds, cmds'[i].buffered # 0, cmds'[i].phase # "done"
       PROVE  /\ cmds'[i].phase = "waiting" /\ SettlesOnFinish(cmds'[i])
              /\ \/ Known # doc.inst /\ AllHeard'
                 \/ cmds'[i].buffered = e.rev /\ cmds'[i].answer.view.rev <= e.rev
  <2>1. CASE Covered(cmds[i], e.rev)
    BY <1>3, <1>12, <2>1
  <2>2. CASE ~Covered(cmds[i], e.rev) /\ e.inst = Known
    <3>1. cmds'[i] = cmds[i] /\ Holds(cmds[i])
      BY <1>0, <1>3, <1>12, <2>2 DEF ChangeInv
    <3>2. cmds[i].phase = "waiting" /\ cmds[i].answer.view.rev \in Nat /\ cmds[i].waits /\ last \in Nat
      BY <3>1, WaitsPending DEF Holds, KindInv
    <3>3. cmds[i].buffered = last /\ cmds[i].answer.view.rev <= last
      BY <1>2, <1>5, <2>2, <3>1 DEF Holds, AllHeard
    <3>4. last <= e.rev
      BY <1>0, <1>2, <1>5, <2>2 DEF ChangeInv
    <3>. QED
      BY <1>5, <2>2, <3>2, <3>3, <3>4 DEF Covered
  <2>3. CASE ~Covered(cmds[i], e.rev) /\ e.inst # Known
    <3>1. cmds'[i] = cmds[i] /\ Holds(cmds[i])
      BY <1>0, <1>3, <1>12, <2>3 DEF ChangeInv
    <3>. QED
      BY <1>9, <2>3, <3>1 DEF Holds
  <2>. QED
    BY <2>1, <2>2, <2>3
<1>. HIDE DEF e
<1>. QED
  BY <1>2, <1>3, <1>4, <1>8, <1>10, <1>11, <1>12 DEF ChangeInv, Holds

(* Its regen's end is now the one to come next.                            *)
LEMMA PublishedByChange ==
    ASSUME KindInv, PublishedInv, HearChange
    PROVE  PublishedInv'
<1>1. Arrives("change")
  BY DEF HearChange
<1>2. Shifted /\ events[1].type = "change" /\ last' = events[1].rev
  BY <1>1, ArrivesShifted DEF HearChange
<1>. SUFFICES ASSUME NEW k \in DOMAIN events', Publishes(events'[k]), events'[k].rev >= 2 PROVE AfterChange(k)'
  BY DEF PublishedInv
<1>3. PICK n \in Nat \ {0} :
        /\ DOMAIN events = 1 .. n /\ DOMAIN events' = 1 .. n - 1
        /\ \A m \in DOMAIN events' : m + 1 \in DOMAIN events /\ events'[m] = events[m + 1]
  BY <1>2 DEF Shifted
<1>. DEFINE m == k + 1
<1>4. m = k + 1 /\ AfterChange(m) /\ events'[k] = events[m] /\ m \in 2 .. n /\ k \in 1 .. n - 1
  BY <1>3 DEF PublishedInv
<1>. HIDE DEF m
<1>5. CASE /\ m - 2 \in DOMAIN events /\ m - 1 \in DOMAIN events
           /\ events[m - 1].type = "projection" /\ IsChange(m - 2)
           /\ events[m - 2].inst = events[m].inst /\ events[m - 2].rev = events[m].rev
  <2>1. CASE k = 2
    <3>1. m - 2 = 1 /\ 1 \in DOMAIN events' /\ 1 + 1 = m - 1
      BY <1>3, <1>4, <2>1
    <3>2. events'[1] = events[m - 1]
      BY <1>3, <3>1
    <3>. QED
      BY <1>2, <1>4, <1>5, <2>1, <3>1, <3>2 DEF AfterChange
  <2>2. CASE k # 2
    <3>1. k - 2 \in DOMAIN events' /\ k - 1 \in DOMAIN events' /\ k - 2 + 1 = m - 2 /\ k - 1 + 1 = m - 1
      BY <1>3, <1>4, <1>5, <2>2
    <3>2. events'[k - 2] = events[m - 2] /\ events'[k - 1] = events[m - 1]
      BY <1>3, <3>1
    <3>. QED
      BY <1>4, <1>5, <3>1, <3>2 DEF AfterChange, IsChange
  <2>. QED
    BY <2>1, <2>2
<1>6. CASE (m = 1 \/ (m = 2 /\ events[1].type = "projection")) /\ last = events[m].rev
  BY <1>2, <1>4, <1>6
<1>. QED
  BY <1>4, <1>5, <1>6 DEF AfterChange

(* Whatever the frontend hears, but of another document, keeps it all.     *)
LEMMA VerdictByHearing ==
    ASSUME KindInv, VerdictInv, OpensStay,
           HearProjection \/ HearStarted \/ HearChange \/ HearFinished \/ HearAnswer \/ Timeout
    PROVE  VerdictInv'
<1>0. OrderInv /\ AnswerInv /\ ReportInv /\ ChangeInv /\ PublishedInv /\ RecordInv /\ VerdictIsTrue
  BY DEF VerdictInv
<1>1. ASSUME Listens, events' = events \/ Shifted, ChangeInv', PublishedInv'
      PROVE  VerdictInv'
  BY <1>0, <1>1, ListensKeeps DEF VerdictInv
<1>2. ASSUME Listens, last' = last, Waits, events' = events \/ (Shifted /\ events[1].type # "change")
      PROVE  VerdictInv'
  <2>1. ChangeInv' /\ PublishedInv'
    BY <1>2, NoChangeHeard
  <2>. QED
    BY <1>1, <1>2, <2>1
<1>3. CASE HearProjection \/ HearStarted
  <2>1. Arrives("projection") \/ Arrives("started")
    BY <1>3 DEF HearProjection, HearStarted
  <2>2. Shifted /\ doc' = doc /\ events[1].type # "change"
    <3>1. CASE Arrives("projection")
      BY <3>1, ArrivesShifted
    <3>2. CASE Arrives("started")
      BY <3>2, ArrivesShifted
    <3>. QED
      BY <2>1, <3>1, <3>2
  <2>3. cmds' = cmds /\ last' = last
    BY <1>3 DEF HearProjection, HearStarted, client
  <2>4. Listens /\ Waits
    BY <1>0, <2>2, <2>3, StaysTrue DEF Listens, Waits
  <2>. QED
    BY <1>2, <2>2, <2>3, <2>4
<1>4. CASE HearChange
  <2>1. Listens /\ Arrives("change")
    BY <1>0, <1>4, ChangeListens DEF HearChange
  <2>2. Shifted
    BY <2>1, ArrivesShifted
  <2>. QED
    BY <1>0, <1>1, <1>4, <2>1, <2>2, ChangeByChange, PublishedByChange
<1>5. CASE HearFinished
  <2>1. Listens /\ last' = last /\ Waits /\ Arrives("finished")
    BY <1>5, FinishListens DEF HearFinished, Waits
  <2>2. Shifted /\ events[1].type # "change"
    BY <2>1, ArrivesShifted
  <2>. QED
    BY <1>2, <2>1, <2>2
<1>6. CASE HearAnswer
  <2>1. Listens /\ last' = last /\ events' = events /\ Waits
    BY <1>0, <1>6, AnswerListens DEF Waits
  <2>. QED
    BY <1>2, <2>1
<1>7. CASE Timeout
  <2>1. Listens /\ last' = last /\ events' = events /\ Waits
    BY <1>0, <1>7, TimeoutListens DEF Waits
  <2>. QED
    BY <1>2, <2>1
<1>. QED
  BY <1>3, <1>4, <1>5, <1>6, <1>7

-----------------------------------------------------------------------------
(* The frontend hears of another document.                                 *)

(* Everything is settled then, what waited by a timeout.                   *)
LEMMA OpenedSettles ==
    ASSUME KindInv, OpenInv, OrderInv, VerdictIsTrue, HearOpened
    PROVE  /\ DOMAIN cmds' = DOMAIN cmds /\ cmds[Next1("answered")].answer.inst = doc.inst
           /\ Next1("answered") \in OpenUnanswered
           /\ \A j \in DOMAIN cmds : cmds'[j].phase = "done" /\ TrueVerdict(cmds'[j])
<1>. DEFINE i == Next1("answered")
            then == [j \in DOMAIN cmds |-> IF j = i THEN Done(cmds[i], NoVerdict) ELSE ResetAwaiter(cmds[j])]
<1>1. Phase("answered") # {} /\ Opens(cmds[i]) /\ cmds' = then
  BY DEF HearOpened, Settle
<1>2. i \in DOMAIN cmds /\ cmds[i].phase = "answered" /\ \A j \in DOMAIN cmds : cmds[j].phase = "answered" => i <= j
  BY <1>1, NextIs
<1>. HIDE DEF i
<1>3. i \in OpenUnanswered
  BY <1>1, <1>2, UnheardIs
<1>4. cmds[i].answer.inst = doc.inst
  BY <1>3, OneOpening
<1>5. cmds[i] \in Cmds /\ \A j \in DOMAIN cmds : cmds[j] \in Cmds
  BY <1>2, SeqIs DEF KindInv
<1>6. cmds'[i].phase = "done" /\ TrueVerdict(cmds'[i])
  <2>1. cmds'[i] = Done(cmds[i], NoVerdict) /\ NoVerdict.by = NoReport
    BY <1>1, <1>2 DEF NoVerdict
  <2>. QED
    BY <1>5, <2>1, DoneByNothing
<1>7. ASSUME NEW j \in DOMAIN cmds, j # i
      PROVE  cmds'[j].phase = "done" /\ TrueVerdict(cmds'[j])
  <2>1. cmds'[j] = ResetAwaiter(cmds[j])
    BY <1>1, <1>7
  <2>2. CASE cmds[j].phase = "waiting"
    <3>1. cmds'[j] = TimedOut(cmds[j])
      BY <2>1, <2>2 DEF ResetAwaiter
    <3>. QED
      BY <1>5, <3>1, TimedOutTrue
  <2>3. CASE cmds[j].phase # "waiting"
    <3>1. cmds[j].phase = "done"
      <4>. SUFFICES ASSUME cmds[j].phase # "done" PROVE FALSE
        OBVIOUS
      <4>1. j < i /\ i \in Nat /\ j \in Nat
        <5>1. j < i
          BY <1>1, <1>2, <1>7 DEF OrderInv
        <5>. QED
          BY <1>2, <5>1, SeqIs DEF KindInv
      <4>2. cmds[j].phase # "sent"
        BY <1>2, <4>1 DEF OpenInv
      <4>3. cmds[j].phase # "answered"
        BY <1>2, <4>1
      <4>4. cmds[j].phase \in {"sent", "answered", "waiting", "done"}
        BY <1>5 DEF Cmds
      <4>. QED
        BY <2>3, <4>2, <4>3, <4>4
    <3>2. cmds'[j] = [cmds[j] EXCEPT !.waits = FALSE]
      BY <2>1, <2>3 DEF ResetAwaiter
    <3>3. cmds'[j] = [kind |-> cmds[j].kind, rec |-> cmds[j].rec, phase |-> "done", waits |-> FALSE,
                      buffered |-> cmds[j].buffered, answer |-> cmds[j].answer, verdict |-> cmds[j].verdict]
      BY <1>5, <3>1, <3>2 DEF Cmds
    <3>4. TrueVerdict(cmds[j])
      BY VerdictsAre
    <3>. QED
      BY <3>1, <3>3, <3>4 DEF TrueVerdict, SettlesOnFinish, OfRecord
  <2>. QED
    BY <2>2, <2>3
<1>8. DOMAIN cmds' = DOMAIN cmds
  BY <1>1
<1>. QED
  BY <1>3, <1>4, <1>6, <1>7, <1>8 DEF i

(* What is still on its way is of that document, and of its first state.   *)
LEMMA VerdictByOpened ==
    ASSUME "late_event" \notin Rare, KindInv, OpenInv, VerdictInv, HearOpened
    PROVE  VerdictInv'
<1>0. OrderInv /\ AnswerInv /\ ReportInv /\ ChangeInv /\ PublishedInv /\ RecordInv /\ VerdictIsTrue
  BY DEF VerdictInv
<1>1. /\ DOMAIN cmds' = DOMAIN cmds /\ cmds[Next1("answered")].answer.inst = doc.inst /\ OpenUnanswered # {}
      /\ \A j \in DOMAIN cmds : cmds'[j].phase = "done" /\ TrueVerdict(cmds'[j])
  BY <1>0, OpenedSettles
<1>2. UNCHANGED <<doc, sched, events>> /\ last' = 0
  BY DEF HearOpened
<1>3. \A k \in DOMAIN events : events[k].inst < doc.inst => events[k].type = "projection"
  BY <1>1 DEF HearOpened
<1>4. OpenUnanswered' = {}
  BY <1>1 DEF OpenUnanswered, Phase
<1>5. Known' = doc.inst /\ doc'.inst = doc.inst
  BY <1>2, <1>4 DEF Known
<1>6. doc.inst \in Nat /\ doc.rev = 1 /\ Known = doc.inst - 1
  BY <1>0, <1>1, KnownIs DEF AnswerInv
<1>7. ASSUME NEW k \in DOMAIN events, Covers(events[k])
      PROVE  events[k].inst = doc.inst /\ events[k].rev \in Nat /\ events[k].rev <= 1
  <2>1. events[k] \in Events /\ events[k].type # "projection"
    BY <1>7, SeqIs DEF KindInv, Covers
  <2>2. ~(events[k].inst < doc.inst)
    BY <1>3, <2>1
  <2>3. events[k].inst = doc.inst
    BY <1>0, <1>6, <1>7, <2>2 DEF ReportInv
  <2>. QED
    BY <1>0, <1>6, <1>7, <2>1, <2>3, EventIs DEF ReportInv
<1>8. OrderInv'
  BY <1>1 DEF OrderInv
<1>9. AnswerInv'
  BY <1>0, <1>1, <1>2, <1>4 DEF AnswerInv, Pending
<1>10. ReportInv'
  BY <1>0, <1>2, <1>5, <1>7 DEF ReportInv
<1>11. ChangeInv'
  <2>1. \A k \in DOMAIN events : IsChange(k) => events[k].rev \in Nat
    BY <1>7 DEF IsChange, Covers
  <2>2. \A k : IsChange(k)' <=> IsChange(k)
    BY <1>2 DEF IsChange
  <2>3. 0 <= doc.rev
    BY <1>6
  <2>. QED
    BY <1>0, <1>1, <1>2, <1>5, <2>1, <2>2, <2>3 DEF ChangeInv
<1>12. PublishedInv'
  <2>1. \A k \in DOMAIN events : Publishes(events[k]) => ~(events[k].rev >= 2)
    <3>1. \A k \in DOMAIN events : Publishes(events[k]) => Covers(events[k])
      BY DEF Publishes, Covers
    <3>. QED
      BY <1>7, <3>1
  <2>. QED
    BY <1>2, <2>1 DEF PublishedInv
<1>13. RecordInv'
  BY <1>0, <1>1, <1>2 DEF RecordInv, Commits, Pending, Distinct
<1>14. VerdictIsTrue'
  <2>1. \A i \in DOMAIN cmds' : TrueVerdict(cmds'[i])
    BY <1>1
  <2>. QED
    BY <2>1 DEF VerdictIsTrue, TrueVerdict
<1>. QED
  BY <1>8, <1>9, <1>10, <1>11, <1>12, <1>13, <1>14 DEF VerdictInv

-----------------------------------------------------------------------------
(* What the regens report.                                                 *)

(* A report that joins the queue is of the open document as it is now; one *)
(* that published comes after its change and projection, and tried every   *)
(* record that is applied.                                                 *)
Reports(new) ==
    \A m \in DOMAIN new :
      /\ Covers(new[m]) => /\ new[m].inst = doc.inst /\ new[m].rev = doc.rev
                           /\ new[m].type = "finished" => new[m].source = doc.rev
      /\ new[m].type = "change" => m = 1
      /\ Publishes(new[m]) =>
           /\ m = 3 /\ new[1].type = "change" /\ new[1].inst = doc.inst /\ new[1].rev = doc.rev
           /\ new[2].type = "projection" /\ Applied(doc) \subseteq Tried(new[m])

(* A step that leaves the timeline of the document and its revision.       *)
SameDoc == doc'.inst = doc.inst /\ doc'.rev = doc.rev /\ doc'.recs = doc.recs /\ doc'.cursor = doc.cursor
           /\ doc'.past = doc.past

(* Where the events of a longer queue come from.                           *)
LEMMA QueueParts ==
    ASSUME KindInv, NEW new \in Seq(Events), events' = events \o new
    PROVE  /\ DOMAIN events \subseteq DOMAIN events' /\ DOMAIN events \subseteq Nat \ {0}
           /\ DOMAIN new \subseteq Nat \ {0} /\ Len(events) \in Nat
           /\ \A k \in DOMAIN events : events'[k] = events[k] /\ k <= Len(events)
           /\ \A m \in DOMAIN new : Len(events) + m \in DOMAIN events' /\ events'[Len(events) + m] = new[m]
           /\ \A k \in DOMAIN events' :
                k \in DOMAIN events \/ \E m \in DOMAIN new : k = Len(events) + m /\ events'[k] = new[m]
<1>1. /\ DOMAIN events' = 1 .. Len(events) + Len(new)
      /\ \A k \in DOMAIN events : events'[k] = events[k]
      /\ \A m \in DOMAIN new : events'[Len(events) + m] = new[m]
  BY QueueGrows DEF KindInv
<1>2. DOMAIN events = 1 .. Len(events) /\ DOMAIN new = 1 .. Len(new) /\ Len(events) \in Nat /\ Len(new) \in Nat
  BY SeqIs DEF KindInv
<1>3. ASSUME NEW k \in DOMAIN events', k \notin DOMAIN events
      PROVE  k - Len(events) \in DOMAIN new /\ k = Len(events) + (k - Len(events))
  BY <1>1, <1>2, <1>3
<1>. QED
  BY <1>1, <1>2, <1>3

(* Reports that join the queue keep it all.                                *)
LEMMA VerdictByReports ==
    ASSUME KindInv, VerdictInv, OpensStay, SameDoc, cmds' = cmds, last' = last,
           NEW new \in Seq(Events), events' = events \o new, Reports(new)
    PROVE  VerdictInv'
<1>0. OrderInv /\ AnswerInv /\ ReportInv /\ ChangeInv /\ PublishedInv /\ RecordInv /\ VerdictIsTrue
  BY DEF VerdictInv
<1>1. Known' = Known /\ OpenUnanswered' = OpenUnanswered
  BY KnownStays DEF SameDoc
<1>2. /\ DOMAIN events \subseteq DOMAIN events' /\ DOMAIN events \subseteq Nat \ {0}
      /\ DOMAIN new \subseteq Nat \ {0} /\ Len(events) \in Nat
      /\ \A k \in DOMAIN events : events'[k] = events[k] /\ k <= Len(events)
      /\ \A m \in DOMAIN new : Len(events) + m \in DOMAIN events' /\ events'[Len(events) + m] = new[m]
      /\ \A k \in DOMAIN events' :
           k \in DOMAIN events \/ \E m \in DOMAIN new : k = Len(events) + m /\ events'[k] = new[m]
  BY QueueParts
<1>3. /\ doc.inst \in Nat /\ doc.rev \in Nat /\ last \in Nat
      /\ Known = doc.inst \/ Known = doc.inst - 1
  BY KnownIs DEF Known
<1>4. ASSUME NEW k \in DOMAIN events', Covers(events'[k])
      PROVE  \/ k \in DOMAIN events /\ events'[k] = events[k] /\ Covers(events[k])
             \/ /\ k \notin DOMAIN events /\ k > Len(events) /\ events'[k].inst = doc.inst /\ events'[k].rev = doc.rev
                /\ events'[k].type = "finished" => events'[k].source = doc.rev
                /\ events'[k].type = "change" => k = Len(events) + 1
  <2>1. CASE k \in DOMAIN events
    BY <1>2, <1>4, <2>1
  <2>2. CASE k \notin DOMAIN events
    <3>1. PICK m \in DOMAIN new : k = Len(events) + m /\ events'[k] = new[m]
      BY <1>2, <2>2
    <3>2. k > Len(events)
      BY <1>2, <3>1
    <3>. QED
      BY <1>4, <2>2, <3>1, <3>2 DEF Reports
  <2>. QED
    BY <2>1, <2>2
<1>5. OrderInv'
  BY <1>0 DEF OrderInv
<1>6. AnswerInv'
  BY <1>0, <1>1 DEF AnswerInv, SameDoc
<1>7. ReportInv'
  <2>1. ASSUME NEW k \in DOMAIN events', Covers(events'[k])
        PROVE  /\ events'[k].inst \in {Known, doc.inst}
               /\ events'[k].type = "finished" => events'[k].rev = events'[k].source
               /\ events'[k].inst = doc.inst => events'[k].rev <= doc.rev
    BY <1>0, <1>3, <1>4, <2>1 DEF ReportInv
  <2>2. ASSUME NEW k \in DOMAIN events', NEW m \in DOMAIN events', k < m, Covers(events'[k]), Covers(events'[m])
        PROVE  events'[k].inst <= events'[m].inst
    <3>1. CASE m \in DOMAIN events
      <4>1. k \in DOMAIN events
        BY <1>2, <1>4, <2>2, <3>1
      <4>. QED
        BY <1>0, <1>2, <2>2, <3>1, <4>1 DEF ReportInv
    <3>2. CASE m \notin DOMAIN events
      <4>1. events'[m].inst = doc.inst
        BY <1>4, <2>2, <3>2
      <4>2. events'[k].inst \in {Known, doc.inst}
        BY <2>1, <2>2
      <4>. QED
        BY <1>3, <4>1, <4>2
    <3>. QED
      BY <3>1, <3>2
  <2>. QED
    BY <1>1, <2>1, <2>2 DEF ReportInv, SameDoc
<1>8. ChangeInv'
  <2>1. ASSUME NEW k \in DOMAIN events'
        PROVE  /\ IsChange(k)' => Covers(events'[k]) /\ events'[k].type = "change"
               /\ k \in DOMAIN events => (IsChange(k)' <=> IsChange(k)) /\ events'[k] = events[k]
    BY <1>2 DEF IsChange, Covers
  <2>2. Known = doc.inst => last <= doc.rev
    BY <1>0 DEF ChangeInv
  <2>3. ASSUME NEW k \in DOMAIN events', IsChange(k)', events'[k].inst = Known PROVE last <= events'[k].rev
    <3>1. CASE k \in DOMAIN events
      BY <1>0, <2>1, <2>3, <3>1 DEF ChangeInv
    <3>2. CASE k \notin DOMAIN events
      BY <1>4, <2>1, <2>2, <2>3, <3>2
    <3>. QED
      BY <3>1, <3>2
  <2>4. ASSUME NEW k \in DOMAIN events', NEW m \in DOMAIN events', k < m, IsChange(k)', IsChange(m)',
               events'[k].inst = events'[m].inst
        PROVE  events'[k].rev <= events'[m].rev
    <3>1. CASE m \in DOMAIN events
      <4>1. k \in DOMAIN events
        BY <1>2, <1>4, <2>1, <2>4, <3>1
      <4>. QED
        BY <1>0, <2>1, <2>4, <3>1, <4>1 DEF ChangeInv
    <3>2. CASE m \notin DOMAIN events
      <4>1. events'[m].inst = doc.inst /\ events'[m].rev = doc.rev /\ m = Len(events) + 1
        BY <1>4, <2>1, <2>4, <3>2
      <4>2. k \in DOMAIN events
        <5>1. k \in DOMAIN events \/ k = Len(events) + 1
          BY <1>4, <2>1, <2>4
        <5>. QED
          BY <1>2, <2>4, <4>1, <5>1
      <4>3. Covers(events[k]) /\ events'[k] = events[k]
        BY <2>1, <2>4, <4>2
      <4>. QED
        BY <1>0, <2>4, <4>1, <4>2, <4>3 DEF ReportInv
    <3>. QED
      BY <3>1, <3>2
  <2>5. ASSUME NEW i \in DOMAIN cmds, cmds[i].buffered # 0, cmds[i].phase # "done"
        PROVE  /\ cmds[i].phase = "waiting" /\ SettlesOnFinish(cmds[i])
               /\ \/ Known # doc.inst /\ AllHeard'
                  \/ cmds[i].buffered = last /\ cmds[i].answer.view.rev <= last
    <3>1. Known # doc.inst /\ AllHeard => AllHeard'
      BY <1>1, <1>4 DEF AllHeard
    <3>. QED
      BY <1>0, <2>5, <3>1 DEF ChangeInv, Holds
  <2>. QED
    BY <1>1, <2>2, <2>3, <2>4, <2>5 DEF ChangeInv, Holds, SameDoc
<1>9. PublishedInv'
  <2>. SUFFICES ASSUME NEW k \in DOMAIN events', Publishes(events'[k]), events'[k].rev >= 2 PROVE AfterChange(k)'
    BY DEF PublishedInv
  <2>1. CASE k \in DOMAIN events
    <3>1. AfterChange(k) /\ events'[k] = events[k]
      BY <1>0, <1>2, <2>1 DEF PublishedInv
    <3>. QED
      BY <1>2, <2>1, <3>1 DEF AfterChange, IsChange
  <2>2. CASE k \notin DOMAIN events
    <3>1. PICK m \in DOMAIN new : k = Len(events) + m /\ events'[k] = new[m]
      BY <1>2, <2>2
    <3>2. /\ m = 3 /\ new[1].type = "change" /\ new[1].inst = doc.inst /\ new[1].rev = doc.rev
          /\ new[2].type = "projection" /\ new[3].inst = doc.inst /\ new[3].rev = doc.rev
      BY <3>1 DEF Reports, Publishes, Covers
    <3>3. 1 \in DOMAIN new /\ 2 \in DOMAIN new
      BY <3>2, SeqIs
    <3>4. k - 2 = Len(events) + 1 /\ k - 1 = Len(events) + 2
      BY <1>2, <3>1, <3>2
    <3>5. /\ k - 2 \in DOMAIN events' /\ k - 1 \in DOMAIN events'
          /\ events'[k - 2] = new[1] /\ events'[k - 1] = new[2]
      BY <1>2, <3>3, <3>4
    <3>. QED
      BY <3>1, <3>2, <3>5 DEF AfterChange, IsChange
  <2>. QED
    BY <2>1, <2>2
<1>10. RecordInv'
  <2>1. Distinct(doc)' /\ Applied(doc)' = Applied(doc)
    BY <1>0 DEF RecordInv, Distinct, SameDoc, Applied
  <2>2. ASSUME NEW i \in DOMAIN cmds, NEW k \in DOMAIN events', Commits(cmds[i]), Publishes(events'[k]),
               events'[k].inst = cmds[i].answer.inst, events'[k].source >= cmds[i].answer.view.rev
        PROVE  cmds[i].rec \in Tried(events'[k])
    <3>1. CASE k \in DOMAIN events
      BY <1>0, <1>2, <2>2, <3>1 DEF RecordInv
    <3>2. CASE k \notin DOMAIN events
      <4>1. PICK m \in DOMAIN new : k = Len(events) + m /\ events'[k] = new[m]
        BY <1>2, <3>2
      <4>2. new[m].inst = doc.inst /\ Applied(doc) \subseteq Tried(new[m])
        BY <2>2, <4>1 DEF Reports, Publishes, Covers
      <4>. QED
        BY <1>0, <2>2, <4>1, <4>2 DEF RecordInv
    <3>. QED
      BY <3>1, <3>2
  <2>. QED
    BY <1>0, <2>1, <2>2 DEF RecordInv, SameDoc
<1>11. VerdictIsTrue'
  BY <1>0 DEF VerdictIsTrue
<1>. QED
  BY <1>5, <1>6, <1>7, <1>8, <1>9, <1>10, <1>11 DEF VerdictInv

(* What the report at the end of a regen says.                             *)
LEMMA FinishSays ==
    ASSUME NEW d, DocKind(d), NEW job, job.inst \in Nat, job.source \in Nat, NEW outcome \in Outcomes,
           NEW ran \in SUBSET Records, NEW bad \in SUBSET Records, NEW repair \in SUBSET Records,
           NEW e, e = Finished(d, job, outcome, ran, bad, repair)
    PROVE  /\ e \in Finishes /\ e.type = "finished" /\ e.inst = job.inst /\ e.rev = d.rev
           /\ e.source = job.source /\ e.outcome = outcome
           /\ e.ran = ran /\ e.bad = bad /\ e.repair = repair
  BY DEF Finished, Finishes, DocKind, Docs

(* The end of a regen that did not publish, with its projection.           *)
LEMMA TwoReports ==
    ASSUME NEW a, a.type = "projection", NEW b, b.type = "finished", b.outcome # "published",
           Covers(b) => b.inst = doc.inst /\ b.rev = doc.rev /\ b.source = doc.rev,
           NEW new, new = <<a, b>>
    PROVE  Reports(new)
<1>1. DOMAIN new = {1, 2} /\ new[1] = a /\ new[2] = b
  OBVIOUS
<1>. QED
  BY <1>1 DEF Reports, Covers, Publishes

(* The end of one that did, with its change and its projection.            *)
LEMMA ThreeReports ==
    ASSUME NEW a, a.type = "change", a.inst = doc.inst, a.rev = doc.rev, NEW b, b.type = "projection",
           NEW c, c.type = "finished", c.inst = doc.inst, c.rev = doc.rev, c.source = doc.rev,
           Applied(doc) \subseteq Tried(c), NEW new, new = <<a, b, c>>
    PROVE  Reports(new)
<1>1. DOMAIN new = {1, 2, 3} /\ new[1] = a /\ new[2] = b /\ new[3] = c
  OBVIOUS
<1>. QED
  BY <1>1 DEF Reports, Covers, Publishes

(* An applied record stands before the cursor.                             *)
LEMMA AppliedPlace ==
    ASSUME DocKind(doc), Distinct(doc), NEW r \in Applied(doc)
    PROVE  Place(doc, r) \in 1 .. doc.cursor
<1>1. doc.recs \in Seq(Records) /\ doc.cursor \in Nat /\ doc.cursor <= Len(doc.recs) /\ IsInjective(doc.recs)
  BY DEF DocKind, Docs, Distinct
<1>2. PICK i \in 1 .. doc.cursor : doc.recs[i] = r
  BY DEF Applied
<1>3. i \in DOMAIN doc.recs
  BY <1>1, <1>2, SeqIs
<1>4. Place(doc, r) \in DOMAIN doc.recs /\ doc.recs[Place(doc, r)] = r
  BY <1>2, <1>3 DEF Place
<1>5. Place(doc, r) = i
  BY <1>1, <1>2, <1>3, <1>4 DEF IsInjective
<1>. QED
  BY <1>5

(* A regen publishes.                                                      *)
LEMMA VerdictByPublish ==
    ASSUME "past_halt" \notin Rare, KindInv, VerdictInv, OpensStay, Publish
    PROVE  VerdictInv'
<1>0. Distinct(doc) /\ DocKind(doc) /\ doc \in Docs
  BY DEF VerdictInv, RecordInv, KindInv, DocKind
<1>1. PICK k \in 1 .. doc.cursor + 1, how \in {"error", "needsRepair"} :
        LET at(r) == Place(doc, r)
            ran == {r \in Applied(doc) : at(r) < k}
            halted == {r \in Applied(doc) : at(r) = k}
            status == [r \in Records |-> IF r \in ran THEN "ok" ELSE IF r \in halted THEN how ELSE "dirty"]
            d == [doc EXCEPT !.status = status, !.snap = <<doc.inst, doc.rev>>, !.shown = ran # {}]
            only(h) == IF how = h THEN halted ELSE {}
        IN /\ sched.job # NoJob /\ Current
           /\ "past_halt" \in Rare \/ k >= doc.cursor
           /\ halted = {} => how = "error"
           /\ doc' = d
           /\ events' = events \o <<[type |-> "change", inst |-> d.inst, rev |-> d.rev, snap |-> d.snap],
                                   ProjectionEvent(d),
                                   Finished(d, sched.job, "published", ran, only("error"), only("needsRepair"))>>
           /\ JobEnds
  BY DEF Publish
<1>. DEFINE ran == {r \in Applied(doc) : Place(doc, r) < k}
            halted == {r \in Applied(doc) : Place(doc, r) = k}
            only(h) == IF how = h THEN halted ELSE {}
            bad == only("error")  repair == only("needsRepair")
            a == [type |-> "change", inst |-> doc'.inst, rev |-> doc'.rev, snap |-> doc'.snap]
            b == ProjectionEvent(doc')
            c == Finished(doc', sched.job, "published", ran, bad, repair)
            new == <<a, b, c>>
<1>2. /\ sched.job.inst = doc.inst /\ sched.job.source = doc.rev /\ k >= doc.cursor
      /\ doc' = [doc EXCEPT !.status = [r \in Records |-> IF r \in ran THEN "ok" ELSE IF r \in halted THEN how
                                                           ELSE "dirty"],
                            !.snap = <<doc.inst, doc.rev>>, !.shown = ran # {}]
      /\ events' = events \o new
      /\ cmds' = cmds /\ last' = last
  BY <1>1 DEF Current, JobEnds, client
<1>3. Applied(doc) \subseteq ran \cup bad \cup repair
  <2>. SUFFICES ASSUME NEW r \in Applied(doc) PROVE r \in ran \cup halted
    OBVIOUS
  <2>1. Place(doc, r) \in 1 .. doc.cursor /\ doc.cursor \in Nat
    BY <1>0, AppliedPlace DEF Docs
  <2>2. k >= doc.cursor /\ k \in Nat
    <3>1. k \in 1 .. doc.cursor + 1
      OBVIOUS
    <3>2. k >= doc.cursor
      BY <1>2
    <3>. QED
      BY ONLY <2>1, <3>1, <3>2
  <2>3. Place(doc, r) < k \/ Place(doc, r) = k
    BY <2>1, <2>2
  <2>. QED
    BY <2>3
<1>4. ran \subseteq Records /\ bad \subseteq Records /\ repair \subseteq Records
  <2>1. Applied(doc) \subseteq Records
    <3>1. doc.recs \in Seq(Records) /\ doc.cursor \in Nat /\ doc.cursor <= Len(doc.recs)
      BY <1>0 DEF Docs, DocKind
    <3>. QED
      BY <3>1, SeqIs DEF Applied
  <2>. QED
    BY <2>1
<1>. HIDE DEF ran, halted, only, bad, repair
<1>5. SameDoc
  BY <1>0, <1>2 DEF Docs, SameDoc
<1>6. DocKind(doc')
  BY StepKind DEF Next, KindInv
<1>7. a.type = "change" /\ a.inst = doc.inst /\ a.rev = doc.rev /\ a \in Events
  <2>1. a \in Changes
    BY <1>6 DEF Changes, DocKind, Docs
  <2>. QED
    BY <1>5, <2>1 DEF SameDoc, Events
<1>8. b.type = "projection" /\ b \in Events
  BY <1>6, ProjectionKind DEF Events
<1>9. /\ c \in Finishes /\ c.type = "finished" /\ c.inst = doc.inst /\ c.rev = doc.rev /\ c.source = doc.rev
      /\ c.ran = ran /\ c.bad = bad /\ c.repair = repair
  <2>1. sched.job.inst \in Nat /\ sched.job.source \in Nat /\ "published" \in Outcomes
    BY <1>0, <1>2 DEF Docs, Outcomes
  <2>2. doc'.rev = doc.rev /\ sched.job.inst = doc.inst /\ sched.job.source = doc.rev
    BY <1>2, <1>5 DEF SameDoc
  <2>3. c = Finished(doc', sched.job, "published", ran, bad, repair)
    OBVIOUS
  <2>. HIDE DEF c
  <2>4. /\ c \in Finishes /\ c.type = "finished" /\ c.inst = sched.job.inst /\ c.rev = doc'.rev
        /\ c.source = sched.job.source /\ c.ran = ran /\ c.bad = bad /\ c.repair = repair
    BY ONLY <1>4, <1>6, <2>1, <2>3, FinishSays
  <2>. QED
    BY <2>2, <2>4
<1>. HIDE DEF a, b, c
<1>10. Applied(doc) \subseteq Tried(c)
  BY <1>3, <1>9 DEF Tried
<1>11. new \in Seq(Events)
  BY <1>7, <1>8, <1>9 DEF Events
<1>12. Reports(new)
  BY <1>7, <1>8, <1>9, <1>10, ThreeReports
<1>. HIDE DEF new
<1>. QED
  BY <1>2, <1>5, <1>11, <1>12, VerdictByReports

(* A regen ends without, or there was nothing to do.                       *)
LEMMA VerdictByEnding ==
    ASSUME KindInv, VerdictInv, OpensStay, BeginNothing \/ Unpublished
    PROVE  VerdictInv'
<1>0. DocKind(doc) /\ doc \in Docs /\ sched.job \in Jobs
  BY DEF KindInv, DocKind, Scheds
<1>1. ASSUME doc' = doc, cmds' = cmds, last' = last, events' = events
      PROVE  VerdictInv'
  <2>1. <<>> \in Seq(Events) /\ events' = events \o <<>> /\ DOMAIN <<>> = {}
    BY <1>1, NothingNew
  <2>2. Reports(<<>>) /\ SameDoc
    BY <1>1, <2>1 DEF Reports, SameDoc
  <2>. QED
    BY <1>1, <2>1, <2>2, VerdictByReports
<1>2. ASSUME doc' = doc, cmds' = cmds, last' = last, NEW job, job.inst \in Nat, job.source \in Nat,
             NEW outcome \in Outcomes, outcome # "published",
             outcome \notin {"superseded", "cancelled"} => job.inst = doc.inst /\ job.source = doc.rev,
             events' = events \o <<ProjectionEvent(doc), Finished(doc, job, outcome, {}, {}, {})>>
      PROVE  VerdictInv'
  <2>. DEFINE a == ProjectionEvent(doc)  b == Finished(doc, job, outcome, {}, {}, {})  new == <<a, b>>
  <2>1. a.type = "projection" /\ a \in Events
    BY <1>0, ProjectionKind DEF Events
  <2>2. /\ b \in Finishes /\ b.type = "finished" /\ b.inst = job.inst /\ b.rev = doc.rev /\ b.source = job.source
        /\ b.outcome = outcome
    <3>. DEFINE none == {}
    <3>1. b = Finished(doc, job, outcome, none, none, none) /\ none \in SUBSET Records
      OBVIOUS
    <3>2. DocKind(doc) /\ outcome \in Outcomes /\ job.inst \in Nat /\ job.source \in Nat
      BY <1>0, <1>2
    <3>. HIDE DEF b, none
    <3>. QED
      BY ONLY <3>1, <3>2, FinishSays
  <2>3. events' = events \o new /\ SameDoc
    BY <1>2 DEF SameDoc
  <2>. HIDE DEF a, b
  <2>4. new \in Seq(Events)
    BY <2>1, <2>2 DEF Events
  <2>5. Covers(b) => b.inst = doc.inst /\ b.rev = doc.rev /\ b.source = doc.rev
    BY <1>2, <2>2 DEF Covers
  <2>6. Reports(new)
    BY <1>2, <2>1, <2>2, <2>5, TwoReports
  <2>. HIDE DEF new
  <2>. QED
    BY <1>2, <2>3, <2>4, <2>6, VerdictByReports
<1>3. CASE BeginNothing
  <2>. DEFINE job == [inst |-> doc.inst, source |-> doc.rev]
  <2>1. /\ doc' = doc /\ cmds' = cmds /\ last' = last
        /\ events' = events \o <<ProjectionEvent(doc), Finished(doc, job, "noop", {}, {}, {})>>
    BY <1>3 DEF BeginNothing, client
  <2>2. job.inst = doc.inst /\ job.source = doc.rev /\ job.inst \in Nat /\ job.source \in Nat /\ "noop" \in Outcomes
    BY <1>0 DEF Docs, Outcomes
  <2>. HIDE DEF job
  <2>. QED
    BY <1>2, <2>1, <2>2
<1>4. CASE Unpublished
  <2>1. PICK outcome \in {"superseded", "cancelled", "failed", "abandoned"} :
          /\ outcome = "failed" => Current
          /\ events' = IF outcome = "abandoned" THEN events
                       ELSE events \o <<ProjectionEvent(doc), Finished(doc, sched.job, outcome, {}, {}, {})>>
    BY <1>4 DEF Unpublished
  <2>2. doc' = doc /\ cmds' = cmds /\ last' = last
    BY <1>4, UnpublishedKind
  <2>3. CASE outcome = "abandoned"
    BY <1>1, <2>1, <2>2, <2>3
  <2>4. CASE outcome # "abandoned"
    <3>1. sched.job.inst \in Nat /\ sched.job.source \in Nat /\ outcome \in Outcomes /\ outcome # "published"
      BY <1>0, <2>1, <2>4 DEF Jobs, Outcomes
    <3>2. outcome \notin {"superseded", "cancelled"} => sched.job.inst = doc.inst /\ sched.job.source = doc.rev
      BY <2>1, <2>4 DEF Current
    <3>. QED
      BY <1>2, <2>1, <2>2, <2>4, <3>1, <3>2
  <2>. QED
    BY <2>3, <2>4
<1>. QED
  BY <1>3, <1>4

(* Steps of the scheduler that report nothing but a start.                 *)
LEMMA VerdictByScheduler ==
    ASSUME KindInv, VerdictInv, OpensStay, Begin \/ GateOpens \/ UNCHANGED vars
    PROVE  VerdictInv'
<1>1. doc' = doc /\ cmds' = cmds /\ last' = last /\ SameDoc
  BY DEF Begin, GateOpens, vars, client, SameDoc
<1>2. CASE Begin
  <2>. DEFINE e == [type |-> "started", inst |-> doc.inst]
  <2>1. events' = Append(events, e) /\ e.type = "started"
    BY <1>2 DEF Begin
  <2>2. e \in Events
    BY DEF Events, Starts, KindInv, DocKind, Docs
  <2>. HIDE DEF e
  <2>3. <<e>> \in Seq(Events) /\ events' = events \o <<e>> /\ DOMAIN <<e>> = {1} /\ <<e>>[1] = e
    BY <2>1, <2>2, OneNew
  <2>4. Reports(<<e>>)
    BY <2>1, <2>3 DEF Reports, Covers, Publishes
  <2>. QED
    BY <1>1, <2>3, <2>4, VerdictByReports
<1>3. CASE GateOpens \/ UNCHANGED vars
  <2>1. events' = events
    BY <1>3 DEF GateOpens, vars
  <2>2. <<>> \in Seq(Events) /\ events' = events \o <<>> /\ DOMAIN <<>> = {}
    BY <2>1, NothingNew
  <2>3. Reports(<<>>)
    BY <2>2 DEF Reports
  <2>. QED
    BY <1>1, <2>2, <2>3, VerdictByReports
<1>. QED
  BY <1>2, <1>3

-----------------------------------------------------------------------------
(* Commands: sent, handled and refused.                                    *)

(* Nothing is reported: at most a projection joins the queue.              *)
SameReports ==
    /\ DOMAIN events \subseteq DOMAIN events' /\ \A k \in DOMAIN events : events'[k] = events[k]
    /\ \A k \in DOMAIN events' : k \in DOMAIN events \/ events'[k].type = "projection"

(* A command is sent or handled: the document of before is the one that    *)
(* the frontend knows, if it is not the one still open.                    *)
Asks ==
    /\ SameReports /\ last' = last /\ Known' = Known
    /\ \/ doc'.inst = doc.inst /\ doc'.rev >= doc.rev
       \/ doc'.inst = doc.inst + 1 /\ Known = doc.inst
    /\ \A i \in DOMAIN cmds' : cmds'[i].buffered # 0 => i \in DOMAIN cmds /\ cmds'[i] = cmds[i]

(* Both ways of reporting nothing.                                         *)
LEMMA SameReportsBy ==
    ASSUME KindInv, \/ events' = events
                    \/ \E e \in ProjectionEvents : events' = Append(events, e)
    PROVE  SameReports
<1>1. CASE events' = events
  BY <1>1 DEF SameReports
<1>2. CASE \E e \in ProjectionEvents : events' = Append(events, e)
  <2>1. PICK e \in ProjectionEvents : events' = Append(events, e)
    BY <1>2
  <2>2. e \in Events /\ e.type = "projection"
    BY DEF Events, ProjectionEvents
  <2>3. /\ DOMAIN events' = 1 .. Len(events) + 1 /\ DOMAIN events = 1 .. Len(events) /\ Len(events) \in Nat
        /\ \A k \in DOMAIN events : events'[k] = events[k]
        /\ events'[Len(events) + 1] = e
    BY <2>1, <2>2, QueueGrowsByOne, SeqIs DEF KindInv
  <2>. QED
    BY <2>2, <2>3 DEF SameReports
<1>. QED
  BY <1>1, <1>2

(* What was said of the reports still is so.                               *)
LEMMA AsksKeeps ==
    ASSUME KindInv, KindInv', ReportInv, ChangeInv, PublishedInv, Asks
    PROVE  ReportInv' /\ ChangeInv' /\ PublishedInv'
<1>1. /\ DOMAIN events \subseteq DOMAIN events' /\ \A k \in DOMAIN events : events'[k] = events[k]
      /\ \A k \in DOMAIN events' : Covers(events'[k]) => k \in DOMAIN events
  BY DEF Asks, SameReports, Covers
<1>2. /\ doc.inst \in Nat /\ doc.rev \in Nat /\ last \in Nat /\ Known' = Known /\ last' = last
      /\ \/ doc'.inst = doc.inst /\ doc'.rev >= doc.rev
         \/ doc'.inst = doc.inst + 1 /\ Known = doc.inst
  BY KnownIs DEF Asks
<1>3. doc'.rev \in Nat
  BY DEF KindInv, DocKind, Docs
<1>4. ReportInv'
  <2>1. ASSUME NEW k \in DOMAIN events', Covers(events'[k])
        PROVE  /\ events'[k].inst \in {Known, doc'.inst}
               /\ events'[k].type = "finished" => events'[k].rev = events'[k].source
               /\ events'[k].inst = doc'.inst => events'[k].rev <= doc'.rev
    <3>1. k \in DOMAIN events /\ events'[k] = events[k] /\ Covers(events[k])
      BY <1>1, <2>1
    <3>2. /\ events[k].inst \in {Known, doc.inst}
          /\ events[k].type = "finished" => events[k].rev = events[k].source
          /\ events[k].inst = doc.inst => events[k].rev <= doc.rev
      BY <3>1 DEF ReportInv
    <3>3. CASE doc'.inst = doc.inst /\ doc'.rev >= doc.rev
      <4>1. events[k].rev \in Nat
        <5>1. events[k] \in Events
          BY <3>1, SeqIs DEF KindInv
        <5>. QED
          BY <3>1, <5>1, EventIs
      <4>. QED
        BY <1>2, <1>3, <3>1, <3>2, <3>3, <4>1
    <3>4. CASE doc'.inst = doc.inst + 1 /\ Known = doc.inst
      BY <1>2, <3>1, <3>2, <3>4
    <3>. QED
      BY <1>2, <3>3, <3>4
  <2>2. \A k, m \in DOMAIN events' : k < m /\ Covers(events'[k]) /\ Covers(events'[m]) =>
          events'[k].inst <= events'[m].inst
    BY <1>1 DEF ReportInv
  <2>. QED
    BY <1>2, <2>1, <2>2 DEF ReportInv
<1>5. ASSUME NEW k \in DOMAIN events', IsChange(k)'
      PROVE  k \in DOMAIN events /\ events'[k] = events[k] /\ IsChange(k)
  BY <1>1, <1>5 DEF IsChange, Covers
<1>6. ChangeInv'
  <2>1. Known = doc'.inst => last <= doc'.rev
    BY <1>2, <1>3 DEF ChangeInv
  <2>2. \A k \in DOMAIN events' : IsChange(k)' /\ events'[k].inst = Known => last <= events'[k].rev
    BY <1>5 DEF ChangeInv
  <2>3. \A k, m \in DOMAIN events' :
          k < m /\ IsChange(k)' /\ IsChange(m)' /\ events'[k].inst = events'[m].inst => events'[k].rev <= events'[m].rev
    BY <1>5 DEF ChangeInv
  <2>4. ASSUME NEW i \in DOMAIN cmds', cmds'[i].buffered # 0, cmds'[i].phase # "done"
        PROVE  /\ cmds'[i].phase = "waiting" /\ SettlesOnFinish(cmds'[i])
               /\ \/ Known # doc'.inst /\ AllHeard'
                  \/ cmds'[i].buffered = last /\ cmds'[i].answer.view.rev <= last
    <3>1. i \in DOMAIN cmds /\ cmds'[i] = cmds[i]
      BY <2>4 DEF Asks
    <3>2. Holds(cmds[i])
      BY <2>4, <3>1 DEF ChangeInv
    <3>3. Known # doc.inst /\ AllHeard => Known # doc'.inst /\ AllHeard'
      <4>. SUFFICES ASSUME Known # doc.inst, AllHeard PROVE Known # doc'.inst /\ AllHeard'
        OBVIOUS
      <4>1. doc'.inst = doc.inst
        BY <1>2
      <4>. QED
        BY <1>1, <1>2, <4>1 DEF AllHeard
    <3>. QED
      BY <3>1, <3>2, <3>3 DEF Holds
  <2>. QED
    BY <1>2, <2>1, <2>2, <2>3, <2>4 DEF ChangeInv, Holds
<1>7. PublishedInv'
  <2>. SUFFICES ASSUME NEW k \in DOMAIN events', Publishes(events'[k]), events'[k].rev >= 2 PROVE AfterChange(k)'
    BY DEF PublishedInv
  <2>1. Covers(events'[k])
    BY DEF Publishes, Covers
  <2>2. k \in DOMAIN events /\ events'[k] = events[k]
    BY <1>1, <2>1
  <2>3. AfterChange(k)
    BY <2>2 DEF PublishedInv
  <2>4. k = 2 => 1 \in DOMAIN events
    BY <2>2, SeqIs DEF KindInv
  <2>. QED
    BY <1>1, <1>2, <2>2, <2>3, <2>4 DEF AfterChange, IsChange
<1>. QED
  BY <1>4, <1>6, <1>7

(* One command is handled: nothing is settled by it.                       *)
LEMMA OneAnswered ==
    ASSUME KindInv, OpenInv, OrderInv, ChangeInv, VerdictIsTrue, NEW i \in DOMAIN cmds, cmds[i].phase = "sent",
           DOMAIN cmds' = DOMAIN cmds, \A j \in DOMAIN cmds : j # i => cmds'[j] = cmds[j],
           cmds'[i].phase = "answered", cmds'[i].kind = cmds[i].kind, cmds'[i].rec = cmds[i].rec,
           cmds'[i].buffered = cmds[i].buffered
    PROVE  /\ OrderInv' /\ VerdictIsTrue'
           /\ \A j \in DOMAIN cmds' : cmds'[j].buffered # 0 => j \in DOMAIN cmds /\ cmds'[j] = cmds[j]
           /\ OpenUnanswered = {} /\ Known = doc.inst
<1>1. OpenUnanswered = {} /\ Known = doc.inst
  BY NoneOpening
<1>2. cmds'[i].buffered = 0
  BY AnsweredHoldsNothing
<1>3. OrderInv'
  <2>1. Calm
    BY DEF Calm
  <2>. QED
    BY <2>1, OrderByCalm
<1>4. VerdictIsTrue'
  <2>1. \A j \in DOMAIN cmds' : TrueVerdict(cmds'[j])
    <3>1. TrueVerdict(cmds'[i])
      BY DEF TrueVerdict
    <3>2. \A j \in DOMAIN cmds : TrueVerdict(cmds[j])
      BY VerdictsAre
    <3>. QED
      BY <3>1, <3>2
  <2>. QED
    BY <2>1 DEF VerdictIsTrue, TrueVerdict
<1>. QED
  BY <1>1, <1>2, <1>3, <1>4

(* A command is refused: there is nothing to wait for.                     *)
LEMMA VerdictByRefuse ==
    ASSUME KindInv, OpenInv, VerdictInv, OpensStay, Refuse
    PROVE  VerdictInv'
<1>0. OrderInv /\ AnswerInv /\ ReportInv /\ ChangeInv /\ PublishedInv /\ RecordInv /\ VerdictIsTrue
  BY DEF VerdictInv
<1>. DEFINE i == Next1("sent")
<1>1. /\ KindInv' /\ i \in DOMAIN cmds /\ cmds[i].phase = "sent"
      /\ DOMAIN cmds' = DOMAIN cmds /\ \A j \in DOMAIN cmds : j # i => cmds'[j] = cmds[j]
      /\ cmds'[i].phase = "answered" /\ cmds'[i].kind = cmds[i].kind /\ cmds'[i].rec = cmds[i].rec
      /\ cmds'[i].buffered = cmds[i].buffered /\ ~cmds'[i].answer.ok
  BY RefuseKind
<1>2. doc' = doc /\ events' = events /\ last' = last
  BY DEF Refuse, client
<1>. HIDE DEF i
<1>3. /\ OrderInv' /\ VerdictIsTrue'
      /\ \A j \in DOMAIN cmds' : cmds'[j].buffered # 0 => j \in DOMAIN cmds /\ cmds'[j] = cmds[j]
  BY <1>0, <1>1, OneAnswered
<1>4. Known' = Known /\ OpenUnanswered' = OpenUnanswered
  BY <1>2, KnownStays
<1>5. ReportInv' /\ ChangeInv' /\ PublishedInv'
  <2>1. doc'.rev >= doc.rev
    BY <1>2, KnownIs
  <2>2. Asks
    BY <1>2, <1>3, <1>4, <2>1, SameReportsBy DEF Asks
  <2>. QED
    BY <1>0, <1>1, <2>2, AsksKeeps
<1>6. ASSUME NEW j \in DOMAIN cmds PROVE Pending(cmds'[j]) \/ cmds'[j].phase = "waiting" => cmds'[j] = cmds[j]
  BY <1>1 DEF Pending
<1>7. AnswerInv'
  BY <1>0, <1>1, <1>2, <1>4, <1>6 DEF AnswerInv
<1>8. RecordInv'
  <2>1. ASSUME NEW j \in DOMAIN cmds PROVE Commits(cmds'[j]) => cmds'[j] = cmds[j] /\ Commits(cmds[j])
    BY <1>6 DEF Commits
  <2>2. Distinct(doc)' /\ Applied(doc)' = Applied(doc)
    BY <1>0, <1>2 DEF RecordInv, Distinct, Applied
  <2>3. \A j \in DOMAIN cmds : cmds'[j].phase = "waiting" => ~Inert(cmds'[j])
    BY <1>0, <1>6 DEF RecordInv
  <2>. QED
    BY <1>0, <1>1, <1>2, <2>1, <2>2, <2>3 DEF RecordInv
<1>. QED
  BY <1>3, <1>5, <1>7, <1>8 DEF VerdictInv

(* A command is sent: not over a commit in flight if it could take records *)
(* out, nor while a document opens.                                        *)
LEMMA VerdictBySend ==
    ASSUME "overlap" \notin Rare, KindInv, OpenInv, VerdictInv, OpensStay, Send
    PROVE  VerdictInv'
<1>0. OrderInv /\ AnswerInv /\ ReportInv /\ ChangeInv /\ PublishedInv /\ RecordInv /\ VerdictIsTrue
  BY DEF VerdictInv
<1>1. PICK kind \in Kinds, r \in Records :
        /\ "overlap" \in Rare \/ OneAtATime(kind)
        /\ cmds' = Append(cmds, [kind |-> kind, rec |-> r, phase |-> "sent",
                                 waits |-> kind \notin {"rename", "open"}, buffered |-> 0,
                                 answer |-> NoAnswer, verdict |-> NoVerdict])
  BY DEF Send
<1>. DEFINE w == kind \notin {"rename", "open"}
            c == [kind |-> kind, rec |-> r, phase |-> "sent", waits |-> w, buffered |-> 0,
                  answer |-> NoAnswer, verdict |-> NoVerdict]
            n == Len(cmds) + 1
<1>2. c \in Cmds
  <2>1. w \in BOOLEAN /\ NoVerdict \in Verdicts
    BY DEF NoVerdict, Verdicts, Terminals
  <2>. HIDE DEF w
  <2>. QED
    BY <2>1 DEF Cmds
<1>3. cmds' = Append(cmds, c) /\ c.kind = kind /\ c.phase = "sent" /\ c.buffered = 0
  BY <1>1
<1>. HIDE DEF c
<1>4. /\ DOMAIN cmds' = DOMAIN cmds \cup {n} /\ n \notin DOMAIN cmds /\ n \in Nat /\ DOMAIN cmds \subseteq Nat
      /\ \A j \in DOMAIN cmds : cmds'[j] = cmds[j] /\ j < n
      /\ cmds'[n] = c
  <2>1. /\ DOMAIN cmds' = 1 .. Len(cmds) + 1 /\ DOMAIN cmds = 1 .. Len(cmds) /\ Len(cmds) \in Nat
        /\ \A j \in DOMAIN cmds : cmds'[j] = cmds[j]
        /\ cmds'[Len(cmds) + 1] = c
    BY <1>2, <1>3, QueueGrowsByOne, SeqIs DEF KindInv
  <2>. QED
    BY <2>1
<1>. HIDE DEF n
<1>5. doc' = doc /\ events' = events /\ last' = last /\ KindInv'
  BY SendKind DEF Send, client
<1>6. OneAtATime(kind)
  BY <1>1
<1>7. OrderInv'
  <2>1. ASSUME NEW i \in DOMAIN cmds', NEW j \in DOMAIN cmds', i # j, Opens(cmds'[i]),
               cmds'[i].phase # "done", cmds'[j].phase # "done"
        PROVE  j < i /\ SettlesOnFinish(cmds'[j])
    <3>1. CASE i \in DOMAIN cmds /\ j \in DOMAIN cmds
      BY <1>0, <1>4, <2>1, <3>1 DEF OrderInv
    <3>2. CASE i = n
      <4>1. kind = "open" /\ j \in DOMAIN cmds /\ cmds'[j] = cmds[j] /\ j < n
        BY <1>3, <1>4, <2>1, <3>2 DEF Opens
      <4>2. j \in InFlight
        BY <2>1, <4>1 DEF InFlight, Open
      <4>. QED
        BY <1>6, <3>2, <4>1, <4>2 DEF OneAtATime
    <3>3. CASE i \in DOMAIN cmds /\ j = n
      <4>1. i \in InFlight /\ Opens(cmds[i])
        BY <1>4, <2>1, <3>3 DEF InFlight, Open
      <4>. QED
        BY <1>6, <4>1 DEF OneAtATime
    <3>. QED
      BY <1>4, <3>1, <3>2, <3>3
  <2>2. ASSUME NEW i \in DOMAIN cmds', NEW j \in DOMAIN cmds', i < j, OfRecord(cmds'[i]),
               cmds'[j].kind \in {"undo", "remove", "roll"}
        PROVE  cmds'[i].phase = "done"
    <3>1. CASE j \in DOMAIN cmds
      <4>1. i \in DOMAIN cmds
        BY <1>4, <2>2, <3>1
      <4>. QED
        BY <1>0, <1>4, <2>2, <3>1, <4>1 DEF OrderInv
    <3>2. CASE j = n
      <4>1. i \in DOMAIN cmds /\ cmds'[i] = cmds[i] /\ kind \in {"undo", "remove", "roll"}
        BY <1>3, <1>4, <2>2, <3>2
      <4>2. i \notin InFlight
        BY <1>6, <2>2, <4>1 DEF OneAtATime
      <4>. QED
        BY <4>1, <4>2 DEF InFlight, Open
    <3>. QED
      BY <1>4, <3>1, <3>2
  <2>. QED
    BY <2>1, <2>2 DEF OrderInv
<1>8. Known' = Known /\ OpenUnanswered' = OpenUnanswered
  BY <1>5, KnownStays
<1>9. ReportInv' /\ ChangeInv' /\ PublishedInv'
  <2>1. doc'.rev >= doc.rev
    BY <1>5, KnownIs
  <2>2. Asks
    BY <1>3, <1>4, <1>5, <1>8, <2>1, SameReportsBy DEF Asks
  <2>. QED
    BY <1>0, <1>5, <2>2, AsksKeeps
<1>10. ASSUME NEW j \in DOMAIN cmds', Pending(cmds'[j]) \/ cmds'[j].phase = "waiting"
       PROVE  j \in DOMAIN cmds /\ cmds'[j] = cmds[j]
  BY <1>3, <1>4, <1>10 DEF Pending
<1>11. AnswerInv'
  BY <1>0, <1>5, <1>8, <1>10 DEF AnswerInv
<1>12. RecordInv'
  <2>1. ASSUME NEW j \in DOMAIN cmds', Commits(cmds'[j]) PROVE j \in DOMAIN cmds /\ cmds'[j] = cmds[j]
    BY <1>10, <2>1 DEF Commits
  <2>2. Distinct(doc)' /\ Applied(doc)' = Applied(doc)
    BY <1>0, <1>5 DEF RecordInv, Distinct, Applied
  <2>3. \A j \in DOMAIN cmds' : cmds'[j].phase = "waiting" => ~Inert(cmds'[j])
    BY <1>0, <1>10 DEF RecordInv
  <2>. QED
    BY <1>0, <1>5, <2>1, <2>2, <2>3 DEF RecordInv
<1>13. VerdictIsTrue'
  <2>1. \A j \in DOMAIN cmds' : TrueVerdict(cmds'[j])
    <3>1. TrueVerdict(cmds'[n])
      BY <1>3, <1>4 DEF TrueVerdict
    <3>2. \A j \in DOMAIN cmds : TrueVerdict(cmds[j])
      BY <1>0, VerdictsAre
    <3>. QED
      BY <1>4, <3>1, <3>2
  <2>. QED
    BY <2>1 DEF VerdictIsTrue, TrueVerdict
<1>. QED
  BY <1>7, <1>9, <1>11, <1>12, <1>13 DEF VerdictInv

(* A command is handled: what is in flight keeps its records, and a commit *)
(* is answered at a revision of which nothing was reported yet.            *)
LEMMA VerdictByHandle ==
    ASSUME KindInv, OpenInv, VerdictInv, OpensStay, Handle
    PROVE  VerdictInv'
<1>0. OrderInv /\ AnswerInv /\ ReportInv /\ ChangeInv /\ PublishedInv /\ RecordInv /\ VerdictIsTrue
  BY DEF VerdictInv
<1>. DEFINE i == Next1("sent")  c == cmds[i]
<1>1. /\ KindInv' /\ doc'.inst = doc.inst /\ i \in DOMAIN cmds /\ c.phase = "sent" /\ ~Opens(c)
      /\ \A j \in DOMAIN cmds : cmds[j].phase = "sent" => i <= j
      /\ \E e \in ProjectionEvents : events' = Append(events, e)
  BY HandleKind
<1>2. PICK o \in Edited(c, doc) : ~Refused(c, doc) /\ doc' = o.doc /\ Answer(i, o.doc)
  BY DEF Handle
<1>3. last' = last
  BY DEF Handle, client
<1>. HIDE DEF i
<1>4. DocKind(doc) /\ DocKind(doc') /\ c \in Cmds /\ doc.rev \in Nat /\ doc'.rev \in Nat
  BY <1>1, SeqIs DEF KindInv, DocKind, Docs
<1>5. Improves(o, doc, c)
  BY <1>0, <1>1, <1>2, <1>4, EditedDistinct DEF RecordInv
<1>6. /\ DOMAIN cmds' = DOMAIN cmds /\ \A j \in DOMAIN cmds : j # i => cmds'[j] = cmds[j]
      /\ cmds'[i].phase = "answered" /\ cmds'[i].kind = c.kind /\ cmds'[i].rec = c.rec
      /\ cmds'[i].buffered = c.buffered
      /\ cmds'[i].answer = [ok |-> TRUE, inst |-> doc'.inst, view |-> Projection(doc')]
  <2>1. Answer(i, doc') /\ doc'.inst \in {doc.inst, doc.inst + 1}
    BY <1>1, <1>2
  <2>. QED
    BY <1>1, <1>4, <2>1, AnswerKind
<1>7. /\ Distinct(doc') /\ doc'.rev \in {doc.rev, doc.rev + 1}
      /\ c.kind # "undo" => doc'.rev = doc.rev + 1
      /\ c.kind \notin {"undo", "remove", "roll"} => Applied(doc) \subseteq Applied(doc')
  BY <1>2, <1>5 DEF Improves
<1>8. /\ OrderInv' /\ VerdictIsTrue'
      /\ \A j \in DOMAIN cmds' : cmds'[j].buffered # 0 => j \in DOMAIN cmds /\ cmds'[j] = cmds[j]
      /\ OpenUnanswered = {} /\ Known = doc.inst
  BY <1>0, <1>1, <1>6, OneAnswered
<1>9. Known' = Known /\ OpenUnanswered' = {}
  BY <1>1, <1>8, KnownStays
<1>10. ReportInv' /\ ChangeInv' /\ PublishedInv'
  <2>1. doc'.rev >= doc.rev
    BY <1>4, <1>7
  <2>2. Asks
    BY <1>1, <1>3, <1>8, <1>9, <2>1, SameReportsBy DEF Asks
  <2>. QED
    BY <1>0, <1>1, <2>2, AsksKeeps
<1>11. /\ cmds'[i].answer.ok /\ cmds'[i].answer.inst = doc.inst /\ cmds'[i].answer.view.rev = doc'.rev
       /\ cmds'[i].answer.view.recs = doc'.recs /\ cmds'[i].answer.view.cursor = doc'.cursor
  BY <1>1, <1>6 DEF Projection
<1>. HIDE DEF c
<1>12. AnswerInv'
  <2>1. doc.rev >= 1
    BY <1>0 DEF AnswerInv
  <2>2. SettlesOnFinish(cmds'[i]) => cmds'[i].answer.view.rev >= 2
    <3>1. SettlesOnFinish(cmds'[i]) => c.kind # "undo"
      BY <1>6 DEF SettlesOnFinish, OfRecord
    <3>. QED
      BY <1>4, <1>7, <1>11, <2>1, <3>1
  <2>3. ASSUME NEW j \in DOMAIN cmds, Pending(cmds'[j])
        PROVE  cmds'[j].answer.inst = doc.inst /\ (SettlesOnFinish(cmds'[j]) => cmds'[j].answer.view.rev >= 2)
    <3>1. CASE j = i
      BY <1>11, <2>2, <3>1
    <3>2. CASE j # i
      BY <1>0, <1>6, <1>8, <2>3, <3>2 DEF AnswerInv
    <3>. QED
      BY <3>1, <3>2
  <2>4. doc'.rev >= 1
    BY <1>4, <1>7, <2>1
  <2>. QED
    BY <1>6, <1>8, <1>9, <2>3, <2>4 DEF AnswerInv
<1>13. ASSUME NEW j \in DOMAIN cmds, Commits(cmds'[j]), cmds'[j].answer.inst = doc.inst
       PROVE  cmds'[j].rec \in Applied(doc')
  <2>1. CASE j = i
    <3>1. \E k \in 1 .. doc'.cursor : doc'.recs[k] = cmds'[i].rec
      BY <1>11, <1>13, <2>1 DEF Commits, Inert
    <3>. QED
      BY <2>1, <3>1 DEF Applied
  <2>2. CASE j # i
    <3>1. cmds'[j] = cmds[j] /\ cmds[j].rec \in Applied(doc) /\ OfRecord(cmds[j]) /\ Pending(cmds[j])
      BY <1>0, <1>6, <1>13, <2>2 DEF RecordInv, Commits
    <3>2. cmds[j].phase # "done" /\ cmds[j].phase # "sent"
      BY <3>1 DEF Pending
    <3>3. j < i
      <4>1. i \in Nat /\ j \in Nat
        BY <1>1, SeqIs DEF KindInv
      <4>2. ~(i < j)
        BY <1>1, <3>2 DEF OpenInv, c
      <4>. QED
        BY <2>2, <4>1, <4>2
    <3>4. c.kind \notin {"undo", "remove", "roll"}
      BY <1>0, <1>1, <3>1, <3>2, <3>3 DEF OrderInv, c
    <3>. QED
      BY <1>7, <3>1, <3>4
  <2>. QED
    BY <2>1, <2>2
<1>14. ASSUME NEW j \in DOMAIN cmds, NEW k \in DOMAIN events', Commits(cmds'[j]), Publishes(events'[k]),
              events'[k].inst = cmds'[j].answer.inst, events'[k].source >= cmds'[j].answer.view.rev
       PROVE  cmds'[j].rec \in Tried(events'[k])
  <2>1. SameReports
    BY <1>1, SameReportsBy
  <2>2. k \in DOMAIN events /\ events'[k] = events[k]
    BY <1>14, <2>1 DEF SameReports, Publishes
  <2>3. CASE j = i
    <3>1. Covers(events[k]) /\ events[k].type = "finished" /\ events[k].inst = doc.inst
      BY <1>11, <1>14, <2>2, <2>3 DEF Publishes, Covers
    <3>2. events[k].rev = events[k].source /\ events[k].rev <= doc.rev
      BY <1>0, <2>2, <3>1 DEF ReportInv
    <3>3. events[k].rev \in Nat
      BY <2>2, <3>1, EventIs, SeqIs DEF KindInv
    <3>4. c.kind # "undo"
      BY <1>6, <1>14, <2>3 DEF Commits, OfRecord
    <3>. QED
      BY <1>4, <1>7, <1>11, <1>14, <2>2, <2>3, <3>2, <3>3, <3>4
  <2>4. CASE j # i
    BY <1>0, <1>6, <1>14, <2>2, <2>4 DEF RecordInv
  <2>. QED
    BY <2>3, <2>4
<1>15. RecordInv'
  <2>1. Distinct(doc)'
    BY <1>7 DEF Distinct
  <2>2. \A j \in DOMAIN cmds : cmds'[j].phase = "waiting" => ~Inert(cmds'[j])
    BY <1>0, <1>6 DEF RecordInv
  <2>3. \A j \in DOMAIN cmds : Commits(cmds'[j]) /\ cmds'[j].answer.inst = doc'.inst => cmds'[j].rec \in Applied(doc)'
    BY <1>1, <1>13 DEF Applied
  <2>. QED
    BY <1>6, <1>14, <2>1, <2>2, <2>3 DEF RecordInv
<1>. QED
  BY <1>8, <1>10, <1>12, <1>15 DEF VerdictInv

(* Another document is opened: whatever waits is of the former one.        *)
LEMMA VerdictByOpen ==
    ASSUME KindInv, OpenInv, VerdictInv, OpenDocument
    PROVE  VerdictInv'
<1>0. OrderInv /\ AnswerInv /\ ReportInv /\ ChangeInv /\ PublishedInv /\ RecordInv /\ VerdictIsTrue
  BY DEF VerdictInv
<1>. DEFINE i == Next1("sent")
<1>1. /\ KindInv' /\ doc'.inst = doc.inst + 1 /\ i \in DOMAIN cmds /\ cmds[i].phase = "sent" /\ Opens(cmds[i])
      /\ \E e \in ProjectionEvents : events' = Append(events, e)
  BY OpenKind
<1>2. PICK recs \in Openable, id \in {doc.inst + 1} \cup {q \in {doc.id} : "same_file" \in Rare} :
        doc' = Runtime(doc.inst + 1, id, recs) /\ Answer(i, Runtime(doc.inst + 1, id, recs))
  BY DEF OpenDocument
<1>3. last' = last /\ Answer(i, doc')
  BY <1>2 DEF OpenDocument, client
<1>. HIDE DEF i
<1>4. DocKind(doc') /\ doc.inst \in Nat /\ doc.rev \in Nat
  BY <1>1 DEF KindInv, DocKind, Docs
<1>5. doc'.rev = 1 /\ doc'.recs = recs /\ doc'.past = <<>>
  BY <1>2 DEF Runtime
<1>6. Distinct(doc')
  BY <1>5, CorrelationBounds DEF Distinct
<1>7. /\ DOMAIN cmds' = DOMAIN cmds /\ \A j \in DOMAIN cmds : j # i => cmds'[j] = cmds[j]
      /\ cmds'[i].phase = "answered" /\ cmds'[i].kind = cmds[i].kind /\ cmds'[i].rec = cmds[i].rec
      /\ cmds'[i].buffered = cmds[i].buffered
  BY <1>1, <1>3, <1>4, AnswerKind
<1>8. /\ OrderInv' /\ VerdictIsTrue'
      /\ \A j \in DOMAIN cmds' : cmds'[j].buffered # 0 => j \in DOMAIN cmds /\ cmds'[j] = cmds[j]
      /\ Known = doc.inst
  BY <1>0, <1>1, <1>7, OneAnswered
<1>9. OpenUnanswered' # {} /\ Known' = doc.inst
  <2>1. OpenUnanswered' # {}
    BY <1>1, OpenByOpen
  <2>. QED
    BY <1>1, <1>4, <2>1 DEF Known
<1>10. ReportInv' /\ ChangeInv' /\ PublishedInv'
  <2>1. Asks
    BY <1>1, <1>3, <1>8, <1>9, SameReportsBy DEF Asks
  <2>. QED
    BY <1>0, <1>1, <2>1, AsksKeeps
<1>11. ASSUME NEW j \in DOMAIN cmds, Pending(cmds'[j]) \/ cmds'[j].phase = "waiting"
       PROVE  cmds'[j] = cmds[j]
  BY <1>1, <1>7, <1>11 DEF Pending, Opens
<1>12. AnswerInv'
  BY <1>0, <1>5, <1>7, <1>8, <1>9, <1>11 DEF AnswerInv
<1>13. ASSUME NEW j \in DOMAIN cmds, Commits(cmds'[j]) PROVE cmds'[j] = cmds[j] /\ cmds[j].answer.inst = doc.inst
  <2>1. cmds'[j] = cmds[j] /\ Pending(cmds[j])
    BY <1>11, <1>13 DEF Commits
  <2>. QED
    BY <1>0, <1>8, <2>1 DEF AnswerInv
<1>14. ASSUME NEW j \in DOMAIN cmds, NEW k \in DOMAIN events', Commits(cmds'[j]), Publishes(events'[k]),
              events'[k].inst = cmds'[j].answer.inst, events'[k].source >= cmds'[j].answer.view.rev
       PROVE  cmds'[j].rec \in Tried(events'[k])
  <2>1. SameReports
    BY <1>1, SameReportsBy
  <2>2. k \in DOMAIN events /\ events'[k] = events[k]
    BY <1>14, <2>1 DEF SameReports, Publishes
  <2>. QED
    BY <1>0, <1>13, <1>14, <2>2 DEF RecordInv
<1>15. RecordInv'
  <2>1. Distinct(doc)'
    BY <1>6 DEF Distinct
  <2>2. \A j \in DOMAIN cmds : cmds'[j].phase = "waiting" => ~Inert(cmds'[j])
    BY <1>0, <1>11 DEF RecordInv
  <2>3. \A j \in DOMAIN cmds : Commits(cmds'[j]) => cmds'[j].answer.inst # doc'.inst
    BY <1>1, <1>4, <1>13
  <2>. QED
    BY <1>7, <1>14, <2>1, <2>2, <2>3 DEF RecordInv
<1>. QED
  BY <1>8, <1>10, <1>12, <1>15 DEF VerdictInv

(* Every step keeps it.                                                    *)
LEMMA VerdictStep ==
    ASSUME "overlap" \notin Rare, "past_halt" \notin Rare, "late_event" \notin Rare,
           KindInv, OpenInv, VerdictInv, [Next]_vars
    PROVE  VerdictInv'
<1>1. CASE OpenDocument
  BY <1>1, VerdictByOpen
<1>2. CASE HearOpened
  BY <1>2, VerdictByOpened
<1>3. CASE Send
  BY <1>3, OpenStep, VerdictBySend
<1>4. CASE Handle
  BY <1>4, OpenStep, VerdictByHandle
<1>5. CASE Refuse
  BY <1>5, OpenStep, VerdictByRefuse
<1>6. CASE Begin \/ GateOpens \/ UNCHANGED vars
  BY <1>6, OpenStep, VerdictByScheduler
<1>7. CASE BeginNothing \/ Unpublished
  BY <1>7, OpenStep, VerdictByEnding
<1>8. CASE Publish
  BY <1>8, OpenStep, VerdictByPublish
<1>9. CASE HearProjection \/ HearStarted \/ HearChange \/ HearFinished \/ HearAnswer \/ Timeout
  BY <1>9, OpenStep, VerdictByHearing
<1>. QED
  BY <1>1, <1>2, <1>3, <1>4, <1>5, <1>6, <1>7, <1>8, <1>9 DEF Next

(* At the start nothing was asked.                                         *)
LEMMA VerdictInit == Init => VerdictInv
<1>. SUFFICES ASSUME Init PROVE VerdictInv
  OBVIOUS
<1>1. PICK recs \in Openable : doc = Runtime(1, 1, recs)
  BY DEF Init
<1>2. DOMAIN cmds = {} /\ DOMAIN events = {} /\ last = 0
  BY DEF Init
<1>3. doc.rev = 1 /\ doc.recs = recs /\ doc.past = <<>>
  BY <1>1 DEF Runtime
<1>4. Distinct(doc)
  BY <1>3, CorrelationBounds DEF Distinct
<1>. QED
  BY <1>2, <1>3, <1>4 DEF VerdictInv, OrderInv, AnswerInv, ReportInv, ChangeInv, PublishedInv, RecordInv,
     VerdictIsTrue

(* A commit is told what became of its own work, whatever overtakes what:  *)
(* a success names a regen of its own document that ran its record, a      *)
(* failure one that failed at it.                                          *)
THEOREM VerdictsAreTrue ==
    ASSUME "overlap" \notin Rare, "past_halt" \notin Rare, "late_event" \notin Rare
    PROVE  Spec => []VerdictIsTrue
<1>1. Init => KindInv /\ OpenInv /\ VerdictInv
  BY InitKind, OpenInit, VerdictInit
<1>2. KindInv /\ OpenInv /\ VerdictInv /\ [Next]_vars => (KindInv /\ OpenInv /\ VerdictInv)'
  BY StepKind, OpenNext, VerdictStep
<1>3. VerdictInv => VerdictIsTrue
  BY DEF VerdictInv
<1>. QED
  BY <1>1, <1>2, <1>3, PTL DEF Spec


-----------------------------------------------------------------------------
(* That every command ends by itself.                                      *)

(* A command that waits for a regen, or will when its answer is heard.     *)
Owed(c) == /\ c.phase \in {"answered", "waiting"} /\ c.waits /\ c.answer.ok
           /\ ~NoRegen(c) /\ ~Inert(c)

(* An event that settles it.                                               *)
Coming(e, c) ==
    /\ e.inst = c.answer.inst
    /\ \/ /\ e.type = "finished" /\ e.outcome \notin {"superseded", "cancelled"}
          /\ e.source >= c.answer.view.rev
          /\ SettlesOnFinish(c) \/ e.outcome # "published"
       \/ e.type = "change" /\ ~SettlesOnFinish(c) /\ e.rev >= c.answer.view.rev
(* One of the events on their way does.                                    *)
Comes(c) == \E k \in DOMAIN events : Coming(events[k], c)

(* A scheduler that will report on it.                                     *)
Calls(s, c) ==
    \/ s.on
    \/ s.job.inst = c.answer.inst /\ s.job.source >= c.answer.view.rev /\ ~s.job.cancelled

(* Its change was heard before its answer, and none that comes takes the   *)
(* frontend back below it.                                                 *)
HeardOf(c) ==
    /\ ~SettlesOnFinish(c) /\ c.phase = "answered" /\ last >= c.answer.view.rev
    /\ \A k \in DOMAIN events : IsChange(k) => events[k].rev >= c.answer.view.rev

(* A job is cancelled by the request that takes its place; until then it   *)
(* is for the document as it is.                                           *)
CallInv ==
    /\ sched.job.cancelled => sched.on
    /\ sched.job.inst = doc.inst /\ ~sched.job.cancelled => sched.job.source = doc.rev

(* Changes come document by document, in the order of their revisions.     *)
RiseInv ==
    /\ \A k \in DOMAIN events : IsChange(k) =>
         events[k].inst <= doc.inst /\ (events[k].inst = doc.inst => events[k].rev <= doc.rev)
    /\ \A k, m \in DOMAIN events : k < m /\ IsChange(k) /\ IsChange(m) =>
         events[k].inst <= events[m].inst /\ (events[k].inst = events[m].inst => events[k].rev <= events[m].rev)

(* Whatever waits is settled by a regen to come, by an event on its way or *)
(* by what was heard, unless the answer of an open is to give it up.       *)
OwedInv ==
    \A i \in DOMAIN cmds :
      /\ cmds[i].phase = "waiting" => Owed(cmds[i])
      /\ Owed(cmds[i]) /\ OpenUnanswered = {} =>
           /\ cmds[i].answer.inst = doc.inst /\ cmds[i].answer.view.rev <= doc.rev
           /\ Calls(sched, cmds[i]) \/ Comes(cmds[i]) \/ HeardOf(cmds[i])

(* All of it.                                                              *)
EndsInv == CallInv /\ RiseInv /\ OwedInv

-----------------------------------------------------------------------------
(* Numbers.                                                                *)

(* What is owed has a revision of a document.                              *)
LEMMA OwedIs ==
    ASSUME KindInv, NEW i \in DOMAIN cmds, Owed(cmds[i])
    PROVE  /\ CmdKind(cmds[i], doc.inst) /\ cmds[i] \in Cmds
           /\ cmds[i].answer.inst \in Nat /\ cmds[i].answer.view.rev \in Nat
<1>1. CmdKind(cmds[i], doc.inst) /\ cmds[i].answer.ok
  BY DEF KindInv, Owed
<1>. QED
  BY <1>1, AnswerIs DEF CmdKind

(* No job is of no document.                                               *)
LEMMA JobIs ==
    ASSUME KindInv
    PROVE  /\ doc.inst \in Nat /\ doc.inst >= 1 /\ doc.rev \in Nat /\ last \in Nat
           /\ sched \in Scheds /\ sched.job \in Jobs /\ sched.job.inst \in Nat /\ sched.job.source \in Nat
           /\ sched.job.cancelled \in BOOLEAN /\ sched.on \in BOOLEAN
           /\ sched.job = NoJob => sched.job.inst # doc.inst /\ sched.job.cancelled = FALSE
<1>1. /\ doc.inst \in Nat /\ doc.inst >= 1 /\ doc.rev \in Nat /\ last \in Nat /\ sched \in Scheds
  BY DEF KindInv, DocKind, Docs
<1>2. sched.job \in Jobs /\ sched.on \in BOOLEAN
  BY <1>1 DEF Scheds
<1>3. sched.job = NoJob => sched.job.inst = 0 /\ sched.job.cancelled = FALSE
  BY DEF NoJob
<1>. QED
  BY <1>1, <1>2, <1>3 DEF Jobs

(* A request is what runs next, and gives the job up.                      *)
LEMMA RequestCalls ==
    ASSUME KindInv, NEW s \in Scheds, s.job = sched.job, NEW from \in Int, NEW t, t = Request(s, from), CallInv
    PROVE  /\ t.on /\ t.job.inst = sched.job.inst
           /\ ~(t.job.inst = doc.inst /\ ~t.job.cancelled)
<1>. DEFINE job == IF s.job = NoJob THEN s.job ELSE [s.job EXCEPT !.cancelled = TRUE]
<1>1. t.on = TRUE /\ t.job = job
  BY DEF Request, Scheds
<1>2. s.job \in Jobs
  BY DEF Scheds
<1>3. CASE s.job = NoJob
  <2>1. sched.job.inst # doc.inst
    BY <1>3, JobIs
  <2>. QED
    BY <1>1, <1>3, <2>1
<1>4. CASE s.job # NoJob
  <2>1. job.inst = sched.job.inst /\ job.cancelled = TRUE
    BY <1>2, <1>4 DEF Jobs
  <2>. QED
    BY <1>1, <2>1
<1>. QED
  BY <1>3, <1>4

-----------------------------------------------------------------------------
(* What a command asks for.                                                *)

(* The revision never falls, and but for a rename, an undo, a roll to      *)
(* where the bar is and a variable of an empty timeline, a regen is asked. *)
AsksNothing(o, c) ==
    \/ c.kind \in {"rename", "undo"}
    \/ c.kind = "roll" /\ "no_regen" \in Rare
    \/ c.kind = "variable" /\ o.doc.recs = <<>>

(* An edit counts the revision up.                                         *)
LEMMA MutatedRises ==
    ASSUME NEW d \in Docs, NEW recs, NEW cursor, NEW model
    PROVE  Mutated(d, recs, cursor, model).rev = d.rev + 1 /\ Mutated(d, recs, cursor, model).recs = recs
  BY DEF Mutated, Docs

(* An edit counts the revision up by one or leaves it, and one that asks   *)
(* for no regen is one of those.                                           *)
LEMMA EditedAsks ==
    ASSUME NEW d, DocKind(d), NEW c \in Cmds, ~Opens(c), ~Refused(c, d), NEW o \in Edited(c, d)
    PROVE  o.doc.rev \in {d.rev, d.rev + 1} /\ (o.from = -1 => AsksNothing(o, c))
<1>1. d \in Docs /\ d.cursor \in 0 .. Len(d.recs) /\ Len(d.recs) \in Nat /\ DOMAIN d.recs = 1 .. Len(d.recs)
  BY SeqIs DEF DocKind, Docs
<1>2. c.kind \in {"add", "reedit", "remove", "roll", "variable", "undo", "rename"}
  BY CorrelationBounds DEF Cmds, Opens
<1>3. c.kind \in {"reedit", "remove"} => Place(d, c.rec) \in 1 .. Len(d.recs)
  <2>1. c.kind \in {"reedit", "remove"} => \E i \in DOMAIN d.recs : d.recs[i] = c.rec
    BY <1>1 DEF Refused, Contains
  <2>. QED
    BY <1>1, <2>1 DEF Place
<1>4. CASE c.kind = "add"
  <2>1. o = [doc |-> Mutated(d, InsertAt(d.recs, d.cursor + 1, c.rec), d.cursor + 1, TRUE), from |-> d.cursor]
    BY <1>4 DEF Edited
  <2>2. o.from # -1 /\ o.doc = Mutated(d, InsertAt(d.recs, d.cursor + 1, c.rec), d.cursor + 1, TRUE)
    BY <1>1, <2>1
  <2>3. o.doc.rev = d.rev + 1
    BY <1>1, <2>2 DEF Mutated, Docs
  <2>. QED
    BY <2>2, <2>3
<1>5. CASE c.kind = "reedit"
  <2>1. o = [doc |-> Mutated(d, d.recs, d.cursor, TRUE), from |-> Place(d, c.rec) - 1]
    BY <1>5 DEF Edited
  <2>2. o.from # -1 /\ o.doc = Mutated(d, d.recs, d.cursor, TRUE)
    BY <1>1, <1>3, <1>5, <2>1
  <2>3. o.doc.rev = d.rev + 1
    BY <1>1, <2>2 DEF Mutated, Docs
  <2>. QED
    BY <2>2, <2>3
<1>6. CASE c.kind = "remove"
  <2>. DEFINE i == Place(d, c.rec)  cursor == IF i <= d.cursor THEN d.cursor - 1 ELSE d.cursor
  <2>1. o = [doc |-> Mutated(d, RemoveAt(d.recs, i), cursor, TRUE), from |-> i - 1]
    BY <1>6 DEF Edited
  <2>2. o.from # -1 /\ o.doc = Mutated(d, RemoveAt(d.recs, i), cursor, TRUE)
    BY <1>1, <1>3, <1>6, <2>1
  <2>3. o.doc.rev = d.rev + 1
    BY <1>1, <2>2 DEF Mutated, Docs
  <2>. QED
    BY <2>2, <2>3
<1>7. CASE c.kind = "roll"
  <2>1. PICK k \in {k \in 1 .. Len(d.recs) : "no_regen" \in Rare \/ k # d.cursor} :
          o = [doc |-> Mutated(d, d.recs, k, TRUE), from |-> IF k = d.cursor THEN -1 ELSE 0]
    BY <1>7 DEF Edited
  <2>2. o.doc = Mutated(d, d.recs, k, TRUE) /\ (o.from = -1 => "no_regen" \in Rare)
    BY <2>1
  <2>3. o.doc.rev = d.rev + 1
    BY <1>1, <2>2 DEF Mutated, Docs
  <2>. QED
    BY <1>7, <2>2, <2>3 DEF AsksNothing
<1>8. CASE c.kind = "variable"
  <2>1. o = [doc |-> Mutated(d, d.recs, d.cursor, d.recs # <<>>), from |-> IF d.recs = <<>> THEN -1 ELSE 0]
    BY <1>8 DEF Edited
  <2>2. o.doc = Mutated(d, d.recs, d.cursor, d.recs # <<>>) /\ (o.from = -1 => d.recs = <<>>)
    BY <2>1
  <2>3. o.doc.rev = d.rev + 1 /\ o.doc.recs = d.recs
    BY <1>1, <2>2, MutatedRises
  <2>. QED
    BY <1>8, <2>2, <2>3 DEF AsksNothing
<1>9. CASE c.kind = "rename"
  <2>1. o = [doc |-> Mutated(d, d.recs, d.cursor, FALSE), from |-> -1]
    BY <1>9 DEF Edited
  <2>2. o.doc = Mutated(d, d.recs, d.cursor, FALSE)
    BY <2>1
  <2>3. o.doc.rev = d.rev + 1
    BY <1>1, <2>2 DEF Mutated, Docs
  <2>. QED
    BY <1>9, <2>3 DEF AsksNothing
<1>10. CASE c.kind = "undo"
  <2>1. o.doc.rev \in {d.rev, d.rev + 1}
    <3>1. CASE d.past = <<>>
      <4>1. o = [doc |-> d, from |-> -1]
        BY <1>10, <3>1 DEF Edited
      <4>. QED
        BY <4>1
    <3>2. CASE d.past # <<>>
      <4>. DEFINE was == Last(d.past)  past == Front(d.past)
      <4>1. o.doc = [d EXCEPT !.rev = @ + 1, !.recs = was.recs, !.cursor = was.cursor, !.status = Dirty, !.past = past]
        BY <1>10, <3>2 DEF Edited
      <4>. HIDE DEF was, past
      <4>. QED
        BY <1>1, <4>1 DEF Docs
    <3>. QED
      BY <3>1, <3>2
  <2>. QED
    BY <1>10, <2>1 DEF AsksNothing
<1>. QED
  BY <1>2, <1>4, <1>5, <1>6, <1>7, <1>8, <1>9, <1>10

-----------------------------------------------------------------------------
(* Reports come to the queue.                                              *)

(* What an event settles is still settled by it when others come behind.   *)
LEMMA ComesStays ==
    ASSUME KindInv, NEW new \in Seq(Events), events' = events \o new, NEW c
    PROVE  /\ Comes(c) => \E k \in DOMAIN events' : Coming(events'[k], c)
           /\ (\E m \in DOMAIN new : Coming(new[m], c)) => \E k \in DOMAIN events' : Coming(events'[k], c)
<1>1. /\ \A k \in DOMAIN events : k \in DOMAIN events' /\ events'[k] = events[k]
      /\ \A m \in DOMAIN new : Len(events) + m \in DOMAIN events' /\ events'[Len(events) + m] = new[m]
  BY QueueParts
<1>. QED
  BY <1>1 DEF Comes

(* The changes among the reports are of the document as it is.             *)
ChangesNow(new) ==
    \A m \in DOMAIN new : new[m].type = "change" => m = 1 /\ new[m].inst = doc.inst /\ new[m].rev = doc.rev

(* Reports appended to the queue keep the order of changes, if the only    *)
(* change among them comes first and is of the open document as it is.     *)
LEMMA RiseGrows ==
    ASSUME KindInv, RiseInv, doc'.inst = doc.inst, doc'.rev \in {doc.rev, doc.rev + 1},
           NEW new \in Seq(Events), events' = events \o new, ChangesNow(new)
    PROVE  RiseInv'
<1>0. doc.inst \in Nat /\ doc.rev \in Nat
  BY JobIs
<1>1. /\ DOMAIN events \subseteq Nat \ {0} /\ DOMAIN new \subseteq Nat \ {0} /\ Len(events) \in Nat
      /\ \A k \in DOMAIN events : events'[k] = events[k] /\ k <= Len(events)
      /\ \A k \in DOMAIN events' :
           k \in DOMAIN events \/ \E m \in DOMAIN new : k = Len(events) + m /\ events'[k] = new[m]
  BY QueueParts
<1>2. ASSUME NEW k \in DOMAIN events' PROVE IsChange(k)' <=> events'[k].type = "change"
  BY DEF IsChange
<1>3. ASSUME NEW k \in DOMAIN events', k \notin DOMAIN events, IsChange(k)'
      PROVE  k = Len(events) + 1 /\ events'[k].inst = doc.inst /\ events'[k].rev = doc.rev
  <2>1. PICK m \in DOMAIN new : k = Len(events) + m /\ events'[k] = new[m]
    BY <1>1, <1>3
  <2>. QED
    BY <1>2, <1>3, <2>1 DEF ChangesNow
<1>4. ASSUME NEW k \in DOMAIN events, IsChange(k)
      PROVE  /\ events[k].inst \in Nat /\ events[k].rev \in Nat /\ events[k].inst <= doc.inst
             /\ events[k].inst = doc.inst => events[k].rev <= doc.rev
  <2>1. events[k] \in Events /\ events[k].type = "change"
    BY <1>4, SeqIs DEF KindInv, IsChange
  <2>2. events[k] \in Changes
    BY <2>1, EventIs
  <2>. QED
    BY <1>4, <2>2 DEF RiseInv, Changes
<1>5. ASSUME NEW k \in DOMAIN events', k \in DOMAIN events
      PROVE  events'[k] = events[k] /\ (IsChange(k)' <=> IsChange(k))
  BY <1>1, <1>5 DEF IsChange
<1>6. ASSUME NEW k \in DOMAIN events', IsChange(k)'
      PROVE  events'[k].inst <= doc'.inst /\ (events'[k].inst = doc'.inst => events'[k].rev <= doc'.rev)
  <2>1. CASE k \in DOMAIN events
    <3>1. events[k].inst <= doc.inst /\ (events[k].inst = doc.inst => events[k].rev <= doc.rev)
          /\ events[k].rev \in Nat /\ events'[k] = events[k]
      BY <1>4, <1>5, <1>6, <2>1
    <3>. QED
      BY <1>0, <3>1
  <2>2. CASE k \notin DOMAIN events
    BY <1>0, <1>3, <1>6, <2>2
  <2>. QED
    BY <2>1, <2>2
<1>7. ASSUME NEW k \in DOMAIN events', NEW m \in DOMAIN events', k < m, IsChange(k)', IsChange(m)'
      PROVE  /\ events'[k].inst <= events'[m].inst
             /\ events'[k].inst = events'[m].inst => events'[k].rev <= events'[m].rev
  <2>1. CASE k \in DOMAIN events /\ m \in DOMAIN events
    BY <1>5, <1>7, <2>1 DEF RiseInv
  <2>2. CASE k \in DOMAIN events /\ m \notin DOMAIN events
    <3>1. IsChange(k) /\ events'[k] = events[k]
      BY <1>5, <1>7, <2>2
    <3>2. events'[m].inst = doc.inst /\ events'[m].rev = doc.rev
      BY <1>3, <1>7, <2>2
    <3>. QED
      BY <1>4, <2>2, <3>1, <3>2
  <2>3. CASE k \notin DOMAIN events
    <3>1. k = Len(events) + 1
      BY <1>3, <1>7, <2>3
    <3>2. CASE m \in DOMAIN events
      <4>1. m <= Len(events) /\ m \in Nat
        BY <1>1, <3>2
      <4>. QED
        BY <1>1, <1>7, <3>1, <4>1
    <3>3. CASE m \notin DOMAIN events
      <4>1. m = Len(events) + 1
        BY <1>3, <1>7, <3>3
      <4>. QED
        BY <1>1, <1>7, <3>1, <4>1
    <3>. QED
      BY <3>2, <3>3
  <2>. QED
    BY <2>1, <2>2, <2>3
<1>. QED
  BY <1>6, <1>7 DEF RiseInv

(* What was owed stays owed when reports come, if the scheduler still      *)
(* calls or has reported.                                                  *)
LEMMA OwedByReports ==
    ASSUME KindInv, OwedInv, OpensStay, doc'.inst = doc.inst, doc'.rev = doc.rev, cmds' = cmds, last' = last,
           NEW new \in Seq(Events), events' = events \o new, ChangesNow(new),
           \A i \in DOMAIN cmds :
             Owed(cmds[i]) /\ cmds[i].answer.inst = doc.inst /\ cmds[i].answer.view.rev <= doc.rev
               /\ Calls(sched, cmds[i]) => Calls(sched', cmds[i]) \/ \E m \in DOMAIN new : Coming(new[m], cmds[i])
    PROVE  OwedInv'
<1>. SUFFICES ASSUME NEW i \in DOMAIN cmds', Owed(cmds[i]), OpenUnanswered = {}
              PROVE  /\ cmds[i].answer.inst = doc'.inst /\ cmds[i].answer.view.rev <= doc'.rev
                     /\ Calls(sched', cmds[i]) \/ Comes(cmds[i])' \/ HeardOf(cmds[i])'
  <2>1. OpenUnanswered' = OpenUnanswered
    BY DEF OpensStay
  <2>2. \A i \in DOMAIN cmds : cmds[i].phase = "waiting" => Owed(cmds[i])
    BY DEF OwedInv
  <2>. QED
    BY <2>1, <2>2 DEF OwedInv, Owed, NoRegen, Inert, OfRecord, Calls
<1>1. /\ cmds[i].answer.inst = doc.inst /\ cmds[i].answer.view.rev <= doc.rev
      /\ Calls(sched, cmds[i]) \/ Comes(cmds[i]) \/ HeardOf(cmds[i])
  BY DEF OwedInv
<1>2. (\E k \in DOMAIN events' : Coming(events'[k], cmds[i])) => Comes(cmds[i])'
  BY DEF Comes, Coming, SettlesOnFinish, OfRecord
<1>3. CASE Calls(sched, cmds[i])
  BY <1>1, <1>2, <1>3, ComesStays
<1>4. CASE Comes(cmds[i])
  BY <1>1, <1>2, <1>4, ComesStays
<1>5. CASE HeardOf(cmds[i])
  <2>1. ASSUME NEW k \in DOMAIN events', events'[k].type = "change"
        PROVE  events'[k].rev >= cmds[i].answer.view.rev
    <3>1. CASE k \in DOMAIN events /\ events'[k] = events[k]
      BY <1>5, <2>1, <3>1 DEF HeardOf, IsChange
    <3>2. CASE \E m \in DOMAIN new : events'[k] = new[m]
      <4>1. events'[k].rev = doc.rev
        BY <2>1, <3>2 DEF ChangesNow
      <4>2. doc.rev \in Nat /\ cmds[i].answer.view.rev \in Nat
        BY JobIs, OwedIs
      <4>. QED
        BY <1>1, <4>1, <4>2
    <3>. QED
      BY <3>1, <3>2, QueueParts
  <2>2. ~SettlesOnFinish(cmds[i]) /\ cmds[i].phase = "answered" /\ last >= cmds[i].answer.view.rev
    BY <1>5 DEF HeardOf
  <2>3. HeardOf(cmds[i])'
    BY <2>1, <2>2 DEF HeardOf, IsChange, SettlesOnFinish, OfRecord
  <2>. QED
    BY <1>1, <2>3
<1>. QED
  BY <1>1, <1>3, <1>4, <1>5

-----------------------------------------------------------------------------
(* The scheduler and the driver.                                           *)

(* The initial regen of a document comes.                                  *)
LEMMA EndsByGate ==
    ASSUME KindInv, EndsInv, OpensStay, GateOpens
    PROVE  EndsInv'
<1>0. CallInv /\ RiseInv /\ OwedInv
  BY DEF EndsInv
<1>1. PICK id \in sched.gate :
        LET s == [sched EXCEPT !.gate = @ \ {id}] IN sched' = IF id = doc.id THEN Request(s, 0) ELSE s
  BY DEF GateOpens
<1>. DEFINE gate == sched.gate \ {id}  s == [sched EXCEPT !.gate = gate]
<1>2. sched' = s \/ sched' = Request(s, 0)
  BY <1>1
<1>3. doc' = doc /\ events' = events /\ cmds' = cmds /\ last' = last
  BY DEF GateOpens, client
<1>4. s \in Scheds /\ s.job = sched.job /\ s.on = sched.on
  BY JobIs DEF Scheds
<1>. HIDE DEF s
<1>5. sched'.on \/ (sched'.on = sched.on /\ sched'.job = sched.job)
  BY <1>0, <1>2, <1>4, RequestCalls
<1>6. CallInv'
  <2>1. CASE sched' = s
    BY <1>0, <1>3, <1>4, <2>1 DEF CallInv
  <2>2. CASE sched' = Request(s, 0)
    <3>1. sched'.on /\ ~(sched'.job.inst = doc.inst /\ ~sched'.job.cancelled)
      BY <1>0, <1>4, <2>2, RequestCalls
    <3>. QED
      BY <1>3, <3>1 DEF CallInv
  <2>. QED
    BY <1>2, <2>1, <2>2
<1>7. RiseInv'
  BY <1>0, <1>3 DEF RiseInv, IsChange
<1>8. OwedInv'
  <2>1. <<>> \in Seq(Events) /\ events' = events \o <<>> /\ ChangesNow(<<>>)
    BY <1>3, NothingNew DEF ChangesNow
  <2>2. \A i \in DOMAIN cmds : Calls(sched, cmds[i]) => Calls(sched', cmds[i])
    BY <1>5 DEF Calls
  <2>. QED
    BY <1>0, <1>3, <2>1, <2>2, OwedByReports
<1>. QED
  BY <1>6, <1>7, <1>8 DEF EndsInv

(* A job begins, for the document as it is.                                *)
LEMMA EndsByBegin ==
    ASSUME KindInv, EndsInv, OpensStay, Begin
    PROVE  EndsInv'
<1>0. CallInv /\ RiseInv /\ OwedInv
  BY DEF EndsInv
<1>1. /\ doc' = doc /\ cmds' = cmds /\ last' = last
      /\ sched' = [sched EXCEPT !.on = FALSE, !.job = [inst |-> doc.inst, source |-> doc.rev, cancelled |-> FALSE]]
  BY DEF Begin, client
<1>2. PICK e \in Starts : events' = Append(events, e)
  BY BeginKind
<1>3. sched'.job.inst = doc.inst /\ sched'.job.source = doc.rev /\ sched'.job.cancelled = FALSE
  BY <1>1, JobIs DEF Scheds
<1>4. CallInv'
  BY <1>1, <1>3 DEF CallInv
<1>5. <<e>> \in Seq(Events) /\ events' = events \o <<e>> /\ ChangesNow(<<e>>)
  <2>1. e \in Events /\ e.type = "started"
    BY DEF Starts, Events
  <2>. QED
    BY <1>2, <2>1, OneNew DEF ChangesNow
<1>6. RiseInv'
  BY <1>0, <1>1, <1>5, RiseGrows
<1>7. \A i \in DOMAIN cmds : cmds[i].answer.inst = doc.inst /\ cmds[i].answer.view.rev <= doc.rev /\ Owed(cmds[i]) =>
         Calls(sched', cmds[i])
  <2>. SUFFICES ASSUME NEW i \in DOMAIN cmds, cmds[i].answer.inst = doc.inst, cmds[i].answer.view.rev <= doc.rev,
                       Owed(cmds[i])
                PROVE  Calls(sched', cmds[i])
    OBVIOUS
  <2>1. cmds[i].answer.view.rev \in Nat /\ doc.rev \in Nat
    BY OwedIs, JobIs
  <2>. QED
    BY <1>3, <2>1 DEF Calls
<1>8. OwedInv'
  BY <1>0, <1>1, <1>5, <1>7, OwedByReports
<1>. QED
  BY <1>4, <1>6, <1>8 DEF EndsInv

(* The end of a job, or the answer that there was nothing to do.           *)
LEMMA ReportsEnd ==
    ASSUME KindInv, NEW d, DocKind(d), NEW job, job.inst \in Nat, job.source \in Nat,
           NEW outcome \in Outcomes, outcome # "published",
           NEW a, a = ProjectionEvent(d), NEW b, b = Finished(d, job, outcome, {}, {}, {})
    PROVE  /\ <<a, b>> \in Seq(Events) /\ ChangesNow(<<a, b>>)
           /\ b.type = "finished" /\ b.inst = job.inst /\ b.source = job.source /\ b.outcome = outcome
<1>1. a.type = "projection" /\ a \in Events
  BY ProjectionKind DEF Events
<1>2. b \in Finishes /\ b.type = "finished" /\ b.inst = job.inst /\ b.source = job.source /\ b.outcome = outcome
  <2>. DEFINE none == {}
  <2>1. b = Finished(d, job, outcome, none, none, none) /\ none \in SUBSET Records
    OBVIOUS
  <2>2. DocKind(d) /\ outcome \in Outcomes /\ job.inst \in Nat /\ job.source \in Nat
    OBVIOUS
  <2>. HIDE DEF none
  <2>. QED
    BY ONLY <2>1, <2>2, FinishSays
<1>. QED
  BY <1>1, <1>2 DEF Events, ChangesNow

(* A regen with nothing to do reports that it finished, at the revision of *)
(* the document, and so settles whatever waited for it.                    *)
LEMMA EndsByNothing ==
    ASSUME KindInv, EndsInv, OpensStay, BeginNothing
    PROVE  EndsInv'
<1>0. CallInv /\ RiseInv /\ OwedInv /\ DocKind(doc)
  BY DEF EndsInv, KindInv
<1>. DEFINE job == [inst |-> doc.inst, source |-> doc.rev]  a == ProjectionEvent(doc)
            b == Finished(doc, job, "noop", {}, {}, {})  new == <<a, b>>
<1>1. /\ doc' = doc /\ cmds' = cmds /\ last' = last /\ sched.job = NoJob
      /\ sched' = [sched EXCEPT !.on = FALSE] /\ events' = events \o new
  BY DEF BeginNothing, client
<1>2. sched'.job = sched.job /\ sched.job.inst # doc.inst /\ sched.job.cancelled = FALSE
  BY <1>1, JobIs DEF Scheds
<1>3. CallInv'
  BY <1>1, <1>2 DEF CallInv
<1>4. job.inst = doc.inst /\ job.source = doc.rev /\ job.inst \in Nat /\ job.source \in Nat /\ "noop" \in Outcomes
  BY JobIs DEF Outcomes
<1>5. a = ProjectionEvent(doc) /\ b = Finished(doc, job, "noop", {}, {}, {}) /\ new = <<a, b>>
  OBVIOUS
<1>. HIDE DEF job, a, b, new
<1>6. /\ new \in Seq(Events) /\ ChangesNow(new) /\ DOMAIN new = {1, 2} /\ new[2] = b
      /\ b.type = "finished" /\ b.inst = doc.inst /\ b.source = doc.rev /\ b.outcome = "noop"
  BY <1>0, <1>4, <1>5, ReportsEnd
<1>7. RiseInv'
  BY <1>0, <1>1, <1>6, RiseGrows
<1>8. ASSUME NEW i \in DOMAIN cmds, Owed(cmds[i]), cmds[i].answer.inst = doc.inst, cmds[i].answer.view.rev <= doc.rev
      PROVE  \E m \in DOMAIN new : Coming(new[m], cmds[i])
  <2>1. cmds[i].answer.view.rev \in Nat /\ doc.rev \in Nat
    BY <1>8, OwedIs, JobIs
  <2>2. Coming(b, cmds[i])
    BY <1>6, <1>8, <2>1 DEF Coming
  <2>. QED
    BY <1>6, <2>2
<1>9. OwedInv'
  BY <1>0, <1>1, <1>6, <1>8, OwedByReports
<1>. QED
  BY <1>3, <1>7, <1>9 DEF EndsInv

(* A job ends without a publication: one that was not cancelled is for the *)
(* document as it is, and failed.                                          *)
LEMMA EndsByUnpublished ==
    ASSUME KindInv, EndsInv, OpensStay, Unpublished
    PROVE  EndsInv'
<1>0. CallInv /\ RiseInv /\ OwedInv /\ DocKind(doc)
  BY DEF EndsInv, KindInv
<1>1. PICK outcome \in {"superseded", "cancelled", "failed", "abandoned"} :
        /\ outcome = "superseded" => ~Current
        /\ outcome \in {"cancelled", "abandoned"} => sched.job.cancelled
        /\ events' = IF outcome = "abandoned" THEN events
                     ELSE events \o <<ProjectionEvent(doc), Finished(doc, sched.job, outcome, {}, {}, {})>>
        /\ JobEnds
  BY DEF Unpublished
<1>2. /\ doc' = doc /\ cmds' = cmds /\ last' = last /\ sched' = [sched EXCEPT !.job = NoJob]
  BY <1>1, UnpublishedKind DEF JobEnds
<1>3. sched'.job = NoJob /\ sched'.on = sched.on
  BY <1>2, JobIs DEF Scheds
<1>4. CallInv'
  <2>1. NoJob.inst = 0 /\ NoJob.cancelled = FALSE
    BY DEF NoJob
  <2>2. doc.inst >= 1 /\ doc.inst \in Nat
    BY JobIs
  <2>. QED
    BY <1>2, <1>3, <2>1, <2>2 DEF CallInv
<1>5. ASSUME NEW i \in DOMAIN cmds, cmds[i].answer.inst = doc.inst, Calls(sched, cmds[i]), ~Calls(sched', cmds[i])
      PROVE  /\ outcome = "failed" /\ sched.job.inst = cmds[i].answer.inst
             /\ sched.job.source >= cmds[i].answer.view.rev
  <2>1. ~sched.on
    BY <1>3, <1>5 DEF Calls
  <2>2. /\ sched.job.inst = cmds[i].answer.inst /\ sched.job.source >= cmds[i].answer.view.rev
        /\ ~sched.job.cancelled
    BY <1>5, <2>1 DEF Calls
  <2>3. Current
    BY <1>0, <1>5, <2>2 DEF CallInv, Current
  <2>. QED
    BY <1>1, <2>2, <2>3
<1>6. CASE outcome = "abandoned"
  <2>1. <<>> \in Seq(Events) /\ events' = events \o <<>> /\ ChangesNow(<<>>)
    BY <1>1, <1>6, NothingNew DEF ChangesNow
  <2>2. RiseInv'
    BY <1>0, <1>2, <2>1, RiseGrows
  <2>3. OwedInv'
    BY <1>0, <1>2, <1>5, <1>6, <2>1, OwedByReports
  <2>. QED
    BY <1>4, <2>2, <2>3 DEF EndsInv
<1>7. CASE outcome # "abandoned"
  <2>. DEFINE a == ProjectionEvent(doc)  b == Finished(doc, sched.job, outcome, {}, {}, {})  new == <<a, b>>
  <2>1. events' = events \o new
    BY <1>1, <1>7
  <2>2. outcome \in Outcomes /\ outcome # "published" /\ sched.job.inst \in Nat /\ sched.job.source \in Nat
    BY <1>7, JobIs DEF Outcomes
  <2>3. a = ProjectionEvent(doc) /\ b = Finished(doc, sched.job, outcome, {}, {}, {}) /\ new = <<a, b>>
    OBVIOUS
  <2>. HIDE DEF a, b, new
  <2>4. /\ new \in Seq(Events) /\ ChangesNow(new) /\ DOMAIN new = {1, 2} /\ new[2] = b
        /\ b.type = "finished" /\ b.inst = sched.job.inst /\ b.source = sched.job.source /\ b.outcome = outcome
    BY <1>0, <2>2, <2>3, ReportsEnd
  <2>5. RiseInv'
    BY <1>0, <1>2, <2>1, <2>4, RiseGrows
  <2>6. ASSUME NEW i \in DOMAIN cmds, cmds[i].answer.inst = doc.inst, Calls(sched, cmds[i]), ~Calls(sched', cmds[i])
        PROVE  \E m \in DOMAIN new : Coming(new[m], cmds[i])
    <3>1. outcome = "failed" /\ b.inst = cmds[i].answer.inst /\ b.source >= cmds[i].answer.view.rev
      BY <1>5, <2>4, <2>6
    <3>2. Coming(b, cmds[i])
      BY <2>4, <3>1 DEF Coming
    <3>. QED
      BY <2>4, <3>2
  <2>7. OwedInv'
    BY <1>0, <1>2, <2>1, <2>4, <2>6, OwedByReports
  <2>. QED
    BY <1>4, <2>5, <2>7 DEF EndsInv
<1>. QED
  BY <1>6, <1>7

(* A regen is published: its change settles what is of no record, its end  *)
(* the others.                                                             *)
LEMMA PublishSays ==
    ASSUME KindInv, Publish
    PROVE  /\ sched.job.inst = doc.inst /\ sched.job.source = doc.rev
           /\ doc'.inst = doc.inst /\ doc'.rev = doc.rev /\ cmds' = cmds /\ last' = last
           /\ sched' = [sched EXCEPT !.job = NoJob]
           /\ \E a, b, c \in Events :
                /\ events' = events \o <<a, b, c>>
                /\ a.type = "change" /\ a.inst = doc.inst /\ a.rev = doc.rev /\ b.type = "projection"
                /\ c.type = "finished" /\ c.inst = doc.inst /\ c.source = doc.rev /\ c.outcome = "published"
<1>0. DocKind(doc) /\ doc \in Docs
  BY DEF KindInv, DocKind
<1>1. PICK k \in 1 .. doc.cursor + 1, how \in {"error", "needsRepair"} :
        LET at(r) == Place(doc, r)
            ran == {r \in Applied(doc) : at(r) < k}
            halted == {r \in Applied(doc) : at(r) = k}
            status == [r \in Records |-> IF r \in ran THEN "ok" ELSE IF r \in halted THEN how ELSE "dirty"]
            d == [doc EXCEPT !.status = status, !.snap = <<doc.inst, doc.rev>>, !.shown = ran # {}]
            only(h) == IF how = h THEN halted ELSE {}
        IN /\ sched.job # NoJob /\ Current
           /\ "past_halt" \in Rare \/ k >= doc.cursor
           /\ halted = {} => how = "error"
           /\ doc' = d
           /\ events' = events \o <<[type |-> "change", inst |-> d.inst, rev |-> d.rev, snap |-> d.snap],
                                   ProjectionEvent(d),
                                   Finished(d, sched.job, "published", ran, only("error"), only("needsRepair"))>>
           /\ JobEnds
  BY DEF Publish
<1>. DEFINE ran == {r \in Applied(doc) : Place(doc, r) < k}
            halted == {r \in Applied(doc) : Place(doc, r) = k}
            only(h) == IF how = h THEN halted ELSE {}
            bad == only("error")  repair == only("needsRepair")
            a == [type |-> "change", inst |-> doc'.inst, rev |-> doc'.rev, snap |-> doc'.snap]
            b == ProjectionEvent(doc')
            c == Finished(doc', sched.job, "published", ran, bad, repair)
            new == <<a, b, c>>
<1>2. /\ sched.job.inst = doc.inst /\ sched.job.source = doc.rev
      /\ doc' = [doc EXCEPT !.status = [r \in Records |-> IF r \in ran THEN "ok" ELSE IF r \in halted THEN how
                                                           ELSE "dirty"],
                            !.snap = <<doc.inst, doc.rev>>, !.shown = ran # {}]
      /\ events' = events \o new
      /\ cmds' = cmds /\ last' = last /\ sched' = [sched EXCEPT !.job = NoJob]
  BY <1>1 DEF Current, JobEnds, client
<1>3. ran \subseteq Records /\ bad \subseteq Records /\ repair \subseteq Records
  <2>1. Applied(doc) \subseteq Records
    <3>1. doc.recs \in Seq(Records) /\ doc.cursor \in Nat /\ doc.cursor <= Len(doc.recs)
      BY <1>0 DEF Docs, DocKind
    <3>. QED
      BY <3>1, SeqIs DEF Applied
  <2>. QED
    BY <2>1
<1>. HIDE DEF ran, halted, only, bad, repair
<1>4. doc'.inst = doc.inst /\ doc'.rev = doc.rev
  BY <1>0, <1>2 DEF Docs
<1>5. DocKind(doc')
  BY StepKind DEF Next, KindInv
<1>6. a \in Events /\ a.type = "change" /\ a.inst = doc.inst /\ a.rev = doc.rev
  <2>1. a \in Changes
    BY <1>5 DEF Changes, DocKind, Docs
  <2>. QED
    BY <1>4, <2>1 DEF Events
<1>7. b.type = "projection" /\ b \in Events
  BY <1>5, ProjectionKind DEF Events
<1>8. c \in Events /\ c.type = "finished" /\ c.inst = doc.inst /\ c.source = doc.rev /\ c.outcome = "published"
  <2>1. sched.job.inst \in Nat /\ sched.job.source \in Nat /\ "published" \in Outcomes
    BY JobIs DEF Outcomes
  <2>2. c = Finished(doc', sched.job, "published", ran, bad, repair)
    OBVIOUS
  <2>. HIDE DEF c
  <2>3. /\ c \in Finishes /\ c.type = "finished" /\ c.inst = sched.job.inst
        /\ c.source = sched.job.source /\ c.outcome = "published"
    BY ONLY <1>3, <1>5, <2>1, <2>2, FinishSays
  <2>. QED
    BY <1>2, <2>3 DEF Events
<1>. HIDE DEF a, b, c
<1>. QED
  BY <1>2, <1>4, <1>6, <1>7, <1>8

(* A regen that ends reports a change, a projection and its end: whatever  *)
(* was asked before it began is settled by one of them, and what was asked *)
(* since has its own request.                                              *)
LEMMA EndsByPublish ==
    ASSUME KindInv, EndsInv, OpensStay, Publish
    PROVE  EndsInv'
<1>0. CallInv /\ RiseInv /\ OwedInv
  BY DEF EndsInv
<1>1. /\ sched.job.inst = doc.inst /\ sched.job.source = doc.rev
      /\ doc'.inst = doc.inst /\ doc'.rev = doc.rev /\ cmds' = cmds /\ last' = last
      /\ sched' = [sched EXCEPT !.job = NoJob]
  BY PublishSays
<1>2. PICK a \in Events, b \in Events, c \in Events :
        /\ events' = events \o <<a, b, c>>
        /\ a.type = "change" /\ a.inst = doc.inst /\ a.rev = doc.rev /\ b.type = "projection"
        /\ c.type = "finished" /\ c.inst = doc.inst /\ c.source = doc.rev /\ c.outcome = "published"
  BY PublishSays
<1>. DEFINE new == <<a, b, c>>
<1>3. new \in Seq(Events) /\ events' = events \o new /\ DOMAIN new = {1, 2, 3} /\ new[1] = a /\ new[2] = b /\ new[3] = c
  BY <1>2
<1>. HIDE DEF new
<1>4. ChangesNow(new)
  BY <1>2, <1>3 DEF ChangesNow
<1>5. sched'.job = NoJob
  BY <1>1, JobIs DEF Scheds
<1>6. CallInv'
  <2>1. NoJob.inst = 0 /\ NoJob.cancelled = FALSE
    BY DEF NoJob
  <2>2. doc.inst >= 1 /\ doc.inst \in Nat
    BY JobIs
  <2>. QED
    BY <1>1, <1>5, <2>1, <2>2 DEF CallInv
<1>7. RiseInv'
  BY <1>0, <1>1, <1>3, <1>4, RiseGrows
<1>8. ASSUME NEW i \in DOMAIN cmds, Owed(cmds[i]), cmds[i].answer.inst = doc.inst, cmds[i].answer.view.rev <= doc.rev
      PROVE  \E m \in DOMAIN new : Coming(new[m], cmds[i])
  <2>1. cmds[i].answer.view.rev \in Nat /\ doc.rev \in Nat
    BY <1>8, OwedIs, JobIs
  <2>2. Coming(a, cmds[i]) \/ Coming(c, cmds[i])
    BY <1>2, <1>8, <2>1 DEF Coming
  <2>. QED
    BY <1>3, <2>2
<1>9. OwedInv'
  BY <1>0, <1>1, <1>3, <1>4, <1>8, OwedByReports
<1>. QED
  BY <1>6, <1>7, <1>9 DEF EndsInv

-----------------------------------------------------------------------------
(* The commands: what is owed after a step that brings no reports.         *)

(* One more event that is no change.                                       *)
LEMMA OneReport ==
    ASSUME KindInv, NEW e \in ProjectionEvents, events' = Append(events, e)
    PROVE  <<e>> \in Seq(Events) /\ events' = events \o <<e>> /\ ChangesNow(<<e>>)
<1>1. e \in Events /\ e.type = "projection"
  BY DEF ProjectionEvents, Events
<1>. QED
  BY <1>1, OneNew DEF ChangesNow

(* What is owed of one command, wherever the others are.                   *)
Settles(i) ==
    /\ cmds[i].phase = "waiting" => Owed(cmds[i])
    /\ Owed(cmds[i]) /\ OpenUnanswered = {} =>
         /\ cmds[i].answer.inst = doc.inst /\ cmds[i].answer.view.rev <= doc.rev
         /\ Calls(sched, cmds[i]) \/ Comes(cmds[i]) \/ HeardOf(cmds[i])

(* A command that is as it was, while a projection is added.               *)
LEMMA SettlesStays ==
    ASSUME KindInv, OwedInv, OpensStay, doc'.inst = doc.inst, doc'.rev \in {doc.rev, doc.rev + 1}, last' = last,
           \/ events' = events
           \/ \E e \in ProjectionEvents : events' = Append(events, e),
           sched' = sched \/ sched'.on,
           NEW i \in DOMAIN cmds, cmds'[i] = cmds[i]
    PROVE  Settles(i)'
<1>1. PICK new \in Seq(Events) :
          events' = events \o new /\ ChangesNow(new) /\ \A m \in DOMAIN new : new[m].type # "change"
  <2>1. CASE events' = events
    BY <2>1, NothingNew DEF ChangesNow
  <2>2. CASE \E e \in ProjectionEvents : events' = Append(events, e)
    <3>1. PICK e \in ProjectionEvents : events' = Append(events, e)
      BY <2>2
    <3>. DEFINE new == <<e>>
    <3>2. new \in Seq(Events) /\ events' = events \o new /\ ChangesNow(new)
      BY <3>1, OneReport
    <3>3. \A m \in DOMAIN new : new[m].type # "change"
      BY DEF ProjectionEvents
    <3>. HIDE DEF new
    <3>. QED
      BY <3>2, <3>3
  <2>. QED
    BY <2>1, <2>2
<1>2. Settles(i) /\ OpenUnanswered' = OpenUnanswered
  BY DEF OwedInv, Settles, OpensStay
<1>. SUFFICES ASSUME Owed(cmds[i]), OpenUnanswered = {}
              PROVE  /\ cmds[i].answer.inst = doc'.inst /\ cmds[i].answer.view.rev <= doc'.rev
                     /\ Calls(sched', cmds[i]) \/ Comes(cmds[i])' \/ HeardOf(cmds[i])'
  BY <1>2 DEF Settles, Owed, NoRegen, Inert, OfRecord, Calls
<1>3. /\ cmds[i].answer.inst = doc.inst /\ cmds[i].answer.view.rev <= doc.rev
      /\ Calls(sched, cmds[i]) \/ Comes(cmds[i]) \/ HeardOf(cmds[i])
  BY <1>2 DEF Settles
<1>4. cmds[i].answer.inst = doc'.inst /\ cmds[i].answer.view.rev <= doc'.rev
  <2>1. cmds[i].answer.view.rev \in Nat /\ doc.rev \in Nat
    BY OwedIs, JobIs
  <2>. QED
    BY <1>3, <2>1
<1>5. Calls(sched, cmds[i]) => Calls(sched', cmds[i])
  BY DEF Calls
<1>6. Comes(cmds[i]) => Comes(cmds[i])'
  <2>1. Comes(cmds[i]) => \E k \in DOMAIN events' : Coming(events'[k], cmds[i])
    BY <1>1, ComesStays
  <2>. QED
    BY <2>1 DEF Comes, Coming, SettlesOnFinish, OfRecord
<1>7. HeardOf(cmds[i]) => HeardOf(cmds[i])'
  <2>1. \A k \in DOMAIN events' : events'[k].type = "change" => k \in DOMAIN events /\ events'[k] = events[k]
    BY <1>1, QueueParts
  <2>. QED
    BY <2>1 DEF HeardOf, IsChange, SettlesOnFinish, OfRecord
<1>. QED
  BY <1>3, <1>4, <1>5, <1>6, <1>7

(* A command is given.                                                     *)
LEMMA EndsBySend ==
    ASSUME KindInv, EndsInv, OpensStay, Send
    PROVE  EndsInv'
<1>0. CallInv /\ RiseInv /\ OwedInv
  BY DEF EndsInv
<1>1. doc' = doc /\ sched' = sched /\ events' = events /\ last' = last
  BY DEF Send, client
<1>2. PICK c \in Cmds : c.phase = "sent" /\ cmds' = Append(cmds, c)
  BY SendKind
<1>3. cmds \in Seq(Cmds)
  BY DEF KindInv
<1>4. DOMAIN cmds' = 1 .. Len(cmds) + 1 /\ DOMAIN cmds = 1 .. Len(cmds) /\ Len(cmds) \in Nat
      /\ \A i \in DOMAIN cmds : cmds'[i] = cmds[i]
  BY <1>2, <1>3, QueueGrowsByOne, SeqIs
<1>5. cmds'[Len(cmds) + 1] = c
  BY <1>2, <1>3, QueueGrowsByOne
<1>6. doc'.rev \in {doc.rev, doc.rev + 1}
  BY <1>1
<1>7. ASSUME NEW i \in DOMAIN cmds' PROVE Settles(i)'
  <2>1. CASE i \in DOMAIN cmds
    BY <1>0, <1>1, <1>4, <1>6, <2>1, SettlesStays
  <2>2. CASE i = Len(cmds) + 1
    BY <1>2, <1>5, <2>2 DEF Settles, Owed
  <2>. QED
    BY <1>4, <2>1, <2>2
<1>8. OwedInv'
  BY <1>7 DEF OwedInv, Settles
<1>9. CallInv' /\ RiseInv'
  BY <1>0, <1>1 DEF CallInv, RiseInv, IsChange
<1>. QED
  BY <1>8, <1>9 DEF EndsInv

(* A command is refused: nothing is owed to it.                            *)
LEMMA EndsByRefuse ==
    ASSUME KindInv, EndsInv, OpensStay, Refuse
    PROVE  EndsInv'
<1>0. CallInv /\ RiseInv /\ OwedInv
  BY DEF EndsInv
<1>1. doc' = doc /\ sched' = sched /\ events' = events /\ last' = last
  BY DEF Refuse, client
<1>. DEFINE i == Next1("sent")
<1>2. /\ i \in DOMAIN cmds /\ DOMAIN cmds' = DOMAIN cmds
      /\ \A j \in DOMAIN cmds : j # i => cmds'[j] = cmds[j]
      /\ cmds'[i].phase = "answered" /\ ~cmds'[i].answer.ok
  BY RefuseKind
<1>. HIDE DEF i
<1>3. doc'.rev \in {doc.rev, doc.rev + 1} /\ doc'.inst = doc.inst
  BY <1>1
<1>4. ASSUME NEW j \in DOMAIN cmds PROVE Settles(j)'
  <2>1. CASE j = i
    BY <1>2, <2>1 DEF Settles, Owed
  <2>2. CASE j # i
    BY <1>0, <1>1, <1>2, <1>3, <2>2, SettlesStays
  <2>. QED
    BY <2>1, <2>2
<1>5. OwedInv'
  BY <1>2, <1>4 DEF OwedInv, Settles
<1>6. CallInv' /\ RiseInv'
  BY <1>0, <1>1 DEF CallInv, RiseInv, IsChange
<1>. QED
  BY <1>5, <1>6 DEF EndsInv

(* A command is handled: it asks for a regen, or is one that needs none.   *)
LEMMA EndsByHandle ==
    ASSUME "no_regen" \notin Rare, "bare_revision" \notin Rare, KindInv, EndsInv, OpensStay, Handle
    PROVE  EndsInv'
<1>0. CallInv /\ RiseInv /\ OwedInv
  BY DEF EndsInv
<1>. DEFINE i == Next1("sent")  c == cmds[i]
<1>1. /\ KindInv' /\ doc'.inst = doc.inst /\ i \in DOMAIN cmds /\ c.phase = "sent" /\ ~Opens(c)
      /\ \E e \in ProjectionEvents : events' = Append(events, e)
  BY HandleKind
<1>2. PICK o \in Edited(c, doc) :
        /\ ~Refused(c, doc)
        /\ o.from = -1 => /\ Idle \/ "bare_revision" \in Rare
                          /\ c.kind = "undo" => "no_regen" \in Rare
        /\ doc' = o.doc
        /\ sched' = IF o.from = -1 THEN sched ELSE Request(sched, o.from)
        /\ Answer(i, o.doc)
  BY DEF Handle
<1>3. last' = last
  BY DEF Handle, client
<1>. HIDE DEF i
<1>4. DocKind(doc) /\ DocKind(doc') /\ c \in Cmds
  BY <1>1, SeqIs DEF KindInv
<1>5. doc'.rev \in {doc.rev, doc.rev + 1} /\ (o.from = -1 => AsksNothing(o, c)) /\ o.from \in Int
  <2>1. Keeps(o, doc)
    BY <1>1, <1>2, <1>4, EditedKind
  <2>. QED
    BY <1>1, <1>2, <1>4, <2>1, EditedAsks DEF Keeps
<1>6. /\ DOMAIN cmds' = DOMAIN cmds /\ \A j \in DOMAIN cmds : j # i => cmds'[j] = cmds[j]
      /\ cmds'[i].phase = "answered" /\ cmds'[i].kind = c.kind /\ cmds'[i].waits = c.waits
      /\ cmds'[i].answer = [ok |-> TRUE, inst |-> doc'.inst, view |-> Projection(doc')]
  <2>1. Answer(i, doc') /\ doc'.inst \in {doc.inst, doc.inst + 1}
    BY <1>1, <1>2
  <2>. QED
    BY <1>1, <1>4, <2>1, AnswerKind
<1>7. sched.on \in BOOLEAN /\ doc.inst \in Nat /\ doc.rev \in Nat /\ sched \in Scheds
  BY JobIs
<1>8. o.from # -1 => /\ sched'.on /\ ~(sched'.job.inst = doc.inst /\ ~sched'.job.cancelled)
  BY <1>0, <1>2, <1>5, <1>7, RequestCalls
<1>9. o.from = -1 => sched' = sched /\ sched.job = NoJob
  BY <1>2 DEF Idle
<1>10. CallInv'
  <2>1. CASE o.from = -1
    <3>1. sched'.job.inst # doc.inst /\ sched'.job.cancelled = FALSE
      BY <1>9, <2>1, JobIs
    <3>. QED
      BY <1>1, <3>1 DEF CallInv
  <2>2. CASE o.from # -1
    BY <1>1, <1>8, <2>2 DEF CallInv
  <2>. QED
    BY <2>1, <2>2
<1>11. RiseInv'
  <2>1. PICK e \in ProjectionEvents : events' = Append(events, e)
    BY <1>1
  <2>2. <<e>> \in Seq(Events) /\ events' = events \o <<e>> /\ ChangesNow(<<e>>)
    BY <2>1, OneReport
  <2>. QED
    BY <1>0, <1>1, <1>5, <2>2, RiseGrows
<1>12. ASSUME Owed(cmds'[i]) PROVE o.from # -1
  <2>1. ASSUME o.from = -1 PROVE FALSE
    <3>1. AsksNothing(o, c) /\ c.kind # "undo"
      BY <1>2, <1>5, <2>1
    <3>2. c.kind # "rename"
      <4>1. CmdKind(c, doc.inst) /\ c.waits
        BY <1>1, <1>6, <1>12 DEF KindInv, Owed
      <4>. QED
        BY <4>1 DEF CmdKind
    <3>3. c.kind = "variable" /\ o.doc.recs = <<>>
      BY <3>1, <3>2 DEF AsksNothing
    <3>4. NoRegen(cmds'[i])
      BY <1>2, <1>6, <3>3 DEF NoRegen, Projection
    <3>. QED
      BY <1>12, <3>4 DEF Owed
  <2>. QED
    BY <2>1
<1>13. ASSUME NEW j \in DOMAIN cmds PROVE Settles(j)'
  <2>1. CASE j = i
    <3>1. cmds'[i].answer.inst = doc'.inst /\ cmds'[i].answer.view.rev = doc'.rev
      BY <1>6 DEF Projection
    <3>2. doc'.rev <= doc'.rev
      BY <1>5, <1>7
    <3>3. Owed(cmds'[i]) => Calls(sched', cmds'[i])
      BY <1>8, <1>12 DEF Calls
    <3>4. cmds'[i].phase # "waiting"
      BY <1>6
    <3>. HIDE DEF c
    <3>. QED
      BY <2>1, <3>1, <3>2, <3>3, <3>4 DEF Settles, Owed, NoRegen, Inert, OfRecord, Calls
  <2>2. CASE j # i
    <3>1. sched' = sched \/ sched'.on
      BY <1>8, <1>9
    <3>. QED
      BY <1>0, <1>1, <1>3, <1>5, <1>6, <2>2, <3>1, SettlesStays
  <2>. QED
    BY <2>1, <2>2
<1>14. OwedInv'
  BY <1>6, <1>13 DEF OwedInv, Settles
<1>. QED
  BY <1>10, <1>11, <1>14 DEF EndsInv

(* Another document is opened: the answer will give up whatever waits.     *)
LEMMA EndsByOpen ==
    ASSUME KindInv, OpenInv, EndsInv, OpenDocument
    PROVE  EndsInv'
<1>0. CallInv /\ RiseInv /\ OwedInv
  BY DEF EndsInv
<1>. DEFINE i == Next1("sent")
<1>1. /\ doc'.inst = doc.inst + 1 /\ i \in DOMAIN cmds /\ DOMAIN cmds' = DOMAIN cmds
      /\ \A j \in DOMAIN cmds : j # i => cmds'[j] = cmds[j]
      /\ cmds'[i].phase = "answered"
      /\ \E e \in ProjectionEvents : events' = Append(events, e)
      /\ sched'.job = sched.job
  BY OpenKind
<1>2. OpenUnanswered' # {}
  BY OpenByOpen
<1>3. sched'.on = sched.on
  BY JobIs DEF OpenDocument, Scheds
<1>. HIDE DEF i
<1>4. doc.inst \in Nat /\ sched.job.inst <= doc.inst /\ sched.job.inst \in Nat
  BY JobIs DEF KindInv
<1>5. CallInv'
  <2>1. sched'.job.inst # doc'.inst
    BY <1>1, <1>4
  <2>. QED
    BY <1>0, <1>1, <1>3, <2>1 DEF CallInv
<1>6. RiseInv'
  <2>1. SameReports
    BY <1>1, SameReportsBy
  <2>2. \A k \in DOMAIN events' : IsChange(k)' => k \in DOMAIN events /\ events'[k] = events[k] /\ IsChange(k)
    BY <2>1 DEF SameReports, IsChange
  <2>3. ASSUME NEW k \in DOMAIN events, IsChange(k) PROVE events[k].inst <= doc'.inst /\ events[k].inst # doc'.inst
    <3>1. events[k] \in Events /\ events[k].type = "change"
      BY <2>3, SeqIs DEF KindInv, IsChange
    <3>2. events[k].inst \in Nat /\ events[k].inst <= doc.inst
      BY <1>0, <2>3, <3>1, EventIs DEF RiseInv, Changes
    <3>. QED
      BY <1>1, <1>4, <3>2
  <2>. QED
    BY <1>0, <2>2, <2>3 DEF RiseInv
<1>7. OwedInv'
  <2>1. \A j \in DOMAIN cmds : cmds'[j].phase = "waiting" => Owed(cmds'[j])
    BY <1>0, <1>1 DEF OwedInv
  <2>. QED
    BY <1>1, <1>2, <2>1 DEF OwedInv, Owed, NoRegen, Inert, OfRecord
<1>. QED
  BY <1>5, <1>6, <1>7 DEF EndsInv

-----------------------------------------------------------------------------
(* The frontend hears.                                                     *)

(* An event other than the first still settles what it settles.            *)
LEMMA ComesShifts ==
    ASSUME KindInv, NEW type, Arrives(type), NEW c, Comes(c), ~Coming(events[1], c)
    PROVE  \E k \in DOMAIN events' : Coming(events'[k], c)
<1>1. PICK k \in DOMAIN events : Coming(events[k], c)
  BY DEF Comes
<1>2. DOMAIN events \subseteq Nat \ {0} /\ k # 1
  BY <1>1, QueueWas
<1>3. k > 1
  BY <1>2
<1>4. k - 1 \in DOMAIN events' /\ events'[k - 1] = events[k]
  BY <1>3, QueueWas
<1>. QED
  BY <1>1, <1>4

(* The order of changes is kept when the first event leaves.               *)
LEMMA RiseShifts ==
    ASSUME KindInv, RiseInv, NEW type, Arrives(type)
    PROVE  RiseInv' /\ (CallInv' <=> CallInv)
<1>1. /\ DOMAIN events' \subseteq Nat \ {0}
      /\ \A k \in DOMAIN events' : k + 1 \in DOMAIN events /\ events'[k] = events[k + 1]
  BY QueueWas
<1>2. doc' = doc /\ sched' = sched
  BY DEF Arrives
<1>3. \A k \in DOMAIN events' : IsChange(k)' <=> IsChange(k + 1)
  BY <1>1 DEF IsChange
<1>4. \A k, m \in DOMAIN events' : k < m => k + 1 < m + 1
  BY <1>1
<1>. QED
  BY <1>1, <1>2, <1>3, <1>4 DEF RiseInv, CallInv

(* What the frontend does, as far as it matters to what is owed: nothing   *)
(* comes to be owed, and what stays owed is settled as before.             *)
StillOwed(c, d) ==
    /\ d.phase = "waiting" => Owed(d)
    /\ Owed(d) => Owed(c) /\ d.answer = c.answer

(* What is still owed is settled as before, if it was to come or was heard.*)
LEMMA OwedByHearing ==
    ASSUME OwedInv, OpensStay, doc' = doc, sched' = sched, DOMAIN cmds' = DOMAIN cmds,
           \A i \in DOMAIN cmds : StillOwed(cmds[i], cmds'[i]),
           \A i \in DOMAIN cmds :
             Owed(cmds'[i]) /\ cmds[i].answer.inst = doc.inst /\ cmds[i].answer.view.rev <= doc.rev
               /\ (Comes(cmds[i]) \/ HeardOf(cmds[i])) => Comes(cmds[i])' \/ HeardOf(cmds[i])'
    PROVE  OwedInv'
<1>. SUFFICES ASSUME NEW i \in DOMAIN cmds
              PROVE  /\ cmds'[i].phase = "waiting" => Owed(cmds'[i])
                     /\ Owed(cmds'[i]) /\ OpenUnanswered' = {} =>
                          /\ cmds'[i].answer.inst = doc.inst /\ cmds'[i].answer.view.rev <= doc.rev
                          /\ Calls(sched, cmds'[i]) \/ Comes(cmds[i])' \/ HeardOf(cmds[i])'
  BY DEF OwedInv, Owed, NoRegen, Inert, OfRecord, Calls
<1>1. StillOwed(cmds[i], cmds'[i])
  OBVIOUS
<1>2. cmds'[i].phase = "waiting" => Owed(cmds'[i])
  BY <1>1 DEF StillOwed
<1>3. ASSUME Owed(cmds'[i]), OpenUnanswered' = {}
      PROVE  /\ cmds'[i].answer.inst = doc.inst /\ cmds'[i].answer.view.rev <= doc.rev
             /\ Calls(sched, cmds'[i]) \/ Comes(cmds[i])' \/ HeardOf(cmds[i])'
  <2>1. Owed(cmds[i]) /\ cmds'[i].answer = cmds[i].answer /\ OpenUnanswered = {}
    BY <1>1, <1>3 DEF StillOwed, OpensStay
  <2>2. /\ cmds[i].answer.inst = doc.inst /\ cmds[i].answer.view.rev <= doc.rev
        /\ Calls(sched, cmds[i]) \/ Comes(cmds[i]) \/ HeardOf(cmds[i])
    BY <2>1 DEF OwedInv
  <2>3. Calls(sched, cmds[i]) => Calls(sched, cmds'[i])
    BY <2>1 DEF Calls
  <2>. QED
    BY <1>3, <2>1, <2>2, <2>3
<1>. QED
  BY <1>2, <1>3

(* What comes and what was heard of, for a command that is as it was.      *)
LEMMA SameCommand ==
    ASSUME NEW i \in DOMAIN cmds, cmds'[i] = cmds[i]
    PROVE  /\ (\E k \in DOMAIN events' : Coming(events'[k], cmds[i])) => Comes(cmds[i])'
           /\ HeardOf(cmds[i])' <=>
                /\ ~SettlesOnFinish(cmds[i]) /\ cmds[i].phase = "answered" /\ last' >= cmds[i].answer.view.rev
                /\ \A k \in DOMAIN events' : events'[k].type = "change" => events'[k].rev >= cmds[i].answer.view.rev
  BY DEF Comes, Coming, HeardOf, IsChange, SettlesOnFinish, OfRecord

(* A projection or a start is heard, or an end that settles nothing more.  *)
LEMMA HeardOfShifts ==
    ASSUME KindInv, NEW type, Arrives(type), last' = last, NEW i \in DOMAIN cmds, cmds'[i] = cmds[i], HeardOf(cmds[i])
    PROVE  HeardOf(cmds[i])'
<1>1. \A k \in DOMAIN events' : k + 1 \in DOMAIN events /\ events'[k] = events[k + 1]
  BY QueueWas
<1>2. /\ ~SettlesOnFinish(cmds[i]) /\ cmds[i].phase = "answered" /\ last >= cmds[i].answer.view.rev
      /\ \A k \in DOMAIN events : events[k].type = "change" => events[k].rev >= cmds[i].answer.view.rev
  BY DEF HeardOf, IsChange
<1>3. \A k \in DOMAIN events' : events'[k].type = "change" => events'[k].rev >= cmds[i].answer.view.rev
  BY <1>1, <1>2
<1>. QED
  BY <1>2, <1>3, SameCommand

(* A projection and a start settle nothing and are owed to nobody.         *)
LEMMA EndsByProjection ==
    ASSUME KindInv, EndsInv, OpensStay, HearProjection \/ HearStarted
    PROVE  EndsInv'
<1>0. CallInv /\ RiseInv /\ OwedInv
  BY DEF EndsInv
<1>1. PICK type \in {"projection", "started"} : Arrives(type)
  BY DEF HearProjection, HearStarted
<1>2. doc' = doc /\ sched' = sched /\ cmds' = cmds /\ last' = last
  BY <1>1 DEF HearProjection, HearStarted, Arrives, client
<1>3. 1 \in DOMAIN events /\ events[1].type = type
  BY <1>1, QueueWas
<1>4. RiseInv' /\ CallInv'
  BY <1>0, <1>1, RiseShifts
<1>5. ASSUME NEW i \in DOMAIN cmds, Comes(cmds[i]) \/ HeardOf(cmds[i])
      PROVE  Comes(cmds[i])' \/ HeardOf(cmds[i])'
  <2>1. ~Coming(events[1], cmds[i])
    BY <1>3 DEF Coming
  <2>. QED
    BY <1>1, <1>2, <1>5, <2>1, ComesShifts, HeardOfShifts, SameCommand
<1>6. \A i \in DOMAIN cmds : StillOwed(cmds[i], cmds'[i])
  BY <1>0, <1>2 DEF StillOwed, OwedInv
<1>7. OwedInv'
  BY <1>0, <1>2, <1>5, <1>6, OwedByHearing
<1>. QED
  BY <1>4, <1>7 DEF EndsInv

(* The end of a regen is heard after the answers of the commands it covers.*)
LEMMA EndsByFinish ==
    ASSUME "late_answer" \notin Rare, KindInv, EndsInv, OpensStay, HearFinished
    PROVE  EndsInv'
<1>0. CallInv /\ RiseInv /\ OwedInv
  BY DEF EndsInv
<1>. DEFINE e == events[1]
            S == {i \in DOMAIN cmds : e.outcome \notin {"superseded", "cancelled"} /\ Covered(cmds[i], e.source)}
            new(i) == IF i \in S THEN OnFinish(cmds[i], e) ELSE cmds[i]
<1>1. Arrives("finished")
  BY DEF HearFinished
<1>2. /\ doc' = doc /\ sched' = sched /\ last' = last /\ 1 \in DOMAIN events /\ e = Head(events)
      /\ e.type = "finished" /\ e \in Events /\ Deliverable(e)
  BY <1>1, ArrivesShifted DEF HearFinished, Arrives
<1>3. cmds' = [i \in DOMAIN cmds |-> new(i)]
  BY <1>2 DEF HearFinished, Settle
<1>4. RiseInv' /\ CallInv'
  BY <1>0, <1>1, RiseShifts
<1>5. ASSUME NEW i \in DOMAIN cmds PROVE cmds'[i] = cmds[i] \/ cmds'[i].phase = "done"
  <2>1. CASE i \in S
    <3>1. cmds'[i] = OnFinish(cmds[i], e) /\ cmds[i] \in Cmds
      BY <1>3, <2>1, SeqIs DEF KindInv
    <3>. HIDE DEF e, S, new
    <3>. QED
      BY <3>1, DoneIs DEF OnFinish
  <2>2. CASE i \notin S
    BY <1>3, <2>2
  <2>. QED
    BY <2>1, <2>2
<1>6. ASSUME NEW i \in DOMAIN cmds, Owed(cmds'[i]), Coming(e, cmds[i]) PROVE FALSE
  <2>1. cmds'[i] = cmds[i] /\ Owed(cmds[i])
    BY <1>5, <1>6 DEF Owed
  <2>2. /\ e.inst = cmds[i].answer.inst /\ e.outcome \notin {"superseded", "cancelled"}
        /\ e.source >= cmds[i].answer.view.rev /\ (SettlesOnFinish(cmds[i]) \/ e.outcome # "published")
    BY <1>2, <1>6 DEF Coming
  <2>3. cmds[i].answer.view.rev \in Nat /\ e.source \in Nat
    BY <1>2, <2>1, OwedIs, EventIs DEF Finishes
  <2>4. CASE cmds[i].phase = "answered"
    <3>1. Overtakes(e, cmds[i].answer)
      BY <1>2, <2>2, <2>3 DEF Overtakes
    <3>2. i \in Phase("answered") /\ cmds[i].answer.ok
      BY <2>1, <2>4 DEF Phase, Owed
    <3>. QED
      BY <1>2, <2>2, <3>1, <3>2 DEF Deliverable
  <2>5. CASE cmds[i].phase = "waiting"
    <3>1. i \in S
      BY <2>1, <2>2, <2>5 DEF Covered, Owed
    <3>2. cmds'[i] = OnFinish(cmds[i], e) /\ cmds[i] \in Cmds
      BY <1>3, <3>1, SeqIs DEF KindInv
    <3>3. OnFinish(cmds[i], e).phase = "done"
      <4>. HIDE DEF e, S, new
      <4>. QED
        BY <2>2, <3>2, DoneIs DEF OnFinish
    <3>. QED
      BY <1>6, <3>2, <3>3 DEF Owed
  <2>. QED
    BY <2>1, <2>4, <2>5 DEF Owed
<1>7. ASSUME NEW i \in DOMAIN cmds, Owed(cmds'[i]), Comes(cmds[i]) \/ HeardOf(cmds[i])
      PROVE  Comes(cmds[i])' \/ HeardOf(cmds[i])'
  <2>1. cmds'[i] = cmds[i] /\ ~Coming(events[1], cmds[i])
    BY <1>5, <1>6, <1>7 DEF Owed
  <2>. QED
    BY <1>1, <1>2, <1>7, <2>1, ComesShifts, HeardOfShifts, SameCommand
<1>8. \A i \in DOMAIN cmds : StillOwed(cmds[i], cmds'[i])
  BY <1>0, <1>5 DEF StillOwed, OwedInv, Owed
<1>9. DOMAIN cmds' = DOMAIN cmds
  BY <1>3
<1>. HIDE DEF e, S, new
<1>10. OwedInv'
  BY <1>0, <1>2, <1>7, <1>8, <1>9, OwedByHearing
<1>. QED
  BY <1>4, <1>10 DEF EndsInv

(* A change is heard: it settles what waits for no end, and is kept for    *)
(* what waits for its answer.                                              *)
LEMMA EndsByChange ==
    ASSUME KindInv, EndsInv, OpensStay, HearChange
    PROVE  EndsInv'
<1>0. CallInv /\ RiseInv /\ OwedInv
  BY DEF EndsInv
<1>. DEFINE e == events[1]  new(i) == IF Covered(cmds[i], e.rev) THEN OnChange(cmds[i], e) ELSE cmds[i]
<1>1. Arrives("change")
  BY DEF HearChange
<1>2. /\ doc' = doc /\ sched' = sched /\ 1 \in DOMAIN events /\ e = Head(events) /\ e.type = "change" /\ e \in Events
  BY <1>1, ArrivesShifted DEF Arrives
<1>3. last' = e.rev /\ cmds' = [i \in DOMAIN cmds |-> new(i)]
  BY <1>2 DEF HearChange, Settle
<1>4. RiseInv' /\ CallInv'
  BY <1>0, <1>1, RiseShifts
<1>5. e.inst \in Nat /\ e.rev \in Nat
  BY <1>2, EventIs DEF Changes
<1>6. ASSUME NEW i \in DOMAIN cmds
      PROVE  \/ cmds'[i] = cmds[i] /\ ~Covered(cmds[i], e.rev)
             \/ cmds'[i] = [cmds[i] EXCEPT !.buffered = e.rev] /\ SettlesOnFinish(cmds[i])
             \/ cmds'[i].phase = "done"
  <2>1. CASE Covered(cmds[i], e.rev) /\ SettlesOnFinish(cmds[i])
    BY <1>3, <2>1 DEF OnChange
  <2>2. CASE Covered(cmds[i], e.rev) /\ ~SettlesOnFinish(cmds[i])
    <3>1. cmds'[i] = Done(cmds[i], Verdict("published", e.rev, e.rev, e)) /\ cmds[i] \in Cmds
      BY <1>3, <2>2, SeqIs DEF OnChange, KindInv
    <3>. HIDE DEF e, new
    <3>. QED
      BY <3>1, DoneIs
  <2>3. CASE ~Covered(cmds[i], e.rev)
    BY <1>3, <2>3
  <2>. QED
    BY <2>1, <2>2, <2>3
<1>. HIDE DEF new
<1>7. ASSUME NEW i \in DOMAIN cmds
      PROVE  /\ StillOwed(cmds[i], cmds'[i])
             /\ Owed(cmds'[i]) => /\ cmds'[i].answer = cmds[i].answer /\ cmds'[i].kind = cmds[i].kind
                                  /\ ~SettlesOnFinish(cmds[i]) => cmds'[i] = cmds[i] /\ ~Covered(cmds[i], e.rev)
  <2>1. CASE cmds'[i] = cmds[i]
    BY <1>0, <1>6, <2>1 DEF StillOwed, OwedInv, Owed
  <2>2. CASE cmds'[i] = [cmds[i] EXCEPT !.buffered = e.rev] /\ SettlesOnFinish(cmds[i])
    <3>1. cmds[i] \in Cmds
      BY SeqIs DEF KindInv
    <3>2. /\ cmds'[i].phase = cmds[i].phase /\ cmds'[i].waits = cmds[i].waits /\ cmds'[i].kind = cmds[i].kind
          /\ cmds'[i].rec = cmds[i].rec /\ cmds'[i].answer = cmds[i].answer
      BY <2>2, <3>1 DEF Cmds
    <3>3. Owed(cmds'[i]) <=> Owed(cmds[i])
      BY <3>2 DEF Owed, NoRegen, Inert, OfRecord
    <3>. QED
      BY <1>0, <2>2, <3>2, <3>3 DEF StillOwed, OwedInv
  <2>3. CASE cmds'[i].phase = "done"
    BY <2>3 DEF StillOwed, Owed
  <2>. QED
    BY <1>6, <2>1, <2>2, <2>3
<1>8. ASSUME NEW i \in DOMAIN cmds, Owed(cmds'[i]), ~SettlesOnFinish(cmds[i]), e.rev >= cmds[i].answer.view.rev,
             \A k \in DOMAIN events' : events'[k].type = "change" => events'[k].rev >= cmds[i].answer.view.rev
      PROVE  HeardOf(cmds[i])'
  <2>1. cmds'[i] = cmds[i] /\ Owed(cmds[i]) /\ ~Covered(cmds[i], e.rev)
    BY <1>7, <1>8 DEF StillOwed
  <2>2. cmds[i].phase = "answered"
    BY <1>8, <2>1 DEF Owed, Covered
  <2>. QED
    BY <1>3, <1>8, <2>1, <2>2, SameCommand
<1>9. ASSUME NEW i \in DOMAIN cmds, Owed(cmds'[i]), cmds[i].answer.inst = doc.inst, Comes(cmds[i]) \/ HeardOf(cmds[i])
      PROVE  Comes(cmds[i])' \/ HeardOf(cmds[i])'
  <2>0. Owed(cmds[i])
    BY <1>7, <1>9 DEF StillOwed
  <2>1. CASE HeardOf(cmds[i])
    <3>1. /\ ~SettlesOnFinish(cmds[i])
          /\ \A k \in DOMAIN events : events[k].type = "change" => events[k].rev >= cmds[i].answer.view.rev
      BY <2>1 DEF HeardOf, IsChange
    <3>2. \A k \in DOMAIN events' : events'[k].type = "change" => events'[k].rev >= cmds[i].answer.view.rev
      <4>1. \A k \in DOMAIN events' : k + 1 \in DOMAIN events /\ events'[k] = events[k + 1]
        BY <1>1, QueueWas
      <4>. QED
        BY <3>1, <4>1
    <3>. QED
      BY <1>2, <1>8, <1>9, <3>1, <3>2
  <2>2. CASE Coming(e, cmds[i])
    <3>1. ~SettlesOnFinish(cmds[i]) /\ e.rev >= cmds[i].answer.view.rev /\ e.inst = doc.inst
      BY <1>2, <1>9, <2>2 DEF Coming
    <3>2. ASSUME NEW k \in DOMAIN events', events'[k].type = "change"
          PROVE  events'[k].rev >= cmds[i].answer.view.rev
      <4>. DEFINE m == k + 1
      <4>1. m \in DOMAIN events /\ events'[k] = events[m] /\ 1 < m
        BY <1>1, QueueWas
      <4>. HIDE DEF m
      <4>2. events[m] \in Events /\ IsChange(m) /\ IsChange(1)
        BY <1>2, <3>2, <4>1, SeqIs DEF KindInv, IsChange
      <4>3. events[m].inst \in Nat /\ events[m].rev \in Nat
        BY <4>2, EventIs DEF IsChange, Changes
      <4>4. /\ events[m].inst <= doc.inst /\ e.inst <= events[m].inst
            /\ e.inst = events[m].inst => e.rev <= events[m].rev
        BY <1>0, <1>2, <4>1, <4>2 DEF RiseInv
      <4>5. e.rev <= events[m].rev
        BY <1>5, <3>1, <4>3, <4>4
      <4>6. cmds[i].answer.view.rev \in Nat
        BY <2>0, OwedIs
      <4>. QED
        BY <1>5, <3>1, <4>1, <4>3, <4>5, <4>6
    <3>. QED
      BY <1>8, <1>9, <3>1, <3>2
  <2>3. CASE Comes(cmds[i]) /\ ~Coming(e, cmds[i])
    <3>1. PICK k \in DOMAIN events' : Coming(events'[k], cmds[i])
      BY <1>1, <2>3, ComesShifts
    <3>2. Coming(events'[k], cmds'[i])
      BY <1>7, <1>9, <3>1 DEF Coming, SettlesOnFinish, OfRecord
    <3>. QED
      BY <3>2 DEF Comes, Coming, SettlesOnFinish, OfRecord
  <2>. QED
    BY <1>9, <2>1, <2>2, <2>3
<1>10. DOMAIN cmds' = DOMAIN cmds
  BY <1>3
<1>. HIDE DEF e
<1>11. OwedInv'
  BY <1>0, <1>2, <1>7, <1>9, <1>10, OwedByHearing
<1>. QED
  BY <1>4, <1>11 DEF EndsInv

(* An answer after which a command still waits is one to which a regen is  *)
(* owed and whose change was not heard.                                    *)
LEMMA HeardOwes ==
    ASSUME NEW n, NEW c, CmdKind(c, n), c.phase = "answered", NEW d, d = Heard(c), d.phase # "done"
    PROVE  /\ d.phase = "waiting" /\ d.answer = c.answer /\ d.kind = c.kind /\ Owed(c) /\ Owed(d)
           /\ SettlesOnFinish(c) \/ ~(last >= c.answer.view.rev)
<1>1. c \in Cmds
  BY DEF CmdKind
<1>2. c.answer.ok /\ ~NoRegen(c) /\ ~Inert(c) /\ d = Target(c)
  <2>1. \A v : Done(c, v).phase = "done"
    BY <1>1, DoneIs
  <2>. QED
    BY <2>1 DEF Heard
<1>3. /\ c.waits
      /\ SettlesOnFinish(c) \/ ~(last >= c.answer.view.rev)
      /\ \E b : d = [[c EXCEPT !.phase = "waiting"] EXCEPT !.buffered = b]
  <2>1. \A v : Done(c, v).phase = "done"
    BY <1>1, DoneIs
  <2>2. [c EXCEPT !.phase = "waiting"] = [[c EXCEPT !.phase = "waiting"] EXCEPT !.buffered = c.buffered]
    BY <1>1 DEF Cmds
  <2>. QED
    BY <1>2, <2>1, <2>2 DEF Target, TimedOut
<1>4. /\ d.phase = "waiting" /\ d.waits = c.waits /\ d.answer = c.answer /\ d.kind = c.kind /\ d.rec = c.rec
  BY <1>1, <1>3 DEF Cmds
<1>5. Owed(c)
  BY <1>2, <1>3 DEF Owed
<1>6. Owed(d)
  BY <1>4, <1>5 DEF Owed, NoRegen, Inert, OfRecord
<1>. QED
  BY <1>3, <1>4, <1>5, <1>6

(* An answer that is heard makes its command wait only if a regen is owed  *)
(* to it; what was to settle it still is.                                  *)
LEMMA EndsByAnswer ==
    ASSUME KindInv, EndsInv, OpensStay, HearAnswer
    PROVE  EndsInv'
<1>0. CallInv /\ RiseInv /\ OwedInv
  BY DEF EndsInv
<1>. DEFINE i == Next1("answered")
<1>1. /\ Phase("answered") # {} /\ doc' = doc /\ sched' = sched /\ events' = events /\ last' = last
      /\ cmds' = [cmds EXCEPT ![i] = Heard(@)]
  BY DEF HearAnswer, Settle, client
<1>2. i \in DOMAIN cmds /\ cmds[i].phase = "answered"
  BY <1>1, NextIs
<1>. HIDE DEF i
<1>3. CmdKind(cmds[i], doc.inst)
  BY <1>2 DEF KindInv
<1>4. DOMAIN cmds' = DOMAIN cmds /\ cmds'[i] = Heard(cmds[i]) /\ \A j \in DOMAIN cmds : j # i => cmds'[j] = cmds[j]
  BY <1>1, <1>2
<1>5. cmds'[i].phase # "done" =>
        /\ cmds'[i].phase = "waiting" /\ cmds'[i].answer = cmds[i].answer /\ cmds'[i].kind = cmds[i].kind
        /\ Owed(cmds[i]) /\ Owed(cmds'[i])
        /\ SettlesOnFinish(cmds[i]) \/ ~(last >= cmds[i].answer.view.rev)
  BY <1>2, <1>3, <1>4, HeardOwes
<1>6. RiseInv' /\ CallInv'
  BY <1>0, <1>1 DEF RiseInv, CallInv, IsChange
<1>7. ASSUME NEW j \in DOMAIN cmds PROVE StillOwed(cmds[j], cmds'[j])
  BY <1>0, <1>4, <1>5 DEF StillOwed, OwedInv, Owed
<1>8. ASSUME NEW j \in DOMAIN cmds, Owed(cmds'[j]), Comes(cmds[j]) \/ HeardOf(cmds[j])
      PROVE  Comes(cmds[j])' \/ HeardOf(cmds[j])'
  <2>1. CASE j = i
    <3>1. cmds'[i].phase # "done"
      BY <1>8, <2>1 DEF Owed
    <3>2. ~HeardOf(cmds[i])
      BY <1>5, <3>1 DEF HeardOf
    <3>3. PICK k \in DOMAIN events : Coming(events[k], cmds[i])
      BY <1>8, <2>1, <3>2 DEF Comes
    <3>4. Coming(events[k], cmds'[i])
      BY <1>5, <3>1, <3>3 DEF Coming, SettlesOnFinish, OfRecord
    <3>. QED
      BY <1>1, <2>1, <3>4 DEF Comes, Coming, SettlesOnFinish, OfRecord
  <2>2. CASE j # i
    <3>1. cmds'[j] = cmds[j]
      BY <1>4, <2>2
    <3>2. Comes(cmds[j]) => \E k \in DOMAIN events' : Coming(events'[k], cmds[j])
      BY <1>1 DEF Comes
    <3>. QED
      BY <1>1, <1>8, <3>1, <3>2, SameCommand DEF HeardOf, IsChange
  <2>. QED
    BY <2>1, <2>2
<1>9. OwedInv'
  BY <1>0, <1>1, <1>4, <1>7, <1>8, OwedByHearing
<1>. QED
  BY <1>6, <1>9 DEF EndsInv

(* A command given up is owed nothing any more.                            *)
LEMMA EndsByTimeout ==
    ASSUME KindInv, EndsInv, OpensStay, Timeout
    PROVE  EndsInv'
<1>0. CallInv /\ RiseInv /\ OwedInv
  BY DEF EndsInv
<1>1. PICK i \in Phase("waiting") : cmds' = [cmds EXCEPT ![i] = TimedOut(@)]
  BY DEF Timeout, Settle
<1>2. /\ i \in DOMAIN cmds /\ cmds[i] \in Cmds
      /\ doc' = doc /\ sched' = sched /\ events' = events /\ last' = last
  BY <1>1, SeqIs DEF Timeout, Phase, KindInv, client
<1>3. DOMAIN cmds' = DOMAIN cmds /\ cmds'[i] = TimedOut(cmds[i]) /\ \A j \in DOMAIN cmds : j # i => cmds'[j] = cmds[j]
  BY <1>1, <1>2
<1>4. cmds'[i].phase = "done"
  BY <1>2, <1>3, TimedOutTrue
<1>5. RiseInv' /\ CallInv'
  BY <1>0, <1>2 DEF RiseInv, CallInv, IsChange
<1>6. ASSUME NEW j \in DOMAIN cmds PROVE StillOwed(cmds[j], cmds'[j])
  BY <1>0, <1>3, <1>4 DEF StillOwed, OwedInv, Owed
<1>7. ASSUME NEW j \in DOMAIN cmds, Owed(cmds'[j]), Comes(cmds[j]) \/ HeardOf(cmds[j])
      PROVE  Comes(cmds[j])' \/ HeardOf(cmds[j])'
  <2>1. cmds'[j] = cmds[j]
    BY <1>3, <1>4, <1>7 DEF Owed
  <2>2. Comes(cmds[j]) => \E k \in DOMAIN events' : Coming(events'[k], cmds[j])
    BY <1>2 DEF Comes
  <2>. QED
    BY <1>2, <1>7, <2>1, <2>2, SameCommand DEF HeardOf, IsChange
<1>8. OwedInv'
  BY <1>0, <1>2, <1>3, <1>6, <1>7, OwedByHearing
<1>. QED
  BY <1>5, <1>8 DEF EndsInv

(* The answer of an open gives up whatever waits or might.                 *)
LEMMA EndsByOpened ==
    ASSUME KindInv, EndsInv, HearOpened
    PROVE  EndsInv'
<1>0. CallInv /\ RiseInv /\ OwedInv
  BY DEF EndsInv
<1>1. doc' = doc /\ sched' = sched /\ events' = events
  BY DEF HearOpened
<1>. DEFINE i == Next1("answered")
<1>2. /\ Progress /\ cmds'[i].phase = "done"
      /\ \A j \in DOMAIN cmds : j # i => cmds'[j] = ResetAwaiter(cmds[j])
  BY OpenedProgress
<1>. HIDE DEF i
<1>3. ASSUME NEW j \in DOMAIN cmds PROVE cmds'[j].phase # "waiting" /\ ~Owed(cmds'[j])
  <2>0. cmds[j] \in Cmds
    BY SeqIs DEF KindInv
  <2>1. CASE j = i
    BY <1>2, <2>1 DEF Owed
  <2>2. CASE j # i /\ cmds[j].phase = "waiting"
    <3>1. cmds'[j] = TimedOut(cmds[j])
      BY <1>2, <2>2 DEF ResetAwaiter
    <3>. QED
      BY <2>0, <3>1, TimedOutTrue DEF Owed
  <2>3. CASE j # i /\ cmds[j].phase # "waiting"
    <3>1. cmds'[j] = [cmds[j] EXCEPT !.waits = FALSE]
      BY <1>2, <2>3 DEF ResetAwaiter
    <3>2. cmds'[j].waits = FALSE /\ cmds'[j].phase = cmds[j].phase
      BY <2>0, <3>1 DEF Cmds
    <3>. QED
      BY <2>3, <3>2 DEF Owed
  <2>. QED
    BY <2>1, <2>2, <2>3
<1>4. DOMAIN cmds' = DOMAIN cmds
  BY <1>2 DEF Progress
<1>5. OwedInv'
  BY <1>3, <1>4 DEF OwedInv, Owed, NoRegen, Inert, OfRecord
<1>6. RiseInv' /\ CallInv'
  BY <1>0, <1>1 DEF RiseInv, CallInv, IsChange
<1>. QED
  BY <1>5, <1>6 DEF EndsInv

-----------------------------------------------------------------------------
(* The theorem.                                                            *)

(* Every step keeps what the theorem needs.                                *)
LEMMA EndsStep ==
    ASSUME "late_answer" \notin Rare, "no_regen" \notin Rare, "bare_revision" \notin Rare,
           KindInv, OpenInv, EndsInv, [Next]_vars
    PROVE  EndsInv'
<1>1. CASE OpenDocument
  BY <1>1, EndsByOpen
<1>2. CASE HearOpened
  BY <1>2, EndsByOpened
<1>3. CASE UNCHANGED vars
  <2>1. doc' = doc /\ sched' = sched /\ events' = events /\ cmds' = cmds /\ last' = last
    BY <1>3 DEF vars, client
  <2>. QED
    BY <2>1 DEF EndsInv, CallInv, RiseInv, OwedInv, IsChange, Calls, Comes, Coming, HeardOf, Owed, NoRegen, Inert,
       OfRecord, SettlesOnFinish, OpenUnanswered, Phase, Opens
<1>4. CASE \/ Send \/ Handle \/ Refuse \/ GateOpens \/ BeginNothing \/ Begin \/ Publish \/ Unpublished
           \/ HearProjection \/ HearStarted \/ HearChange \/ HearFinished \/ HearAnswer \/ Timeout
  <2>1. OpensStay
    BY <1>4, OpenStep
  <2>2. CASE Send \/ Handle \/ Refuse
    BY <2>1, <2>2, EndsBySend, EndsByHandle, EndsByRefuse
  <2>3. CASE GateOpens \/ BeginNothing \/ Begin \/ Publish \/ Unpublished
    BY <2>1, <2>3, EndsByGate, EndsByNothing, EndsByBegin, EndsByPublish, EndsByUnpublished
  <2>4. CASE HearProjection \/ HearStarted \/ HearChange \/ HearFinished \/ HearAnswer \/ Timeout
    BY <2>1, <2>4, EndsByProjection, EndsByChange, EndsByFinish, EndsByAnswer, EndsByTimeout
  <2>. QED
    BY <1>4, <2>2, <2>3, <2>4
<1>. QED
  BY <1>1, <1>2, <1>3, <1>4 DEF Next

(* Before the first command nothing is owed.                               *)
LEMMA EndsInit == Init => EndsInv
<1>. SUFFICES ASSUME Init PROVE EndsInv
  OBVIOUS
<1>1. DOMAIN cmds = {} /\ DOMAIN events = {} /\ sched.job = NoJob /\ doc.inst = 1
  BY DEF Init, Runtime
<1>2. sched.job.inst = 0 /\ sched.job.cancelled = FALSE
  BY <1>1 DEF NoJob
<1>. QED
  BY <1>1, <1>2 DEF EndsInv, CallInv, RiseInv, OwedInv

(* At rest nothing is left to settle a command, so none waits.             *)
LEMMA RestEnds ==
    ASSUME KindInv, EndsInv, Quiet
    PROVE  Phase("waiting") = {}
<1>. SUFFICES ASSUME NEW i \in DOMAIN cmds, cmds[i].phase = "waiting" PROVE FALSE
  BY DEF Phase
<1>1. /\ DOMAIN events = {} /\ sched.job = NoJob /\ ~sched.on /\ Phase("answered") = {}
  BY DEF Quiet, Idle
<1>2. OpenUnanswered = {}
  BY <1>1 DEF OpenUnanswered
<1>3. /\ cmds[i].answer.inst = doc.inst
      /\ Calls(sched, cmds[i]) \/ Comes(cmds[i]) \/ HeardOf(cmds[i])
  BY <1>2 DEF EndsInv, OwedInv
<1>4. ~Comes(cmds[i]) /\ ~HeardOf(cmds[i])
  BY <1>1 DEF Comes, HeardOf
<1>5. ~Calls(sched, cmds[i])
  BY <1>1, <1>3, JobIs DEF Calls
<1>. QED
  BY <1>3, <1>4, <1>5

(* Every command ends by itself: at rest none waits for its timeout,       *)
(* whatever was overtaken, superseded, cancelled or abandoned and whatever *)
(* was opened meanwhile.                                                   *)
THEOREM CommandsEnd ==
    ASSUME "late_answer" \notin Rare, "no_regen" \notin Rare, "bare_revision" \notin Rare
    PROVE  Spec => []EveryCommitEnds
<1>1. Init => KindInv /\ OpenInv /\ EndsInv
  BY InitKind, OpenInit, EndsInit
<1>2. KindInv /\ OpenInv /\ EndsInv /\ [Next]_vars => (KindInv /\ OpenInv /\ EndsInv)'
  BY StepKind, OpenNext, EndsStep
<1>3. KindInv /\ EndsInv => EveryCommitEnds
  BY RestEnds DEF EveryCommitEnds
<1>. QED
  BY <1>1, <1>2, <1>3, PTL DEF Spec
==============================================================================
