-------------------------- MODULE ToolRecordProofs --------------------------
(***************************************************************************)
(* The records of the timeline are what the commits of ToolLane meant.     *)
(*                                                                         *)
(* A commit builds its regions one by one, and takes a failed one off      *)
(* again.  It may be left between any two of these calls, which then run   *)
(* all the same, before those of the next arm.  The invariant, over the    *)
(* relations of ToolLaneProofs, says how three things fit: the records     *)
(* that are there, the calls under way and in which order they may still   *)
(* change them, and the regions the controller has still to build.         *)
(***************************************************************************)
EXTENDS ToolLaneProofs

(* The calls under way: of one arm each, in the order of the arms, and     *)
(* answered in that order; those nobody waits for are of abandoned arms.   *)
Lined(q, arm, own, gone) ==
  /\ \A i \in DOMAIN q : \A j \in DOMAIN q :
       i < j => q[i].arm < q[j].arm /\ (q[j].answer # "none" => q[i].answer # "none")
  /\ \A i \in DOMAIN q :
       /\ q[i].arm > 0 /\ q[i].arm <= arm /\ (own \/ q[i].arm < arm)
       /\ q[i].live \/ q[i].arm \in gone

RecOf(call, ok) == [arm |-> call.arm, region |-> call.region, ok |-> ok]
Missing(recs, r) == \A j \in DOMAIN recs : recs[j] # r
LastIs(recs, r) == recs # <<>> /\ recs[Len(recs)] = r

(* What a call that is not handled yet finds.                              *)
Finds(q, recs) ==
  \A i \in DOMAIN q : q[i].answer = "none" =>
    /\ q[i].kind = "apply" => Missing(recs, RecOf(q[i], TRUE))
    /\ q[i].kind = "undo" => i = 1 /\ LastIs(recs, RecOf(q[i], FALSE))

(* Each region is there once, and what failed is of an arm that was        *)
(* abandoned, or is the last record and the call under way takes it off.   *)
Tidy(q, arm, fails, recs, gone) ==
  /\ \A i \in DOMAIN recs : recs[i].arm <= arm
  /\ \A i \in DOMAIN recs : \A j \in DOMAIN recs : recs[i].ok /\ recs[i].arm > 0 /\ recs[i] = recs[j] => i = j
  /\ \A i \in DOMAIN recs : recs[i].ok \/ recs[i].arm \in gone \/ (fails /\ i = Len(recs))
  /\ fails => LastIs(recs, [arm |-> arm, region |-> q[Len(q)].region, ok |-> FALSE])
  /\ Finds(q, recs)

Owns(c) == c.tool = "select" \/ c.commit.pc \in {"apply", "undo"}
Fails(c) ==
  \/ c.commit.pc = "apply" /\ c.calls[Len(c.calls)].answer = "failed"
  \/ c.commit.pc = "undo" /\ c.calls[Len(c.calls)].answer = "none"
Lines(c, recs, gone) ==
  /\ Lined(c.calls, c.arm, Owns(c), gone) /\ Tidy(c.calls, c.arm, Fails(c), recs, gone)
  /\ c.tool # "select" => c.arm > 0

(* The same while no call of the arm itself is under way.                  *)
Calm(c, recs, gone) ==
  Lined(c.calls, c.arm, FALSE, gone) /\ Tidy(c.calls, c.arm, FALSE, recs, gone) /\ c.arm > 0

(* The regions of the arm that are still listed.                           *)
List(c) ==
  IF c.tool = "extrude" /\ c.phase # "waiting" THEN [i \in DOMAIN c.sessions |-> c.sessions[i].region]
  ELSE c.regions

(* Those from the m-th on are not built yet, all others the user chose     *)
(* are: B is the set of them.                                              *)
Plan(c, m, B) ==
  /\ \A i \in DOMAIN List(c) : \A j \in DOMAIN List(c) : List(c)[i] = List(c)[j] => i = j
  /\ c.tool # "extrude" =>
       \A i \in DOMAIN c.sessions : i \in DOMAIN c.regions /\ c.sessions[i].region = c.regions[i]
  /\ \A i \in DOMAIN List(c) : i >= m => List(c)[i] \notin B
  /\ (c.tool = "extrude" /\ c.phase = "armed" => DOMAIN c.sessions # {}) =>
       \A r \in 1 .. c.chosen : r \in B \/ \E i \in DOMAIN List(c) : i >= m /\ List(c)[i] = r

Done(c) == c.commit.pc = "apply" /\ c.calls[Len(c.calls)].answer = "ok"
Planned(c, B) ==
  c.tool # "select" =>
    /\ c.commit.pc \in {"none", "record"} => Plan(c, 1, B)
    /\ c.commit.pc = "loading" => Plan(c, Total(c) + 1, B)
    /\ c.commit.pc = "barrier" => c.commit.k \in DOMAIN List(c) /\ Plan(c, c.commit.k, B)
    /\ c.commit.pc \in {"apply", "undo"} =>
         /\ c.commit.k \in DOMAIN List(c) /\ c.calls[Len(c.calls)].region = List(c)[c.commit.k]
         /\ IF Done(c) THEN List(c)[c.commit.k] \in B /\ Plan(c, c.commit.k + 1, B) ELSE Plan(c, c.commit.k, B)

Built(recs, a, r) == \E i \in DOMAIN recs : recs[i] = [arm |-> a, region |-> r, ok |-> TRUE]
BuiltOf(recs, a) == {r \in Nat : Built(recs, a, r)}

(* A commit that ended built what the user chose.                          *)
Whole(recs, finished) == \A f \in finished : \A r \in f.chosen : Built(recs, f.arm, r)

(* The calls are those of the last commit, or of commits before.           *)
LEMMA LinesCalm ==
    ASSUME NEW c, NEW recs, NEW gone, Lines(c, recs, gone), c.tool # "select", c.commit.pc \notin {"apply", "undo"}
    PROVE  Calm(c, recs, gone)
<1>1. Owns(c) = FALSE /\ Fails(c) = FALSE
  BY DEF Owns, Fails
<1>. QED
  BY <1>1 DEF Lines, Calm

(* And back.                                                               *)
LEMMA CalmLines ==
    ASSUME NEW c, NEW recs, NEW gone, Calm(c, recs, gone), NEW e, e.calls = c.calls, e.arm = c.arm,
           e.commit.pc \notin {"apply", "undo"}
    PROVE  Lines(e, recs, gone)
<1>1. Fails(e) = FALSE
  BY DEF Fails
<1>2. Lined(e.calls, e.arm, Owns(e), gone)
  BY DEF Calm, Lined
<1>. QED
  BY <1>1, <1>2 DEF Lines, Calm

(* The lines are the same while the calls and the arm are.                 *)
LEMMA LinesSame ==
    ASSUME NEW c, NEW recs, NEW gone, Lines(c, recs, gone), NEW e, e.calls = c.calls, e.arm = c.arm,
           e.commit = c.commit, e.tool = c.tool
    PROVE  Lines(e, recs, gone)
<1>1. Fails(e) = Fails(c) /\ Owns(e) = Owns(c)
  BY DEF Fails, Owns
<1>. QED
  BY <1>1 DEF Lines

(* A call is sent after the others.                                        *)
LEMMA LinesApplied ==
    ASSUME NEW c, c.calls \in Seq(CallRec), NEW recs, NEW gone, Calm(c, recs, gone),
           NEW r, Missing(recs, [arm |-> c.arm, region |-> r, ok |-> TRUE]), NEW v, NEW b,
           NEW e, e.arm = c.arm, e.arm \in Nat, e.commit.pc = "apply",
           e.calls = Append(c.calls, CallOf(c, "apply", r, v, b))
    PROVE  Lines(e, recs, gone)
<1>. DEFINE call == CallOf(c, "apply", r, v, b)
            n == Len(c.calls) + 1
<1>1. call.kind = "apply" /\ call.arm = c.arm /\ call.region = r /\ call.live = TRUE /\ call.answer = "none"
  BY DEF CallOf
<1>. HIDE DEF call
<1>2. /\ Len(c.calls) \in Nat /\ DOMAIN e.calls = 1 .. n /\ DOMAIN c.calls = 1 .. Len(c.calls) /\ Len(e.calls) = n
      /\ e.calls[n] = call /\ \A i \in DOMAIN c.calls : e.calls[i] = c.calls[i]
  BY DEF call
<1>3. Owns(e) = TRUE /\ Fails(e) = FALSE
  BY <1>1, <1>2 DEF Owns, Fails
<1>4. \A i \in DOMAIN e.calls : i = n \/ i \in DOMAIN c.calls
  BY <1>2
<1>5. Lined(e.calls, e.arm, TRUE, gone)
  <2>1. ASSUME NEW i \in DOMAIN e.calls, NEW j \in DOMAIN e.calls, i < j
        PROVE  e.calls[i].arm < e.calls[j].arm /\ (e.calls[j].answer # "none" => e.calls[i].answer # "none")
    <3>1. i \in DOMAIN c.calls /\ (j = n \/ j \in DOMAIN c.calls)
      BY <1>2, <2>1
    <3>2. CASE j = n
      <4>1. c.calls[i].arm < c.arm
        BY <3>1 DEF Calm, Lined
      <4>. QED
        BY <1>1, <1>2, <3>1, <3>2, <4>1
    <3>3. CASE j \in DOMAIN c.calls
      <4>1. c.calls[i].arm < c.calls[j].arm /\ (c.calls[j].answer # "none" => c.calls[i].answer # "none")
        BY <2>1, <3>1, <3>3 DEF Calm, Lined
      <4>. QED
        BY <1>2, <3>1, <3>3, <4>1
    <3>. QED
      BY <3>1, <3>2, <3>3
  <2>2. ASSUME NEW i \in DOMAIN e.calls
        PROVE  e.calls[i].arm > 0 /\ e.calls[i].arm <= e.arm /\ (e.calls[i].live \/ e.calls[i].arm \in gone)
    <3>1. CASE i = n
      <4>1. c.arm > 0 /\ c.arm <= c.arm
        BY DEF Calm
      <4>. QED
        BY <1>1, <1>2, <3>1, <4>1
    <3>2. CASE i \in DOMAIN c.calls
      <4>1. c.calls[i].arm > 0 /\ c.calls[i].arm <= c.arm /\ (c.calls[i].live \/ c.calls[i].arm \in gone)
        BY <3>2 DEF Calm, Lined
      <4>. QED
        BY <1>2, <3>2, <4>1
    <3>. QED
      BY <1>4, <3>1, <3>2
  <2>. QED
    BY <2>1, <2>2 DEF Lined
<1>6. Finds(e.calls, recs)
  <2>1. ASSUME NEW i \in DOMAIN e.calls, e.calls[i].answer = "none"
        PROVE  /\ e.calls[i].kind = "apply" => Missing(recs, RecOf(e.calls[i], TRUE))
               /\ e.calls[i].kind = "undo" => i = 1 /\ LastIs(recs, RecOf(e.calls[i], FALSE))
    <3>1. CASE i = n
      <4>1. RecOf(call, TRUE) = [arm |-> c.arm, region |-> r, ok |-> TRUE]
        BY <1>1 DEF RecOf
      <4>. QED
        BY <1>1, <1>2, <3>1, <4>1
    <3>2. CASE i \in DOMAIN c.calls
      BY <1>2, <2>1, <3>2 DEF Calm, Tidy, Finds
    <3>. QED
      BY <1>4, <3>1, <3>2
  <2>. QED
    BY <2>1 DEF Finds
<1>7. Tidy(e.calls, e.arm, FALSE, recs, gone)
  BY <1>6 DEF Calm, Tidy
<1>8. Calm(c, recs, gone) => e.arm > 0
  BY DEF Calm
<1>. QED
  BY <1>3, <1>5, <1>7, <1>8 DEF Lines

(* The undo of an operation that failed.                                   *)
LEMMA LinesUndone ==
    ASSUME NEW c, NEW recs, NEW gone, Lines(c, recs, gone), c.tool # "select", Len(c.calls) = 1, c.commit.pc = "apply",
           c.calls[1].answer = "failed", NEW a, a.arm = c.arm, a.calls = <<>>, NEW v, NEW b, NEW e, e.arm = c.arm,
           e.commit.pc = "undo", e.calls = Append(a.calls, CallOf(a, "undo", c.calls[1].region, v, b)), e.arm \in Nat
    PROVE  Lines(e, recs, gone)
<1>. DEFINE r == c.calls[1].region
            call == CallOf(a, "undo", r, v, b)
<1>1. call.kind = "undo" /\ call.arm = c.arm /\ call.region = r /\ call.live = TRUE /\ call.answer = "none"
  BY DEF CallOf
<1>. HIDE DEF call
<1>2. DOMAIN e.calls = {1} /\ Len(e.calls) = 1 /\ e.calls[1] = call
  BY DEF call
<1>3. Owns(e) = TRUE /\ Fails(e) = TRUE /\ Fails(c) = TRUE
  BY <1>1, <1>2 DEF Owns, Fails
<1>4. c.arm > 0
  BY DEF Lines
<1>5. Lined(e.calls, e.arm, TRUE, gone)
  BY <1>1, <1>2, <1>4 DEF Lined
<1>6. LastIs(recs, [arm |-> c.arm, region |-> r, ok |-> FALSE])
  BY <1>3 DEF Lines, Tidy
<1>7. RecOf(call, FALSE) = [arm |-> c.arm, region |-> r, ok |-> FALSE]
  BY <1>1 DEF RecOf
<1>8. Finds(e.calls, recs)
  BY <1>1, <1>2, <1>6, <1>7 DEF Finds
<1>9. Tidy(e.calls, e.arm, TRUE, recs, gone)
  <2>1. Tidy(c.calls, c.arm, TRUE, recs, gone)
    BY <1>3 DEF Lines
  <2>2. e.calls[Len(e.calls)].region = r
    BY <1>1, <1>2
  <2>. QED
    BY <1>6, <1>8, <2>1, <2>2 DEF Tidy
<1>. QED
  BY <1>3, <1>4, <1>5, <1>9 DEF Lines

(* Calls that say the same.                                                *)
Alike(p, q) ==
  /\ DOMAIN p = DOMAIN q /\ Len(p) = Len(q)
  /\ \A i \in DOMAIN q :
       p[i].kind = q[i].kind /\ p[i].arm = q[i].arm /\ p[i].region = q[i].region /\ p[i].answer = q[i].answer

(* A superseded call differs in nothing but that nobody waits for it.      *)
LEMMA HushedAlike ==
    ASSUME NEW q \in Seq(CallRec), NEW p, p = Hushed(q)
    PROVE  Alike(p, q)
<1>1. DOMAIN p = DOMAIN q /\ p \in Seq(CallRec)
  BY HushedIs DEF Quiet
<1>2. ASSUME NEW i \in DOMAIN q
      PROVE  p[i].kind = q[i].kind /\ p[i].arm = q[i].arm /\ p[i].region = q[i].region /\ p[i].answer = q[i].answer
  <2>. DEFINE r == [q[i] EXCEPT !.live = FALSE]
  <2>1. q[i] \in CallRec
    BY ElementOfSeq
  <2>2. r.kind = q[i].kind /\ r.arm = q[i].arm /\ r.region = q[i].region /\ r.answer = q[i].answer
    BY <2>1 DEF CallRec
  <2>3. p[i] = r
    BY DEF Hushed
  <2>. HIDE DEF r
  <2>. QED
    BY ONLY <2>2, <2>3
<1>3. Len(p) = Len(q)
  BY <1>1
<1>. QED
  BY <1>1, <1>2, <1>3 DEF Alike

(* Nobody waits for them any more.                                         *)
LEMMA LinedHushed ==
    ASSUME NEW c, Base(c), NEW recs, NEW gone, Lines(c, recs, gone), NEW more, gone \subseteq more,
           c.commit.pc \in {"apply", "undo"} => c.arm \in more, NEW p, p = Hushed(c.calls)
    PROVE  /\ Lined(p, c.arm, Owns(c), more) /\ Tidy(p, c.arm, FALSE, recs, more)
           /\ p \in Seq(CallRec) /\ \A i \in DOMAIN p : p[i].arm \in more
<1>1. c.calls \in Seq(CallRec) /\ c.arm \in Nat
  BY DEF Base, Control, ToolOK, CallsOK, Awaits, Quiet
<1>2. Alike(p, c.calls) /\ p \in Seq(CallRec)
  BY <1>1, HushedAlike, HushedIs DEF Quiet
<1>3. ASSUME NEW i \in DOMAIN c.calls PROVE c.calls[i].arm \in more
  <2>1. CASE c.calls[i].live
    <3>1. c.commit.pc \in {"apply", "undo"} /\ i = Len(c.calls) /\ c.calls[i].arm = c.arm
      BY <2>1 DEF Base, Control, CallsOK, Awaits, Quiet
    <3>. QED
      BY <3>1
  <2>2. CASE ~c.calls[i].live
    BY <2>2 DEF Lines, Lined
  <2>. QED
    BY <2>1, <2>2
<1>4. Lined(p, c.arm, Owns(c), more)
  BY <1>2, <1>3 DEF Lines, Lined, Alike
<1>5. Fails(c) => c.arm \in more
  BY DEF Fails
<1>6. Finds(c.calls, recs)
  BY DEF Lines, Tidy
<1>7. Finds(p, recs)
  <2>1. ASSUME NEW i \in DOMAIN p, p[i].answer = "none"
        PROVE  /\ p[i].kind = "apply" => Missing(recs, RecOf(p[i], TRUE))
               /\ p[i].kind = "undo" => i = 1 /\ LastIs(recs, RecOf(p[i], FALSE))
    <3>1. i \in DOMAIN c.calls /\ c.calls[i].answer = "none" /\ c.calls[i].kind = p[i].kind
          /\ RecOf(p[i], TRUE) = RecOf(c.calls[i], TRUE) /\ RecOf(p[i], FALSE) = RecOf(c.calls[i], FALSE)
      BY <1>2, <2>1 DEF Alike, RecOf
    <3>. QED
      BY <1>6, <3>1 DEF Finds
  <2>. QED
    BY <2>1 DEF Finds
<1>8. Tidy(p, c.arm, FALSE, recs, more)
  <2>1. Tidy(c.calls, c.arm, Fails(c), recs, gone)
    BY DEF Lines
  <2>2. Fails(c) => recs[Len(recs)].arm = c.arm
    BY <2>1 DEF Tidy, LastIs
  <2>3. \A i \in DOMAIN recs : recs[i].ok \/ recs[i].arm \in more
    BY <1>5, <2>1, <2>2 DEF Tidy
  <2>. QED
    BY <1>7, <2>1, <2>3 DEF Tidy
<1>. QED
  BY <1>2, <1>3, <1>4, <1>8 DEF Alike

(* A tool is left,                                                         *)
LEMMA LinesSwept ==
    ASSUME NEW c, Base(c), NEW recs, NEW gone, Lines(c, recs, gone), NEW more, gone \subseteq more,
           c.commit.pc \in {"apply", "undo"} => c.arm \in more, NEW e, Swept(c, e)
    PROVE  Lines(e, recs, more)
<1>1. e.calls = Hushed(c.calls) /\ e.arm = c.arm /\ e.tool = "select" /\ e.commit.pc = "none"
  BY DEF Swept, NoCommit
<1>2. Lined(e.calls, c.arm, Owns(c), more) /\ Tidy(e.calls, c.arm, FALSE, recs, more)
  BY <1>1, LinedHushed
<1>3. Lined(e.calls, e.arm, Owns(e), more)
  BY <1>1, <1>2 DEF Lined, Owns
<1>4. Fails(e) = FALSE
  BY <1>1 DEF Fails
<1>. QED
  BY <1>1, <1>2, <1>3, <1>4 DEF Lines

(* and another is started.                                                 *)
LEMMA LinesStarts ==
    ASSUME NEW c, Base(c), NEW recs \in Seq(Record), NEW gone, Lines(c, recs, gone), NEW more, gone \subseteq more,
           c.commit.pc \in {"apply", "undo"} => c.arm \in more,
           NEW t, NEW regions, NEW basis, NEW e, Starts(c, e, t, regions, basis)
    PROVE  Lines(e, recs, more) /\ \A i \in DOMAIN recs : recs[i].arm < e.arm
<1>1. e.calls = Hushed(c.calls) /\ e.arm = c.arm + 1 /\ e.commit.pc = "none"
  BY DEF Starts, NoCommit
<1>2. Lined(e.calls, c.arm, Owns(c), more) /\ Tidy(e.calls, c.arm, FALSE, recs, more) /\ e.calls \in Seq(CallRec)
  BY <1>1, LinedHushed
<1>3. c.arm \in Nat
  BY DEF Base, Control, ToolOK
<1>4. \A i \in DOMAIN e.calls : e.calls[i].arm \in Nat
  <2>1. \A i \in DOMAIN e.calls : e.calls[i] \in CallRec
    BY <1>2, ElementOfSeq
  <2>. QED
    BY <2>1 DEF CallRec
<1>5. \A i \in DOMAIN recs : recs[i].arm \in Nat
  <2>1. \A i \in DOMAIN recs : recs[i] \in Record
    BY ElementOfSeq
  <2>. QED
    BY <2>1 DEF Record
<1>6. Lined(e.calls, e.arm, FALSE, more)
  <2>1. \A i \in DOMAIN e.calls : e.calls[i].arm <= e.arm /\ e.calls[i].arm < e.arm
    BY <1>1, <1>2, <1>3, <1>4 DEF Lined
  <2>. QED
    BY <1>2, <2>1 DEF Lined
<1>7. \A i \in DOMAIN recs : recs[i].arm < e.arm /\ recs[i].arm <= e.arm
  BY <1>1, <1>2, <1>3, <1>5 DEF Tidy
<1>8. Tidy(e.calls, e.arm, FALSE, recs, more)
  BY <1>2, <1>7 DEF Tidy
<1>9. e.arm > 0
  BY ONLY <1>1, <1>3
<1>10. Calm(e, recs, more)
  BY ONLY <1>6, <1>8, <1>9 DEF Calm
<1>. QED
  BY <1>1, <1>7, <1>10, CalmLines

(* The answer to the call of the commit was heard.                         *)
LEMMA LinesHeard ==
    ASSUME NEW c, NEW recs, NEW gone, Lines(c, recs, gone), c.tool # "select", ~Fails(c),
           NEW a, a.calls = <<>>, a.arm = c.arm
    PROVE  Calm(a, recs, gone)
<1>1. DOMAIN a.calls = {}
  OBVIOUS
<1>2. Lined(a.calls, a.arm, FALSE, gone) /\ Finds(a.calls, recs)
  BY <1>1 DEF Lined, Finds
<1>3. Tidy(c.calls, c.arm, FALSE, recs, gone)
  <2>1. Fails(c) = FALSE
    BY DEF Fails
  <2>. QED
    BY <2>1 DEF Lines
<1>. QED
  BY <1>2, <1>3 DEF Lines, Calm, Tidy

(* The answer to another call is dropped.                                  *)
LEMMA LinesDropped ==
    ASSUME NEW c, Base(c), NEW recs, NEW gone, Lines(c, recs, gone), c.calls # <<>>, ~Head(c.calls).live,
           Head(c.calls).answer # "none", NEW e, Discards(c, e)
    PROVE  /\ Lines(e, recs, gone)
           /\ c.commit.pc \in {"apply", "undo"} => e.calls[Len(e.calls)] = c.calls[Len(c.calls)]
<1>1. /\ c.calls \in Seq(CallRec) /\ e.calls \in Seq(CallRec) /\ Rest(e.calls, c.calls)
      /\ e.arm = c.arm /\ e.tool = c.tool /\ e.commit = c.commit
  BY DEF Base, Control, CallsOK, Awaits, Quiet, Discards, SameArm
<1>2. /\ Len(c.calls) \in Nat /\ Len(e.calls) \in Nat /\ Len(e.calls) = Len(c.calls) - 1
      /\ DOMAIN c.calls = 1 .. Len(c.calls) /\ DOMAIN e.calls = 1 .. Len(e.calls)
      /\ \A i \in DOMAIN e.calls : i + 1 \in DOMAIN c.calls /\ e.calls[i] = c.calls[i + 1]
  BY <1>1, LenProperties DEF Rest
<1>3. ASSUME c.commit.pc \in {"apply", "undo"} PROVE e.calls[Len(e.calls)] = c.calls[Len(c.calls)]
  <2>1. \A i \in DOMAIN c.calls : c.calls[i].live <=> i = Len(c.calls)
    BY <1>3 DEF Base, Control, CallsOK, Awaits
  <2>2. Head(c.calls) = c.calls[1] /\ 1 \in DOMAIN c.calls
    BY <1>1, TailIs
  <2>3. 1 # Len(c.calls)
    BY <2>1, <2>2
  <2>4. Len(c.calls) > 1
    <3>1. Len(c.calls) \in Nat /\ 1 \in 1 .. Len(c.calls)
      BY ONLY <1>2, <2>2, Zenon
    <3>2. \A n \in Nat : 1 \in 1 .. n /\ n # 1 => n > 1
      OBVIOUS
    <3>. QED
      BY ONLY <2>3, <3>1, <3>2, Zenon
  <2>5. Len(e.calls) \in 1 .. Len(e.calls) /\ Len(e.calls) + 1 = Len(c.calls)
    BY ONLY <1>2, <2>4
  <2>. QED
    BY <1>2, <2>5
<1>4. Owns(e) = Owns(c) /\ Fails(e) = Fails(c)
  BY <1>1, <1>3 DEF Owns, Fails
<1>5. Lined(e.calls, e.arm, Owns(e), gone)
  <2>1. Lined(c.calls, c.arm, Owns(c), gone)
    BY DEF Lines
  <2>2. ASSUME NEW i \in DOMAIN e.calls, NEW j \in DOMAIN e.calls, i < j
        PROVE  e.calls[i].arm < e.calls[j].arm /\ (e.calls[j].answer # "none" => e.calls[i].answer # "none")
    <3>1. i + 1 \in DOMAIN c.calls /\ j + 1 \in DOMAIN c.calls /\ i + 1 < j + 1
      BY <1>2, <2>2
    <3>2. c.calls[i + 1].arm < c.calls[j + 1].arm
          /\ (c.calls[j + 1].answer # "none" => c.calls[i + 1].answer # "none")
      BY <2>1, <3>1 DEF Lined
    <3>. QED
      BY <1>2, <3>2
  <2>. QED
    BY <1>1, <1>2, <1>4, <2>1, <2>2 DEF Lined
<1>6. Finds(e.calls, recs)
  <2>1. Finds(c.calls, recs)
    BY DEF Lines, Tidy
  <2>2. ASSUME NEW i \in DOMAIN e.calls, e.calls[i].answer = "none"
        PROVE  e.calls[i].kind # "undo" /\ (e.calls[i].kind = "apply" => Missing(recs, RecOf(e.calls[i], TRUE)))
    <3>1. i + 1 \in DOMAIN c.calls /\ e.calls[i] = c.calls[i + 1] /\ i + 1 # 1
      BY <1>2
    <3>. QED
      BY <2>1, <2>2, <3>1 DEF Finds
  <2>. QED
    BY <2>2 DEF Finds
<1>7. Tidy(e.calls, e.arm, Fails(e), recs, gone)
  <2>1. Tidy(c.calls, c.arm, Fails(c), recs, gone)
    BY DEF Lines
  <2>2. Fails(c) => e.calls[Len(e.calls)].region = c.calls[Len(c.calls)].region
    BY <1>3 DEF Fails
  <2>. QED
    BY <1>1, <1>4, <1>6, <2>1, <2>2 DEF Tidy
<1>8. e.tool # "select" => e.arm > 0
  BY <1>1 DEF Lines
<1>. QED
  BY <1>3, <1>5, <1>7, <1>8 DEF Lines

(* What the backend has handled is not what fails.                         *)
LEMMA PendingFails ==
    ASSUME NEW c, Base(c), NEW recs, NEW gone, Lines(c, recs, gone), NEW i \in DOMAIN c.calls,
           c.calls[i].answer = "none", Fails(c)
    PROVE  c.calls[i].kind = "undo" /\ i = 1 /\ Len(c.calls) = 1
<1>1. c.calls \in Seq(CallRec) /\ c.commit.pc \in {"apply", "undo"} /\ c.calls[Len(c.calls)].kind = c.commit.pc
      /\ c.calls # <<>>
  BY DEF Base, Control, CallsOK, Awaits, Fails
<1>2. Len(c.calls) \in DOMAIN c.calls /\ (i = Len(c.calls) \/ i < Len(c.calls))
  BY <1>1, EmptySeq, LenProperties
<1>3. c.calls[Len(c.calls)].answer # "none" => c.calls[i].answer # "none"
  BY <1>2 DEF Lines, Lined
<1>4. c.commit.pc = "undo" /\ c.calls[Len(c.calls)].answer = "none"
  BY <1>3 DEF Fails
<1>5. Len(c.calls) = 1
  BY <1>1, <1>2, <1>4 DEF Lines, Tidy, Finds
<1>6. i = 1
  BY <1>1, <1>5, LenProperties
<1>. QED
  BY <1>1, <1>4, <1>5, <1>6

(* The records a call appends a record to.                                 *)
LEMMA TidyAppended ==
    ASSUME NEW q, NEW arm, NEW gone, NEW recs \in Seq(Record), Tidy(q, arm, FALSE, recs, gone),
           NEW r \in Record, r.arm <= arm, r.ok /\ r.arm > 0 => Missing(recs, r), NEW p, NEW fails \in BOOLEAN,
           r.ok \/ r.arm \in gone \/ fails,
           fails => r = [arm |-> arm, region |-> p[Len(p)].region, ok |-> FALSE],
           \A i \in DOMAIN p : p[i].answer = "none" =>
             i \in DOMAIN q /\ p[i] = q[i] /\ p[i].kind # "undo" /\ (p[i].kind = "apply" => r # RecOf(p[i], TRUE)),
           NEW more, more = Append(recs, r)
    PROVE  Tidy(p, arm, fails, more, gone)
<1>. DEFINE n == Len(recs) + 1
<1>1. /\ Len(recs) \in Nat /\ Len(more) = n /\ DOMAIN recs = 1 .. Len(recs) /\ DOMAIN more = 1 .. n
      /\ more[n] = r /\ \A i \in DOMAIN recs : more[i] = recs[i]
  BY AppendProperties, LenProperties
<1>2. \A i \in DOMAIN more : i = n \/ i \in DOMAIN recs
  BY <1>1
<1>3. n \in DOMAIN more /\ more # <<>>
  <2>1. n \in DOMAIN more
    BY <1>1
  <2>2. DOMAIN <<>> = {}
    OBVIOUS
  <2>. QED
    BY <2>1, <2>2
<1>4. n = Len(more)
  BY <1>1
<1>. HIDE DEF n
<1>5. \A i \in DOMAIN more : more[i].arm <= arm
  BY ONLY <1>1, <1>2, Tidy(q, arm, FALSE, recs, gone), r.arm <= arm DEF Tidy
<1>6. ASSUME NEW i \in DOMAIN more, NEW j \in DOMAIN more, more[i].ok, more[i].arm > 0, more[i] = more[j]
      PROVE  i = j
  <2>1. CASE i \in DOMAIN recs /\ j \in DOMAIN recs
    BY <1>1, <1>6, <2>1 DEF Tidy
  <2>2. CASE i \in DOMAIN recs /\ j = n
    BY <1>1, <1>6, <2>2 DEF Missing
  <2>3. CASE i = n /\ j \in DOMAIN recs
    BY <1>1, <1>6, <2>3 DEF Missing
  <2>. QED
    BY <1>2, <2>1, <2>2, <2>3
<1>7. \A i \in DOMAIN more : more[i].ok \/ more[i].arm \in gone \/ (fails /\ i = Len(more))
  BY <1>1, <1>2, <1>4 DEF Tidy
<1>8. fails => LastIs(more, [arm |-> arm, region |-> p[Len(p)].region, ok |-> FALSE])
  BY <1>1, <1>3, <1>4 DEF LastIs
<1>9. Finds(p, more)
  <2>1. ASSUME NEW i \in DOMAIN p, p[i].answer = "none"
        PROVE  p[i].kind # "undo" /\ (p[i].kind = "apply" => Missing(more, RecOf(p[i], TRUE)))
    <3>1. i \in DOMAIN q /\ p[i] = q[i] /\ p[i].kind # "undo" /\ (p[i].kind = "apply" => r # RecOf(p[i], TRUE))
      BY <2>1
    <3>2. p[i].kind = "apply" => Missing(recs, RecOf(p[i], TRUE))
      BY <2>1, <3>1 DEF Tidy, Finds
    <3>. QED
      BY <1>1, <1>2, <3>1, <3>2 DEF Missing
  <2>. QED
    BY <2>1 DEF Finds
<1>. QED
  BY <1>5, <1>6, <1>7, <1>8, <1>9 DEF Tidy

(* The undo of the last record.                                            *)
LEMMA TidyFront ==
    ASSUME NEW q, NEW arm, NEW gone, NEW recs \in Seq(Record), recs # <<>>, NEW fails,
           Tidy(q, arm, fails, recs, gone), NEW p,
           \A i \in DOMAIN p : p[i].answer = "none" => i \in DOMAIN q /\ p[i] = q[i] /\ p[i].kind # "undo"
    PROVE  Tidy(p, arm, FALSE, Front(recs), gone)
<1>. DEFINE less == Front(recs)
<1>1. /\ Len(recs) \in Nat /\ Len(recs) > 0 /\ DOMAIN less = 1 .. (Len(recs) - 1)
      /\ \A i \in DOMAIN less : less[i] = recs[i]
  BY FrontIs
<1>. HIDE DEF less
<1>2. \A i \in DOMAIN less : i \in DOMAIN recs /\ i # Len(recs)
  BY <1>1, LenProperties
<1>3. Finds(p, less)
  <2>1. ASSUME NEW i \in DOMAIN p, p[i].answer = "none"
        PROVE  p[i].kind # "undo" /\ (p[i].kind = "apply" => Missing(less, RecOf(p[i], TRUE)))
    <3>1. i \in DOMAIN q /\ p[i] = q[i] /\ p[i].kind # "undo"
      BY <2>1
    <3>2. p[i].kind = "apply" => Missing(recs, RecOf(p[i], TRUE))
      BY <2>1, <3>1 DEF Tidy, Finds
    <3>. QED
      BY <1>1, <1>2, <3>1, <3>2 DEF Missing
  <2>. QED
    BY <2>1 DEF Finds
<1>4. Tidy(p, arm, FALSE, less, gone)
  BY <1>1, <1>2, <1>3 DEF Tidy
<1>. QED
  BY <1>4 DEF less

(* The backend handles a call.                                             *)
LEMMA LinesHandled ==
    ASSUME NEW c, Base(c), NEW d \in Doc, NEW gone, Lines(c, d.recs, gone), NEW i \in DOMAIN c.calls,
           NEW out \in {"ok", "failed", "refused"}, NEW t, Handles(c, i, d, out, t),
           NEW e, Base(e), Replied(c, e, i, out, t)
    PROVE  /\ Lines(e, t.recs, gone)
           /\ c.calls[i].kind = "undo" => i = 1 /\ LastIs(d.recs, RecOf(c.calls[i], FALSE))
<1>. DEFINE q == c.calls
            p == e.calls
            n == Len(q)
            call == q[i]
            recs == d.recs
<1>1. /\ q \in Seq(CallRec) /\ p \in Seq(CallRec) /\ e.arm = c.arm /\ e.tool = c.tool /\ e.commit = c.commit
      /\ DOMAIN p = DOMAIN q /\ \A j \in DOMAIN q \ {i} : p[j] = q[j]
      /\ p[i] = [q[i] EXCEPT !.answer = out, !.doc = t]
  BY DEF Base, Control, CallsOK, Awaits, Quiet, Replied, SameArm
<1>2. \A j \in DOMAIN q : q[j] \in CallRec
  BY <1>1, ElementOfSeq
<1>3. n \in Nat /\ DOMAIN q = 1 .. n /\ n \in DOMAIN q /\ Len(p) = n
  BY <1>1, LenProperties
<1>4. call.answer = "none" /\ (\A j \in 1 .. (i - 1) : q[j].answer # "none") /\ recs \in Seq(Record)
      /\ call \in CallRec
  BY <1>2 DEF Handles, Doc
<1>5. p[i].answer = out /\ p[i].kind = call.kind /\ p[i].arm = call.arm /\ p[i].region = call.region
      /\ p[i].live = call.live
  <2>. DEFINE r == [call EXCEPT !.answer = out, !.doc = t]
  <2>1. r.answer = out /\ r.kind = call.kind /\ r.arm = call.arm /\ r.region = call.region /\ r.live = call.live
    BY <1>4 DEF CallRec
  <2>2. p[i] = r
    BY <1>1
  <2>. HIDE DEF r
  <2>. QED
    BY ONLY <2>1, <2>2
<1>6. \A j \in DOMAIN q : p[j].kind = q[j].kind /\ p[j].arm = q[j].arm /\ p[j].region = q[j].region
                          /\ p[j].live = q[j].live
  BY <1>1, <1>5
<1>7. Lined(q, c.arm, Owns(c), gone) /\ Tidy(q, c.arm, Fails(c), recs, gone) /\ (c.tool # "select" => c.arm > 0)
  BY DEF Lines
<1>8. Lined(p, c.arm, Owns(c), gone)
  <2>1. ASSUME NEW x \in DOMAIN p, NEW y \in DOMAIN p, x < y
        PROVE  p[x].arm < p[y].arm /\ (p[y].answer # "none" => p[x].answer # "none")
    <3>1. q[x].arm < q[y].arm /\ (q[y].answer # "none" => q[x].answer # "none")
      BY <1>1, <1>7, <2>1 DEF Lined
    <3>2. CASE x = i
      BY <1>1, <1>5, <1>6, <3>1, <3>2
    <3>3. CASE x # i /\ y = i
      <4>1. x \in 1 .. (i - 1)
        BY <1>1, <1>3, <2>1, <3>3
      <4>. QED
        BY <1>1, <1>4, <1>6, <3>1, <3>3, <4>1
    <3>4. CASE x # i /\ y # i
      BY <1>1, <1>6, <3>1, <3>4
    <3>. QED
      BY <3>2, <3>3, <3>4
  <2>. QED
    BY <1>1, <1>6, <1>7, <2>1 DEF Lined
<1>9. Owns(e) = Owns(c)
  BY <1>1 DEF Owns
<1>10. SUFFICES /\ Tidy(p, c.arm, Fails(e), t.recs, gone)
                /\ call.kind = "undo" => i = 1 /\ LastIs(recs, RecOf(call, FALSE))
  BY <1>1, <1>7, <1>8, <1>9 DEF Lines
<1>11. call.kind = "undo" => i = 1 /\ LastIs(recs, RecOf(call, FALSE))
  BY <1>4, <1>7 DEF Tidy, Finds
<1>12. Fails(c) => call.kind = "undo" /\ i = 1 /\ n = 1
  BY <1>4, PendingFails
<1>13. \A j \in DOMAIN p : p[j].answer = "none" => j \in DOMAIN q /\ j # i /\ p[j] = q[j]
  BY <1>1, <1>5
<1>14. \A j \in DOMAIN p : p[j].answer = "none" => p[j].kind # "undo"
  <2>. SUFFICES ASSUME NEW j \in DOMAIN p, p[j].answer = "none", p[j].kind = "undo" PROVE FALSE
    OBVIOUS
  <2>1. j \in DOMAIN q /\ j # i /\ q[j].answer = "none" /\ q[j].kind = "undo"
    BY <1>13
  <2>2. j = 1
    BY <1>7, <2>1 DEF Tidy, Finds
  <2>3. 1 \in 1 .. (i - 1)
    BY <1>3, <2>1, <2>2
  <2>. QED
    BY <1>4, <2>1, <2>2, <2>3
<1>15. CASE call.kind = "apply"
  <2>1. Fails(c) = FALSE
    BY <1>12, <1>15 DEF Fails
  <2>2. Fails(e) <=> (out = "failed" /\ i = n /\ c.commit.pc = "apply")
    <3>1. CASE i = n
      <4>1. c.commit.pc = "undo" => call.kind = "undo"
        BY <3>1 DEF Base, Control, CallsOK, Awaits
      <4>. QED
        BY <1>1, <1>3, <1>5, <1>15, <3>1, <4>1 DEF Fails
    <3>2. CASE i # n
      <4>1. p[n] = q[n]
        BY <1>1, <1>3, <3>2
      <4>. QED
        BY <1>1, <1>3, <2>1, <3>2, <4>1 DEF Fails
    <3>. QED
      BY <3>1, <3>2
  <2>3. CASE out = "refused"
    <3>1. t = d /\ Fails(e) = FALSE
      BY <1>15, <2>2, <2>3 DEF Handles, Fails
    <3>2. Finds(p, recs)
      BY <1>7, <1>13, <1>14 DEF Tidy, Finds
    <3>. QED
      BY <1>7, <1>11, <2>1, <3>1, <3>2 DEF Tidy
  <2>4. CASE out \in {"ok", "failed"}
    <3>. DEFINE r == [arm |-> call.arm, region |-> call.region, ok |-> out = "ok"]
                fails == Fails(e)
    <3>1. t.recs = Append(recs, r)
      BY <1>15, <2>4 DEF Handles
    <3>2. r \in Record /\ r.arm = call.arm /\ r.ok = (out = "ok") /\ r.region = call.region
      BY <1>4 DEF Record, CallRec
    <3>3. r.ok => Missing(recs, r)
      <4>1. out = "ok" => r = RecOf(call, TRUE)
        BY DEF RecOf
      <4>. QED
        BY <1>4, <1>7, <1>15, <3>2, <4>1 DEF Tidy, Finds
    <3>4. r.arm <= c.arm
      BY <1>7, <3>2 DEF Lined
    <3>5. \A j \in DOMAIN p : p[j].answer = "none" =>
             j \in DOMAIN q /\ p[j] = q[j] /\ p[j].kind # "undo" /\ (p[j].kind = "apply" => r # RecOf(p[j], TRUE))
      <4>. SUFFICES ASSUME NEW j \in DOMAIN p, p[j].answer = "none"
                    PROVE  j \in DOMAIN q /\ p[j] = q[j] /\ p[j].kind # "undo" /\ r # RecOf(p[j], TRUE)
        OBVIOUS
      <4>1. j \in DOMAIN q /\ j # i /\ p[j] = q[j] /\ p[j].kind # "undo"
        BY <1>13, <1>14
      <4>2. q[j].arm \in Nat /\ q[i].arm \in Nat
        BY <1>2, <4>1 DEF CallRec
      <4>3. j < i \/ i < j
        BY <1>3, <4>1
      <4>4. q[j].arm # q[i].arm
        BY <1>7, <4>1, <4>2, <4>3 DEF Lined
      <4>. QED
        BY <3>2, <4>1, <4>4 DEF RecOf
    <3>6. fails \in BOOLEAN
      BY DEF Fails
    <3>7. fails => out = "failed" /\ i = n /\ c.commit.pc = "apply"
      BY <2>2
    <3>8. fails => call.arm = c.arm
      BY <3>7 DEF Base, Control, CallsOK, Awaits
    <3>9. fails => r = [arm |-> c.arm, region |-> p[Len(p)].region, ok |-> FALSE]
      BY <1>3, <1>5, <3>7, <3>8
    <3>10. r.ok \/ r.arm \in gone \/ fails
      <4>1. CASE call.live
        <5>1. i = n /\ c.commit.pc \in {"apply", "undo"} /\ q[n].kind = c.commit.pc
          BY <4>1 DEF Base, Control, CallsOK, Awaits, Quiet
        <5>. QED
          BY <1>15, <2>2, <2>4, <3>2, <5>1
      <4>2. CASE ~call.live
        BY <1>7, <3>2, <4>2 DEF Lined
      <4>. QED
        BY <4>1, <4>2
    <3>11. Tidy(q, c.arm, FALSE, recs, gone)
      BY <1>7, <2>1
    <3>0. recs \in Seq(Record) /\ r \in Record
      BY <1>4, <3>2
    <3>. HIDE DEF r, fails, q, p, recs
    <3>12. Tidy(p, c.arm, fails, t.recs, gone)
      BY ONLY <3>0, <3>1, <3>3, <3>4, <3>5, <3>6, <3>9, <3>10, <3>11, TidyAppended
    <3>. QED
      BY <1>11, <3>12 DEF fails, p
  <2>. QED
    BY <2>3, <2>4
<1>16. CASE call.kind = "undo"
  <2>1. recs # <<>> /\ i = 1
    BY <1>11, <1>16 DEF LastIs
  <2>2. out = "ok" /\ t.recs = Front(recs)
    BY <1>16, <2>1 DEF Handles
  <2>3. Fails(e) = FALSE
    <3>1. CASE n = 1
      <4>1. c.commit.pc # "apply"
        BY <1>16, <2>1, <3>1 DEF Base, Control, CallsOK, Awaits
      <4>. QED
        <5>1. Len(p) = 1 /\ p[1].answer = "ok" /\ e.commit.pc # "apply"
          BY <1>1, <1>3, <1>5, <2>1, <2>2, <3>1, <4>1
        <5>. HIDE DEF p
        <5>. QED
          BY <5>1 DEF Fails, p
    <3>2. CASE n # 1
      <4>1. p[n] = q[n] /\ ~Fails(c)
        BY <1>1, <1>3, <1>12, <2>1, <3>2
      <4>. QED
        BY <1>1, <1>3, <4>1 DEF Fails
    <3>. QED
      BY <3>1, <3>2
  <2>4. \A j \in DOMAIN p : p[j].answer = "none" => j \in DOMAIN q /\ p[j] = q[j] /\ p[j].kind # "undo"
    BY <1>13, <1>14
  <2>5. Tidy(p, c.arm, FALSE, Front(recs), gone)
    BY <1>4, <1>7, <2>1, <2>4, TidyFront
  <2>. QED
    BY <1>11, <2>2, <2>3, <2>5
<1>. QED
  BY <1>4, <1>15, <1>16 DEF CallRec

(* The list of an armed tool has a place for each operation of its commit. *)
LEMMA ListIs ==
    ASSUME NEW c, ToolOK(c), c.sessions \in Seq(Session), c.tool # "select", c.phase # "waiting"
    PROVE  /\ DOMAIN List(c) = 1 .. Total(c) /\ Total(c) \in Nat
           /\ c.tool = "extrude" => DOMAIN List(c) = DOMAIN c.sessions /\ Total(c) = Len(c.sessions)
                                    /\ \A i \in DOMAIN c.sessions : List(c)[i] = c.sessions[i].region
           /\ c.tool # "extrude" => List(c) = c.regions
           /\ c.tool \notin Multi => c.regions = <<1>> /\ Total(c) = 1
<1>1. c.regions \in Seq(Nat) /\ (c.tool \notin Multi => c.regions = <<1>>)
  BY DEF ToolOK
<1>2. CASE c.tool = "extrude"
  BY <1>2, LenProperties DEF List, Total, Multi
<1>3. CASE c.tool = "revolve"
  BY <1>1, <1>3, LenProperties DEF List, Total, Multi
<1>4. CASE c.tool \notin Multi
  <2>1. Total(c) = 1 /\ List(c) = c.regions /\ c.tool # "extrude"
    BY <1>4 DEF List, Total, Multi
  <2>2. DOMAIN <<1>> = 1 .. 1
    OBVIOUS
  <2>. QED
    BY <1>1, <1>4, <2>1, <2>2
<1>. QED
  BY <1>2, <1>3, <1>4 DEF Multi

(* The same sessions have the same list.                                   *)
LEMMA ListSame ==
    ASSUME NEW c, NEW e, e.tool = c.tool, e.regions = c.regions, SameSessions(c.sessions, e.sessions),
           c.phase = "waiting" <=> e.phase = "waiting"
    PROVE  List(e) = List(c)
<1>1. CASE c.tool = "extrude" /\ c.phase # "waiting"
  <2>1. List(e) = [i \in DOMAIN e.sessions |-> e.sessions[i].region]
    BY <1>1 DEF List
  <2>2. List(c) = [i \in DOMAIN c.sessions |-> c.sessions[i].region]
    BY <1>1 DEF List
  <2>. QED
    BY <2>1, <2>2 DEF SameSessions
<1>2. CASE ~(c.tool = "extrude" /\ c.phase # "waiting")
  BY <1>2 DEF List
<1>. QED
  BY <1>1, <1>2

(* The same sessions have the same plan.                                   *)
LEMMA PlanSame ==
    ASSUME NEW c, NEW m, NEW B, Plan(c, m, B), NEW e, e.tool = c.tool, e.regions = c.regions, e.chosen = c.chosen,
           SameSessions(c.sessions, e.sessions), c.phase = "waiting" <=> e.phase = "waiting",
           c.tool = "extrude" /\ c.phase = "armed" => e.phase = "armed" \/ DOMAIN c.sessions # {}
    PROVE  Plan(e, m, B)
<1>1. List(e) = List(c)
  BY ListSame
<1>2. e.tool # "extrude" => \A i \in DOMAIN e.sessions : i \in DOMAIN e.regions /\ e.sessions[i].region = e.regions[i]
  BY DEF Plan, SameSessions
<1>3. (e.tool = "extrude" /\ e.phase = "armed" => DOMAIN e.sessions # {}) =>
        (c.tool = "extrude" /\ c.phase = "armed" => DOMAIN c.sessions # {})
  BY DEF SameSessions
<1>. QED
  BY <1>1, <1>2, <1>3 DEF Plan

(* The next region is built.                                               *)
LEMMA PlanNext ==
    ASSUME NEW c, NEW k \in Nat, NEW B, Plan(c, k, B), DOMAIN List(c) \subseteq Nat, k \in DOMAIN List(c),
           NEW D, D = B \cup {List(c)[k]}
    PROVE  List(c)[k] \in D /\ Plan(c, k + 1, D)
<1>1. ASSUME NEW i \in DOMAIN List(c), i >= k + 1 PROVE List(c)[i] \notin D
  <2>1. i \in Nat /\ i >= k /\ i # k
    BY <1>1
  <2>2. List(c)[i] \notin B /\ List(c)[i] # List(c)[k]
    BY <2>1 DEF Plan
  <2>. QED
    BY <2>2
<1>2. ASSUME NEW r, \E i \in DOMAIN List(c) : i >= k /\ List(c)[i] = r
      PROVE  r \in D \/ \E i \in DOMAIN List(c) : i >= k + 1 /\ List(c)[i] = r
  <2>1. PICK i \in DOMAIN List(c) : i >= k /\ List(c)[i] = r
    BY <1>2
  <2>2. i = k \/ i >= k + 1
    BY <2>1
  <2>. QED
    BY <2>1, <2>2
<1>. QED
  BY <1>1, <1>2 DEF Plan

(* What is built already may be left out of the list.                      *)
LEMMA PlanShift ==
    ASSUME NEW c, c.phase # "armed", NEW n \in Nat, DOMAIN List(c) = 1 .. n, NEW k \in 1 .. n, NEW B, Plan(c, k, B),
           NEW e, e.chosen = c.chosen, DOMAIN List(e) = 1 .. (n - k + 1),
           \A i \in 1 .. (n - k + 1) : List(e)[i] = List(c)[i + k - 1],
           e.tool # "extrude" =>
             \A i \in DOMAIN e.sessions : i \in DOMAIN e.regions /\ e.sessions[i].region = e.regions[i]
    PROVE  Plan(e, 1, B)
<1>1. \A i \in DOMAIN List(e) : i \in Nat /\ i + k - 1 \in DOMAIN List(c) /\ i + k - 1 >= k
                                /\ List(e)[i] = List(c)[i + k - 1]
  OBVIOUS
<1>2. \A i \in DOMAIN List(e) : \A j \in DOMAIN List(e) : List(e)[i] = List(e)[j] => i = j
  <2>. SUFFICES ASSUME NEW i \in DOMAIN List(e), NEW j \in DOMAIN List(e), List(e)[i] = List(e)[j] PROVE i = j
    OBVIOUS
  <2>1. i \in Nat /\ j \in Nat /\ i + k - 1 = j + k - 1
    BY <1>1 DEF Plan
  <2>. QED
    BY <2>1
<1>3. \A i \in DOMAIN List(e) : List(e)[i] \notin B
  BY <1>1 DEF Plan
<1>4. ASSUME NEW r \in 1 .. c.chosen PROVE r \in B \/ \E i \in DOMAIN List(e) : i >= 1 /\ List(e)[i] = r
  <2>1. r \in B \/ \E i \in DOMAIN List(c) : i >= k /\ List(c)[i] = r
    BY DEF Plan
  <2>2. ASSUME NEW i \in DOMAIN List(c), i >= k, List(c)[i] = r
        PROVE  \E j \in DOMAIN List(e) : j >= 1 /\ List(e)[j] = r
    <3>. DEFINE j == i - k + 1
    <3>1. j \in DOMAIN List(e) /\ j >= 1 /\ j + k - 1 = i
      BY <2>2
    <3>. HIDE DEF j
    <3>2. List(e)[j] = List(c)[i]
      BY <1>1, <3>1
    <3>. QED
      BY <2>2, <3>1, <3>2
  <2>. QED
    BY <2>1, <2>2
<1>. QED
  BY <1>2, <1>3, <1>4 DEF Plan

(* A commit that failed arms again with what is left.                      *)
LEMMA PlanRearmed ==
    ASSUME NEW c, ToolOK(c), c.sessions \in Seq(Session), c.tool # "select",
           c.phase = "committing" \/ (c.phase = "armed" /\ c.tool \notin Multi), NEW k \in DOMAIN List(c), NEW B,
           Plan(c, k, B), NEW e, Rearmed(c, e, k), RearmedLane(c, e, k, TRUE), e.sessions \in Seq(Session)
    PROVE  Plan(e, 1, B)
<1>. DEFINE n == Total(c)
<1>1. /\ DOMAIN List(c) = 1 .. n /\ n \in Nat /\ k \in 1 .. n
      /\ c.tool = "extrude" => DOMAIN List(c) = DOMAIN c.sessions /\ Total(c) = Len(c.sessions)
                               /\ \A i \in DOMAIN c.sessions : List(c)[i] = c.sessions[i].region
      /\ c.tool # "extrude" => List(c) = c.regions
      /\ c.tool \notin Multi => c.regions = <<1>> /\ n = 1
  BY ListIs
<1>2. e.tool = c.tool /\ e.chosen = c.chosen /\ e.phase = "armed" /\ c.phase # "waiting"
      /\ (c.tool \in Multi => c.phase # "armed")
      /\ e.regions = IF c.tool = "revolve" THEN SubSeq(c.regions, k, Len(c.regions)) ELSE c.regions
  BY DEF Rearmed, SameArm
<1>3. CASE c.tool \notin Multi
  <2>1. k = 1 /\ n - k + 1 = n
    BY <1>1, <1>3
  <2>2. e.tool # "extrude" /\ c.tool # "revolve"
    BY <1>2, <1>3 DEF Multi
  <2>3. List(e) = c.regions /\ List(c) = c.regions /\ e.regions = c.regions
    BY <1>1, <1>2, <2>2 DEF List
  <2>4. Reopened(c, e)
    BY <1>3 DEF RearmedLane, Multi
  <2>5. \A i \in DOMAIN e.sessions : i \in DOMAIN e.regions /\ e.sessions[i].region = e.regions[i]
    BY <2>3, <2>4 DEF Reopened
  <2>6. Plan(c, 1, B)
    BY <2>1
  <2>. QED
    BY <1>2, <2>2, <2>3, <2>5, <2>6 DEF Plan
<1>4. CASE c.tool = "revolve"
  <2>. DEFINE q == SubSeq(c.regions, k, Len(c.regions))
  <2>1. c.regions \in Seq(Nat) /\ Len(c.regions) = n
    BY <1>1, <1>4 DEF ToolOK, Total
  <2>2. /\ DOMAIN q = 1 .. (n - k + 1) /\ \A i \in 1 .. (n - k + 1) : q[i] = c.regions[i + k - 1]
    <3>1. \A i \in k .. n : c.regions[i] \in Nat
      BY <1>1, <2>1, ElementOfSeq
    <3>. QED
      BY <1>1, <2>1, <3>1
  <2>. HIDE DEF q
  <2>3. List(e) = q /\ e.regions = q /\ List(c) = c.regions
    BY <1>1, <1>2, <1>4 DEF List, q
  <2>4. \A i \in DOMAIN e.sessions : i \in DOMAIN e.regions /\ e.sessions[i].region = e.regions[i]
    <3>1. CASE e.sessions = <<>>
      <4>1. DOMAIN <<>> = {}
        OBVIOUS
      <4>. QED
        BY <3>1, <4>1
    <3>2. CASE Retried(c, e, k)
      <4>1. \A i \in DOMAIN c.sessions : i \in DOMAIN c.regions /\ c.sessions[i].region = c.regions[i]
        BY <1>4 DEF Plan
      <4>2. ASSUME NEW i \in DOMAIN e.sessions PROVE i \in DOMAIN e.regions /\ e.sessions[i].region = e.regions[i]
        <5>1. Len(c.sessions) \in Nat /\ DOMAIN c.sessions = 1 .. Len(c.sessions) /\ k \in Nat
          BY <1>1, LenProperties
        <5>2. i \in 1 .. (Len(c.sessions) - k + 1) /\ e.sessions[i].region = c.sessions[i + k - 1].region
          BY <3>2 DEF Retried
        <5>3. i + k - 1 \in DOMAIN c.sessions /\ i \in Nat /\ i > 0
          BY <1>1, <5>1, <5>2
        <5>4. i + k - 1 \in 1 .. n /\ c.sessions[i + k - 1].region = c.regions[i + k - 1]
          BY <1>1, <1>4, <4>1, <5>3
        <5>5. i \in 1 .. (n - k + 1)
          BY <1>1, <5>3, <5>4
        <5>. QED
          BY <2>2, <2>3, <5>2, <5>4, <5>5
      <4>. QED
        BY <4>2
    <3>3. e.sessions = <<>> \/ Retried(c, e, k)
      BY <1>4 DEF RearmedLane, Untouched, Multi
    <3>. QED
      BY <3>1, <3>2, <3>3
  <2>5. DOMAIN List(e) = 1 .. (n - k + 1) /\ \A i \in 1 .. (n - k + 1) : List(e)[i] = List(c)[i + k - 1]
    BY <2>2, <2>3
  <2>6. Plan(c, k, B)
    OBVIOUS
  <2>7. c.phase # "armed"
    BY <1>2, <1>4 DEF Multi
  <2>. HIDE DEF n
  <2>. QED
    BY ONLY <1>1, <1>2, <2>4, <2>5, <2>6, <2>7, PlanShift
<1>5. CASE c.tool = "extrude"
  <2>1. Retried(c, e, k)
    <3>1. k <= Len(c.sessions) /\ c.sessions # <<>>
      <4>1. k <= Len(c.sessions)
        BY <1>1, <1>5
      <4>2. k \in DOMAIN c.sessions /\ DOMAIN <<>> = {}
        BY <1>1, <1>5
      <4>. QED
        BY <4>1, <4>2
    <3>2. ~(k > Len(c.sessions))
      BY <1>1, <3>1, LenProperties
    <3>. QED
      BY <1>5, <3>1, <3>2 DEF RearmedLane, Multi
  <2>2. DOMAIN e.sessions = 1 .. (n - k + 1) /\ Len(c.sessions) = n
        /\ \A i \in DOMAIN e.sessions : e.sessions[i].region = c.sessions[i + k - 1].region
    BY <1>1, <1>5, <2>1 DEF Retried
  <2>3. List(e) = [i \in DOMAIN e.sessions |-> e.sessions[i].region]
    BY <1>2, <1>5 DEF List
  <2>4. DOMAIN List(e) = 1 .. (n - k + 1) /\ \A i \in 1 .. (n - k + 1) : List(e)[i] = List(c)[i + k - 1]
    <3>1. ASSUME NEW i \in 1 .. (n - k + 1) PROVE List(e)[i] = List(c)[i + k - 1]
      <4>1. i + k - 1 \in DOMAIN c.sessions
        BY <1>1, <1>5
      <4>. QED
        BY <1>1, <1>5, <2>2, <2>3, <4>1
    <3>. QED
      BY <2>2, <2>3, <3>1
  <2>5. Plan(c, k, B) /\ e.tool = "extrude" /\ c.phase # "armed"
    BY <1>2, <1>5 DEF Multi
  <2>. HIDE DEF n
  <2>. QED
    BY ONLY <1>1, <1>2, <2>4, <2>5, PlanShift
<1>. QED
  BY <1>3, <1>4, <1>5 DEF Multi

(* The plan of a commit is kept by what keeps the list and the last call.  *)
LEMMA PlannedBy ==
    ASSUME NEW c, NEW B, Planned(c, B), NEW e, e.tool = c.tool, e.commit = c.commit, List(e) = List(c),
           Total(e) = Total(c), Done(e) <=> Done(c),
           c.commit.pc \in {"apply", "undo"} => e.calls[Len(e.calls)].region = c.calls[Len(c.calls)].region,
           \A m : Plan(c, m, B) => Plan(e, m, B)
    PROVE  Planned(e, B)
  BY DEF Planned

(* A call for the k-th region is sent.                                     *)
LEMMA PlannedCall ==
    ASSUME NEW c, c.calls \in Seq(CallRec), NEW k, NEW B, NEW e, k \in DOMAIN List(e), Plan(e, k, B),
           e.commit.pc \in {"apply", "undo"}, e.commit.k = k, NEW kind, NEW r, r = List(e)[k], NEW v, NEW b,
           e.calls = Append(c.calls, CallOf(c, kind, r, v, b))
    PROVE  Planned(e, B)
<1>. DEFINE call == CallOf(c, kind, r, v, b)
<1>1. call.region = r /\ call.answer = "none"
  BY DEF CallOf
<1>. HIDE DEF call
<1>2. e.calls[Len(e.calls)] = call
  BY DEF call
<1>3. e.calls[Len(e.calls)].region = r /\ e.calls[Len(e.calls)].answer = "none"
  BY ONLY <1>1, <1>2
<1>4. Done(e) = FALSE
  BY <1>3 DEF Done
<1>. QED
  BY <1>3, <1>4 DEF Planned

(* What is not in the set of what is built is missing.                     *)
LEMMA NotBuilt ==
    ASSUME NEW recs, NEW a, NEW r \in Nat, r \notin BuiltOf(recs, a)
    PROVE  Missing(recs, [arm |-> a, region |-> r, ok |-> TRUE])
  BY DEF BuiltOf, Built, Missing

(* The commit takes a step of its loop.                                    *)
LEMMA PlanStepped ==
    ASSUME NEW c, ToolOK(c), c.sessions \in Seq(Session), c.calls \in Seq(CallRec), c.tool # "select",
           c.phase = "committing" \/ (c.phase = "armed" /\ c.tool \notin Multi),
           NEW recs, NEW gone, Calm(c, recs, gone), NEW k \in Nat, k > 0,
           NEW B, B = BuiltOf(recs, c.arm), Plan(c, k, B),
           NEW e, e.sessions \in Seq(Session), Stepped(c, e, k, TRUE)
    PROVE  Lines(e, recs, gone) /\ Planned(e, B)
<1>1. /\ DOMAIN List(c) = 1 .. Total(c) /\ Total(c) \in Nat
      /\ c.tool = "extrude" => Total(c) = Len(c.sessions)
      /\ c.tool # "extrude" => List(c) = c.regions
  BY ListIs
<1>2. c.arm \in Nat /\ c.regions \in Seq(Nat)
  BY DEF ToolOK
<1>3. ASSUME e.tool = c.tool, e.regions = c.regions, e.chosen = c.chosen, e.sessions = c.sessions,
             e.phase = "committing"
      PROVE  List(e) = List(c) /\ Plan(e, k, B) /\ Total(e) = Total(c)
  <2>1. SameSessions(c.sessions, e.sessions) /\ (c.phase = "waiting" <=> e.phase = "waiting")
        /\ (c.tool = "extrude" /\ c.phase = "armed" => e.phase = "armed" \/ DOMAIN c.sessions # {})
    BY <1>3 DEF SameSessions, Multi
  <2>2. Total(e) = Total(c)
    BY <1>3 DEF Total
  <2>3. List(e) = List(c)
    BY ONLY <1>3, <2>1, ListSame
  <2>4. Plan(c, k, B)
    OBVIOUS
  <2>5. Plan(e, k, B)
    BY ONLY <1>3, <2>1, <2>4, PlanSame
  <2>. QED
    BY <2>2, <2>3, <2>5
<1>4. CASE k > Total(c) /\ Loads(c, e)
  <2>1. e.calls = c.calls /\ e.arm = c.arm /\ e.commit.pc = "loading" /\ e.tool = c.tool /\ e.chosen = c.chosen
        /\ e.regions = c.regions /\ e.sessions = c.sessions /\ e.phase = c.phase
    BY <1>4 DEF Loads, SameArm, Untouched
  <2>2. Lines(e, recs, gone)
    BY <2>1, CalmLines
  <2>3. SameSessions(c.sessions, e.sessions) /\ Total(e) = Total(c)
    BY <2>1 DEF SameSessions, Total
  <2>4. List(e) = List(c)
    BY ONLY <2>1, <2>3, ListSame
  <2>5. \A i \in DOMAIN List(e) : ~(i >= k) /\ ~(i >= Total(e) + 1)
    BY <1>1, <1>4, <2>3, <2>4
  <2>6. Plan(e, k, B)
    <3>1. (c.phase = "waiting" <=> e.phase = "waiting")
          /\ (c.tool = "extrude" /\ c.phase = "armed" => e.phase = "armed" \/ DOMAIN c.sessions # {})
      BY <2>1
    <3>2. Plan(c, k, B)
      OBVIOUS
    <3>. QED
      BY ONLY <2>1, <2>3, <3>1, <3>2, PlanSame
  <2>7. Plan(e, Total(e) + 1, B)
    BY <2>5, <2>6 DEF Plan
  <2>. QED
    BY <2>1, <2>2, <2>7 DEF Planned
<1>5. CASE k <= Total(c) /\ Barred(c, e, k)
  <2>1. e.calls = c.calls /\ e.arm = c.arm /\ e.commit.pc = "barrier" /\ e.commit.k = k /\ e.tool = c.tool
        /\ e.chosen = c.chosen /\ e.regions = c.regions /\ e.sessions = c.sessions /\ e.phase = "committing"
    BY <1>5 DEF Barred, SameArm
  <2>2. Lines(e, recs, gone)
    BY <2>1, CalmLines
  <2>3. k \in DOMAIN List(e) /\ Plan(e, k, B)
    BY <1>1, <1>3, <1>5, <2>1
  <2>. QED
    BY <2>1, <2>2, <2>3 DEF Planned
<1>6. CASE k <= Total(c) /\ Rearmed(c, e, k) /\ RearmedLane(c, e, k, TRUE)
  <2>1. e.calls = c.calls /\ e.arm = c.arm /\ e.commit.pc = "none"
    BY <1>6 DEF Rearmed, SameArm, NoCommit
  <2>2. Lines(e, recs, gone)
    BY <2>1, CalmLines
  <2>3. k \in DOMAIN List(c)
    BY <1>1, <1>6
  <2>4. Plan(e, 1, B)
    BY <1>6, <2>3, PlanRearmed
  <2>. QED
    BY <2>1, <2>2, <2>4 DEF Planned
<1>7. CASE k <= Total(c) /\ Applied(c, e, k)
  <2>1. e.calls = Append(c.calls, CallOf(c, "apply", c.regions[k], c.value, FALSE)) /\ e.arm = c.arm
        /\ e.commit.pc = "apply" /\ e.commit.k = k /\ e.tool = c.tool
        /\ e.chosen = c.chosen /\ e.regions = c.regions /\ e.sessions = c.sessions /\ e.phase = "committing"
    BY <1>7 DEF Applied, SameArm, Untouched
  <2>2. c.tool # "extrude"
    <3>1. k > Len(c.sessions) /\ k <= Total(c)
      BY <1>7 DEF Applied
    <3>2. Len(c.sessions) \in Nat
      BY LenProperties
    <3>. QED
      BY <1>1, <3>1, <3>2
  <2>3. k \in DOMAIN c.regions /\ List(c)[k] = c.regions[k] /\ c.regions[k] \in Nat
    BY <1>1, <1>2, <1>7, <2>2, ElementOfSeq
  <2>4. c.regions[k] \notin B
    BY <1>1, <2>2, <2>3 DEF Plan
  <2>5. Missing(recs, [arm |-> c.arm, region |-> c.regions[k], ok |-> TRUE])
    BY <2>3, <2>4, NotBuilt
  <2>6. Lines(e, recs, gone)
    BY <1>2, <2>1, <2>5, LinesApplied
  <2>7. k \in DOMAIN List(e) /\ Plan(e, k, B) /\ c.regions[k] = List(e)[k]
    BY <1>1, <1>3, <1>7, <2>1, <2>3
  <2>8. e.commit.pc \in {"apply", "undo"}
    BY <2>1
  <2>9. Planned(e, B)
    BY ONLY c.calls \in Seq(CallRec), <2>1, <2>7, <2>8, PlannedCall
  <2>. QED
    BY <2>6, <2>9
<1>. QED
  BY <1>4, <1>5, <1>6, <1>7 DEF Stepped

(* The barrier of the k-th region is over.                                 *)
LEMMA PlanBarrier ==
    ASSUME NEW c, ToolOK(c), c.sessions \in Seq(Session), c.calls \in Seq(CallRec), c.tool # "select",
           c.phase = "committing", NEW recs, NEW gone, Calm(c, recs, gone),
           NEW k, k \in DOMAIN List(c), k \in DOMAIN c.sessions, c.sessions[k].sid \in DOMAIN c.lane,
           NEW B, B = BuiltOf(recs, c.arm), Plan(c, k, B), NEW out,
           NEW e, e.sessions \in Seq(Session), BarrierEnds(c, e, k, out, TRUE)
    PROVE  Lines(e, recs, gone) /\ Planned(e, B)
<1>1. /\ DOMAIN List(c) = 1 .. Total(c) /\ Total(c) \in Nat
      /\ c.tool = "extrude" => \A i \in DOMAIN c.sessions : List(c)[i] = c.sessions[i].region
      /\ c.tool # "extrude" => List(c) = c.regions
  BY ListIs
<1>2. c.sessions[k].region = List(c)[k] /\ c.sessions[k].region \in Nat
  <2>1. c.sessions[k] \in Session
    BY ElementOfSeq
  <2>. QED
    BY <1>1, <2>1 DEF Plan, Session
<1>3. PICK d : \/ /\ Ended(c, d, {c.sessions[k].sid})
                  /\ Rearmed(d, e, k) /\ RearmedLane(d, e, k, TRUE)
               \/ /\ Ended(c, d, {c.sessions[k].sid})
                  /\ \E v : \E b : Called(d, e, "apply", k, c.sessions[k].region, v, b)
  BY DEF BarrierEnds
<1>4. SameTool(c, d) /\ d.sessions = c.sessions
  BY <1>3 DEF Ended
<1>5. d.tool = c.tool /\ d.phase = c.phase /\ d.regions = c.regions /\ d.arm = c.arm /\ d.chosen = c.chosen
      /\ d.calls = c.calls /\ d.value = c.value /\ d.commit = c.commit
  BY <1>4 DEF SameTool
<1>6. SameSessions(c.sessions, d.sessions)
  BY <1>4 DEF SameSessions
<1>7. List(d) = List(c)
  BY ONLY <1>5, <1>6, ListSame
<1>8. Plan(d, k, B)
  <2>1. Plan(c, k, B) /\ c.phase # "armed"
    OBVIOUS
  <2>. QED
    BY ONLY <1>5, <1>6, <2>1, PlanSame
<1>9. CASE Rearmed(d, e, k) /\ RearmedLane(d, e, k, TRUE)
  <2>1. e.calls = c.calls /\ e.arm = c.arm /\ e.commit.pc = "none"
    BY <1>5, <1>9 DEF Rearmed, SameArm, NoCommit
  <2>2. Lines(e, recs, gone)
    BY <2>1, CalmLines
  <2>3. ToolOK(d)
    BY <1>4, <1>5 DEF ToolOK
  <2>4. d.sessions \in Seq(Session) /\ d.tool # "select" /\ d.phase = "committing" /\ k \in DOMAIN List(d)
        /\ e.sessions \in Seq(Session)
    BY <1>4, <1>5, <1>7
  <2>5. Plan(e, 1, B)
    BY ONLY <1>8, <1>9, <2>3, <2>4, PlanRearmed
  <2>. QED
    BY <2>1, <2>2, <2>5 DEF Planned
<1>10. CASE \E v : \E b : Called(d, e, "apply", k, c.sessions[k].region, v, b)
  <2>. DEFINE r == List(c)[k]
  <2>1. PICK v : \E b : Called(d, e, "apply", k, r, v, b)
    BY <1>2, <1>10
  <2>2. PICK b : Called(d, e, "apply", k, r, v, b)
    BY <2>1
  <2>3. e.tool = c.tool /\ e.phase = "committing" /\ e.regions = c.regions /\ e.chosen = c.chosen
        /\ e.sessions = c.sessions /\ e.arm = c.arm /\ e.commit.pc = "apply" /\ e.commit.k = k
        /\ e.calls = Append(d.calls, CallOf(d, "apply", r, v, b))
    BY <1>4, <1>5, <2>2 DEF Called, SameArm, Untouched
  <2>4. CallOf(d, "apply", r, v, b) = CallOf(c, "apply", r, v, b)
    BY <1>5 DEF CallOf
  <2>5. SameSessions(c.sessions, e.sessions)
    BY <2>3 DEF SameSessions
  <2>6. Plan(c, k, B) /\ c.phase = "committing" /\ c.calls \in Seq(CallRec) /\ Calm(c, recs, gone) /\ c.arm \in Nat
    BY DEF ToolOK
  <2>7. List(e) = List(c)
    BY ONLY <2>3, <2>5, <2>6, ListSame
  <2>8. Plan(e, k, B)
    BY ONLY <2>3, <2>5, <2>6, PlanSame
  <2>9. r \in Nat /\ r \notin B
    BY <1>1, <1>2 DEF Plan
  <2>10. Missing(recs, [arm |-> c.arm, region |-> r, ok |-> TRUE])
    BY <2>9, NotBuilt
  <2>11. e.calls = Append(c.calls, CallOf(c, "apply", r, v, b)) /\ r = List(e)[k] /\ k \in DOMAIN List(e)
         /\ e.commit.pc \in {"apply", "undo"} /\ e.arm \in Nat
    BY <1>5, <2>3, <2>4, <2>6, <2>7
  <2>. HIDE DEF r
  <2>12. Lines(e, recs, gone)
    BY ONLY <2>3, <2>6, <2>10, <2>11, LinesApplied
  <2>13. Planned(e, B)
    BY ONLY <2>3, <2>6, <2>8, <2>11, PlannedCall
  <2>. QED
    BY <2>12, <2>13
<1>. QED
  BY <1>3, <1>9, <1>10

(* The records fit the calls under way and what is still to be built.      *)
Recorded(c, recs, gone) == Lines(c, recs, gone) /\ Planned(c, BuiltOf(recs, c.arm))

(* A tool is left,                                                         *)
LEMMA RecordedSwept ==
    ASSUME NEW c, Base(c), NEW recs, NEW gone, Recorded(c, recs, gone), NEW more, gone \subseteq more,
           c.commit.pc \in {"apply", "undo"} => c.arm \in more, NEW e, Swept(c, e)
    PROVE  Recorded(e, recs, more)
<1>1. Lines(e, recs, more)
  BY LinesSwept DEF Recorded
<1>2. e.tool = "select"
  BY DEF Swept
<1>. QED
  BY <1>1, <1>2 DEF Recorded, Planned

(* and another starts with all of its regions to be built.                 *)
LEMMA RecordedStarts ==
    ASSUME NEW c, Base(c), NEW recs \in Seq(Record), NEW gone, Recorded(c, recs, gone), NEW more, gone \subseteq more,
           c.commit.pc \in {"apply", "undo"} => c.arm \in more,
           NEW t \in Tools, NEW regions \in Subjects(t), NEW basis, NEW e, Starts(c, e, t, regions, basis)
    PROVE  Recorded(e, recs, more)
<1>. DEFINE B == BuiltOf(recs, e.arm)
<1>1. Lines(e, recs, more) /\ \A i \in DOMAIN recs : recs[i].arm < e.arm
  BY LinesStarts DEF Recorded
<1>2. c.arm \in Nat /\ e.arm = c.arm + 1 /\ e.commit.pc = "none" /\ e.tool = t /\ e.regions = regions
      /\ e.chosen = Len(regions)
  BY DEF Base, Control, ToolOK, Starts, NoCommit
<1>3. B = {}
  <2>1. \A i \in DOMAIN recs : recs[i].arm # e.arm
    <3>1. \A i \in DOMAIN recs : recs[i].arm \in Nat
      <4>1. \A i \in DOMAIN recs : recs[i] \in Record
        BY ElementOfSeq
      <4>. QED
        BY <4>1 DEF Record
    <3>. QED
      BY <1>1, <1>2, <3>1
  <2>. QED
    BY <2>1 DEF BuiltOf, Built
<1>4. /\ regions \in Seq(Nat) /\ DOMAIN regions = 1 .. Len(regions)
      /\ \A i \in DOMAIN regions : regions[i] = i
  <2>1. regions \in Seq(Nat) /\ Len(regions) \in Nat /\ (t \notin Multi => regions = <<1>>)
    BY SubjectsAre
  <2>2. CASE t \in Multi
    <3>1. PICK n \in 1 .. MaxRegions : regions = [i \in 1 .. n |-> i]
      BY <2>2 DEF Subjects
    <3>. QED
      BY <2>1, <3>1
  <2>3. CASE t \notin Multi
    <3>1. DOMAIN <<1>> = 1 .. 1 /\ Len(<<1>>) = 1 /\ <<1>>[1] = 1
      OBVIOUS
    <3>2. \A i \in 1 .. 1 : i = 1
      OBVIOUS
    <3>3. regions = <<1>>
      BY <2>1, <2>3
    <3>4. \A i \in 1 .. 1 : regions[i] = i
      BY <3>1, <3>2, <3>3, Zenon
    <3>. QED
      BY <2>1, <3>1, <3>3, <3>4
  <2>. QED
    BY <2>1, <2>2, <2>3
<1>5. List(e) = regions
  <2>1. t = "extrude" => e.phase = "waiting"
    BY DEF Starts, AtOnce
  <2>. QED
    BY <1>2, <2>1 DEF List
<1>6. \A i \in DOMAIN e.sessions : i \in DOMAIN regions /\ e.sessions[i].region = regions[i]
  <2>1. DOMAIN <<>> = {}
    OBVIOUS
  <2>. QED
    BY <2>1 DEF Starts
<1>. HIDE DEF B
<1>7. Plan(e, 1, B)
  <2>1. \A r \in 1 .. e.chosen : \E i \in DOMAIN List(e) : i >= 1 /\ List(e)[i] = r
    BY <1>2, <1>4, <1>5
  <2>. QED
    BY <1>2, <1>3, <1>4, <1>5, <1>6, <2>1 DEF Plan
<1>. QED
  BY <1>1, <1>2, <1>7 DEF Recorded, Planned, B

(* A tool that is not committing has the plan of all it lists.             *)
LEMMA RecordedIdle ==
    ASSUME NEW c, NEW recs, NEW gone, Recorded(c, recs, gone), c.commit.pc \in {"none", "record"},
           NEW e, e.calls = c.calls, e.arm = c.arm, e.commit.pc \in {"none", "record"}, e.tool = c.tool,
           c.tool # "select" => \A B : Plan(c, 1, B) => Plan(e, 1, B)
    PROVE  Recorded(e, recs, gone)
<1>1. Fails(e) = Fails(c) /\ Owns(e) = Owns(c)
  BY DEF Fails, Owns
<1>2. Lines(e, recs, gone)
  BY <1>1 DEF Recorded, Lines
<1>. QED
  BY <1>2 DEF Recorded, Planned

(* The answers to a tool that waits, or to the axis that was picked.       *)
LEMMA RecordedWaited ==
    ASSUME NEW c, Base(c), c.phase \in {"waiting", "axisPick"}, NEW recs, NEW gone, Recorded(c, recs, gone),
           NEW e, Base(e), Waited(c, e)
    PROVE  Recorded(e, recs, gone)
<1>1. c.commit.pc = "none" /\ c.sessions = <<>> /\ (c.phase = "axisPick" => c.tool = "revolve") /\ c.tool # "select"
      /\ c.regions \in Seq(Nat)
  BY DEF Base, Control, PhaseOK, ToolOK
<1>2. List(c) = c.regions
  BY <1>1 DEF List
<1>3. DOMAIN <<>> = {}
  OBVIOUS
<1>4. CASE Arms(c, e)
  <2>1. e.tool = c.tool /\ e.regions = c.regions /\ e.commit = c.commit /\ e.arm = c.arm /\ e.chosen = c.chosen
        /\ e.calls = c.calls /\ DOMAIN e.sessions = DOMAIN c.regions
        /\ \A i \in DOMAIN c.regions : e.sessions[i].region = c.regions[i]
    BY <1>4 DEF Arms, Reopened
  <2>2. DOMAIN List(e) = DOMAIN c.regions /\ \A i \in DOMAIN c.regions : List(e)[i] = c.regions[i]
    BY <2>1 DEF List
  <2>3. c.tool = "extrude" /\ c.phase = "armed" => DOMAIN c.sessions # {}
    OBVIOUS
  <2>4. ASSUME NEW B, Plan(c, 1, B) PROVE Plan(e, 1, B)
    <3>1. \A i \in DOMAIN e.sessions : i \in DOMAIN e.regions /\ e.sessions[i].region = e.regions[i]
      BY <2>1
    <3>2. \A i \in DOMAIN List(e) : \A j \in DOMAIN List(e) : List(e)[i] = List(e)[j] => i = j
      BY <1>2, <2>2, <2>4 DEF Plan
    <3>3. \A i \in DOMAIN List(e) : i >= 1 => List(e)[i] \notin B
      BY <1>2, <2>2, <2>4 DEF Plan
    <3>4. \A r \in 1 .. e.chosen : r \in B \/ \E i \in DOMAIN List(e) : i >= 1 /\ List(e)[i] = r
      BY <1>2, <2>1, <2>2, <2>3, <2>4 DEF Plan
    <3>. QED
      BY <3>1, <3>2, <3>3, <3>4 DEF Plan
  <2>. QED
    BY <1>1, <2>1, <2>4, RecordedIdle
<1>5. CASE Swept(c, e)
  BY <1>1, <1>5, RecordedSwept
<1>6. CASE c.tool \in Multi /\ Turns(c, e, e.phase) /\ e.phase \in {"armed", "axisPick"}
  <2>1. e.tool = c.tool /\ e.regions = c.regions /\ e.commit = c.commit /\ e.arm = c.arm /\ e.chosen = c.chosen
        /\ e.calls = c.calls /\ DOMAIN e.sessions = {}
    BY <1>1, <1>3, <1>6 DEF Turns, Untouched
  <2>2. e.tool # "extrude" => List(e) = c.regions
    BY <2>1 DEF List
  <2>3. ASSUME NEW B, Plan(c, 1, B) PROVE Plan(e, 1, B)
    <3>1. CASE c.tool = "extrude"
      <4>1. e.phase # "waiting" /\ DOMAIN List(e) = {}
        BY <1>6, <2>1, <3>1 DEF List
      <4>2. CASE e.phase = "armed"
        BY <2>1, <3>1, <4>1, <4>2 DEF Plan
      <4>3. CASE e.phase = "axisPick"
        BY <2>1, <3>1, <4>3 DEF Base, Control, PhaseOK
      <4>. QED
        BY <1>6, <4>2, <4>3
    <3>2. CASE c.tool # "extrude"
      BY <1>2, <2>1, <2>2, <2>3, <3>2 DEF Plan
    <3>. QED
      BY <3>1, <3>2
  <2>. QED
    BY <1>1, <2>1, <2>3, RecordedIdle
<1>. QED
  BY <1>4, <1>5, <1>6 DEF Waited

(* What a tool other than extrude lists does not depend on its sessions.   *)
LEMMA PlanListed ==
    ASSUME NEW c, NEW m, NEW B, Plan(c, m, B), c.tool # "extrude", NEW e, e.tool = c.tool, e.regions = c.regions,
           e.chosen = c.chosen,
           \A i \in DOMAIN e.sessions : i \in DOMAIN e.regions /\ e.sessions[i].region = e.regions[i]
    PROVE  Plan(e, m, B)
<1>1. List(e) = List(c)
  BY DEF List
<1>. QED
  BY <1>1 DEF Plan

(* The user sets a value, picks the axis anew or flips the kind, or leaves.*)
LEMMA RecordedAdjusts ==
    ASSUME NEW c, Base(c), NEW recs, NEW gone, Recorded(c, recs, gone), NEW e, Base(e), Adjusts(c, e)
    PROVE  Recorded(e, recs, gone) \/ Swept(c, e)
<1>. DEFINE B == BuiltOf(recs, c.arm)
<1>1. Lines(c, recs, gone) /\ Planned(c, B) /\ ToolOK(c) /\ c.sessions \in Seq(Session)
      /\ e.sessions \in Seq(Session)
  BY DEF Recorded, Base, Control, LaneOK, LaneShape
<1>2. DOMAIN <<>> = {}
  OBVIOUS
<1>3. c.phase = "armed" => c.commit.pc = "none"
  BY DEF Base, Control, PhaseOK
<1>4. CASE c.phase = "armed" /\ Sets(c, e, e.value)
  <2>1. e.calls = c.calls /\ e.arm = c.arm /\ e.commit = c.commit /\ e.tool = c.tool /\ e.regions = c.regions
        /\ e.chosen = c.chosen /\ e.sessions = c.sessions /\ e.phase = c.phase
    BY <1>4 DEF Sets
  <2>2. ASSUME NEW D, Plan(c, 1, D) PROVE Plan(e, 1, D)
    BY <2>1, <2>2, PlanSame DEF SameSessions
  <2>. QED
    BY <1>3, <1>4, <2>1, <2>2, RecordedIdle
<1>5. CASE c.phase = "armed" /\ c.tool = "revolve" /\ Unpicked(c, e)
  <2>1. e.calls = c.calls /\ e.arm = c.arm /\ e.commit = c.commit /\ e.tool = c.tool /\ e.regions = c.regions
        /\ e.chosen = c.chosen /\ DOMAIN e.sessions = {} /\ c.tool # "extrude"
    BY <1>2, <1>5 DEF Unpicked
  <2>2. ASSUME NEW D, Plan(c, 1, D) PROVE Plan(e, 1, D)
    BY <2>1, <2>2, PlanListed
  <2>. QED
    BY <1>3, <1>5, <2>1, <2>2, RecordedIdle
<1>6. CASE FlipStep(c, e)
  <2>1. c.tool = "fillet" /\ c.tool \notin Multi /\ c.tool \notin {"extrude", "select", "revolve"}
    BY <1>6 DEF FlipStep, Multi
  <2>2. ASSUME NEW x, Flipped(c, x)
        PROVE  /\ x.tool = c.tool /\ x.regions = c.regions /\ x.chosen = c.chosen /\ x.commit = c.commit
               /\ x.calls = c.calls /\ x.arm = c.arm /\ x.phase = c.phase
               /\ List(x) = List(c) /\ Total(x) = Total(c) /\ \A m : \A D : Plan(c, m, D) => Plan(x, m, D)
    <3>1. x.tool = c.tool /\ x.regions = c.regions /\ x.chosen = c.chosen /\ x.commit = c.commit
          /\ x.calls = c.calls /\ x.arm = c.arm /\ x.phase = c.phase
          /\ \A i \in DOMAIN x.sessions : i \in DOMAIN x.regions /\ x.sessions[i].region = x.regions[i]
      BY <2>2 DEF Flipped, SameTool
    <3>2. List(x) = List(c) /\ Total(x) = Total(c)
      BY <2>1, <3>1 DEF List, Total
    <3>3. ASSUME NEW m, NEW D, Plan(c, m, D) PROVE Plan(x, m, D)
      BY ONLY <2>1, <3>1, <3>3, PlanListed
    <3>. QED
      BY <3>1, <3>2, <3>3
  <2>3. CASE Flipped(c, e)
    <3>1. /\ e.tool = c.tool /\ e.regions = c.regions /\ e.chosen = c.chosen /\ e.commit = c.commit
          /\ e.calls = c.calls /\ e.arm = c.arm /\ e.phase = c.phase
          /\ List(e) = List(c) /\ Total(e) = Total(c) /\ \A m : \A D : Plan(c, m, D) => Plan(e, m, D)
      BY <2>2, <2>3
    <3>2. Done(e) <=> Done(c)
      BY <3>1 DEF Done
    <3>3. Planned(e, B)
      <4>. HIDE DEF B
      <4>. QED
        BY <1>1, <3>1, <3>2, PlannedBy
    <3>4. Lines(e, recs, gone)
      BY <1>1, <3>1, LinesSame
    <3>. QED
      BY <3>1, <3>3, <3>4 DEF Recorded
  <2>4. CASE /\ c.commit.pc = "barrier"
             /\ \E x : LaneOK(x, {}) /\ Flipped(c, x) /\ Rearmed(x, e, 1) /\ RearmedLane(x, e, 1, TRUE)
    <3>1. PICK x : LaneOK(x, {}) /\ Flipped(c, x) /\ Rearmed(x, e, 1) /\ RearmedLane(x, e, 1, TRUE)
      BY <2>4
    <3>2. /\ x.tool = c.tool /\ x.regions = c.regions /\ x.chosen = c.chosen /\ x.commit = c.commit
          /\ x.calls = c.calls /\ x.arm = c.arm /\ x.phase = c.phase
          /\ List(x) = List(c) /\ Total(x) = Total(c) /\ \A m : \A D : Plan(c, m, D) => Plan(x, m, D)
      BY <2>2, <3>1
    <3>3. c.phase = "committing"
      BY <2>4 DEF Base, Control, PhaseOK
    <3>4. DOMAIN List(c) = 1 .. 1
      BY <1>1, <2>1, <3>3, ListIs
    <3>5. 1 \in DOMAIN List(c) /\ c.commit.k = 1 /\ Plan(c, 1, B)
      <4>1. c.commit.k \in 1 .. 1 /\ Plan(c, c.commit.k, B)
        BY <1>1, <2>1, <2>4, <3>4 DEF Planned
      <4>2. \A i \in 1 .. 1 : i = 1
        OBVIOUS
      <4>. QED
        BY <3>4, <4>1, <4>2
    <3>6. ToolOK(x)
      <4>1. DOMAIN x.sessions \subseteq {1}
        <5>1. c.regions = <<1>>
          BY <1>1, <2>1 DEF ToolOK
        <5>2. DOMAIN <<1>> = {1}
          OBVIOUS
        <5>. QED
          BY <3>1, <5>1, <5>2 DEF Flipped
      <4>. QED
        BY <1>1, <3>2, <4>1 DEF ToolOK
    <3>7. x.sessions \in Seq(Session) /\ x.tool # "select" /\ x.phase = "committing" /\ 1 \in DOMAIN List(x)
          /\ Plan(x, 1, B) /\ e.sessions \in Seq(Session)
      BY <1>1, <2>1, <3>1, <3>2, <3>3, <3>5 DEF LaneOK, LaneShape
    <3>. HIDE DEF B
    <3>8. Plan(e, 1, B)
      BY ONLY <3>1, <3>6, <3>7, PlanRearmed
    <3>9. e.calls = c.calls /\ e.arm = c.arm /\ e.commit.pc = "none"
      BY <3>1, <3>2 DEF Rearmed, SameArm, NoCommit
    <3>10. Calm(c, recs, gone)
      BY <1>1, <2>1, <2>4, LinesCalm
    <3>11. Lines(e, recs, gone)
      BY <3>9, <3>10, CalmLines
    <3>. QED
      BY <3>8, <3>9, <3>11 DEF Recorded, Planned, B
  <2>. QED
    BY <1>6, <2>3, <2>4 DEF FlipStep
<1>. QED
  BY <1>4, <1>5, <1>6 DEF Adjusts

(* Where every region's session opens once more, a barrier's session is in *)
(* the lane.                                                               *)
LEMMA BarrierReaches ==
    ASSUME "profile_gone" \notin Rare, NEW c, Base(c), Fits(c), c.commit.pc = "barrier"
    PROVE  c.commit.k \in DOMAIN c.sessions /\ c.sessions[c.commit.k].sid \in DOMAIN c.lane
<1>1. c.commit.k \in DOMAIN c.sessions /\ c.commit.k \in Nat
  BY DEF Base, Control, PhaseOK, ToolOK, Commit
<1>2. Reached(c, c.commit.k)
  BY DEF Fits, Fit
<1>. QED
  BY <1>1, <1>2 DEF Reached

(* Without that circumstance beginPreview accepts the session once more.   *)
LEMMA ReopenTrue ==
    ASSUME "profile_gone" \notin Rare, NEW reopened \in Reopen
    PROVE  reopened = TRUE
  BY DEF Reopen

(* The barrier of the commit is over, in a lane that may have moved.       *)
LEMMA RecordedBarrier ==
    ASSUME "profile_gone" \notin Rare, NEW c, Base(c), Fits(c), NEW recs, NEW gone, Recorded(c, recs, gone),
           c.commit.pc = "barrier", NEW d, Moves(c, d), d.sessions \in Seq(Session), NEW out,
           NEW e, Base(e), BarrierEnds(d, e, c.commit.k, out, TRUE)
    PROVE  Recorded(e, recs, gone)
<1>. DEFINE B == BuiltOf(recs, c.arm)
            k == c.commit.k
<1>1. Lines(c, recs, gone) /\ Planned(c, B) /\ ToolOK(c) /\ c.calls \in Seq(CallRec)
      /\ e.sessions \in Seq(Session) /\ c.phase = "committing" /\ c.tool # "select"
  BY DEF Recorded, Base, Control, LaneOK, LaneShape, CallsOK, Quiet, PhaseOK
<1>2. k \in DOMAIN c.sessions /\ c.sessions[k].sid \in DOMAIN c.lane
  BY BarrierReaches
<1>3. d.tool = c.tool /\ d.phase = c.phase /\ d.regions = c.regions /\ d.arm = c.arm /\ d.chosen = c.chosen
      /\ d.calls = c.calls /\ d.value = c.value /\ d.commit = c.commit /\ DOMAIN d.lane = DOMAIN c.lane
      /\ SameSessions(c.sessions, d.sessions)
  BY DEF Moves, SameTool
<1>4. k \in DOMAIN List(c) /\ Plan(c, k, B)
  BY <1>1 DEF Planned
<1>5. List(d) = List(c)
  BY ONLY <1>3, ListSame
<1>6. Plan(d, k, B)
  <2>1. c.phase # "armed"
    BY <1>1
  <2>. QED
    BY ONLY <1>3, <1>4, <2>1, PlanSame
<1>7. ToolOK(d)
  BY <1>1, <1>3 DEF ToolOK, SameSessions
<1>8. Calm(d, recs, gone)
  <2>1. Calm(c, recs, gone)
    BY <1>1, LinesCalm
  <2>. QED
    BY <1>3, <2>1 DEF Calm
<1>9. d.sessions \in Seq(Session) /\ d.calls \in Seq(CallRec) /\ d.tool # "select" /\ d.phase = "committing"
      /\ k \in DOMAIN List(d) /\ k \in DOMAIN d.sessions /\ d.sessions[k].sid \in DOMAIN d.lane
      /\ e.sessions \in Seq(Session) /\ B = BuiltOf(recs, d.arm) /\ BarrierEnds(d, e, k, out, TRUE)
  BY <1>1, <1>2, <1>3, <1>4, <1>5 DEF SameSessions
<1>. HIDE DEF B, k
<1>10. Lines(e, recs, gone) /\ Planned(e, B)
  BY ONLY <1>6, <1>7, <1>8, <1>9, PlanBarrier
<1>11. e.arm = d.arm
  BY <1>9 DEF BarrierEnds, Ended, SameTool, Rearmed, Called, SameArm
<1>. QED
  BY <1>9, <1>10, <1>11 DEF Recorded

(* The lane answers.                                                       *)
LEMMA RecordedAnswered ==
    ASSUME "profile_gone" \notin Rare, NEW c, Base(c), Fits(c), NEW recs, NEW gone, Recorded(c, recs, gone),
           NEW out, NEW reopened \in Reopen, NEW e, Base(e), Answered(c, e, out, reopened)
    PROVE  Recorded(e, recs, gone)
<1>1. CASE Paced(c, e)
  <2>1. e.tool = c.tool /\ e.phase = c.phase /\ e.regions = c.regions /\ e.arm = c.arm /\ e.chosen = c.chosen
        /\ e.calls = c.calls /\ e.commit = c.commit /\ SameSessions(c.sessions, e.sessions)
    BY <1>1 DEF Paced, Moves, SameTool
  <2>2. List(e) = List(c)
    BY ONLY <2>1, ListSame
  <2>3. Total(e) = Total(c)
    <3>1. Len(e.sessions) = Len(c.sessions)
      <4>1. e.sessions \in Seq(Session) /\ c.sessions \in Seq(Session) /\ DOMAIN e.sessions = DOMAIN c.sessions
        BY <2>1 DEF Base, LaneOK, LaneShape, SameSessions
      <4>. QED
        BY ONLY <4>1
    <3>. QED
      BY <2>1, <3>1 DEF Total
  <2>4. Done(e) <=> Done(c)
    BY <2>1 DEF Done
  <2>5. ASSUME NEW m, NEW D, Plan(c, m, D) PROVE Plan(e, m, D)
    BY <2>1, <2>5, PlanSame
  <2>6. Lines(e, recs, gone)
    BY <2>1, LinesSame DEF Recorded
  <2>. DEFINE B == BuiltOf(recs, c.arm)
  <2>7. Planned(c, B)
    BY DEF Recorded
  <2>. HIDE DEF B
  <2>8. Planned(e, B)
    BY <2>1, <2>2, <2>3, <2>4, <2>5, <2>7, PlannedBy
  <2>. QED
    BY <2>1, <2>6, <2>8 DEF Recorded, B
<1>2. CASE c.commit.pc = "barrier" /\ \E d : Paced(c, d) /\ LaneShape(d) /\ BarrierEnds(d, e, c.commit.k, out, reopened)
  <2>1. PICK d : Paced(c, d) /\ LaneShape(d) /\ BarrierEnds(d, e, c.commit.k, out, reopened)
    BY <1>2
  <2>2. Moves(c, d) /\ d.sessions \in Seq(Session) /\ reopened = TRUE
    BY <2>1, ReopenTrue DEF Paced, LaneShape
  <2>3. BarrierEnds(d, e, c.commit.k, out, TRUE)
    BY <2>1, <2>2
  <2>. QED
    BY <1>2, <2>2, <2>3, RecordedBarrier
<1>. QED
  BY <1>1, <1>2 DEF Answered

(* The commit starts, and goes on with what it has waited for.             *)
LEMMA RecordedProceeds ==
    ASSUME "profile_gone" \notin Rare, NEW c, Base(c), Fits(c), NEW recs, NEW gone, Recorded(c, recs, gone),
           NEW e, Base(e), Proceeds(c, e),
           c.tool = "extrude" /\ c.phase = "armed" => DOMAIN c.sessions # {}
    PROVE  Recorded(e, recs, gone) \/ (c.commit.pc = "loading" /\ Swept(c, e))
<1>. DEFINE B == BuiltOf(recs, c.arm)
<1>1. /\ Lines(c, recs, gone) /\ Planned(c, B) /\ ToolOK(c) /\ c.sessions \in Seq(Session)
      /\ e.sessions \in Seq(Session) /\ (c.phase = "armed" => c.commit.pc = "none" /\ c.tool # "select")
      /\ c.commit.pc = "record" => c.phase = "committing" /\ c.tool \in Multi /\ c.tool # "select"
      /\ c.commit.pc \notin {"apply", "undo"} => c.calls \in Seq(CallRec)
  BY DEF Recorded, Base, Control, LaneOK, LaneShape, PhaseOK, CallsOK, Quiet, Multi
<1>2. CASE \/ c.phase = "armed" /\ AsksRecord(c, e)
           \/ c.commit.pc = "record" /\ Backs(c, e)
  <2>1. e.tool = c.tool /\ e.regions = c.regions /\ e.arm = c.arm /\ e.chosen = c.chosen
        /\ e.calls = c.calls /\ e.commit.pc \in {"none", "record"} /\ SameSessions(c.sessions, e.sessions)
        /\ e.phase \in {"armed", "committing"} /\ c.phase # "waiting" /\ c.commit.pc \in {"none", "record"}
    BY <1>1, <1>2 DEF AsksRecord, Backs, SameArm, Untouched, NoCommit, SameSessions
  <2>2. ASSUME NEW D, Plan(c, 1, D) PROVE Plan(e, 1, D)
    BY <2>1, <2>2, PlanSame
  <2>. QED
    BY <2>1, <2>2, RecordedIdle
<1>3. CASE /\ \/ c.phase = "armed" /\ c.tool \notin Multi
              \/ c.commit.pc = "record"
           /\ \E reopened \in {TRUE} : Stepped(c, e, 1, reopened)
  <2>1. /\ c.phase = "committing" \/ (c.phase = "armed" /\ c.tool \notin Multi)
        /\ c.tool # "select" /\ c.commit.pc \in {"none", "record"} /\ Stepped(c, e, 1, TRUE) /\ c.calls \in Seq(CallRec)
    BY <1>1, <1>3
  <2>2. Calm(c, recs, gone) /\ Plan(c, 1, B)
    BY <1>1, <2>1, LinesCalm DEF Planned
  <2>3. 1 \in Nat /\ 1 > 0 /\ B = BuiltOf(recs, c.arm)
    OBVIOUS
  <2>. HIDE DEF B
  <2>4. Lines(e, recs, gone) /\ Planned(e, B)
    BY ONLY <1>1, <2>1, <2>2, <2>3, PlanStepped
  <2>5. e.arm = c.arm
    BY <2>1 DEF Stepped, Loads, Barred, Applied, Rearmed, SameArm
  <2>. QED
    BY <2>3, <2>4, <2>5 DEF Recorded
<1>4. CASE c.commit.pc = "barrier" /\ BarrierEnds(c, e, c.commit.k, "timeout", TRUE)
  <2>1. Moves(c, c)
    BY DEF Moves, SameTool, SameSessions, Base
  <2>. QED
    BY <1>1, <1>4, <2>1, RecordedBarrier
<1>5. \A reopened \in Reopen : reopened = TRUE
  BY ReopenTrue
<1>. QED
  BY <1>2, <1>3, <1>4, <1>5 DEF Proceeds

(* A record is added: only one that is ok builds its region.               *)
Adds(recs, more, r, a) ==
  /\ r.ok /\ r.arm = a => BuiltOf(more, a) = BuiltOf(recs, a) \cup {r.region}
  /\ ~(r.ok /\ r.arm = a) => BuiltOf(more, a) = BuiltOf(recs, a)
  /\ \A x : Built(recs, a, x) => Built(more, a, x)

(* One more record.                                                        *)
LEMMA BuiltAppended ==
    ASSUME NEW recs \in Seq(Record), NEW r \in Record, NEW more, more = Append(recs, r), NEW a
    PROVE  Adds(recs, more, r, a)
<1>. DEFINE n == Len(recs) + 1
<1>1. /\ DOMAIN recs = 1 .. Len(recs) /\ DOMAIN more = 1 .. n /\ Len(recs) \in Nat
      /\ \A i \in 1 .. Len(recs) : more[i] = recs[i]
      /\ more[n] = r
  BY LenProperties
<1>2. \A i \in DOMAIN more : i = n \/ i \in DOMAIN recs
  BY <1>1
<1>3. \A i \in DOMAIN recs : i \in DOMAIN more /\ more[i] = recs[i]
  BY <1>1
<1>4. n \in DOMAIN more
  BY <1>1
<1>. HIDE DEF n
<1>5. ASSUME NEW x PROVE Built(more, a, x) <=> Built(recs, a, x) \/ r = [arm |-> a, region |-> x, ok |-> TRUE]
  BY <1>1, <1>2, <1>3, <1>4 DEF Built
<1>6. r.arm \in Nat /\ r.region \in Nat /\ r.ok \in BOOLEAN /\ r = [arm |-> r.arm, region |-> r.region, ok |-> r.ok]
  BY DEF Record
<1>7. ASSUME NEW x PROVE r = [arm |-> a, region |-> x, ok |-> TRUE] <=> r.ok /\ r.arm = a /\ r.region = x
  BY <1>6
<1>8. \A x : Built(more, a, x) <=> Built(recs, a, x) \/ (r.ok /\ r.arm = a /\ r.region = x)
  BY <1>5, <1>7
<1>. QED
  BY <1>6, <1>8 DEF BuiltOf, Adds

(* A record that failed is taken off.                                      *)
LEMMA BuiltFront ==
    ASSUME NEW recs \in Seq(Record), recs # <<>>, recs[Len(recs)].ok = FALSE, NEW less, less = Front(recs), NEW a
    PROVE  BuiltOf(less, a) = BuiltOf(recs, a) /\ \A x : Built(recs, a, x) => Built(less, a, x)
<1>1. /\ Len(recs) \in Nat /\ Len(recs) > 0 /\ DOMAIN less = 1 .. (Len(recs) - 1) /\ DOMAIN recs = 1 .. Len(recs)
      /\ \A i \in DOMAIN less : less[i] = recs[i]
  BY LenProperties, EmptySeq DEF Front
<1>2. \A i \in DOMAIN recs : i = Len(recs) \/ i \in DOMAIN less
  BY <1>1
<1>3. \A i \in DOMAIN less : i \in DOMAIN recs
  BY <1>1
<1>4. ASSUME NEW x, Built(recs, a, x) PROVE Built(less, a, x)
  <2>. DEFINE r == [arm |-> a, region |-> x, ok |-> TRUE]
  <2>1. PICK i \in DOMAIN recs : recs[i] = r
    BY <1>4 DEF Built
  <2>2. r.ok = TRUE
    OBVIOUS
  <2>. HIDE DEF r
  <2>3. i # Len(recs)
    BY <2>1, <2>2
  <2>4. i \in DOMAIN less /\ less[i] = r
    BY <1>1, <1>2, <2>1, <2>3
  <2>. QED
    BY <2>4 DEF Built, r
<1>5. \A x : Built(less, a, x) => Built(recs, a, x)
  BY <1>1, <1>3 DEF Built
<1>. QED
  BY <1>4, <1>5 DEF BuiltOf

(* What the backend has built after a call.                                *)
LEMMA BuiltHandled ==
    ASSUME NEW c, c.calls \in Seq(CallRec), NEW d \in Doc, NEW i \in DOMAIN c.calls, NEW out, NEW t,
           Handles(c, i, d, out, t),
           c.calls[i].kind = "undo" => LastIs(d.recs, RecOf(c.calls[i], FALSE)), NEW a
    PROVE  /\ out = "ok" /\ c.calls[i].kind = "apply" /\ c.calls[i].arm = a =>
                BuiltOf(t.recs, a) = BuiltOf(d.recs, a) \cup {c.calls[i].region}
           /\ ~(out = "ok" /\ c.calls[i].kind = "apply" /\ c.calls[i].arm = a) =>
                BuiltOf(t.recs, a) = BuiltOf(d.recs, a)
           /\ \A x : Built(d.recs, a, x) => Built(t.recs, a, x)
<1>. DEFINE call == c.calls[i]
            r == [arm |-> call.arm, region |-> call.region, ok |-> out = "ok"]
<1>1. call \in CallRec /\ d.recs \in Seq(Record)
  BY ElementOfSeq DEF Doc
<1>2. r \in Record /\ r.arm = call.arm /\ r.region = call.region /\ r.ok = (out = "ok")
  BY <1>1 DEF CallRec, Record
<1>3. CASE call.kind = "apply" /\ out \in {"ok", "failed"} /\ t.recs = Append(d.recs, r)
  <2>1. call.kind = "apply" /\ t.recs = Append(d.recs, r)
    BY <1>3
  <2>. HIDE DEF r, call
  <2>2. Adds(d.recs, t.recs, r, a)
    BY ONLY <1>1, <1>2, <2>1, BuiltAppended
  <2>3. /\ out = "ok" /\ call.kind = "apply" /\ call.arm = a =>
             BuiltOf(t.recs, a) = BuiltOf(d.recs, a) \cup {call.region}
        /\ ~(out = "ok" /\ call.kind = "apply" /\ call.arm = a) => BuiltOf(t.recs, a) = BuiltOf(d.recs, a)
    BY ONLY <1>2, <2>1, <2>2 DEF Adds
  <2>. QED
    BY <2>2, <2>3 DEF call, Adds
<1>4. CASE out = "refused" /\ t = d
  BY <1>4
<1>5. CASE call.kind = "undo" /\ d.recs # <<>> /\ t.recs = Front(d.recs)
  <2>1. d.recs[Len(d.recs)].ok = FALSE
    BY <1>5 DEF LastIs, RecOf
  <2>. QED
    BY <1>1, <1>5, <2>1, BuiltFront
<1>. QED
  BY <1>3, <1>4, <1>5 DEF Handles

(* The backend handles a call.                                             *)
LEMMA RecordedHandled ==
    ASSUME NEW c, Base(c), NEW d \in Doc, NEW gone, Recorded(c, d.recs, gone), NEW i \in DOMAIN c.calls,
           NEW out \in {"ok", "failed", "refused"}, NEW t, Handles(c, i, d, out, t),
           NEW e, Base(e), Replied(c, e, i, out, t)
    PROVE  Recorded(e, t.recs, gone) /\ \A a : \A x : Built(d.recs, a, x) => Built(t.recs, a, x)
<1>. DEFINE q == c.calls
            p == e.calls
            n == Len(q)
            B == BuiltOf(d.recs, c.arm)
            k == c.commit.k
<1>1. /\ q \in Seq(CallRec) /\ p \in Seq(CallRec) /\ e.arm = c.arm /\ e.tool = c.tool /\ e.commit = c.commit
      /\ DOMAIN p = DOMAIN q /\ (\A j \in DOMAIN q \ {i} : p[j] = q[j]) /\ q[i].answer = "none"
      /\ p[i] = [q[i] EXCEPT !.answer = out, !.doc = t]
      /\ e.regions = c.regions /\ e.phase = c.phase /\ e.chosen = c.chosen /\ e.sessions = c.sessions
  BY DEF Base, Control, CallsOK, Awaits, Quiet, Replied, SameArm, Untouched, Handles
<1>2. Lines(e, t.recs, gone) /\ (q[i].kind = "undo" => LastIs(d.recs, RecOf(q[i], FALSE)))
  <2>1. Lines(c, d.recs, gone)
    BY DEF Recorded
  <2>2. Lines(e, t.recs, gone) /\ (c.calls[i].kind = "undo" => i = 1 /\ LastIs(d.recs, RecOf(c.calls[i], FALSE)))
    BY <2>1, LinesHandled, Zenon
  <2>3. c.calls[i].kind = "undo" => LastIs(d.recs, RecOf(c.calls[i], FALSE))
    BY <2>2
  <2>. QED
    BY <2>2, <2>3
<1>3. Planned(c, B) /\ Lines(c, d.recs, gone)
  BY DEF Recorded
<1>4. \A a : /\ out = "ok" /\ q[i].kind = "apply" /\ q[i].arm = a =>
                  BuiltOf(t.recs, a) = BuiltOf(d.recs, a) \cup {q[i].region}
             /\ ~(out = "ok" /\ q[i].kind = "apply" /\ q[i].arm = a) => BuiltOf(t.recs, a) = BuiltOf(d.recs, a)
             /\ \A x : Built(d.recs, a, x) => Built(t.recs, a, x)
  BY <1>1, <1>2, BuiltHandled
<1>5. q[i] \in CallRec /\ \A j \in DOMAIN q : q[j].arm \in Nat
  <2>1. \A j \in DOMAIN q : q[j] \in CallRec
    BY <1>1, ElementOfSeq
  <2>. QED
    BY <2>1 DEF CallRec
<1>6. p[i].answer = out /\ p[i].region = q[i].region
  BY <1>1, <1>5 DEF CallRec
<1>7. n \in DOMAIN q /\ Len(p) = n /\ (i = n \/ i < n)
  BY <1>1, LenProperties
<1>8. SUFFICES ASSUME c.tool # "select" PROVE Planned(e, BuiltOf(t.recs, c.arm))
  BY <1>1, <1>2, <1>4 DEF Recorded, Planned
<1>9. SameSessions(c.sessions, e.sessions)
  BY <1>1 DEF SameSessions
<1>10. List(e) = List(c) /\ Total(e) = Total(c)
  BY <1>1, <1>9, ListSame DEF Total
<1>11. ASSUME NEW m, NEW D, Plan(c, m, D) PROVE Plan(e, m, D)
  BY <1>1, <1>9, <1>11, PlanSame
<1>12. p[n].region = q[n].region
  BY <1>1, <1>6, <1>7
<1>. DEFINE new == out = "ok" /\ i = n /\ c.commit.pc = "apply"
<1>13. CASE new
  <2>1. q[i].kind = "apply" /\ q[i].arm = c.arm /\ ~Done(c) /\ Done(e)
    BY <1>1, <1>6, <1>7, <1>13 DEF Base, Control, CallsOK, Awaits, Done
  <2>2. k \in DOMAIN List(c) /\ q[n].region = List(c)[k] /\ Plan(c, k, B)
    BY <1>3, <1>8, <1>13, <2>1 DEF Planned
  <2>3. BuiltOf(t.recs, c.arm) = B \cup {List(c)[k]}
    BY <1>4, <1>13, <2>1, <2>2
  <2>4. k \in Nat /\ DOMAIN List(c) \subseteq Nat
    <3>1. ToolOK(c) /\ c.sessions \in Seq(Session) /\ c.phase # "waiting"
      BY <1>13 DEF Base, Control, LaneOK, LaneShape, PhaseOK
    <3>2. DOMAIN List(c) = 1 .. Total(c)
      BY <1>8, <3>1, ListIs
    <3>. QED
      BY <2>2, <3>2
  <2>5. List(c)[k] \in BuiltOf(t.recs, c.arm) /\ Plan(c, k + 1, BuiltOf(t.recs, c.arm))
    <3>. HIDE DEF B, k
    <3>. QED
      BY <2>2, <2>3, <2>4, PlanNext
  <2>6. Plan(e, k + 1, BuiltOf(t.recs, c.arm))
    BY <1>11, <2>5
  <2>. QED
    BY <1>1, <1>7, <1>10, <1>12, <1>13, <2>1, <2>2, <2>5, <2>6 DEF Planned
<1>14. CASE ~new
  <2>1. BuiltOf(t.recs, c.arm) = B
    <3>. SUFFICES ASSUME out = "ok", q[i].kind = "apply", q[i].arm = c.arm PROVE FALSE
      BY <1>4
    <3>1. Lined(q, c.arm, Owns(c), gone) /\ c.arm \in Nat
      BY <1>3 DEF Lines, Base, Control, ToolOK
    <3>2. CASE c.commit.pc \in {"apply", "undo"}
      <4>1. q[n].arm = c.arm /\ q[n].kind = c.commit.pc
        BY <3>2 DEF Base, Control, CallsOK, Awaits
      <4>2. i = n
        BY <1>7, <3>1, <4>1 DEF Lined
      <4>. QED
        BY <1>14, <4>1, <4>2
    <3>3. CASE c.commit.pc \notin {"apply", "undo"}
      <4>1. Owns(c) = FALSE
        BY <1>8, <3>3 DEF Owns
      <4>. QED
        BY <3>1, <4>1 DEF Lined
    <3>. QED
      BY <3>2, <3>3
  <2>2. Done(e) <=> Done(c)
    <3>1. CASE i = n
      <4>1. ~Done(c)
        BY <1>1, <3>1 DEF Done
      <4>2. ~Done(e)
        BY <1>1, <1>6, <1>7, <1>14, <3>1 DEF Done
      <4>. QED
        BY <4>1, <4>2
    <3>2. CASE i # n
      <4>1. p[n] = q[n]
        BY <1>1, <1>7, <3>2
      <4>. QED
        BY <1>1, <1>7, <4>1 DEF Done
    <3>. QED
      BY <3>1, <3>2
  <2>. HIDE DEF B
  <2>3. Planned(e, B)
    BY <1>1, <1>3, <1>7, <1>10, <1>11, <1>12, <2>2, PlannedBy
  <2>. QED
    BY <2>1, <2>3
<1>. QED
  BY <1>13, <1>14

(* An answer nobody waits for is dropped.                                  *)
LEMMA RecordedDropped ==
    ASSUME NEW c, Base(c), NEW recs, NEW gone, Recorded(c, recs, gone), c.calls # <<>>, ~Head(c.calls).live,
           Head(c.calls).answer # "none", NEW e, Base(e), Discards(c, e)
    PROVE  Recorded(e, recs, gone)
<1>. DEFINE B == BuiltOf(recs, c.arm)
<1>1. Lines(c, recs, gone) /\ Planned(c, B)
  BY DEF Recorded
<1>2. Lines(e, recs, gone) /\ (c.commit.pc \in {"apply", "undo"} => e.calls[Len(e.calls)] = c.calls[Len(c.calls)])
  BY <1>1, LinesDropped, Zenon
<1>3. e.tool = c.tool /\ e.phase = c.phase /\ e.regions = c.regions /\ e.arm = c.arm /\ e.chosen = c.chosen
      /\ e.commit = c.commit /\ SameSessions(c.sessions, e.sessions)
  BY DEF Discards, SameArm
<1>4. List(e) = List(c)
  BY ONLY <1>3, ListSame
<1>5. Total(e) = Total(c)
  <2>1. e.sessions \in Seq(Session) /\ c.sessions \in Seq(Session) /\ DOMAIN e.sessions = DOMAIN c.sessions
    BY <1>3 DEF Base, LaneOK, LaneShape, SameSessions
  <2>2. Len(e.sessions) = Len(c.sessions)
    BY ONLY <2>1
  <2>. QED
    BY <1>3, <2>2 DEF Total
<1>6. Done(e) <=> Done(c)
  BY <1>2, <1>3 DEF Done
<1>7. ASSUME NEW m, NEW D, Plan(c, m, D) PROVE Plan(e, m, D)
  BY <1>3, <1>7, PlanSame
<1>. HIDE DEF B
<1>8. Planned(e, B)
  BY <1>1, <1>2, <1>3, <1>4, <1>5, <1>6, <1>7, PlannedBy
<1>. QED
  BY <1>2, <1>3, <1>8 DEF Recorded, B

(* The answer to the call of the commit is heard.                          *)
LEMMA RecordedDelivers ==
    ASSUME "profile_gone" \notin Rare, NEW c, Base(c), NEW recs, NEW gone, Recorded(c, recs, gone),
           c.calls # <<>>, Head(c.calls).live, Head(c.calls).answer # "none", NEW e, Base(e), Delivers(c, e)
    PROVE  /\ Recorded(e, recs, gone)
           /\ Head(c.calls).kind = "apply" /\ Head(c.calls).answer = "ok" /\ c.tool \notin Multi =>
                Built(recs, c.arm, 1)
<1>. DEFINE call == Head(c.calls)
            B == BuiltOf(recs, c.arm)
            k == c.commit.k
<1>1. PICK a : \E reopened \in Reopen :
        Dequeued(c, a) /\ LaneOK(a, {}) /\ a.calls = <<>> /\ Goes(c, a, e, call, reopened)
  BY DEF Delivers
<1>2. Dequeued(c, a) /\ LaneOK(a, {}) /\ a.calls = <<>> /\ Goes(c, a, e, call, TRUE)
  BY <1>1, ReopenTrue
<1>3. Len(c.calls) = 1 /\ call = c.calls[1] /\ c.commit.pc = call.kind /\ c.calls \in Seq(CallRec) /\ call \in CallRec
  <2>1. c.calls \in Seq(CallRec)
    BY DEF Base, Control, CallsOK, Awaits, Quiet
  <2>. QED
    BY <2>1, TailIs DEF Delivers
<1>4. c.commit.pc \in {"apply", "undo"}
  BY <1>3 DEF CallRec
<1>5. c.phase = "committing" /\ c.tool # "select" /\ ToolOK(c) /\ c.sessions \in Seq(Session) /\ k > 0 /\ k \in Nat
      /\ e.sessions \in Seq(Session)
  BY <1>4 DEF Base, Control, LaneOK, LaneShape, PhaseOK, ToolOK, Commit
<1>6. Lines(c, recs, gone) /\ Planned(c, B)
  BY DEF Recorded
<1>7. k \in DOMAIN List(c) /\ call.region = List(c)[k]
      /\ (IF Done(c) THEN List(c)[k] \in B /\ Plan(c, k + 1, B) ELSE Plan(c, k, B))
  BY <1>3, <1>4, <1>5, <1>6 DEF Planned
<1>8. Done(c) <=> call.kind = "apply" /\ call.answer = "ok"
  BY <1>3 DEF Done
<1>9. Fails(c) <=> call.kind = "apply" /\ call.answer = "failed"
  BY <1>3 DEF Fails
<1>10. a.tool = c.tool /\ a.phase = c.phase /\ a.regions = c.regions /\ a.arm = c.arm /\ a.chosen = c.chosen
       /\ a.commit = c.commit /\ a.sessions = c.sessions /\ a.value = c.value
  BY <1>2 DEF Dequeued, SameArm, Untouched
<1>11. SameSessions(c.sessions, a.sessions)
  BY <1>10 DEF SameSessions
<1>12. List(a) = List(c)
  BY ONLY <1>10, <1>11, ListSame
<1>13. ASSUME NEW m, Plan(c, m, B) PROVE Plan(a, m, B)
  <2>1. c.phase # "armed"
    BY <1>5
  <2>. HIDE DEF B
  <2>. QED
    BY ONLY <1>10, <1>11, <1>13, <2>1, PlanSame
<1>14. ToolOK(a)
  BY <1>5, <1>10 DEF ToolOK
<1>15. a.sessions \in Seq(Session) /\ a.calls \in Seq(CallRec) /\ a.tool # "select" /\ a.phase = "committing"
       /\ k \in DOMAIN List(a) /\ B = BuiltOf(recs, a.arm)
  <2>1. <<>> \in Seq(CallRec)
    OBVIOUS
  <2>. QED
    BY <1>2, <1>5, <1>7, <1>10, <1>12, <2>1
<1>16. ASSUME ~Fails(c) PROVE Calm(a, recs, gone)
  BY <1>2, <1>5, <1>6, <1>10, <1>16, LinesHeard
<1>17. CASE /\ call.kind = "undo" \/ call.answer = "refused"
            /\ Rearmed(a, e, k) /\ RearmedLane(a, e, k, TRUE)
  <2>1. ~Done(c) /\ ~Fails(c)
    BY <1>8, <1>9, <1>17
  <2>2. Plan(a, k, B)
    BY <1>7, <1>13, <2>1
  <2>3. e.calls = a.calls /\ e.arm = a.arm /\ e.commit.pc = "none" /\ e.arm = c.arm
    BY <1>10, <1>17 DEF Rearmed, SameArm, NoCommit
  <2>4. Lines(e, recs, gone)
    BY <1>16, <2>1, <2>3, CalmLines
  <2>5. Rearmed(a, e, k) /\ RearmedLane(a, e, k, TRUE) /\ e.sessions \in Seq(Session)
    BY <1>5, <1>17
  <2>. HIDE DEF B, k
  <2>6. Plan(e, 1, B)
    BY ONLY <1>14, <1>15, <2>2, <2>5, PlanRearmed
  <2>7. Planned(e, B)
    BY <2>3, <2>6 DEF Planned
  <2>. QED
    BY <1>17, <2>3, <2>4, <2>7 DEF Recorded, B
<1>18. CASE call.kind = "apply" /\ call.answer = "failed" /\ Called(a, e, "undo", k, call.region, 0, FALSE)
  <2>1. ~Done(c) /\ Plan(c, k, B)
    BY <1>7, <1>8, <1>18
  <2>2. e.tool = c.tool /\ e.phase = c.phase /\ e.regions = c.regions /\ e.arm = c.arm /\ e.chosen = c.chosen
        /\ e.sessions = c.sessions /\ e.commit.pc = "undo" /\ e.commit.k = k
        /\ e.calls = Append(a.calls, CallOf(a, "undo", call.region, 0, FALSE))
    BY <1>10, <1>18 DEF Called, SameArm, Untouched
  <2>3. SameSessions(c.sessions, e.sessions) /\ c.phase # "armed"
    BY <1>5, <2>2 DEF SameSessions
  <2>4. List(e) = List(c)
    BY ONLY <2>2, <2>3, ListSame
  <2>5. Plan(e, k, B)
    <3>. HIDE DEF B
    <3>. QED
      BY ONLY <2>1, <2>2, <2>3, PlanSame
  <2>9. c.arm \in Nat
    BY <1>5 DEF ToolOK
  <2>10. call = c.calls[1] /\ call.answer = "failed" /\ c.commit.pc = call.kind /\ call.kind = "apply" /\ a.arm = c.arm
    BY <1>3, <1>10, <1>18
  <2>11. call.region = List(e)[k] /\ k \in DOMAIN List(e)
    BY <1>7, <2>4
  <2>. HIDE DEF call
  <2>6. e.arm \in Nat /\ c.calls[1].answer = "failed" /\ c.commit.pc = "apply"
        /\ e.calls = Append(a.calls, CallOf(a, "undo", c.calls[1].region, 0, FALSE)) /\ a.arm = c.arm
        /\ call.region = List(e)[k] /\ k \in DOMAIN List(e) /\ e.commit.pc \in {"apply", "undo"}
    BY ONLY <2>2, <2>9, <2>10, <2>11
  <2>. HIDE DEF B, k, call
  <2>7. Lines(e, recs, gone)
    BY ONLY <1>2, <1>3, <1>5, <1>6, <2>2, <2>6, LinesUndone
  <2>8. Planned(e, B)
    BY ONLY <1>15, <2>2, <2>5, <2>6, PlannedCall
  <2>. QED
    BY <1>18, <2>2, <2>7, <2>8 DEF Recorded, B, call
<1>19. CASE call.kind = "apply" /\ call.answer = "ok" /\ c.tool \in Multi /\ Stepped(a, e, k + 1, TRUE)
  <2>1. Done(c) /\ ~Fails(c)
    BY <1>8, <1>9, <1>19
  <2>2. Plan(a, k + 1, B) /\ Calm(a, recs, gone) /\ k + 1 \in Nat /\ k + 1 > 0
    BY <1>5, <1>7, <1>13, <1>16, <2>1
  <2>3. Stepped(a, e, k + 1, TRUE) /\ e.sessions \in Seq(Session)
    BY <1>5, <1>19
  <2>4. e.arm = a.arm
    BY <2>3 DEF Stepped, Loads, Barred, Applied, Rearmed, SameArm
  <2>. HIDE DEF B, k
  <2>5. Lines(e, recs, gone) /\ Planned(e, B)
    BY ONLY <1>14, <1>15, <2>2, <2>3, PlanStepped
  <2>. QED
    BY <1>15, <1>19, <2>4, <2>5 DEF Recorded
<1>20. CASE call.kind = "apply" /\ call.answer = "ok" /\ c.tool \notin Multi /\ Swept(a, e)
  <2>1. Done(c) /\ ~Fails(c)
    BY <1>8, <1>9, <1>20
  <2>2. e.calls = Hushed(a.calls) /\ e.arm = a.arm /\ e.tool = "select" /\ e.commit.pc = "none"
    BY <1>20 DEF Swept, NoCommit
  <2>3. e.calls = a.calls
    <3>1. DOMAIN <<>> = {} /\ <<>> = [i \in {} |-> 0]
      OBVIOUS
    <3>. QED
      BY <1>2, <2>2, <3>1 DEF Hushed
  <2>4. Lines(e, recs, gone)
    BY <1>16, <2>1, <2>2, <2>3, CalmLines
  <2>5. List(c)[k] \in B
    BY <1>7, <2>1
  <2>6. List(c) = <<1>>
    <3>1. c.regions = <<1>> /\ c.tool # "extrude"
      BY <1>5, <1>20 DEF ToolOK, Multi
    <3>. QED
      BY <3>1 DEF List
  <2>7. List(c)[k] = 1
    <3>1. DOMAIN <<1>> = 1 .. 1 /\ <<1>>[1] = 1 /\ \A i \in 1 .. 1 : i = 1
      OBVIOUS
    <3>2. k \in 1 .. 1
      BY <1>7, <2>6, <3>1
    <3>3. k = 1
      BY <3>1, <3>2
    <3>. QED
      BY <2>6, <3>1, <3>3
  <2>8. Built(recs, c.arm, 1)
    BY <2>5, <2>7 DEF BuiltOf
  <2>. QED
    BY <2>2, <2>4, <2>8 DEF Recorded, Planned
<1>. QED
  BY <1>2, <1>17, <1>18, <1>19, <1>20 DEF Goes

(* Another's edit comes between two commits.                               *)
LEMMA RecordedEdited ==
    ASSUME NEW c, c.calls = <<>>, c.commit.pc = "none", NEW recs \in Seq(Record), NEW gone, Recorded(c, recs, gone),
           c.arm \in Nat, NEW more, more = Append(recs, [arm |-> 0, region |-> 1, ok |-> TRUE])
    PROVE  Recorded(c, more, gone) /\ \A a : \A x : Built(recs, a, x) => Built(more, a, x)
<1>. DEFINE r == [arm |-> 0, region |-> 1, ok |-> TRUE]
<1>1. r \in Record /\ r.arm = 0 /\ more = Append(recs, r)
  BY DEF Record
<1>. HIDE DEF r
<1>2. DOMAIN c.calls = {}
  <2>1. DOMAIN <<>> = {}
    OBVIOUS
  <2>. QED
    BY <2>1
<1>3. Fails(c) = FALSE
  BY DEF Fails
<1>4. /\ Lined(c.calls, c.arm, Owns(c), gone) /\ Tidy(c.calls, c.arm, FALSE, recs, gone)
      /\ c.tool # "select" => c.arm > 0
  BY <1>3 DEF Recorded, Lines
<1>5. r.ok = TRUE
  BY DEF r
<1>6. Tidy(c.calls, c.arm, FALSE, more, gone)
  <2>1. r.arm <= c.arm /\ (r.ok /\ r.arm > 0 => Missing(recs, r)) /\ (r.ok \/ r.arm \in gone \/ FALSE)
    BY <1>1, <1>5
  <2>2. FALSE \in BOOLEAN
    OBVIOUS
  <2>3. \A i \in DOMAIN c.calls : FALSE
    BY <1>2
  <2>. QED
    BY <1>1, <1>4, <2>1, <2>2, <2>3, TidyAppended
<1>7. \A a : Adds(recs, more, r, a)
  BY <1>1, BuiltAppended
<1>8. \A a : \A x : Built(recs, a, x) => Built(more, a, x)
  BY <1>7 DEF Adds
<1>9. c.tool # "select" => BuiltOf(more, c.arm) = BuiltOf(recs, c.arm)
  BY <1>1, <1>4, <1>7 DEF Adds
<1>10. Planned(c, BuiltOf(more, c.arm))
  <2>1. Planned(c, BuiltOf(recs, c.arm))
    BY DEF Recorded
  <2>2. CASE c.tool = "select"
    BY <2>2 DEF Planned
  <2>3. CASE c.tool # "select"
    BY <1>9, <2>1, <2>3
  <2>. QED
    BY <2>2, <2>3
<1>. QED
  BY <1>3, <1>4, <1>6, <1>8, <1>10 DEF Recorded, Lines

(* All that the user chose is built when the bodies are awaited.           *)
LEMMA RecordedLoads ==
    ASSUME NEW c, Base(c), NEW recs, NEW gone, Recorded(c, recs, gone), c.commit.pc = "loading"
    PROVE  \A r \in 1 .. c.chosen : Built(recs, c.arm, r)
<1>1. c.phase = "committing" /\ c.tool # "select" /\ ToolOK(c) /\ c.sessions \in Seq(Session)
  BY DEF Base, Control, LaneOK, LaneShape, PhaseOK
<1>. DEFINE B == BuiltOf(recs, c.arm)
<1>2. Plan(c, Total(c) + 1, B)
  BY <1>1 DEF Recorded, Planned
<1>3. DOMAIN List(c) = 1 .. Total(c) /\ Total(c) \in Nat
  BY <1>1, ListIs
<1>4. \A r \in 1 .. c.chosen : r \in B \/ \E i \in DOMAIN List(c) : i >= Total(c) + 1 /\ List(c)[i] = r
  <2>. HIDE DEF B
  <2>. QED
    BY <1>1, <1>2 DEF Plan
<1>5. \A i \in DOMAIN List(c) : ~(i >= Total(c) + 1)
  BY <1>3
<1>. QED
  BY <1>4, <1>5 DEF BuiltOf

(* A commit that ended is remembered, and what it built stays.             *)
LEMMA WholeKept ==
    ASSUME NEW recs, NEW more, NEW finished, Whole(recs, finished),
           \A a : \A x : Built(recs, a, x) => Built(more, a, x)
    PROVE  Whole(more, finished)
  BY DEF Whole

(* One more commit that ended.                                             *)
LEMMA WholeEnds ==
    ASSUME NEW recs, NEW finished, Whole(recs, finished), NEW a, NEW s, \A r \in s : Built(recs, a, r)
    PROVE  Whole(recs, finished \cup {[arm |-> a, chosen |-> s]})
<1>. DEFINE f == [arm |-> a, chosen |-> s]
<1>1. f.arm = a /\ f.chosen = s
  OBVIOUS
<1>. HIDE DEF f
<1>2. Whole(recs, finished \cup {f})
  BY <1>1 DEF Whole
<1>. QED
  BY <1>2 DEF f

(* The records, the calls and what the commits so far have promised.       *)
RightInv ==
  /\ FitInv /\ DOMAIN past = {"finished", "abandoned"}
  /\ Recorded(ctl, doc.recs, past.abandoned) /\ Whole(doc.recs, past.finished)
RightNext ==
  /\ DOMAIN past' = {"finished", "abandoned"}
  /\ Recorded(ctl', doc'.recs, past'.abandoned) /\ Whole(doc'.recs, past'.finished)

(* An arm that is left in mid-commit is abandoned.                         *)
LEMMA LeavesIs ==
    ASSUME RightInv, Leaves
    PROVE  /\ DOMAIN past' = {"finished", "abandoned"} /\ past'.finished = past.finished
           /\ past.abandoned \subseteq past'.abandoned
           /\ ctl.commit.pc \in {"apply", "undo"} => ctl.arm \in past'.abandoned
<1>1. past' = IF ctl.commit.pc # "none" THEN [past EXCEPT !.abandoned = @ \cup {ctl.arm}] ELSE past
  BY DEF Leaves, Committing
<1>. QED
  BY <1>1 DEF RightInv

(* and one that ends is finished.                                          *)
LEMMA FinishesIs ==
    ASSUME RightInv, NEW s, Finishes(s), \A r \in s : Built(doc.recs, ctl.arm, r)
    PROVE  /\ DOMAIN past' = {"finished", "abandoned"} /\ past'.abandoned = past.abandoned
           /\ Whole(doc.recs, past'.finished)
<1>1. past' = [past EXCEPT !.finished = @ \cup {[arm |-> ctl.arm, chosen |-> s]}]
  BY DEF Finishes
<1>2. past'.finished = past.finished \cup {[arm |-> ctl.arm, chosen |-> s]}
  BY <1>1 DEF RightInv
<1>3. Whole(doc.recs, past'.finished)
  BY <1>2, WholeEnds DEF RightInv
<1>. QED
  BY <1>1, <1>3 DEF RightInv

(* What the user does to a tool.                                           *)
LEMMA RightTools ==
    ASSUME RightInv, "profile_gone" \notin Rare,
           \/ \E t \in Tools : \E regions \in Subjects(t) : SetTool(t, regions)
           \/ ArmAnswered \/ ArmRefused \/ ArmWithoutPreview \/ PickRevolveAxis
           \/ ResetRevolveAxis \/ Leave \/ FlipKind \/ \E v \in 1 .. MaxValue : SetValue(v)
    PROVE  RightNext
<1>0. TypeInv /\ Base(ctl) /\ doc \in Doc /\ doc.recs \in Seq(Record)
      /\ Recorded(ctl, doc.recs, past.abandoned) /\ Whole(doc.recs, past.finished)
      /\ DOMAIN past = {"finished", "abandoned"}
  BY DEF RightInv, FitInv, TypeInv, Doc
<1>. DEFINE recs == doc.recs
            gone == past.abandoned
<1>1. gone \subseteq gone
  OBVIOUS
<1>2. CASE \E t \in Tools : \E regions \in Subjects(t) : SetTool(t, regions)
  <2>1. PICK t \in Tools : \E regions \in Subjects(t) : SetTool(t, regions)
    BY <1>2
  <2>2. PICK regions \in Subjects(t) : SetTool(t, regions)
    BY <2>1
  <2>3. Starts(ctl, ctl', t, regions, Good(store.recs))
    BY <1>0, <2>2, SetToolSteps
  <2>4. Leaves /\ doc' = doc
    BY <2>2 DEF SetTool
  <2>5. /\ DOMAIN past' = {"finished", "abandoned"} /\ past'.finished = past.finished
        /\ gone \subseteq past'.abandoned /\ (ctl.commit.pc \in {"apply", "undo"} => ctl.arm \in past'.abandoned)
    BY <2>4, LeavesIs
  <2>6. Recorded(ctl', doc.recs, past'.abandoned)
    BY ONLY <1>0, t \in Tools, regions \in Subjects(t), <2>3, <2>5, RecordedStarts
  <2>. QED
    BY <1>0, <2>4, <2>5, <2>6 DEF RightNext
<1>3. CASE ArmAnswered \/ ArmRefused \/ ArmWithoutPreview \/ PickRevolveAxis
  <2>1. TypeInv' /\ ctl.phase \in {"waiting", "axisPick"} /\ Waited(ctl, ctl')
    BY <1>0, <1>3, WaitingSteps
  <2>2. doc' = doc /\ past' = past /\ Base(ctl')
    BY <1>3, <2>1 DEF ArmAnswered, ArmRefused, ArmWithoutPreview, PickRevolveAxis, Same, TypeInv
  <2>3. Recorded(ctl', doc.recs, past.abandoned)
    BY ONLY <1>0, <2>1, <2>2, RecordedWaited
  <2>. QED
    BY <1>0, <2>2, <2>3 DEF RightNext
<1>4. CASE Leave
  <2>1. ctl' = OnToolChange(ctl) /\ Leaves /\ doc' = doc
    BY <1>4 DEF Leave
  <2>2. Swept(ctl, ctl')
    BY <1>0, <2>1, LeaveIs
  <2>3. /\ DOMAIN past' = {"finished", "abandoned"} /\ past'.finished = past.finished
        /\ gone \subseteq past'.abandoned /\ (ctl.commit.pc \in {"apply", "undo"} => ctl.arm \in past'.abandoned)
    BY <2>1, LeavesIs
  <2>4. Recorded(ctl', doc.recs, past'.abandoned)
    BY ONLY <1>0, <2>2, <2>3, RecordedSwept
  <2>. QED
    BY <1>0, <2>1, <2>3, <2>4 DEF RightNext
<1>5. CASE ResetRevolveAxis \/ FlipKind \/ \E v \in 1 .. MaxValue : SetValue(v)
  <2>1. TypeInv' /\ Adjusts(ctl, ctl') /\ doc' = doc /\ past' = past
    BY <1>0, <1>5, ArmedSteps DEF ResetRevolveAxis, FlipKind, SetValue
  <2>2. Base(ctl')
    BY <2>1 DEF TypeInv
  <2>3. Recorded(ctl', doc.recs, past.abandoned) \/ Swept(ctl, ctl')
    BY ONLY <1>0, <2>1, <2>2, RecordedAdjusts
  <2>4. ASSUME Swept(ctl, ctl') PROVE Recorded(ctl', doc.recs, past.abandoned)
    <3>1. ctl'.tool = "select"
      BY <2>4 DEF Swept
    <3>2. ~FlipKind
      <4>. SUFFICES ASSUME FlipKind PROVE FALSE
        OBVIOUS
      <4>1. FlipStep(ctl, ctl')
        BY <1>0, FlipSteps
      <4>2. ctl'.tool = "fillet"
        BY <4>1 DEF FlipStep, Flipped, SameTool, Rearmed, SameArm
      <4>. QED
        BY <3>1, <4>2
    <3>3. ctl.phase = "armed"
      BY <1>5, <3>2 DEF ResetRevolveAxis, SetValue
    <3>4. ctl.commit.pc = "none"
      BY <1>0, <3>3 DEF Base, Control, PhaseOK
    <3>5. ctl.commit.pc \in {"apply", "undo"} => ctl.arm \in gone
      BY <3>4
    <3>6. Recorded(ctl', doc.recs, past.abandoned)
      BY ONLY <1>0, <1>1, <2>4, <3>5, RecordedSwept
    <3>. QED
      BY <3>6
  <2>5. Recorded(ctl', doc.recs, past.abandoned)
    BY <2>3, <2>4
  <2>. QED
    BY <1>0, <2>1, <2>5 DEF RightNext
<1>. QED
  BY <1>2, <1>3, <1>4, <1>5

(* The steps of a commit.                                                  *)
LEMMA RightCommits ==
    ASSUME RightInv, "profile_gone" \notin Rare, Confirm \/ RecordAnswered \/ BarrierTimeout \/ BodiesLoaded
    PROVE  RightNext
<1>0. TypeInv /\ Base(ctl) /\ Fits(ctl) /\ "profile_gone" \notin Rare
      /\ Recorded(ctl, doc.recs, past.abandoned) /\ Whole(doc.recs, past.finished)
      /\ DOMAIN past = {"finished", "abandoned"}
  BY DEF RightInv, FitInv, TypeInv
<1>1. TypeInv' /\ Proceeds(ctl, ctl') /\ doc' = doc
  BY <1>0, CommitSteps DEF Confirm, RecordAnswered, BarrierTimeout, BodiesLoaded, Same
<1>2. Base(ctl')
  BY <1>1 DEF TypeInv
<1>3. ctl.phase = "armed" => ctl.commit.pc = "none"
  BY <1>0 DEF Base, Control, PhaseOK
<1>4. ctl.tool = "extrude" /\ ctl.phase = "armed" => DOMAIN ctl.sessions # {}
  <2>. SUFFICES ASSUME ctl.tool = "extrude", ctl.phase = "armed" PROVE DOMAIN ctl.sessions # {}
    OBVIOUS
  <2>1. Confirm
    BY <1>3 DEF RecordAnswered, BarrierTimeout, BodiesLoaded
  <2>2. ctl.sessions # <<>> /\ ctl.sessions \in Seq(Session)
    BY <1>0, <2>1 DEF Confirm, NeedsSession, Base, LaneOK, LaneShape
  <2>. QED
    BY ONLY <2>2, EmptyBy
<1>5. Recorded(ctl', doc.recs, past.abandoned) \/ (ctl.commit.pc = "loading" /\ Swept(ctl, ctl'))
  BY ONLY <1>0, <1>1, <1>2, <1>4, RecordedProceeds
<1>6. CASE BodiesLoaded
  <2>1. ctl.commit.pc = "loading" /\ ctl' = OnToolChange(ctl) /\ Finishes(1 .. ctl.chosen)
    BY <1>6 DEF BodiesLoaded
  <2>2. Swept(ctl, ctl')
    BY <1>0, <2>1, LeaveIs
  <2>3. past.abandoned \subseteq past.abandoned /\ (ctl.commit.pc \in {"apply", "undo"} => ctl.arm \in past.abandoned)
    BY <2>1
  <2>4. Recorded(ctl', doc.recs, past.abandoned)
    BY ONLY <1>0, <2>2, <2>3, RecordedSwept
  <2>5. \A r \in 1 .. ctl.chosen : Built(doc.recs, ctl.arm, r)
    BY <1>0, <2>1, RecordedLoads
  <2>6. DOMAIN past' = {"finished", "abandoned"} /\ past'.abandoned = past.abandoned /\ Whole(doc.recs, past'.finished)
    BY <2>1, <2>5, FinishesIs
  <2>. QED
    BY <1>1, <2>4, <2>6 DEF RightNext
<1>7. CASE ~BodiesLoaded
  <2>1. past' = past /\ ctl.commit.pc # "loading"
    BY <1>3, <1>7 DEF Confirm, RecordAnswered, BarrierTimeout, Same
  <2>. QED
    BY <1>0, <1>1, <1>5, <2>1 DEF RightNext
<1>. QED
  BY <1>6, <1>7

(* The backend, the document and the lane.                                 *)
LEMMA RightCalls ==
    ASSUME RightInv, "profile_gone" \notin Rare, HandleCall \/ DeliverCall
    PROVE  RightNext
<1>0. TypeInv /\ Base(ctl) /\ doc \in Doc /\ "profile_gone" \notin Rare
      /\ Recorded(ctl, doc.recs, past.abandoned) /\ Whole(doc.recs, past.finished)
      /\ DOMAIN past = {"finished", "abandoned"}
  BY DEF RightInv, FitInv, TypeInv
<1>1. CASE HandleCall
  <2>1. TypeInv' /\ \E i \in DOMAIN ctl.calls : \E out \in {"ok", "failed", "refused"} :
          Handles(ctl, i, doc, out, doc') /\ Replied(ctl, ctl', i, out, doc')
    BY <1>0, <1>1, HandleSteps
  <2>2. PICK i \in DOMAIN ctl.calls : \E out \in {"ok", "failed", "refused"} :
          Handles(ctl, i, doc, out, doc') /\ Replied(ctl, ctl', i, out, doc')
    BY <2>1
  <2>3. PICK out \in {"ok", "failed", "refused"} :
          Handles(ctl, i, doc, out, doc') /\ Replied(ctl, ctl', i, out, doc')
    BY <2>2
  <2>4. past' = past /\ Base(ctl')
    BY <1>1, <2>1 DEF HandleCall, TypeInv
  <2>5. Recorded(ctl', doc'.recs, past.abandoned) /\ \A a : \A x : Built(doc.recs, a, x) => Built(doc'.recs, a, x)
    BY ONLY <1>0, i \in DOMAIN ctl.calls, out \in {"ok", "failed", "refused"}, <2>3, <2>4, RecordedHandled
  <2>6. Whole(doc'.recs, past.finished)
    BY ONLY <1>0, <2>5, WholeKept
  <2>. QED
    BY <1>0, <2>4, <2>5, <2>6 DEF RightNext
<1>2. CASE DeliverCall
  <2>1. /\ TypeInv' /\ doc' = doc /\ ctl.calls # <<>> /\ Head(ctl.calls).answer # "none"
        /\ IF Head(ctl.calls).live THEN Delivers(ctl, ctl') ELSE Discards(ctl, ctl')
    BY <1>0, <1>2, DeliverSteps
  <2>2. Base(ctl')
    BY <2>1 DEF TypeInv
  <2>3. CASE Head(ctl.calls).live
    <3>1. /\ Recorded(ctl', doc.recs, past.abandoned)
          /\ Head(ctl.calls).kind = "apply" /\ Head(ctl.calls).answer = "ok" /\ ctl.tool \notin Multi =>
               Built(doc.recs, ctl.arm, 1)
      BY ONLY <1>0, <2>1, <2>2, <2>3, RecordedDelivers
    <3>2. IF Head(ctl.calls).kind = "apply" /\ Head(ctl.calls).answer = "ok" /\ ctl.tool \notin Multi
            THEN Finishes({1}) ELSE past' = past
      BY <1>2, <2>3 DEF DeliverCall
    <3>3. CASE Finishes({1}) /\ Built(doc.recs, ctl.arm, 1)
      <4>1. \A r \in {1} : Built(doc.recs, ctl.arm, r)
        BY <3>3
      <4>2. /\ DOMAIN past' = {"finished", "abandoned"} /\ past'.abandoned = past.abandoned
            /\ Whole(doc.recs, past'.finished)
        BY <3>3, <4>1, FinishesIs
      <4>. QED
        BY <2>1, <3>1, <4>2 DEF RightNext
    <3>4. CASE past' = past
      BY <1>0, <2>1, <3>1, <3>4 DEF RightNext
    <3>. QED
      BY <3>1, <3>2, <3>3, <3>4
  <2>4. CASE ~Head(ctl.calls).live
    <3>1. past' = past
      BY <1>2, <2>4 DEF DeliverCall
    <3>2. Recorded(ctl', doc.recs, past.abandoned)
      BY ONLY <1>0, <2>1, <2>2, <2>4, RecordedDropped
    <3>. QED
      BY <1>0, <2>1, <3>1, <3>2 DEF RightNext
  <2>. QED
    BY <2>3, <2>4
<1>. QED
  BY <1>1, <1>2

(* The document is edited or heard of.                                     *)
LEMMA RightDoc ==
    ASSUME RightInv, "edit_mid_commit" \notin Rare, Edit \/ Hear
    PROVE  RightNext
<1>0. TypeInv /\ Base(ctl) /\ doc.recs \in Seq(Record) /\ ctl.arm \in Nat
      /\ Recorded(ctl, doc.recs, past.abandoned) /\ Whole(doc.recs, past.finished)
      /\ DOMAIN past = {"finished", "abandoned"}
  BY DEF RightInv, FitInv, TypeInv, Doc, Base, Control, ToolOK
<1>1. CASE Edit
  <2>1. ctl.calls = <<>> /\ ctl.commit.pc = "none" /\ ctl' = ctl /\ past' = past
        /\ doc'.recs = Append(doc.recs, [arm |-> 0, region |-> 1, ok |-> TRUE])
    BY <1>1 DEF Edit, Committing
  <2>2. Recorded(ctl, doc'.recs, past.abandoned) /\ \A a : \A x : Built(doc.recs, a, x) => Built(doc'.recs, a, x)
    BY ONLY <1>0, <2>1, RecordedEdited
  <2>3. Whole(doc'.recs, past.finished)
    BY ONLY <1>0, <2>2, WholeKept
  <2>. QED
    BY <1>0, <2>1, <2>2, <2>3 DEF RightNext
<1>2. CASE Hear /\ ctl' = OnToolChange(ctl) /\ ctl.phase = "armed"
  <2>1. Swept(ctl, ctl') /\ ctl.commit.pc = "none" /\ doc' = doc /\ past' = past
    BY <1>0, <1>2, LeaveIs DEF Hear, Base, Control, PhaseOK
  <2>2. past.abandoned \subseteq past.abandoned /\ (ctl.commit.pc \in {"apply", "undo"} => ctl.arm \in past.abandoned)
    BY <2>1
  <2>3. Recorded(ctl', doc.recs, past.abandoned)
    BY ONLY <1>0, <2>1, <2>2, RecordedSwept
  <2>. QED
    BY <1>0, <2>1, <2>3 DEF RightNext
<1>3. CASE Hear /\ ctl' = ctl
  BY <1>0, <1>3 DEF RightNext, Hear
<1>. QED
  BY <1>1, <1>2, <1>3 DEF Hear

(* The lane asks and is answered.                                          *)
LEMMA RightLane ==
    ASSUME RightInv, "profile_gone" \notin Rare,
           FloorOpens \/ TimerFires \/ \E out \in {"good", "bad", "stale"} : Answer(out)
    PROVE  RightNext
<1>0. TypeInv /\ Base(ctl) /\ Fits(ctl) /\ "profile_gone" \notin Rare
      /\ Recorded(ctl, doc.recs, past.abandoned) /\ Whole(doc.recs, past.finished)
      /\ DOMAIN past = {"finished", "abandoned"}
  BY DEF RightInv, FitInv, TypeInv
<1>1. TypeInv' /\ doc' = doc /\ \E out \in {"good", "bad", "stale"} : \E reopened \in Reopen :
        Answered(ctl, ctl', out, reopened)
  BY <1>0, LaneSteps
<1>2. PICK out \in {"good", "bad", "stale"} : \E reopened \in Reopen : Answered(ctl, ctl', out, reopened)
  BY <1>1
<1>3. PICK reopened \in Reopen : Answered(ctl, ctl', out, reopened)
  BY <1>2
<1>4. Base(ctl') /\ past' = past
  BY <1>1 DEF TypeInv, FloorOpens, TimerFires, Answer, Same
<1>5. Recorded(ctl', doc.recs, past.abandoned)
  BY ONLY <1>0, reopened \in Reopen, <1>3, <1>4, RecordedAnswered
<1>. QED
  BY <1>0, <1>1, <1>4, <1>5 DEF RightNext

(* Every step.                                                             *)
LEMMA RightStep ==
    ASSUME RightInv, [Next]_vars, "profile_gone" \notin Rare, "edit_mid_commit" \notin Rare
    PROVE  RightNext
<1>1. CASE UNCHANGED vars
  BY <1>1 DEF vars, RightInv, RightNext
<1>2. CASE Next
  BY <1>2, RightTools, RightCommits, RightCalls, RightDoc, RightLane DEF Next
<1>. QED
  BY <1>1, <1>2

(* At first there is nothing.                                              *)
LEMMA RightInit == Init => Recorded(ctl, doc.recs, past.abandoned) /\ Whole(doc.recs, past.finished)
<1>. SUFFICES ASSUME Init PROVE Recorded(ctl, doc.recs, past.abandoned) /\ Whole(doc.recs, past.finished)
  OBVIOUS
<1>1. ctl.tool = "select" /\ ctl.arm = 0 /\ ctl.calls = <<>> /\ ctl.commit.pc = "none" /\ doc.recs = <<>>
      /\ past.finished = {}
  BY DEF Init, NoCommit
<1>2. DOMAIN <<>> = {}
  OBVIOUS
<1>3. Fails(ctl) = FALSE
  BY <1>1 DEF Fails
<1>4. Lines(ctl, doc.recs, past.abandoned)
  BY <1>1, <1>2, <1>3 DEF Lines, Lined, Tidy, Finds
<1>. QED
  BY <1>1, <1>4 DEF Recorded, Planned, Whole

(* What the invariant says is what the run checks.                         *)
LEMMA OneOrNone ==
    ASSUME NEW S, \A i, j \in S : i = j
    PROVE  Cardinality(S) <= 1
<1>1. CASE S = {}
  BY <1>1, FS_EmptySet
<1>2. CASE S # {}
  <2>1. PICK i : i \in S
    BY <1>2
  <2>2. S = {i}
    BY <2>1
  <2>3. Cardinality({i}) = 1
    BY FS_Singleton
  <2>. QED
    BY <2>2, <2>3
<1>. QED
  BY <1>1, <1>2

(* What the invariant says is what the run checks.                         *)
LEMMA RightHolds == RightInv => RecordsAreRight
<1>. SUFFICES ASSUME RightInv PROVE RecordsAreRight
  OBVIOUS
<1>1. Base(ctl) /\ Lines(ctl, doc.recs, past.abandoned) /\ Whole(doc.recs, past.finished)
  BY DEF RightInv, FitInv, TypeInv, Recorded
<1>2. Tidy(ctl.calls, ctl.arm, Fails(ctl), doc.recs, past.abandoned)
  BY <1>1 DEF Lines
<1>3. \A a \in 1 .. MaxArms, r \in 1 .. MaxRegions : Cardinality(Records(a, r, TRUE)) <= 1
  <2>. SUFFICES ASSUME NEW a \in 1 .. MaxArms, NEW r \in 1 .. MaxRegions PROVE Cardinality(Records(a, r, TRUE)) <= 1
    OBVIOUS
  <2>. DEFINE x == [arm |-> a, region |-> r, ok |-> TRUE]
  <2>1. x.ok /\ x.arm > 0
    OBVIOUS
  <2>2. Records(a, r, TRUE) = {i \in DOMAIN doc.recs : doc.recs[i] = x}
    BY DEF Records
  <2>. HIDE DEF x
  <2>3. \A i, j \in Records(a, r, TRUE) : i = j
    BY <1>2, <2>1, <2>2 DEF Tidy
  <2>. QED
    BY <2>3, OneOrNone
<1>4. \A f \in past.finished : \A r \in f.chosen : Records(f.arm, r, TRUE) # {}
  BY <1>1 DEF Whole, Built, Records
<1>5. ctl.calls # <<>> /\ Head(ctl.calls).kind = "undo" /\ Head(ctl.calls).answer = "none" =>
        doc.recs # <<>> /\ Last(doc.recs) =
          [arm |-> Head(ctl.calls).arm, region |-> Head(ctl.calls).region, ok |-> FALSE]
  <2>. SUFFICES ASSUME ctl.calls # <<>>, Head(ctl.calls).kind = "undo", Head(ctl.calls).answer = "none"
                PROVE  LastIs(doc.recs, RecOf(Head(ctl.calls), FALSE))
    BY DEF LastIs, RecOf, Last
  <2>1. ctl.calls \in Seq(CallRec)
    BY <1>1 DEF Base, Control, CallsOK, Awaits, Quiet
  <2>2. Head(ctl.calls) = ctl.calls[1] /\ 1 \in DOMAIN ctl.calls
    BY <2>1, TailIs
  <2>. QED
    BY <1>2, <2>2 DEF Tidy, Finds
<1>6. \A i \in DOMAIN doc.recs :
        \/ doc.recs[i].ok \/ doc.recs[i].arm \in past.abandoned
        \/ Committing /\ doc.recs[i].arm = ctl.arm
  <2>. SUFFICES ASSUME NEW i \in DOMAIN doc.recs, ~doc.recs[i].ok, doc.recs[i].arm \notin past.abandoned
                PROVE  Committing /\ doc.recs[i].arm = ctl.arm
    OBVIOUS
  <2>1. Fails(ctl) /\ i = Len(doc.recs)
    BY <1>2 DEF Tidy
  <2>2. doc.recs[i] = [arm |-> ctl.arm, region |-> ctl.calls[Len(ctl.calls)].region, ok |-> FALSE]
    BY <1>2, <2>1 DEF Tidy, LastIs
  <2>3. doc.recs[i].arm = ctl.arm
    BY <2>2
  <2>. QED
    BY <2>1, <2>3 DEF Fails, Committing
<1>. QED
  BY <1>3, <1>4, <1>5, <1>6 DEF RecordsAreRight, OneRecordEach, RollbackIsOwn

(* However often commits fail, are refused, are retried or are walked away *)
(* from, the timeline holds each region once, what a finished commit chose *)
(* is all there, and every rollback pops its own failed record: unless the *)
(* profile's record is gone or another edits in mid-commit.                *)
THEOREM RecordsRight ==
    "profile_gone" \notin Rare /\ "edit_mid_commit" \notin Rare => (Spec => []RecordsAreRight)
<1>. SUFFICES ASSUME "profile_gone" \notin Rare, "edit_mid_commit" \notin Rare PROVE Spec => []RecordsAreRight
  OBVIOUS
<1>. DEFINE Said == /\ DOMAIN past = {"finished", "abandoned"}
                    /\ Recorded(ctl, doc.recs, past.abandoned) /\ Whole(doc.recs, past.finished)
<1>1. Init => Said
  <2>1. Init => DOMAIN past = {"finished", "abandoned"}
    BY DEF Init
  <2>. QED
    BY <2>1, RightInit
<1>2. FitInv /\ Said /\ [Next]_vars => Said'
  BY RightStep DEF RightInv, RightNext
<1>3. FitInv /\ Said => RecordsAreRight
  BY RightHolds DEF RightInv
<1>. QED
  BY <1>1, <1>2, <1>3, FitAlways, PTL DEF Spec
===========================================================================
