------------------------ MODULE KernelSessionProofs ------------------------
(***************************************************************************)
(* The kernel session keeps its promises for every timeline length, every  *)
(* set of operations and any order of requests.                            *)
(*                                                                         *)
(* The inductive invariant says that each set of bodies the session holds  *)
(* -- head, scratch, saved -- is what some prefix of one timeline builds,  *)
(* and that the hash next to it is that very set.  It is the conjunction   *)
(* that makes ExecutePlan safe: a plan whose base hash is the head's hash  *)
(* is then cut from a timeline whose lower part the head was built from.   *)
(***************************************************************************)
EXTENDS KernelSession, TLAPS

-----------------------------------------------------------------------------
(* What is built from a history prefix, for every history.                 *)

(* Lines without a failing operation.                                      *)
Clean(lines) == \A l \in lines : l[2] \notin Failing

(* Every line is a pair of a step in the slice and the operation there.    *)
LEMMA LineOf ==
    ASSUME NEW d, NEW a \in Nat, NEW b \in Nat, NEW l
    PROVE  l \in Lines(d, a, b) <=>
              \E i \in (a .. b) \cap DOMAIN d : d[i] # Suppressed /\ l = <<i, d[i]>>
  BY DEF Lines

(* A line of a timeline is a step with the operation recorded there.       *)
LEMMA LineShape ==
    ASSUME NEW d, NEW a \in Nat, NEW b \in Nat, NEW l \in Lines(d, a, b)
    PROVE  /\ l = <<l[1], l[2]>>
           /\ l[1] \in a .. b /\ l[1] \in DOMAIN d
           /\ l[2] = d[l[1]] /\ d[l[1]] # Suppressed
  BY DEF Lines

(* What the worker builds holds no failing operation.                      *)
LEMMA BuiltIsClean ==
    ASSUME NEW d, NEW a \in Nat, NEW b \in Nat
    PROVE  /\ Built(Lines(d, a, b)) \subseteq Lines(d, a, b)
           /\ Clean(Built(Lines(d, a, b)))
<1>1. Built(Lines(d, a, b)) \subseteq Lines(d, a, b)
  BY DEF Built
<1>2. ASSUME NEW l \in Built(Lines(d, a, b)), l[2] \in Failing
      PROVE  FALSE
  <2>1. l \in Lines(d, a, b) /\ l[1] < l[1]
    BY <1>2 DEF Built
  <2>2. l[1] \in a .. b
    BY <2>1, LineShape
  <2>3. ASSUME NEW k \in a .. b PROVE ~(k < k)
    BY <2>3
  <2>. QED
    BY <2>1, <2>2, <2>3
<1>. QED
  BY <1>1, <1>2 DEF Clean

(* A slice is the lines up to a step and the lines above it.               *)
LEMMA LinesSplit ==
    ASSUME NEW d, NEW b \in Nat, NEW t \in Nat, b <= t
    PROVE  Lines(d, 1, t) = Lines(d, 1, b) \cup Lines(d, b + 1, t)
<1>1. 1 .. t = (1 .. b) \cup (b + 1 .. t)
  OBVIOUS
<1>. QED
  BY <1>1 DEF Lines

(* Building on top of a clean base is building the whole prefix: what a    *)
(* plan that starts from a checkpoint owes to a replay from zero.          *)
LEMMA BuiltOnBase ==
    ASSUME NEW d, NEW b \in Nat, NEW t \in Nat, b <= t, Clean(Lines(d, 1, b))
    PROVE  Lines(d, 1, b) \cup Built(Lines(d, b + 1, t)) = Built(Lines(d, 1, t))
<1>. DEFINE L == Lines(d, 1, b)
            U == Lines(d, b + 1, t)
<1>1. Lines(d, 1, t) = L \cup U
  BY LinesSplit
<1>2. \A l \in L : l[1] \in 1 .. b /\ l[2] \notin Failing
  BY LineShape DEF Clean
<1>3. \A l \in U : l[1] \in b + 1 .. t
  <2>1. b + 1 \in Nat
    OBVIOUS
  <2>. QED
    BY <2>1, LineShape
<1>4. ASSUME NEW l \in L PROVE l \in Built(L \cup U)
  <2>1. \A m \in L \cup U : m[2] \in Failing => l[1] < m[1]
    BY <1>2, <1>3
  <2>. QED
    BY <2>1 DEF Built
<1>5. ASSUME NEW l \in U PROVE l \in Built(U) <=> l \in Built(L \cup U)
  BY <1>2 DEF Built
<1>6. Built(L \cup U) \subseteq L \cup U /\ Built(U) \subseteq U
  BY DEF Built
<1>7. L \cup Built(U) = Built(L \cup U)
  BY <1>4, <1>5, <1>6
<1>. QED
  BY <1>1, <1>7

(* From an empty base in particular.                                       *)
LEMMA NoLinesBelow ==
    ASSUME NEW d, NEW a \in Nat, NEW b \in Nat, b < a
    PROVE  Lines(d, a, b) = {} /\ Built(Lines(d, a, b)) = {}
<1>1. a .. b = {}
  OBVIOUS
<1>. QED
  BY <1>1 DEF Lines, Built

(* The lines of a timeline are pairs of a step and an operation.           *)
LEMMA LinesType ==
    ASSUME NEW d \in Timelines, NEW a \in Nat, NEW b \in Nat, 1 <= a
    PROVE  Lines(d, a, b) \subseteq (1 .. MaxLen) \X Ops
<1>1. PICK n \in 0 .. MaxLen : d \in [1 .. n -> Records]
  BY DEF Timelines
<1>. SUFFICES ASSUME NEW l \in Lines(d, a, b) PROVE l \in (1 .. MaxLen) \X Ops
  OBVIOUS
<1>2. l = <<l[1], l[2]>> /\ l[1] \in DOMAIN d /\ l[2] = d[l[1]] /\ d[l[1]] # Suppressed
  BY LineShape
<1>3. l[1] \in 1 .. MaxLen
  BY <1>1, <1>2, OpsAssumption
<1>4. l[2] \in Ops
  BY <1>1, <1>2 DEF Records
<1>. QED
  BY <1>2, <1>3, <1>4

(* A timeline's length is a number within the bound.                       *)
LEMMA TimelineLength ==
    ASSUME NEW d \in Timelines
    PROVE  Len(d) \in 0 .. MaxLen /\ DOMAIN d = 1 .. Len(d)
<1>1. PICK n \in 0 .. MaxLen : d \in [1 .. n -> Records]
  BY DEF Timelines
<1>2. n \in Nat /\ Len(d) = n
  BY <1>1, OpsAssumption
<1>. QED
  BY <1>1, <1>2

-----------------------------------------------------------------------------

(* Bodies that one timeline builds.                                        *)
Whole(g) == \E d \in Timelines : \E k \in 0 .. Len(d) : g = Regen(d, k)

AllWhole ==
    /\ Whole(head.geom)
    /\ scratch # NoScratch => Whole(scratch.geom)
    /\ \A s \in DOMAIN saved : Whole(saved[s].geom)

SessionInv == SessionTypeOK /\ HashNamesGeometry /\ AllWhole

(* A prefix cut past the end of a timeline is the whole of it.             *)
LEMMA LinesBeyond ==
    ASSUME NEW d \in Timelines, NEW t \in Nat
    PROVE  \E k \in 0 .. Len(d) : Lines(d, 1, t) = Lines(d, 1, k)
<1>1. Len(d) \in Nat /\ DOMAIN d = 1 .. Len(d)
  BY TimelineLength, OpsAssumption
<1>2. CASE t <= Len(d)
  BY <1>1, <1>2
<1>3. CASE ~(t <= Len(d))
  <2>1. (1 .. t) \cap DOMAIN d = (1 .. Len(d)) \cap DOMAIN d
    BY <1>1, <1>3
  <2>2. Lines(d, 1, t) = Lines(d, 1, Len(d))
    BY <2>1 DEF Lines
  <2>. QED
    BY <1>1, <2>2
<1>. QED
  BY <1>2, <1>3

(* A whole slice holds no failing operation.                               *)
LEMMA WholeIsClean ==
    ASSUME NEW g, Whole(g)
    PROVE  Clean(g)
<1>1. PICK d \in Timelines : \E k \in 0 .. Len(d) : g = Regen(d, k)
  BY DEF Whole
<1>2. PICK k \in 0 .. Len(d) : g = Regen(d, k)
  BY <1>1
<1>3. k \in Nat
  BY TimelineLength, OpsAssumption
<1>. QED
  BY <1>2, <1>3, BuiltIsClean DEF Regen

(* Bodies that are all the lines below b, with what a plan builds on top,  *)
(* are again what one timeline builds.                                     *)
LEMMA WholeOnBase ==
    ASSUME NEW d \in Timelines, NEW b \in Nat, NEW t \in Nat, Clean(Lines(d, 1, b))
    PROVE  Whole(Lines(d, 1, b) \cup Built(Lines(d, b + 1, t)))
<1>. DEFINE top == IF b <= t THEN t ELSE b
<1>1. top \in Nat
  OBVIOUS
<1>2. Lines(d, 1, b) \cup Built(Lines(d, b + 1, t)) = Built(Lines(d, 1, top))
  <2>1. CASE b <= t
    BY <2>1, BuiltOnBase
  <2>2. CASE ~(b <= t)
    <3>1. Built(Lines(d, b + 1, t)) = {}
      <4>1. b + 1 \in Nat /\ t < b + 1
        BY <2>2
      <4>. QED
        BY <4>1, NoLinesBelow
    <3>2. Built(Lines(d, b + 1, b)) = {}
      <4>1. b + 1 \in Nat /\ b < b + 1
        OBVIOUS
      <4>. QED
        BY <4>1, NoLinesBelow
    <3>3. Lines(d, 1, b) \cup Built(Lines(d, b + 1, b)) = Built(Lines(d, 1, b))
      BY BuiltOnBase
    <3>. QED
      BY <2>2, <3>1, <3>2, <3>3
  <2>. QED
    BY <2>1, <2>2
<1>3. PICK k \in 0 .. Len(d) : Lines(d, 1, top) = Lines(d, 1, k)
  BY <1>1, LinesBeyond
<1>. QED
  BY <1>2, <1>3 DEF Whole, Regen

(* No bodies at all are the whole of an empty prefix.                      *)
LEMMA WholeEmpty == Whole({})
<1>1. PICK d \in [1 .. 0 -> Records] : TRUE
  <2>1. [i \in 1 .. 0 |-> Suppressed] \in [1 .. 0 -> Records]
    BY DEF Records
  <2>. QED
    BY <2>1
<1>2. d \in Timelines /\ 0 \in 0 .. Len(d)
  <2>1. d \in Timelines
    BY <1>1, OpsAssumption DEF Timelines
  <2>. QED
    BY <2>1, TimelineLength, OpsAssumption
<1>3. Regen(d, 0) = {}
  BY NoLinesBelow DEF Regen
<1>. QED
  BY <1>2, <1>3 DEF Whole

-----------------------------------------------------------------------------
(* A fresh session satisfies the invariant.                                *)
LEMMA SessionInitInv == SessionInit => SessionInv
<1>. SUFFICES ASSUME SessionInit PROVE SessionInv
  OBVIOUS
<1>1. SessionTypeOK /\ HashNamesGeometry
  BY SessionAssumption DEF SessionInit, SessionTypeOK, HashNamesGeometry, EmptyHead,
                           EmptyPrefix, States, Slices
<1>2. AllWhole
  BY WholeEmpty DEF SessionInit, AllWhole, EmptyHead
<1>. QED
  BY <1>1, <1>2 DEF SessionInv

(* The one step with an argument: the plan that fits.                      *)
LEMMA ExecuteKeepsInv ==
    ASSUME SessionInv, NEW m \in AnyRequest("Execute"), ExecutePlan(m)
    PROVE  SessionInv'
<1>. USE DEF SessionInv
<1>1. CASE ~PlanFits(m)
  BY <1>1 DEF ExecutePlan, SessionTypeOK, HashNamesGeometry, AllWhole
<1>2. CASE PlanFits(m)
  <2>1. PICK d \in Timelines, b \in Steps \cup {0}, t \in Steps, j \in Jobs, e \in 1 .. MaxEpoch :
          m = CutFrom(d, "Execute", b, t, j, e)
    BY DEF AnyRequest
  <2>2. b \in Nat /\ t \in Nat /\ b + 1 \in Nat
    BY SessionAssumption
  <2>3. m.base = Lines(d, 1, b) /\ m.ops = Lines(d, b + 1, t) /\ m.job = j
    BY <2>1 DEF CutFrom
  <2>. DEFINE done == Built(m.ops)
  <2>4. m.base \in Slices /\ done \in Slices
    <3>1. Lines(d, 1, b) \in Slices /\ Lines(d, b + 1, t) \in Slices
      BY <2>2, LinesType DEF Slices
    <3>2. done \subseteq m.ops
      BY DEF Built
    <3>. QED
      BY <2>3, <3>1, <3>2 DEF Slices
  <2>5. (IF m.base = EmptyPrefix THEN {} ELSE head.geom) = m.base
    BY <1>2 DEF PlanFits, HashNamesGeometry, EmptyPrefix
  <2>6. PreparedBy(m) = [job |-> m.job, geom |-> m.base \cup done,
                         hash |-> m.base \cup done, steps |-> done]
    BY <2>5 DEF PreparedBy
  <2>7. Clean(m.base)
    <3>1. CASE m.base = EmptyPrefix
      BY <3>1 DEF Clean, EmptyPrefix
    <3>2. CASE m.base = head.geom
      BY <3>2, WholeIsClean DEF AllWhole
    <3>. QED
      BY <1>2, <3>1, <3>2 DEF PlanFits, HashNamesGeometry
  <2>8. Whole(m.base \cup done)
    BY <2>2, <2>3, <2>7, WholeOnBase
  <2>9. scratch' = PreparedBy(m) /\ UNCHANGED <<wEpoch, head, saved>>
    BY <1>2 DEF ExecutePlan
  <2>10. SessionTypeOK'
    BY <2>3, <2>4, <2>6, <2>9 DEF SessionTypeOK, Slices
  <2>11. HashNamesGeometry'
    BY <2>6, <2>9 DEF HashNamesGeometry
  <2>12. AllWhole'
    BY <2>6, <2>8, <2>9 DEF AllWhole
  <2>. QED
    BY <2>10, <2>11, <2>12
<1>. QED
  BY <1>1, <1>2

(* SaveCheckpoint copies the head, which is whole and honest already.      *)
LEMMA SaveKeepsInv ==
    ASSUME SessionInv, NEW m \in AnyRequest("Save"), m.step # 0, SaveCheckpoint(m)
    PROVE  SessionInv'
<1>. USE DEF SessionInv
<1>1. m.step \in Steps
  <2>1. PICK d \in Timelines, b \in Steps \cup {0}, t \in Steps, j \in Jobs, e \in 1 .. MaxEpoch :
          m = CutFrom(d, "Save", b, t, j, e)
    BY DEF AnyRequest
  <2>. QED
    BY <2>1 DEF CutFrom
<1>2. /\ DOMAIN saved' = DOMAIN saved \cup {m.step}
      /\ \A s \in DOMAIN saved' : saved'[s] = IF s = m.step THEN head ELSE saved[s]
      /\ UNCHANGED <<wEpoch, head, scratch>>
  BY DEF SaveCheckpoint
<1>3. SessionTypeOK'
  BY <1>1, <1>2 DEF SessionTypeOK
<1>4. HashNamesGeometry'
  BY <1>2 DEF HashNamesGeometry
<1>5. AllWhole'
  BY <1>2 DEF AllWhole
<1>. QED
  BY <1>3, <1>4, <1>5

(* Every request, from whatever timeline it was cut, keeps the invariant.  *)
LEMMA SessionNextInv == SessionInv /\ [SessionNext]_sessionVars => SessionInv'
<1>. SUFFICES ASSUME SessionInv, [SessionNext]_sessionVars PROVE SessionInv'
  OBVIOUS
<1>. USE DEF SessionInv
<1>1. ASSUME NEW e \in wEpoch + 1 .. MaxEpoch, OpenSession(e) PROVE SessionInv'
  <2>1. SessionTypeOK' /\ HashNamesGeometry'
    BY <1>1, SessionAssumption DEF OpenSession, SessionTypeOK, HashNamesGeometry, EmptyHead,
                                   EmptyPrefix, States, Slices
  <2>2. AllWhole'
    BY <1>1, WholeEmpty DEF OpenSession, AllWhole, EmptyHead
  <2>. QED
    BY <2>1, <2>2
<1>2. ASSUME NEW m, AcceptPrepared(m) PROVE SessionInv'
  <2>1. CASE AcceptFits(m)
    BY <1>2, <2>1 DEF AcceptPrepared, AcceptFits, SessionTypeOK, HashNamesGeometry, AllWhole, States
  <2>2. CASE ~AcceptFits(m)
    BY <1>2, <2>2 DEF AcceptPrepared, SessionTypeOK, HashNamesGeometry, AllWhole
  <2>. QED
    BY <2>1, <2>2
<1>3. ASSUME NEW m, DiscardPrepared(m) PROVE SessionInv'
  BY <1>3 DEF DiscardPrepared, SessionTypeOK, HashNamesGeometry, AllWhole
<1>4. ASSUME NEW m, RestoreCheckpoint(m) PROVE SessionInv'
  <2>1. CASE RestoreFits(m)
    BY <1>4, <2>1 DEF RestoreCheckpoint, RestoreFits, SessionTypeOK, HashNamesGeometry, AllWhole
  <2>2. CASE ~RestoreFits(m)
    BY <1>4, <2>2 DEF RestoreCheckpoint, SessionTypeOK, HashNamesGeometry, AllWhole
  <2>. QED
    BY <2>1, <2>2
<1>5. CASE UNCHANGED sessionVars
  BY <1>5 DEF sessionVars, SessionTypeOK, HashNamesGeometry, AllWhole
<1>. QED
  BY <1>1, <1>2, <1>3, <1>4, <1>5, ExecuteKeepsInv, SaveKeepsInv DEF SessionNext

(* Under any order of requests the session's hashes name its bodies.       *)
THEOREM HashNamesGeometryAlways == SessionSpec => []HashNamesGeometry
<1>1. SessionInv => HashNamesGeometry
  BY DEF SessionInv
<1>. QED
  BY <1>1, SessionInitInv, SessionNextInv, PTL DEF SessionSpec

(* Under any order of requests the published bodies are what one timeline  *)
(* builds, whatever was prepared, saved and restored before.               *)
THEOREM HeadIsOneTimelineAlways == SessionSpec => []HeadIsOneTimeline
<1>1. SessionInv => HeadIsOneTimeline
  BY DEF SessionInv, AllWhole, Whole, HeadIsOneTimeline
<1>. QED
  BY <1>1, SessionInitInv, SessionNextInv, PTL DEF SessionSpec

(* Every part of the session keeps its type.                               *)
THEOREM SessionTypeOKAlways == SessionSpec => []SessionTypeOK
<1>1. SessionInv => SessionTypeOK
  BY DEF SessionInv
<1>. QED
  BY <1>1, SessionInitInv, SessionNextInv, PTL DEF SessionSpec
=============================================================================
