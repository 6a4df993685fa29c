-------------------------- MODULE ToolLaneProofs --------------------------
(***************************************************************************)
(* Proofs about the preview lane and the commit of the armed tools         *)
(* (ToolLane).                                                             *)
(*                                                                         *)
(* Each operator of the model gets a relation that says what it does       *)
(* (Asked, Moves, Restarted, Rearmed, Stepped, BarrierEnds, Swept, ...)    *)
(* and a lemma "...Is" that it does it.  Every action is then one of the   *)
(* relations Starts, Waited, Adjusts, Proceeds, Handles, Delivers,         *)
(* Discards, Answered: the lemmas "...Steps".  The invariants are proved   *)
(* over these relations, for a controller c and its successor e:           *)
(*   Base      the types, with one question per session at the kernel;     *)
(*   LatchOK   the latch is about a failure that stands;                   *)
(*   Fits      which sessions the lane knows at each point of a commit;    *)
(*   Shows     what the calls under way apply;                             *)
(*   Picked    what the picks of a bound tool were made on.                *)
(***************************************************************************)
EXTENDS ToolLane, FiniteSetTheorems, SequenceTheorems, WellFoundedInduction, TLAPS

(* -- Picking the elements of a queue ------------------------------------- *)

(* The least of some numbers.                                              *)
LEMMA LeastBy ==
    ASSUME NEW S, NEW R, IsWellFoundedOn(R, S), NEW W, W \subseteq S, W # {}
    PROVE  \E i \in W : \A j \in W : ~(<<j, i>> \in R)
  BY WFMin, SMT

(* A set of numbers that is not empty has a least one.                     *)
LEMMA LeastOf ==
    ASSUME NEW W, W \subseteq Nat, W # {}
    PROVE  \E i \in W : \A j \in W : i <= j
<1>1. IsWellFoundedOn(OpToRel(<, Nat), Nat)
  BY NatLessThanWellFounded
<1>2. \A x, y \in Nat : x < y => <<x, y>> \in OpToRel(<, Nat)
  BY DEF OpToRel
<1>3. PICK i \in W : \A j \in W : ~(<<j, i>> \in OpToRel(<, Nat))
  BY <1>1, LeastBy, Zenon
<1>4. ASSUME NEW j \in W PROVE i <= j
  <2>1. i \in Nat /\ j \in Nat
    OBVIOUS
  <2>2. ~(j < i)
    BY <1>2, <1>3, <2>1, Zenon
  <2>. QED
    BY <2>1, <2>2
<1>. QED
  BY <1>4

(* What the definition of Those adds for the n-th element.                 *)
Taken(q, W, n) == IF q[n] \in W THEN <<q[n]>> ELSE <<>>

(* A function that picks the elements of the first m, place by place.      *)
Picks(f, q, W, m) ==
  /\ DOMAIN f = 0 .. m
  /\ \A n \in 0 .. m : f[n] = IF n = 0 THEN <<>> ELSE f[n - 1] \o Taken(q, W, n)

(* There is such a function for any prefix.                                *)
LEMMA PicksExist ==
    ASSUME NEW q, NEW W, NEW L \in Nat
    PROVE  \E f : Picks(f, q, W, L)
<1>. DEFINE Bad == {m \in Nat : ~ \E f : Picks(f, q, W, m)}
<1>1. 0 \notin Bad
  <2>1. Picks([n \in 0 .. 0 |-> <<>>], q, W, 0)
    BY DEF Picks
  <2>. QED
    BY <2>1
<1>2. ASSUME NEW m \in Nat, m \notin Bad PROVE (m + 1) \notin Bad
  <2>1. PICK f : Picks(f, q, W, m)
    BY <1>2
  <2>. DEFINE g == [n \in 0 .. (m + 1) |-> IF n = m + 1 THEN f[m] \o Taken(q, W, m + 1) ELSE f[n]]
  <2>2. DOMAIN g = 0 .. (m + 1)
    OBVIOUS
  <2>3. ASSUME NEW n \in 0 .. (m + 1)
        PROVE  g[n] = IF n = 0 THEN <<>> ELSE g[n - 1] \o Taken(q, W, n)
    <3>1. CASE n = m + 1
      <4>0. n # 0
        BY <3>1
      <4>1. g[n] = f[m] \o Taken(q, W, n)
        BY <3>1, Zenon
      <4>2. m \in 0 .. (m + 1) /\ m # m + 1 /\ n - 1 = m
        BY <3>1
      <4>3. g[n - 1] = f[m]
        BY <4>2
      <4>. QED
        BY <4>0, <4>1, <4>3
    <3>2. CASE n # m + 1
      <4>1. n \in 0 .. m /\ g[n] = f[n]
        BY <3>2
      <4>2. CASE n = 0
        BY <2>1, <4>1, <4>2 DEF Picks
      <4>3. CASE n # 0
        <5>1. n - 1 \in 0 .. (m + 1) /\ n - 1 # m + 1
          BY <4>1, <4>3
        <5>2. g[n - 1] = f[n - 1]
          BY <5>1
        <5>3. f[n] = f[n - 1] \o Taken(q, W, n)
          BY <2>1, <4>1, <4>3 DEF Picks
        <5>. QED
          BY <4>1, <4>3, <5>2, <5>3
      <4>. QED
        BY <4>2, <4>3
    <3>. QED
      BY <3>1, <3>2
  <2>. HIDE DEF g
  <2>4. Picks(g, q, W, m + 1)
    BY <2>2, <2>3 DEF Picks
  <2>. QED
    BY <2>4
<1>3. Bad = {}
  <2>. SUFFICES ASSUME Bad # {} PROVE FALSE
    OBVIOUS
  <2>1. Bad \subseteq Nat
    OBVIOUS
  <2>. HIDE DEF Bad
  <2>2. PICK b \in Bad : \A j \in Bad : b <= j
    BY <2>1, LeastOf
  <2>3. b # 0 /\ b \in Nat
    BY <1>1, <2>1
  <2>4. b - 1 \in Nat /\ b - 1 \notin Bad
    BY <2>2, <2>3
  <2>5. (b - 1) + 1 \notin Bad
    BY <1>2, <2>4
  <2>. QED
    BY <2>3, <2>5
<1>. QED
  BY <1>3

(* Those is the end of such a function.                                    *)
LEMMA ThoseIs ==
    ASSUME NEW S, NEW q \in Seq(S), NEW W
    PROVE  \E f : Picks(f, q, W, Len(q)) /\ Those(q, W) = f[Len(q)]
<1>. DEFINE L == Len(q)
            Rec(f) == f = [n \in 0 .. L |->
                            IF n = 0 THEN <<>> ELSE f[n - 1] \o (IF q[n] \in W THEN <<q[n]>> ELSE <<>>)]
            those == CHOOSE f : Rec(f)
<1>1. L \in Nat
  BY LenProperties
<1>2. PICK f : Picks(f, q, W, L)
  BY <1>1, PicksExist
<1>3. Picks(those, q, W, L)
  <2>1. Rec([n \in 0 .. L |-> f[n]])
    BY <1>1, <1>2 DEF Picks, Taken
  <2>2. \E h : Rec(h)
    BY <2>1
  <2>3. Rec(those)
    BY <2>2
  <2>. QED
    BY <2>3 DEF Picks, Taken
<1>4. Those(q, W) = those[L]
  BY DEF Those
<1>. QED
  BY <1>3, <1>4

(* What Those yields: some elements of the queue, each once, in their      *)
(* order, and all that are wanted.                                         *)
Embeds(e, r, q, W, m) ==
  /\ r \in Seq(Range(q)) /\ DOMAIN e = DOMAIN r
  /\ \A j \in DOMAIN r : e[j] \in 1 .. m /\ r[j] = q[e[j]] /\ q[e[j]] \in W
  /\ \A i, j \in DOMAIN r : i < j => e[i] < e[j]
  /\ \A n \in 1 .. m : q[n] \in W => \E j \in DOMAIN r : e[j] = n

(* One more element keeps this true.                                       *)
LEMMA EmbedsNext ==
    ASSUME NEW S, NEW q \in Seq(S), NEW W, NEW m \in Nat, m < Len(q), NEW e, NEW r,
           Embeds(e, r, q, W, m)
    PROVE  \E h : Embeds(h, r \o Taken(q, W, m + 1), q, W, m + 1)
<1>. DEFINE T == Range(q)
            n == Len(r)
<1>1. r \in Seq(T) /\ n \in Nat /\ DOMAIN r = 1 .. n /\ DOMAIN e = 1 .. n
  BY LenProperties DEF Embeds
<1>2. m + 1 \in DOMAIN q /\ q[m + 1] \in T
  <2>1. m + 1 \in DOMAIN q
    BY LenProperties
  <2>. QED
    BY <2>1 DEF Range
<1>3. CASE q[m + 1] \notin W
  <2>1. r \o Taken(q, W, m + 1) = r
    BY <1>1, <1>3 DEF Taken
  <2>2. Embeds(e, r, q, W, m + 1)
    <3>1. \A j \in DOMAIN r : e[j] \in 1 .. (m + 1) /\ r[j] = q[e[j]] /\ q[e[j]] \in W
      BY DEF Embeds
    <3>2. ASSUME NEW x \in 1 .. (m + 1), q[x] \in W
          PROVE  \E j \in DOMAIN r : e[j] = x
      <4>1. x \in 1 .. m
        BY <1>3, <3>2
      <4>. QED
        BY <3>2, <4>1 DEF Embeds
    <3>. QED
      BY <3>1, <3>2 DEF Embeds
  <2>. QED
    BY <2>1, <2>2
<1>4. CASE q[m + 1] \in W
  <2>. DEFINE s == Append(r, q[m + 1])
              h == [j \in 1 .. (n + 1) |-> IF j = n + 1 THEN m + 1 ELSE e[j]]
  <2>1. r \o Taken(q, W, m + 1) = s
    BY <1>1, <1>2, <1>4 DEF Taken
  <2>2. s \in Seq(T) /\ DOMAIN s = 1 .. (n + 1) /\ s[n + 1] = q[m + 1]
    BY <1>1, <1>2
  <2>3. \A j \in 1 .. n : s[j] = r[j]
    BY <1>1, <1>2
  <2>4. h[n + 1] = m + 1 /\ \A j \in 1 .. n : h[j] = e[j]
    BY <1>1
  <2>5. DOMAIN h = 1 .. (n + 1)
    OBVIOUS
  <2>. HIDE DEF s, h
  <2>6. \A j \in 1 .. n : e[j] \in 1 .. m /\ r[j] = q[e[j]] /\ q[e[j]] \in W
    BY <1>1 DEF Embeds
  <2>7. ASSUME NEW j \in 1 .. (n + 1)
        PROVE  h[j] \in 1 .. (m + 1) /\ s[j] = q[h[j]] /\ q[h[j]] \in W
    <3>1. CASE j = n + 1
      BY <1>4, <2>2, <2>4, <3>1
    <3>2. CASE j # n + 1
      <4>1. j \in 1 .. n
        BY <1>1, <3>2
      <4>. QED
        BY <2>3, <2>4, <2>6, <4>1
    <3>. QED
      BY <3>1, <3>2
  <2>8. ASSUME NEW i \in 1 .. (n + 1), NEW j \in 1 .. (n + 1), i < j
        PROVE  h[i] < h[j]
    <3>1. i \in 1 .. n
      BY <1>1, <2>8
    <3>2. CASE j = n + 1
      <4>1. h[j] = m + 1 /\ h[i] = e[i] /\ e[i] \in 1 .. m
        BY <2>4, <2>6, <3>1, <3>2
      <4>. QED
        BY <4>1
    <3>3. CASE j # n + 1
      <4>1. j \in 1 .. n
        BY <1>1, <3>3
      <4>. QED
        BY <1>1, <2>4, <2>8, <3>1, <4>1 DEF Embeds
    <3>. QED
      BY <3>2, <3>3
  <2>9. ASSUME NEW x \in 1 .. (m + 1), q[x] \in W
        PROVE  \E j \in 1 .. (n + 1) : h[j] = x
    <3>1. CASE x = m + 1
      BY <1>1, <2>4, <3>1
    <3>2. CASE x # m + 1
      <4>1. x \in 1 .. m
        BY <3>2
      <4>2. PICK j \in 1 .. n : e[j] = x
        BY <1>1, <2>9, <4>1 DEF Embeds
      <4>. QED
        BY <1>1, <2>4, <4>2
    <3>. QED
      BY <3>1, <3>2
  <2>10. Embeds(h, s, q, W, m + 1)
    BY <2>2, <2>5, <2>7, <2>8, <2>9 DEF Embeds
  <2>. QED
    BY <2>1, <2>10
<1>. QED
  BY <1>3, <1>4

(* So it is true of what Those yields.                                     *)
LEMMA ThoseEmbeds ==
    ASSUME NEW S, NEW q \in Seq(S), NEW W
    PROVE  \E e : Embeds(e, Those(q, W), q, W, Len(q))
<1>. DEFINE L == Len(q)
<1>1. PICK f : Picks(f, q, W, L) /\ Those(q, W) = f[L]
  BY ThoseIs
<1>2. L \in Nat /\ DOMAIN q = 1 .. L
  BY LenProperties
<1>. DEFINE Bad == {m \in 0 .. L : ~ \E e : Embeds(e, f[m], q, W, m)}
<1>3. 0 \notin Bad
  <2>1. f[0] = <<>>
    BY <1>1, <1>2 DEF Picks
  <2>2. Embeds(<<>>, <<>>, q, W, 0)
    BY DEF Embeds
  <2>. QED
    BY <2>1, <2>2
<1>4. ASSUME NEW m \in Nat, m < L, m \notin Bad PROVE (m + 1) \notin Bad
  <2>1. PICK e : Embeds(e, f[m], q, W, m)
    BY <1>2, <1>4
  <2>2. f[m + 1] = f[m] \o Taken(q, W, m + 1)
    <3>1. m + 1 \in 0 .. L /\ m + 1 # 0 /\ (m + 1) - 1 = m
      BY <1>2, <1>4
    <3>. QED
      BY <1>1, <3>1 DEF Picks
  <2>3. \E h : Embeds(h, f[m + 1], q, W, m + 1)
    BY <1>4, <2>1, <2>2, EmbedsNext
  <2>. QED
    BY <2>3
<1>5. Bad = {}
  <2>. SUFFICES ASSUME Bad # {} PROVE FALSE
    OBVIOUS
  <2>1. Bad \subseteq 0 .. L
    OBVIOUS
  <2>. HIDE DEF Bad
  <2>2. Bad \subseteq Nat
    BY <1>2, <2>1
  <2>3. PICK b \in Bad : \A j \in Bad : b <= j
    BY <2>2, LeastOf
  <2>4. b # 0 /\ b \in Nat /\ b <= L
    BY <1>2, <1>3, <2>1
  <2>5. b - 1 \in Nat /\ b - 1 < L /\ b - 1 \notin Bad
    BY <1>2, <2>3, <2>4
  <2>6. (b - 1) + 1 \notin Bad
    BY <1>4, <2>5
  <2>. QED
    BY <2>4, <2>6
<1>6. L \in 0 .. L
  BY <1>2
<1>7. \E e : Embeds(e, f[L], q, W, L)
  BY <1>5, <1>6
<1>. QED
  BY <1>1, <1>7

(* A queue of distinct things yields distinct things: those wanted, all of *)
(* them.                                                                   *)
Yields(r, q, W) ==
  /\ \A j \in DOMAIN r : \E i \in DOMAIN q : r[j] = q[i] /\ q[i] \in W
  /\ \A i \in DOMAIN q : q[i] \in W => \E j \in DOMAIN r : r[j] = q[i]

(* What is picked is what was wanted, all of it.                           *)
LEMMA ThoseProps ==
    ASSUME NEW S, NEW q \in Seq(S), NEW W, NEW r, r = Those(q, W)
    PROVE  r \in Seq(S) /\ Yields(r, q, W)
<1>1. PICK e : Embeds(e, r, q, W, Len(q))
  BY ThoseEmbeds
<1>2. DOMAIN q = 1 .. Len(q)
  BY LenProperties
<1>3. \A j \in DOMAIN r : \E i \in DOMAIN q : r[j] = q[i] /\ q[i] \in W
  BY <1>1, <1>2 DEF Embeds
<1>4. \A i \in DOMAIN q : q[i] \in W => \E j \in DOMAIN r : r[j] = q[i]
  BY <1>1, <1>2 DEF Embeds
<1>5. r \in Seq(S)
  <2>1. r \in Seq(Range(q))
    BY <1>1 DEF Embeds
  <2>2. Range(q) \subseteq S
    BY <1>2, ElementOfSeq DEF Range
  <2>. QED
    BY <2>1, <2>2
<1>. QED
  BY <1>3, <1>4, <1>5 DEF Yields

(* If no two questions of a queue are of one session, so it is afterwards. *)
LEMMA ThoseDistinct ==
    ASSUME NEW S, NEW q \in Seq(S), NEW W, NEW r, r = Those(q, W),
           \A i, j \in DOMAIN q : q[i].sid = q[j].sid => i = j
    PROVE  \A i, j \in DOMAIN r : r[i].sid = r[j].sid => i = j
<1>1. PICK e : Embeds(e, r, q, W, Len(q))
  BY ThoseEmbeds
<1>2. DOMAIN q = 1 .. Len(q) /\ Len(q) \in Nat
  BY LenProperties
<1>3. r \in Seq(Range(q))
  BY <1>1 DEF Embeds
<1>4. DOMAIN r = 1 .. Len(r) /\ Len(r) \in Nat
  BY <1>3, LenProperties
<1>. SUFFICES ASSUME NEW i \in DOMAIN r, NEW j \in DOMAIN r, r[i].sid = r[j].sid
              PROVE  i = j
  OBVIOUS
<1>5. e[i] \in DOMAIN q /\ e[j] \in DOMAIN q /\ r[i] = q[e[i]] /\ r[j] = q[e[j]]
  BY <1>1, <1>2 DEF Embeds
<1>6. e[i] = e[j]
  BY <1>5
<1>7. i \in Nat /\ j \in Nat /\ e[i] \in Nat
  BY <1>2, <1>4, <1>5
<1>8. ~(i < j) /\ ~(j < i)
  <2>1. (i < j => e[i] < e[j]) /\ (j < i => e[j] < e[i])
    BY <1>1 DEF Embeds
  <2>. QED
    BY <1>6, <1>7, <2>1
<1>. QED
  BY <1>7, <1>8

(* However many ids are in use, as many new ones as are needed are free.   *)
LEMMA FreeExists ==
    ASSUME NEW T, IsFiniteSet(T), NEW n \in Nat
    PROVE  \E f \in [1 .. n -> 1 .. (n + Cardinality(T))] :
             \A i \in 1 .. n : f[i] \notin T /\ \A j \in 1 .. (i - 1) : f[j] # f[i]
<1>. DEFINE m == Cardinality(T)
            I == 1 .. (n + m)
            D == I \ T
<1>1. m \in Nat
  BY FS_CardinalityType
<1>. HIDE DEF m
<1>2. IsFiniteSet(I) /\ Cardinality(I) = n + m
  <2>1. n + m \in Nat /\ 1 \in Int
    BY <1>1
  <2>2. \A a, b \in Int : IsFiniteSet(a .. b) /\ Cardinality(a .. b) = IF a > b THEN 0 ELSE b - a + 1
    BY FS_Interval
  <2>. DEFINE k == n + m
  <2>. HIDE DEF k
  <2>3. IsFiniteSet(1 .. k) /\ Cardinality(1 .. k) = k
    BY <2>1, <2>2 DEF k
  <2>. QED
    BY <2>3 DEF k
<1>3. IsFiniteSet(D) /\ Cardinality(D) = Cardinality(I) - Cardinality(I \cap T)
  BY <1>2, FS_Difference
<1>4. Cardinality(I \cap T) <= m /\ IsFiniteSet(I \cap T)
  BY FS_Intersection DEF m
<1>5. Cardinality(I \cap T) \in Nat /\ Cardinality(D) \in Nat
  BY <1>3, <1>4, FS_CardinalityType
<1>6. Cardinality(D) >= n
  BY <1>1, <1>2, <1>3, <1>4, <1>5
<1>7. PICK b : b \in Bijection(1 .. Cardinality(D), D)
  BY <1>3, FS_CardinalityType DEF ExistsBijection
<1>8. b \in [1 .. Cardinality(D) -> D] /\ IsInjective(b)
  BY <1>7 DEF Bijection, Injection
<1>. DEFINE f == [i \in 1 .. n |-> b[i]]
<1>9. \A i \in 1 .. n : i \in 1 .. Cardinality(D) /\ f[i] = b[i]
  BY <1>5, <1>6
<1>10. f \in [1 .. n -> I]
  BY <1>8, <1>9
<1>11. ASSUME NEW i \in 1 .. n PROVE f[i] \notin T /\ \A j \in 1 .. (i - 1) : f[j] # f[i]
  <2>1. f[i] \in D
    BY <1>8, <1>9
  <2>2. ASSUME NEW j \in 1 .. (i - 1) PROVE f[j] # f[i]
    <3>1. j \in 1 .. n /\ j # i
      OBVIOUS
    <3>2. b[j] # b[i]
      BY <1>8, <1>9, <3>1 DEF IsInjective
    <3>. QED
      BY <1>9, <3>1, <3>2
  <2>. QED
    BY <2>1, <2>2
<1>. QED
  BY <1>10, <1>11 DEF m

(* A table over 1 .. n is a sequence.                                      *)
LEMMA TableIsSeq ==
    ASSUME NEW S, NEW n \in Nat, NEW f \in [1 .. n -> S]
    PROVE  f \in Seq(S) /\ Len(f) = n /\ DOMAIN f = 1 .. n
  OBVIOUS

(* -- The shape of the controller ----------------------------------------- *)

Fields == {"tool", "phase", "value", "regions", "basis", "prepared", "sessions", "latch", "retried",
           "throttle", "timer", "commit", "arm", "chosen", "lane", "kernel", "calls"}
Session == [sid : Nat, region : Nat, applied : Nat, shown : Nat, failed : BOOLEAN]
Ask == [sid : Nat, epoch : Nat, value : Nat]
Slot == [value : Nat, busy : BOOLEAN, queue : Seq(Ask)]
Throttle == [epoch : Nat, inFlight : Nat, pending : Nat, last : Nat, open : BOOLEAN]

(* The fields of the lane.                                                 *)
LaneShape(c) ==
  /\ DOMAIN c = Fields
  /\ c.sessions \in Seq(Session)
  /\ \A i, j \in DOMAIN c.sessions : c.sessions[i].sid = c.sessions[j].sid => i = j
  /\ c.lane \in [DOMAIN c.lane -> Slot] /\ DOMAIN c.lane \subseteq Nat /\ IsFiniteSet(DOMAIN c.lane)
  /\ \A s \in DOMAIN c.lane : \A i \in DOMAIN c.lane[s].queue : c.lane[s].queue[i].sid = s
  /\ \A s \in DOMAIN c.lane : Len(c.lane[s].queue) <= 1
  /\ c.kernel \in Seq(Ask)
  /\ c.throttle \in Throttle /\ c.throttle.inFlight \in {0, c.throttle.epoch}
  /\ c.latch \in BOOLEAN /\ c.retried \in BOOLEAN /\ c.timer \in BOOLEAN
  /\ c.value \in 0 .. MaxValue /\ c.throttle.pending \in 0 .. MaxValue

(* One question of each busy session is with the kernel, but of those in X *)
(* the kernel has just answered it.                                        *)
LaneAsks(c, X) ==
  /\ \A j \in DOMAIN c.kernel :
       LET s == c.kernel[j].sid IN s \in DOMAIN c.lane \ X /\ c.lane[s].busy
  /\ \A i, j \in DOMAIN c.kernel : c.kernel[i].sid = c.kernel[j].sid => i = j
  /\ \A s \in DOMAIN c.lane : c.lane[s].busy /\ s \notin X => \E j \in DOMAIN c.kernel : c.kernel[j].sid = s
  /\ \A s \in X \cap DOMAIN c.lane : c.lane[s].busy

LaneOK(c, X) == LaneShape(c) /\ LaneAsks(c, X)

(* The fields of the tool and of its commit, which the lane leaves alone.  *)
SameTool(c, d) ==
  /\ d.tool = c.tool /\ d.phase = c.phase /\ d.value = c.value /\ d.regions = c.regions
  /\ d.basis = c.basis /\ d.prepared = c.prepared /\ d.commit = c.commit
  /\ d.arm = c.arm /\ d.chosen = c.chosen /\ d.calls = c.calls

SidsOf(q) == {q[i].sid : i \in DOMAIN q}

(* beginPreview opens a session per region, under ids not in use.          *)
Begun(b, c, kept, regions) ==
  /\ b.sessions \in Seq(Session) /\ Len(b.sessions) = Len(regions)
  /\ \A i \in 1 .. Len(regions) :
       /\ b.sessions[i].region = regions[i] /\ b.sessions[i].applied = 0
       /\ b.sessions[i].shown = 0 /\ b.sessions[i].failed = FALSE
       /\ b.sessions[i].sid \notin DOMAIN c.lane \cup SidsOf(kept)
  /\ \A i, j \in 1 .. Len(regions) : b.sessions[i].sid = b.sessions[j].sid => i = j
  /\ DOMAIN b.lane = DOMAIN c.lane \cup SidsOf(b.sessions)
  /\ \A s \in DOMAIN c.lane : b.lane[s] = c.lane[s]
  /\ \A i \in 1 .. Len(regions) :
       b.lane[b.sessions[i].sid] = [value |-> c.value, busy |-> FALSE, queue |-> <<>>]
  /\ b.lane \in [DOMAIN b.lane -> Slot] /\ DOMAIN b.lane \subseteq Nat /\ IsFiniteSet(DOMAIN b.lane)

(* beginPreview gives each new session a new id and an idle slot.          *)
LEMMA BeginIs ==
    ASSUME NEW c, LaneShape(c), NEW kept \in Seq(Session), NEW regions \in Seq(Nat),
           NEW b, b = Begin(c, kept, regions)
    PROVE  Begun(b, c, kept, regions)
<1>. DEFINE n == Len(regions)
            used == DOMAIN c.lane \cup {kept[i].sid : i \in DOMAIN kept}
            Free(f) == \A i \in 1 .. n : f[i] \notin used /\ \A j \in 1 .. (i - 1) : f[j] # f[i]
            F == [1 .. n -> 1 .. (n + Cardinality(used))]
            free == CHOOSE f \in F : Free(f)
<1>1. n \in Nat /\ DOMAIN regions = 1 .. n /\ \A i \in 1 .. n : regions[i] \in Nat
  BY LenProperties
<1>2. IsFiniteSet(used)
  <2>1. IsFiniteSet({kept[i].sid : i \in DOMAIN kept})
    <3>1. DOMAIN kept = 1 .. Len(kept) /\ Len(kept) \in Nat
      BY LenProperties
    <3>. DEFINE g == [i \in 1 .. Len(kept) |-> kept[i].sid]
                K == {kept[i].sid : i \in DOMAIN kept}
    <3>2. IsFiniteSet(1 .. Len(kept))
      BY <3>1, FS_Interval
    <3>3. g \in Surjection(1 .. Len(kept), K)
      BY <3>1 DEF Surjection
    <3>. HIDE DEF g, K
    <3>4. IsFiniteSet(K)
      BY <3>2, <3>3, FS_Surjection
    <3>. QED
      BY <3>4 DEF K
  <2>2. IsFiniteSet(DOMAIN c.lane)
    BY DEF LaneShape
  <2>. QED
    BY <2>1, <2>2, FS_Union
<1>3. free \in F /\ Free(free)
  <2>. HIDE DEF used
  <2>1. \E f \in F : Free(f)
    BY <1>1, <1>2, FreeExists
  <2>. HIDE DEF F, Free
  <2>. QED
    BY <2>1
<1>4. \A i \in 1 .. n : free[i] \in Nat /\ free[i] \notin used
  <2>1. Cardinality(used) \in Nat
    BY <1>2, FS_CardinalityType
  <2>. DEFINE k == n + Cardinality(used)
  <2>2. k \in Nat
    BY <1>1, <2>1
  <2>3. free \in [1 .. n -> 1 .. k]
    BY <1>3
  <2>. HIDE DEF free, used, k, F
  <2>4. \A i \in 1 .. n : free[i] \in Nat
    BY <2>2, <2>3
  <2>. QED
    BY <1>3, <2>4
<1>5. \A i, j \in 1 .. n : free[i] = free[j] => i = j
  <2>. HIDE DEF free, used, F
  <2>1. ASSUME NEW i \in 1 .. n, NEW j \in 1 .. n, i < j PROVE free[i] # free[j]
    <3>1. i \in 1 .. (j - 1)
      BY <1>1, <2>1
    <3>. QED
      BY <1>3, <3>1
  <2>. QED
    BY <1>1, <2>1
<1>6. /\ b.sessions = [i \in 1 .. n |-> [sid |-> free[i], region |-> regions[i], applied |-> 0,
                                        shown |-> 0, failed |-> FALSE]]
      /\ b.lane = [s \in DOMAIN c.lane \cup {free[i] : i \in 1 .. n} |->
                     IF s \in DOMAIN c.lane THEN c.lane[s]
                     ELSE [value |-> c.value, busy |-> FALSE, queue |-> <<>>]]
  BY DEF Begin
<1>. HIDE DEF free, used, n
<1>7. b.sessions \in Seq(Session) /\ Len(b.sessions) = n /\ DOMAIN b.sessions = 1 .. n
  <2>1. \A i \in 1 .. n : [sid |-> free[i], region |-> regions[i], applied |-> 0,
                           shown |-> 0, failed |-> FALSE] \in Session
    BY <1>1, <1>4 DEF Session
  <2>2. b.sessions \in [1 .. n -> Session]
    BY <1>6, <2>1
  <2>. QED
    BY <1>1, <2>2, TableIsSeq
<1>8. \A i \in 1 .. n : /\ b.sessions[i].region = regions[i] /\ b.sessions[i].applied = 0
                       /\ b.sessions[i].shown = 0 /\ b.sessions[i].failed = FALSE
                       /\ b.sessions[i].sid = free[i]
  BY <1>6
<1>9. SidsOf(b.sessions) = {free[i] : i \in 1 .. n}
  <2>1. SidsOf(b.sessions) = {b.sessions[i].sid : i \in 1 .. n}
    BY <1>7 DEF SidsOf
  <2>. QED
    BY <1>8, <2>1
<1>10. DOMAIN b.lane = DOMAIN c.lane \cup SidsOf(b.sessions)
  BY <1>6, <1>9
<1>11. \A s \in DOMAIN c.lane : b.lane[s] = c.lane[s]
  BY <1>6
<1>12. \A i \in 1 .. n :
         /\ b.sessions[i].sid \notin DOMAIN c.lane \cup SidsOf(kept)
         /\ b.lane[b.sessions[i].sid] = [value |-> c.value, busy |-> FALSE, queue |-> <<>>]
  BY <1>4, <1>6, <1>8 DEF used, SidsOf
<1>13. b.lane \in [DOMAIN b.lane -> Slot] /\ DOMAIN b.lane \subseteq Nat
  <2>1. \A s \in DOMAIN c.lane : c.lane[s] \in Slot /\ s \in Nat
    BY DEF LaneShape
  <2>2. [value |-> c.value, busy |-> FALSE, queue |-> <<>>] \in Slot
    BY LaneBounds DEF Slot, LaneShape
  <2>. QED
    BY <1>4, <1>6, <2>1, <2>2
<1>14. IsFiniteSet(DOMAIN b.lane)
  <2>. DEFINE M == {free[i] : i \in 1 .. n}
  <2>1. IsFiniteSet(M)
    <3>. DEFINE g == [i \in 1 .. n |-> free[i]]
                K == {free[i] : i \in 1 .. n}
    <3>1. IsFiniteSet(1 .. n)
      BY <1>1, FS_Interval
    <3>2. g \in Surjection(1 .. n, K)
      BY DEF Surjection
    <3>. HIDE DEF g, K
    <3>3. IsFiniteSet(K)
      BY <3>1, <3>2, FS_Surjection
    <3>. QED
      BY <3>3 DEF K
  <2>2. IsFiniteSet(DOMAIN c.lane)
    BY DEF LaneShape
  <2>3. DOMAIN b.lane = DOMAIN c.lane \cup M
    BY <1>9, <1>10
  <2>. HIDE DEF M
  <2>4. IsFiniteSet(DOMAIN c.lane \cup M)
    BY <2>1, <2>2, FS_Union
  <2>. QED
    BY <2>3, <2>4
<1>15. \A i, j \in 1 .. n : b.sessions[i].sid = b.sessions[j].sid => i = j
  BY <1>5, <1>8
<1>16. Len(regions) = n
  BY DEF n
<1>. QED
  BY ONLY <1>7, <1>8, <1>10, <1>11, <1>12, <1>13, <1>14, <1>15, <1>16 DEF Begun

(* The elements of two queues in a row.                                    *)
Row(z, q, r) ==
  /\ Len(z) = Len(q) + Len(r)
  /\ \A i \in DOMAIN q : i \in DOMAIN z /\ z[i] = q[i]
  /\ \A i \in DOMAIN r : Len(q) + i \in DOMAIN z /\ z[Len(q) + i] = r[i]
  /\ \A j \in DOMAIN z : \/ j \in DOMAIN q /\ z[j] = q[j]
                         \/ \E i \in DOMAIN r : j = Len(q) + i /\ z[j] = r[i]

(* One more session in a list of distinct ones.                            *)
LEMMA RowIs ==
    ASSUME NEW S, NEW q \in Seq(S), NEW r \in Seq(S)
    PROVE  q \o r \in Seq(S) /\ Row(q \o r, q, r)
<1>. DEFINE z == q \o r
<1>1. Len(q) \in Nat /\ Len(r) \in Nat /\ DOMAIN q = 1 .. Len(q) /\ DOMAIN r = 1 .. Len(r)
  BY LenProperties
<1>2. z \in Seq(S) /\ Len(z) = Len(q) + Len(r)
  OBVIOUS
<1>3. DOMAIN z = 1 .. (Len(q) + Len(r))
  BY <1>2, LenProperties
<1>4. \A i \in 1 .. (Len(q) + Len(r)) : z[i] = IF i <= Len(q) THEN q[i] ELSE r[i - Len(q)]
  OBVIOUS
<1>5. \A i \in DOMAIN q : i \in DOMAIN z /\ z[i] = q[i]
  BY <1>1, <1>3, <1>4
<1>6. ASSUME NEW i \in DOMAIN r PROVE Len(q) + i \in DOMAIN z /\ z[Len(q) + i] = r[i]
  <2>1. Len(q) + i \in 1 .. (Len(q) + Len(r)) /\ ~(Len(q) + i <= Len(q)) /\ (Len(q) + i) - Len(q) = i
    BY <1>1
  <2>. QED
    BY <1>3, <1>4, <2>1
<1>7. ASSUME NEW j \in DOMAIN z, j \notin DOMAIN q
      PROVE  \E i \in DOMAIN r : j = Len(q) + i /\ z[j] = r[i]
  <2>1. j \in 1 .. (Len(q) + Len(r)) /\ ~(j <= Len(q))
    BY <1>1, <1>3, <1>7
  <2>2. j - Len(q) \in DOMAIN r /\ j = Len(q) + (j - Len(q))
    BY <1>1, <2>1
  <2>3. z[j] = r[j - Len(q)]
    BY <1>4, <2>1
  <2>. QED
    BY <2>2, <2>3
<1>. QED
  BY <1>2, <1>5, <1>6, <1>7 DEF Row

(* Queues of distinct sessions, none of them in both, are a distinct row.  *)
LEMMA RowDistinct ==
    ASSUME NEW q, NEW r, NEW z, Row(z, q, r),
           \A i, j \in DOMAIN q : q[i].sid = q[j].sid => i = j,
           \A i, j \in DOMAIN r : r[i].sid = r[j].sid => i = j,
           \A i \in DOMAIN q : \A j \in DOMAIN r : q[i].sid # r[j].sid
    PROVE  \A i, j \in DOMAIN z : z[i].sid = z[j].sid => i = j
<1>. SUFFICES ASSUME NEW i \in DOMAIN z, NEW j \in DOMAIN z, z[i].sid = z[j].sid
              PROVE  i = j
  OBVIOUS
<1>1. \A n \in DOMAIN z : \/ n \in DOMAIN q /\ z[n] = q[n]
                          \/ \E m \in DOMAIN r : n = Len(q) + m /\ z[n] = r[m]
  BY DEF Row
<1>2. CASE i \in DOMAIN q /\ z[i] = q[i]
  <2>1. CASE j \in DOMAIN q /\ z[j] = q[j]
    BY <1>2, <2>1
  <2>2. CASE \E m \in DOMAIN r : j = Len(q) + m /\ z[j] = r[m]
    BY <1>2, <2>2
  <2>. QED
    BY <1>1, <2>1, <2>2
<1>3. CASE \E m \in DOMAIN r : i = Len(q) + m /\ z[i] = r[m]
  <2>1. CASE j \in DOMAIN q /\ z[j] = q[j]
    BY <1>3, <2>1
  <2>2. CASE \E m \in DOMAIN r : j = Len(q) + m /\ z[j] = r[m]
    BY <1>3, <2>2
  <2>. QED
    BY <1>1, <2>1, <2>2
<1>. QED
  BY <1>1, <1>2, <1>3

(* -- Asking --------------------------------------------------------------- *)

(* The question a session is asked now.                                    *)
AskOf(c, s) == [sid |-> s, epoch |-> c.throttle.epoch, value |-> c.throttle.last]

(* d asks the sessions to of c, and only them.                             *)
Asked(c, d, to) ==
  /\ SameTool(c, d) /\ d.sessions = c.sessions /\ d.throttle = c.throttle
  /\ d.latch = c.latch /\ d.retried = c.retried /\ d.timer = c.timer
  /\ DOMAIN d.lane = DOMAIN c.lane
  /\ \A s \in DOMAIN c.lane \ to : d.lane[s] = c.lane[s]
  /\ \A s \in to : d.lane[s] = [value |-> c.throttle.last, busy |-> TRUE,
                                queue |-> IF c.lane[s].busy THEN <<AskOf(c, s)>> ELSE c.lane[s].queue]
  /\ \A j \in DOMAIN d.kernel :
       \/ \E i \in DOMAIN c.kernel : d.kernel[j] = c.kernel[i]
       \/ \E s \in to : ~c.lane[s].busy /\ d.kernel[j] = AskOf(c, s)
  /\ \A i \in DOMAIN c.kernel : i \in DOMAIN d.kernel /\ d.kernel[i] = c.kernel[i]

(* updatePreview asks each session once, and keeps the newest of what      *)
(* waits.                                                                  *)
LEMMA UpdateIs ==
    ASSUME NEW c, NEW X, LaneOK(c, X), NEW S, S \subseteq DOMAIN c.sessions,
           NEW d, d = UpdatePreview(c, S)
    PROVE  LaneOK(d, X) /\ Asked(c, d, {c.sessions[i].sid : i \in S} \cap DOMAIN c.lane)
<1>. DEFINE to == {c.sessions[i].sid : i \in S} \cap DOMAIN c.lane
            idle == {r \in to : ~c.lane[r].busy}
            asks == [i \in DOMAIN c.sessions |-> AskOf(c, c.sessions[i].sid)]
            W == {AskOf(c, s) : s \in idle}
            new == Those(asks, W)
            asked(s) == [value |-> c.throttle.last, busy |-> TRUE,
                         queue |-> IF c.lane[s].busy THEN <<AskOf(c, s)>> ELSE c.lane[s].queue]
            lane == [s \in DOMAIN c.lane |-> IF s \in to THEN asked(s) ELSE c.lane[s]]
<1>1. d = [c EXCEPT !.lane = lane, !.kernel = c.kernel \o new]
  <2>1. \A s \in to : [r \in to |-> asked(r)][s] = asked(s)
    OBVIOUS
  <2>. QED
    BY <2>1 DEF UpdatePreview, AskOf
<1>2. LaneShape(c) /\ DOMAIN c = Fields
  BY DEF LaneOK, LaneShape
<1>3. /\ DOMAIN d = Fields /\ d.lane = lane /\ d.kernel = c.kernel \o new
      /\ SameTool(c, d) /\ d.sessions = c.sessions /\ d.throttle = c.throttle
      /\ d.latch = c.latch /\ d.retried = c.retried /\ d.timer = c.timer
  <2>. HIDE DEF lane, new
  <2>1. DOMAIN d = Fields /\ d.lane = lane /\ d.kernel = c.kernel \o new
    BY <1>1, <1>2 DEF Fields
  <2>. QED
    BY <1>1, <2>1 DEF SameTool
<1>4. c.throttle.epoch \in Nat /\ c.throttle.last \in Nat
  BY <1>2 DEF LaneShape, Throttle
<1>5. \A i \in DOMAIN c.sessions : c.sessions[i].sid \in Nat
  <2>1. \A i \in DOMAIN c.sessions : c.sessions[i] \in Session
    BY <1>2, ElementOfSeq DEF LaneShape
  <2>. QED
    BY <2>1 DEF Session
<1>6. \A s \in DOMAIN c.lane : s \in Nat /\ c.lane[s] \in Slot
  BY <1>2 DEF LaneShape
<1>7. \A s \in Nat : AskOf(c, s) \in Ask /\ AskOf(c, s).sid = s
  BY <1>4 DEF AskOf, Ask
<1>8. asks \in Seq(Ask) /\ DOMAIN asks = DOMAIN c.sessions
  <2>1. c.sessions \in Seq(Session)
    BY <1>2 DEF LaneShape
  <2>2. Len(c.sessions) \in Nat /\ DOMAIN c.sessions = 1 .. Len(c.sessions)
    BY <2>1, LenProperties
  <2>3. asks \in [1 .. Len(c.sessions) -> Ask]
    BY <1>5, <1>7, <2>2
  <2>. QED
    BY <2>2, <2>3, TableIsSeq
<1>9. \A i, j \in DOMAIN asks : asks[i].sid = asks[j].sid => i = j
  <2>1. \A i \in DOMAIN asks : asks[i].sid = c.sessions[i].sid
    BY <1>5, <1>7, <1>8
  <2>. QED
    BY <1>2, <1>8, <2>1 DEF LaneShape
<1>10. \A i \in DOMAIN asks : asks[i] = AskOf(c, c.sessions[i].sid)
  BY <1>8
<1>11. \A s \in to : s \in DOMAIN c.lane /\ \E i \in DOMAIN c.sessions : s = c.sessions[i].sid
  OBVIOUS
<1>. HIDE DEF asks
<1>12. /\ new \in Seq(Ask)
       /\ \A j \in DOMAIN new : \E s \in idle : new[j] = AskOf(c, s)
       /\ \A s \in idle : \E j \in DOMAIN new : new[j] = AskOf(c, s)
       /\ \A i, j \in DOMAIN new : new[i].sid = new[j].sid => i = j
  <2>0. idle \subseteq to
    OBVIOUS
  <2>. HIDE DEF W, to, idle
  <2>5. new \in Seq(Ask) /\ Yields(new, asks, W)
    BY <1>8, ThoseProps
  <2>1. /\ new \in Seq(Ask)
        /\ \A j \in DOMAIN new : \E i \in DOMAIN asks : new[j] = asks[i] /\ asks[i] \in W
        /\ \A i \in DOMAIN asks : asks[i] \in W => \E j \in DOMAIN new : new[j] = asks[i]
    BY <2>5 DEF Yields
  <2>2. \A i, j \in DOMAIN new : new[i].sid = new[j].sid => i = j
    BY <1>8, <1>9, ThoseDistinct
  <2>. HIDE DEF new
  <2>3. \A j \in DOMAIN new : \E s \in idle : new[j] = AskOf(c, s)
    BY <2>1 DEF W
  <2>4. ASSUME NEW s \in idle PROVE \E j \in DOMAIN new : new[j] = AskOf(c, s)
    <3>1. PICK i \in DOMAIN asks : s = c.sessions[i].sid
      BY <1>8, <1>11, <2>0
    <3>2. asks[i] = AskOf(c, s) /\ asks[i] \in W
      BY <1>10, <3>1 DEF W
    <3>. QED
      BY <2>1, <3>2
  <2>. QED
    BY <2>1, <2>2, <2>3, <2>4
<1>. HIDE DEF W, new
<1>13. \A s \in to : asked(s) \in Slot
  <2>. SUFFICES ASSUME NEW s \in to PROVE asked(s) \in Slot
    OBVIOUS
  <2>1. c.lane[s].queue \in Seq(Ask) /\ AskOf(c, s) \in Ask
    BY <1>6, <1>7 DEF Slot
  <2>2. <<AskOf(c, s)>> \in Seq(Ask)
    BY <2>1
  <2>. QED
    BY <1>4, <2>1, <2>2 DEF Slot
<1>14. \A s \in DOMAIN c.lane \ to : d.lane[s] = c.lane[s]
  BY <1>3
<1>15. \A s \in to : d.lane[s] = asked(s)
  BY <1>3, <1>11
<1>16. DOMAIN d.lane = DOMAIN c.lane
  BY <1>3
<1>17. \A s \in to : /\ d.lane[s].busy = TRUE /\ d.lane[s].value = c.throttle.last
                     /\ d.lane[s].queue = IF c.lane[s].busy THEN <<AskOf(c, s)>> ELSE c.lane[s].queue
  <2>. SUFFICES ASSUME NEW s \in to
                PROVE  /\ d.lane[s].busy = TRUE /\ d.lane[s].value = c.throttle.last
                       /\ d.lane[s].queue = IF c.lane[s].busy THEN <<AskOf(c, s)>> ELSE c.lane[s].queue
    OBVIOUS
  <2>1. d.lane[s] = asked(s)
    BY <1>15
  <2>. HIDE DEF to, lane, idle
  <2>. QED
    BY <2>1
<1>18. d.lane \in [DOMAIN d.lane -> Slot]
  <2>. HIDE DEF to, asked, idle
  <2>1. \A s \in DOMAIN c.lane : lane[s] \in Slot
    BY <1>6, <1>13
  <2>2. lane \in [DOMAIN c.lane -> Slot]
    BY <2>1
  <2>. HIDE DEF lane
  <2>. QED
    BY <1>3, <1>16, <2>2
<1>19. idle \subseteq to /\ \A s \in to : s \in idle <=> ~c.lane[s].busy
  OBVIOUS
<1>. HIDE DEF to, idle, lane, asked
<1>20. c.kernel \in Seq(Ask)
  BY <1>2 DEF LaneShape
<1>21. /\ d.kernel \in Seq(Ask)
       /\ \A i \in DOMAIN c.kernel : i \in DOMAIN d.kernel /\ d.kernel[i] = c.kernel[i]
       /\ \A i \in DOMAIN new : Len(c.kernel) + i \in DOMAIN d.kernel /\ d.kernel[Len(c.kernel) + i] = new[i]
       /\ \A j \in DOMAIN d.kernel : \/ j \in DOMAIN c.kernel /\ d.kernel[j] = c.kernel[j]
                                     \/ \E i \in DOMAIN new : j = Len(c.kernel) + i /\ d.kernel[j] = new[i]
  <2>. DEFINE z == c.kernel \o new
  <2>1. z \in Seq(Ask) /\ Row(z, c.kernel, new)
    BY <1>12, <1>20, RowIs
  <2>2. d.kernel = z
    BY <1>3
  <2>. HIDE DEF z, new
  <2>. QED
    BY <2>1, <2>2 DEF Row
<1>22. \A j \in DOMAIN d.kernel :
         \/ \E i \in DOMAIN c.kernel : d.kernel[j] = c.kernel[i]
         \/ \E s \in to : ~c.lane[s].busy /\ d.kernel[j] = AskOf(c, s)
  <2>. SUFFICES ASSUME NEW j \in DOMAIN d.kernel, ~(\E i \in DOMAIN c.kernel : d.kernel[j] = c.kernel[i])
                PROVE  \E s \in to : ~c.lane[s].busy /\ d.kernel[j] = AskOf(c, s)
    OBVIOUS
  <2>1. PICK i \in DOMAIN new : d.kernel[j] = new[i]
    BY <1>21
  <2>2. PICK s \in idle : new[i] = AskOf(c, s)
    BY <1>12
  <2>. QED
    BY <1>19, <2>1, <2>2
<1>23. Asked(c, d, to)
  <2>1. \A s \in to : d.lane[s] = [value |-> c.throttle.last, busy |-> TRUE,
                                  queue |-> IF c.lane[s].busy THEN <<AskOf(c, s)>> ELSE c.lane[s].queue]
    BY <1>15 DEF asked
  <2>. QED
    BY <1>3, <1>14, <1>16, <1>21, <1>22, <2>1 DEF Asked
<1>24. LaneShape(d)
  <2>1. \A s \in DOMAIN d.lane : /\ \A i \in DOMAIN d.lane[s].queue : d.lane[s].queue[i].sid = s
                                 /\ Len(d.lane[s].queue) <= 1
    <3>. SUFFICES ASSUME NEW s \in DOMAIN c.lane
                  PROVE  /\ \A i \in DOMAIN d.lane[s].queue : d.lane[s].queue[i].sid = s
                         /\ Len(d.lane[s].queue) <= 1
      BY <1>16
    <3>1. /\ \A i \in DOMAIN c.lane[s].queue : c.lane[s].queue[i].sid = s
          /\ Len(c.lane[s].queue) <= 1
      BY <1>2 DEF LaneShape
    <3>2. CASE d.lane[s].queue = c.lane[s].queue
      BY <3>1, <3>2
    <3>3. CASE d.lane[s].queue = <<AskOf(c, s)>>
      <4>1. AskOf(c, s).sid = s
        BY <1>6, <1>7
      <4>2. DOMAIN <<AskOf(c, s)>> = {1} /\ Len(<<AskOf(c, s)>>) = 1 /\ <<AskOf(c, s)>>[1] = AskOf(c, s)
        OBVIOUS
      <4>. QED
        BY <3>3, <4>1, <4>2
    <3>. QED
      BY <1>14, <1>17, <3>2, <3>3
  <2>. QED
    BY <1>2, <1>3, <1>16, <1>18, <1>21, <2>1 DEF LaneShape, SameTool
<1>25. LaneAsks(d, X)
  <2>0. LaneAsks(c, X)
    BY DEF LaneOK
  <2>1. \A s \in DOMAIN c.lane : c.lane[s].busy => d.lane[s].busy
    BY <1>14, <1>17
  <2>2. \A s \in DOMAIN c.lane : d.lane[s].busy => c.lane[s].busy \/ s \in idle
    BY <1>14, <1>17, <1>19
  <2>3. ASSUME NEW s \in idle
        PROVE  /\ s \in DOMAIN c.lane /\ s \notin X /\ d.lane[s].busy /\ AskOf(c, s).sid = s
               /\ \A i \in DOMAIN c.kernel : c.kernel[i].sid # s
    <3>1. s \in DOMAIN c.lane /\ ~c.lane[s].busy /\ d.lane[s].busy
      BY <1>11, <1>17, <1>19
    <3>. QED
      BY <1>6, <1>7, <2>0, <3>1 DEF LaneAsks
  <2>4. ASSUME NEW j \in DOMAIN d.kernel
        PROVE  d.kernel[j].sid \in DOMAIN d.lane \ X /\ d.lane[d.kernel[j].sid].busy
    <3>1. CASE j \in DOMAIN c.kernel /\ d.kernel[j] = c.kernel[j]
      <4>1. c.kernel[j].sid \in DOMAIN c.lane \ X /\ c.lane[c.kernel[j].sid].busy
        BY <2>0, <3>1 DEF LaneAsks
      <4>. QED
        BY <1>16, <2>1, <3>1, <4>1
    <3>2. CASE \E i \in DOMAIN new : j = Len(c.kernel) + i /\ d.kernel[j] = new[i]
      <4>1. PICK s \in idle : d.kernel[j] = AskOf(c, s)
        BY <1>12, <3>2
      <4>. QED
        BY <1>16, <2>3, <4>1
    <3>. QED
      BY <1>21, <3>1, <3>2
  <2>5. \A i, j \in DOMAIN d.kernel : d.kernel[i].sid = d.kernel[j].sid => i = j
    <3>1. \A i, j \in DOMAIN c.kernel : c.kernel[i].sid = c.kernel[j].sid => i = j
      BY <2>0 DEF LaneAsks
    <3>2. \A i \in DOMAIN c.kernel : \A j \in DOMAIN new : c.kernel[i].sid # new[j].sid
      <4>. SUFFICES ASSUME NEW i \in DOMAIN c.kernel, NEW j \in DOMAIN new PROVE c.kernel[i].sid # new[j].sid
        OBVIOUS
      <4>1. PICK s \in idle : new[j] = AskOf(c, s)
        BY <1>12
      <4>. QED
        BY <2>3, <4>1
    <3>3. Row(d.kernel, c.kernel, new)
      <4>1. Row(c.kernel \o new, c.kernel, new)
        BY <1>12, <1>20, RowIs
      <4>. QED
        BY <1>3, <4>1
    <3>4. \A i, j \in DOMAIN new : new[i].sid = new[j].sid => i = j
      BY <1>12
    <3>. QED
      BY ONLY <3>1, <3>2, <3>3, <3>4, RowDistinct
  <2>6. ASSUME NEW s \in DOMAIN d.lane, d.lane[s].busy, s \notin X
        PROVE  \E j \in DOMAIN d.kernel : d.kernel[j].sid = s
    <3>1. CASE c.lane[s].busy
      <4>1. PICK j \in DOMAIN c.kernel : c.kernel[j].sid = s
        BY <1>16, <2>0, <2>6, <3>1 DEF LaneAsks
      <4>. QED
        BY <1>21, <4>1
    <3>2. CASE s \in idle
      <4>1. PICK j \in DOMAIN new : new[j] = AskOf(c, s)
        BY <1>12, <3>2
      <4>. QED
        BY <1>21, <2>3, <3>2, <4>1
    <3>. QED
      BY <1>16, <2>2, <2>6, <3>1, <3>2
  <2>7. \A s \in X \cap DOMAIN d.lane : d.lane[s].busy
    BY <1>16, <2>0, <2>1 DEF LaneAsks
  <2>. QED
    BY <2>4, <2>5, <2>6, <2>7 DEF LaneAsks
<1>. QED
  BY <1>23, <1>24, <1>25 DEF LaneOK, to

(* -- Sending -------------------------------------------------------------- *)

(* The sends that are due take the value the user sees.                    *)
PendingOK(c) == c.sessions # <<>> => c.throttle.pending \in {0, c.value}

SameLane(c, d) == d.lane = c.lane /\ d.kernel = c.kernel
SameFlags(c, d) == d.latch = c.latch /\ d.retried = c.retried /\ d.timer = c.timer

Dispatched(c, e, v) ==
  /\ SameTool(c, e) /\ SameLane(c, e) /\ SameFlags(c, e) /\ e.sessions = c.sessions
  /\ e.throttle = [epoch |-> c.throttle.epoch + 1, inFlight |-> c.throttle.epoch + 1, pending |-> 0,
                   last |-> v, open |-> c.tool = "boolean"]

(* dispatchSend starts the next epoch.                                     *)
LEMMA DispatchIs ==
    ASSUME NEW c, NEW X, LaneOK(c, X), NEW v \in Nat, NEW e, e = DispatchSend(c, v)
    PROVE  LaneOK(e, X) /\ Dispatched(c, e, v)
<1>. DEFINE t == [epoch |-> c.throttle.epoch + 1, inFlight |-> c.throttle.epoch + 1, pending |-> 0,
                  last |-> v, open |-> c.tool = "boolean"]
<1>1. DOMAIN c = Fields /\ c.throttle \in Throttle
  BY DEF LaneOK, LaneShape
<1>2. e = [c EXCEPT !.throttle = t]
  BY DEF DispatchSend
<1>3. t \in Throttle /\ t.inFlight = t.epoch /\ t.pending = 0 /\ t.pending \in 0 .. MaxValue
  BY <1>1, LaneBounds DEF Throttle
<1>. HIDE DEF t
<1>4. DOMAIN e = Fields /\ e.throttle = t
  BY <1>1, <1>2 DEF Fields
<1>5. SameTool(c, e) /\ SameLane(c, e) /\ SameFlags(c, e) /\ e.sessions = c.sessions
  BY <1>2 DEF SameTool, SameLane, SameFlags
<1>6. LaneShape(e)
  BY <1>3, <1>4, <1>5 DEF LaneOK, LaneShape, SameTool, SameLane, SameFlags
<1>7. LaneAsks(e, X)
  BY <1>5 DEF LaneOK, LaneAsks, SameLane
<1>. QED
  BY <1>4, <1>5, <1>6, <1>7 DEF LaneOK, Dispatched, t

(* Other sessions or another throttle over the same lane.                  *)
LEMMA ReshapeOK ==
    ASSUME NEW c, NEW X, LaneOK(c, X), NEW d, DOMAIN d = Fields, SameLane(c, d), d.value = c.value,
           d.sessions \in Seq(Session),
           \A i, j \in DOMAIN d.sessions : d.sessions[i].sid = d.sessions[j].sid => i = j,
           d.throttle \in Throttle, d.throttle.inFlight \in {0, d.throttle.epoch},
           d.throttle.pending \in 0 .. MaxValue,
           d.latch \in BOOLEAN, d.retried \in BOOLEAN, d.timer \in BOOLEAN
    PROVE  LaneOK(d, X)
<1>1. LaneShape(d)
  BY DEF LaneOK, LaneShape, SameLane
<1>2. LaneAsks(d, X)
  BY DEF LaneOK, LaneAsks, SameLane
<1>. QED
  BY <1>1, <1>2 DEF LaneOK

(* The flags do not matter to the shape, nor does anything but the value.  *)
LEMMA FlagsOK ==
    ASSUME NEW c, NEW X, LaneOK(c, X), NEW d, DOMAIN d = Fields, SameLane(c, d), d.sessions = c.sessions,
           d.throttle = c.throttle, d.value = c.value,
           d.latch \in BOOLEAN, d.retried \in BOOLEAN, d.timer \in BOOLEAN
    PROVE  LaneOK(d, X)
<1>1. LaneShape(d)
  BY DEF LaneOK, LaneShape, SameLane
<1>2. LaneAsks(d, X)
  BY DEF LaneOK, LaneAsks, SameLane
<1>. QED
  BY <1>1, <1>2 DEF LaneOK

(* Either nothing is due, or every session is asked for the pending value. *)
Due(c) == c.throttle.inFlight = 0 /\ c.throttle.pending # 0 /\ c.throttle.open

(* maybeSend keeps the lane, whether it sends or not.                      *)
LEMMA MaybeIs ==
    ASSUME NEW c, NEW X, LaneOK(c, X), NEW d, d = MaybeSend(c)
    PROVE  /\ LaneOK(d, X)
           /\ ~Due(c) => d = c
           /\ Due(c) => \E e : /\ Dispatched(c, e, c.throttle.pending)
                               /\ Asked(e, d, SidsOf(c.sessions) \cap DOMAIN c.lane)
<1>1. CASE ~Due(c)
  BY <1>1 DEF MaybeSend, Due
<1>2. CASE Due(c)
  <2>. DEFINE e == DispatchSend(c, c.throttle.pending)
              S == DOMAIN c.sessions
  <2>0. c.throttle.inFlight = 0 /\ c.throttle.pending # 0 /\ c.throttle.open = TRUE
    BY <1>2 DEF Due, LaneOK, LaneShape, Throttle
  <2>1. d = UpdatePreview(e, S)
    BY <2>0 DEF MaybeSend
  <2>2. c.throttle.pending \in Nat
    BY DEF LaneOK, LaneShape, Throttle
  <2>3. LaneOK(e, X) /\ Dispatched(c, e, c.throttle.pending)
    BY <2>2, DispatchIs
  <2>. HIDE DEF e
  <2>4. e.sessions = c.sessions /\ e.lane = c.lane
    BY <2>3 DEF Dispatched, SameLane
  <2>5. S \subseteq DOMAIN e.sessions
    BY <2>4
  <2>6. LaneOK(d, X) /\ Asked(e, d, {e.sessions[i].sid : i \in S} \cap DOMAIN e.lane)
    BY <2>1, <2>3, <2>5, UpdateIs
  <2>7. {e.sessions[i].sid : i \in S} \cap DOMAIN e.lane = SidsOf(c.sessions) \cap DOMAIN c.lane
    BY <2>4 DEF SidsOf
  <2>. QED
    BY <1>2, <2>3, <2>6, <2>7
<1>. QED
  BY <1>1, <1>2

(* The same sessions, perhaps with other answers.                          *)
SameSessions(p, q) ==
  DOMAIN q = DOMAIN p /\ \A i \in DOMAIN p : q[i].sid = p[i].sid /\ q[i].region = p[i].region

(* The lane asks, is answered or pops a queue: no session comes or goes,   *)
(* and whatever a session is now asked is the value the user sees.         *)
Moves(c, d) ==
  /\ SameTool(c, d) /\ SameSessions(c.sessions, d.sessions) /\ DOMAIN d.lane = DOMAIN c.lane
  /\ PendingOK(d)
  /\ \A s \in DOMAIN c.lane : d.lane[s].value \in {c.lane[s].value, c.value}

(* Two moves of the lane are one.                                          *)
LEMMA MovesTrans ==
    ASSUME NEW c, NEW d, NEW e, Moves(c, d), Moves(d, e)
    PROVE  Moves(c, e)
<1>1. SameTool(c, e)
  BY DEF Moves, SameTool
<1>2. SameSessions(c.sessions, e.sessions)
  BY DEF Moves, SameSessions
<1>3. DOMAIN e.lane = DOMAIN c.lane /\ PendingOK(e) /\ d.value = c.value
  BY DEF Moves, SameTool
<1>4. \A s \in DOMAIN c.lane : e.lane[s].value \in {c.lane[s].value, c.value}
  BY <1>3 DEF Moves
<1>. QED
  BY <1>1, <1>2, <1>3, <1>4 DEF Moves

(* maybeSend moves the lane.                                               *)
LEMMA MaybeMoves ==
    ASSUME NEW c, NEW X, LaneOK(c, X), PendingOK(c), c.sessions # <<>>, NEW d, d = MaybeSend(c)
    PROVE  Moves(c, d) /\ d.sessions = c.sessions /\ SameFlags(c, d)
<1>1. CASE ~Due(c)
  <2>1. d = c
    BY <1>1, MaybeIs
  <2>. QED
    BY <2>1 DEF Moves, SameTool, SameSessions, SameFlags
<1>2. CASE Due(c)
  <2>. DEFINE to == SidsOf(c.sessions) \cap DOMAIN c.lane
  <2>0. \E e : Dispatched(c, e, c.throttle.pending) /\ Asked(e, d, SidsOf(c.sessions) \cap DOMAIN c.lane)
    BY <1>2, MaybeIs
  <2>1. PICK e : Dispatched(c, e, c.throttle.pending) /\ Asked(e, d, to)
    BY <2>0
  <2>2. c.throttle.pending = c.value
    BY <1>2 DEF PendingOK, Due
  <2>3. e.throttle.last = c.value /\ e.throttle.pending = 0 /\ e.lane = c.lane /\ e.sessions = c.sessions
    BY <2>1, <2>2 DEF Dispatched, SameLane
  <2>4. SameTool(c, e) /\ SameTool(e, d) /\ SameFlags(c, e)
    BY <2>1 DEF Dispatched, Asked
  <2>5. d.sessions = c.sessions /\ d.throttle = e.throttle /\ DOMAIN d.lane = DOMAIN c.lane /\ SameFlags(c, d)
    BY <2>1, <2>3, <2>4 DEF Asked, SameFlags
  <2>6. SameTool(c, d)
    BY <2>4 DEF SameTool
  <2>. HIDE DEF to
  <2>7. \A s \in DOMAIN c.lane : d.lane[s].value \in {c.lane[s].value, c.value}
    <3>. SUFFICES ASSUME NEW s \in DOMAIN c.lane
                  PROVE  d.lane[s].value \in {c.lane[s].value, c.value}
      OBVIOUS
    <3>1. CASE s \in to
      <4>1. d.lane[s] = [value |-> e.throttle.last, busy |-> TRUE,
                         queue |-> IF e.lane[s].busy THEN <<AskOf(e, s)>> ELSE e.lane[s].queue]
        BY <2>1, <3>1 DEF Asked
      <4>2. d.lane[s].value = e.throttle.last
        BY <4>1
      <4>. QED
        BY <2>3, <4>2
    <3>2. CASE s \notin to
      BY <2>1, <2>3, <3>2 DEF Asked
    <3>. QED
      BY <3>1, <3>2
  <2>8. PendingOK(d)
    BY <2>3, <2>5 DEF PendingOK
  <2>. QED
    BY <2>5, <2>6, <2>7, <2>8 DEF Moves, SameSessions
<1>. QED
  BY <1>1, <1>2

(* sendPreview sets the timer, and leaves the current value to be sent at  *)
(* most.                                                                   *)
LEMMA SendIs ==
    ASSUME NEW c, NEW X, LaneOK(c, X), NEW b \in BOOLEAN, NEW d, d = SendPreview(c, b)
    PROVE  LaneOK(d, X) /\ Moves(c, d) /\ d.sessions = c.sessions /\ d.latch = c.latch
<1>1. CASE c.sessions = <<>>
  <2>1. d = c
    BY <1>1 DEF SendPreview
  <2>. QED
    BY <1>1, <2>1 DEF Moves, SameTool, SameSessions, PendingOK
<1>2. CASE c.sessions # <<>>
  <2>. DEFINE e == [c EXCEPT !.retried = c.retried /\ b, !.throttle.pending = c.value]
              m == MaybeSend(e)
              t == [c.throttle EXCEPT !.pending = c.value]
              r == c.retried /\ b
  <2>1. d = [m EXCEPT !.timer = TRUE]
    BY <1>2 DEF SendPreview
  <2>2. /\ DOMAIN c = Fields /\ c.throttle \in Throttle /\ c.value \in 0 .. MaxValue
        /\ c.throttle.inFlight \in {0, c.throttle.epoch} /\ c.retried \in BOOLEAN
    BY DEF LaneOK, LaneShape
  <2>3. t \in Throttle /\ t.pending = c.value /\ t.inFlight \in {0, t.epoch}
    <3>1. c.value \in Nat
      BY <2>2, LaneBounds
    <3>. QED
      BY <2>2, <3>1 DEF Throttle
  <2>4. e = [c EXCEPT !.retried = r, !.throttle = t]
    OBVIOUS
  <2>5. r \in BOOLEAN
    BY <2>2
  <2>. HIDE DEF e, m, t, r
  <2>6. DOMAIN e = Fields /\ e.retried = r /\ e.throttle = t /\ e.sessions = c.sessions /\ e.latch = c.latch
        /\ e.timer = c.timer
    BY <2>2, <2>4 DEF Fields
  <2>7. SameTool(c, e) /\ SameLane(c, e)
    BY <2>4 DEF SameTool, SameLane
  <2>8. LaneOK(e, X)
    <3>1. LaneShape(e)
      BY <2>2, <2>3, <2>5, <2>6, <2>7 DEF LaneOK, LaneShape, SameTool, SameLane
    <3>2. LaneAsks(e, X)
      BY <2>7 DEF LaneOK, LaneAsks, SameLane
    <3>. QED
      BY <3>1, <3>2 DEF LaneOK
  <2>9. PendingOK(e) /\ e.sessions # <<>>
    BY <1>2, <2>3, <2>6, <2>7 DEF PendingOK, SameTool
  <2>10. Moves(c, e)
    BY <2>6, <2>7, <2>9 DEF Moves, SameSessions, SameLane
  <2>11. LaneOK(m, X)
    BY <2>8, MaybeIs DEF m
  <2>12. Moves(e, m) /\ m.sessions = e.sessions /\ SameFlags(e, m)
    BY <2>8, <2>9, MaybeMoves DEF m
  <2>13. Moves(c, m)
    BY <2>10, <2>12, MovesTrans
  <2>14. DOMAIN m = Fields
    BY <2>11 DEF LaneOK, LaneShape
  <2>15. /\ DOMAIN d = Fields /\ d.timer = TRUE /\ SameTool(m, d) /\ SameLane(m, d) /\ d.sessions = m.sessions
         /\ d.latch = m.latch /\ d.retried = m.retried /\ d.throttle = m.throttle
    BY <2>1, <2>14 DEF Fields, SameTool, SameLane
  <2>16. LaneOK(d, X)
    <3>1. d.timer \in BOOLEAN /\ d.latch \in BOOLEAN /\ d.retried \in BOOLEAN /\ d.value = m.value
      BY <2>11, <2>15 DEF LaneOK, LaneShape, SameTool
    <3>. QED
      BY <2>11, <2>15, <3>1, FlagsOK
  <2>17. Moves(c, d)
    BY <2>13, <2>15 DEF Moves, SameTool, SameLane, PendingOK
  <2>18. d.sessions = c.sessions /\ d.latch = c.latch
    BY <2>6, <2>12, <2>15 DEF SameFlags
  <2>. QED
    BY <2>16, <2>17, <2>18
<1>. QED
  BY <1>1, <1>2

(* An answered session asks what waits in its queue, if anything does.     *)
LEMMA PopIs ==
    ASSUME NEW c, NEW s, LaneOK(c, {s}), PendingOK(c), NEW d, d = PopQueue(c, s)
    PROVE  /\ LaneOK(d, {}) /\ Moves(c, d)
           /\ d.sessions = c.sessions /\ d.throttle = c.throttle /\ SameFlags(c, d)
<1>1. CASE s \notin DOMAIN c.lane
  <2>1. d = c
    BY <1>1 DEF PopQueue
  <2>2. LaneAsks(c, {})
    BY <1>1 DEF LaneOK, LaneAsks
  <2>. QED
    BY <2>1, <2>2 DEF LaneOK, Moves, SameTool, SameSessions, SameFlags
<1>2. CASE s \in DOMAIN c.lane
  <2>. DEFINE w == c.lane[s].queue
              slot == [c.lane[s] EXCEPT !.busy = w # <<>>, !.queue = <<>>]
              lane == [c.lane EXCEPT ![s] = slot]
              kernel == c.kernel \o w
  <2>1. d = [c EXCEPT !.lane = lane, !.kernel = kernel]
    BY <1>2 DEF PopQueue, LaneOK, LaneShape, Fields
  <2>2. DOMAIN c = Fields /\ c.kernel \in Seq(Ask) /\ c.lane \in [DOMAIN c.lane -> Slot] /\ c.lane[s] \in Slot
    BY <1>2 DEF LaneOK, LaneShape
  <2>3. w \in Seq(Ask) /\ Len(w) <= 1 /\ \A i \in DOMAIN w : w[i].sid = s
    BY <1>2, <2>2 DEF LaneOK, LaneShape, Slot
  <2>4. slot \in Slot /\ slot.value = c.lane[s].value /\ slot.busy = (w # <<>>) /\ slot.queue = <<>>
    <3>. DEFINE b == w # <<>>
                l == c.lane[s]
    <3>1. slot = [l EXCEPT !.busy = b, !.queue = <<>>] /\ b \in BOOLEAN /\ l \in Slot
      BY <2>2
    <3>. HIDE DEF b, l, w, slot
    <3>2. slot.value = l.value /\ slot.busy = b /\ slot.queue = <<>>
      BY <3>1 DEF Slot
    <3>3. <<>> \in Seq(Ask)
      OBVIOUS
    <3>4. slot \in Slot
      BY <3>1, <3>3, Zenon DEF Slot
    <3>. QED
      BY <3>2, <3>4 DEF b, l
  <2>. HIDE DEF slot, w
  <2>5. DOMAIN lane = DOMAIN c.lane /\ lane[s] = slot /\ \A r \in DOMAIN c.lane \ {s} : lane[r] = c.lane[r]
    BY <1>2, <2>2
  <2>6. lane \in [DOMAIN c.lane -> Slot]
    BY <2>2, <2>4
  <2>. HIDE DEF lane, kernel
  <2>7. DOMAIN d = Fields /\ d.lane = lane /\ d.kernel = kernel
    BY <2>1, <2>2 DEF Fields
  <2>8. SameTool(c, d) /\ SameFlags(c, d) /\ d.sessions = c.sessions /\ d.throttle = c.throttle
    BY <2>1 DEF SameTool, SameFlags
  <2>9. kernel \in Seq(Ask) /\ Row(kernel, c.kernel, w)
    BY <2>2, <2>3, RowIs DEF kernel
  <2>10. \A r \in DOMAIN lane : /\ \A i \in DOMAIN lane[r].queue : lane[r].queue[i].sid = r
                               /\ Len(lane[r].queue) <= 1
    <3>. SUFFICES ASSUME NEW r \in DOMAIN c.lane
                  PROVE  /\ \A i \in DOMAIN lane[r].queue : lane[r].queue[i].sid = r
                         /\ Len(lane[r].queue) <= 1
      BY <2>5
    <3>1. CASE r = s
      <4>1. lane[r].queue = <<>>
        BY <2>4, <2>5, <3>1
      <4>. QED
        BY <4>1
    <3>2. CASE r # s
      BY <2>5, <3>2 DEF LaneOK, LaneShape
    <3>. QED
      BY <3>1, <3>2
  <2>11. LaneShape(d)
    BY <2>5, <2>6, <2>7, <2>8, <2>9, <2>10 DEF LaneOK, LaneShape, SameTool, SameFlags
  <2>12. LaneAsks(c, {s})
    BY DEF LaneOK
  <2>13. \A j \in DOMAIN c.kernel : c.kernel[j].sid \in DOMAIN c.lane \ {s} /\ c.lane[c.kernel[j].sid].busy
    BY <2>12 DEF LaneAsks
  <2>14. ASSUME NEW j \in DOMAIN kernel PROVE kernel[j].sid \in DOMAIN lane /\ lane[kernel[j].sid].busy
    <3>1. CASE j \in DOMAIN c.kernel /\ kernel[j] = c.kernel[j]
      BY <2>5, <2>13, <3>1
    <3>2. CASE \E i \in DOMAIN w : kernel[j] = w[i]
      <4>1. kernel[j].sid = s /\ w # <<>>
        BY <2>3, <3>2
      <4>. QED
        BY <1>2, <2>4, <2>5, <4>1
    <3>. QED
      BY <2>9, <3>1, <3>2 DEF Row
  <2>15. \A i, j \in DOMAIN kernel : kernel[i].sid = kernel[j].sid => i = j
    <3>1. \A i, j \in DOMAIN c.kernel : c.kernel[i].sid = c.kernel[j].sid => i = j
      BY <2>12 DEF LaneAsks
    <3>2. \A i, j \in DOMAIN w : w[i].sid = w[j].sid => i = j
      <4>1. DOMAIN w = 1 .. Len(w) /\ Len(w) \in Nat
        BY <2>3, LenProperties
      <4>2. \A i, j \in 1 .. Len(w) : i = j
        BY <2>3, <4>1
      <4>. QED
        BY <4>1, <4>2
    <3>3. \A i \in DOMAIN c.kernel : \A j \in DOMAIN w : c.kernel[i].sid # w[j].sid
      BY <2>3, <2>13
    <3>4. Row(kernel, c.kernel, w)
      BY <2>9
    <3>. QED
      BY ONLY <3>1, <3>2, <3>3, <3>4, RowDistinct
  <2>16. ASSUME NEW r \in DOMAIN lane, lane[r].busy PROVE \E j \in DOMAIN kernel : kernel[j].sid = r
    <3>1. CASE r = s
      <4>1. w # <<>>
        BY <2>4, <2>5, <2>16, <3>1
      <4>2. 1 \in DOMAIN w
        BY <2>3, <4>1
      <4>3. Len(c.kernel) + 1 \in DOMAIN kernel /\ kernel[Len(c.kernel) + 1] = w[1]
        BY <2>9, <4>2 DEF Row
      <4>. QED
        BY <2>3, <3>1, <4>2, <4>3
    <3>2. CASE r # s
      <4>1. r \in DOMAIN c.lane /\ c.lane[r].busy
        BY <2>5, <2>16, <3>2
      <4>2. PICK j \in DOMAIN c.kernel : c.kernel[j].sid = r
        BY <2>12, <3>2, <4>1 DEF LaneAsks
      <4>. QED
        BY <2>9, <4>2 DEF Row
    <3>. QED
      BY <3>1, <3>2
  <2>17. LaneAsks(d, {})
    BY <2>7, <2>14, <2>15, <2>16 DEF LaneAsks
  <2>18. Moves(c, d)
    <3>1. \A r \in DOMAIN c.lane : d.lane[r].value = c.lane[r].value
      BY <2>4, <2>5, <2>7
    <3>2. PendingOK(d)
      BY <2>8 DEF PendingOK, SameTool
    <3>. QED
      BY <2>5, <2>7, <2>8, <3>1, <3>2 DEF Moves, SameSessions
  <2>. QED
    BY <2>8, <2>11, <2>17, <2>18 DEF LaneOK
<1>. QED
  BY <1>1, <1>2

(* -- Ending and opening sessions ----------------------------------------- *)

Ended(c, d, S) ==
  /\ SameTool(c, d) /\ SameFlags(c, d) /\ d.sessions = c.sessions /\ d.throttle = c.throttle
  /\ DOMAIN d.lane = DOMAIN c.lane \ S
  /\ \A s \in DOMAIN d.lane : d.lane[s] = c.lane[s]

(* endPreview takes the sessions and their questions out of the lane.      *)
LEMMA EndIs ==
    ASSUME NEW c, NEW X, LaneOK(c, X), NEW S, NEW d, d = EndPreviews(c, S)
    PROVE  LaneOK(d, X \ S) /\ Ended(c, d, S)
<1>. DEFINE W == {ask \in Range(c.kernel) : ask.sid \notin S}
            kernel == Those(c.kernel, W)
            lane == [s \in DOMAIN c.lane \ S |-> c.lane[s]]
<1>1. d = [c EXCEPT !.lane = lane, !.kernel = kernel]
  BY DEF EndPreviews
<1>2. /\ DOMAIN c = Fields /\ c.kernel \in Seq(Ask) /\ c.lane \in [DOMAIN c.lane -> Slot]
      /\ DOMAIN c.lane \subseteq Nat /\ IsFiniteSet(DOMAIN c.lane)
  BY DEF LaneOK, LaneShape
<1>3. LaneAsks(c, X)
  BY DEF LaneOK
<1>4. \A i \in DOMAIN c.kernel : c.kernel[i] \in W <=> c.kernel[i].sid \notin S
  BY DEF Range
<1>5. /\ DOMAIN lane = DOMAIN c.lane \ S
      /\ \A s \in DOMAIN c.lane \ S : lane[s] = c.lane[s]
      /\ lane \in [DOMAIN c.lane \ S -> Slot]
  BY <1>2
<1>. HIDE DEF W, lane
<1>6. kernel \in Seq(Ask) /\ Yields(kernel, c.kernel, W)
  BY <1>2, ThoseProps
<1>7. \A i, j \in DOMAIN kernel : kernel[i].sid = kernel[j].sid => i = j
  <2>1. \A i, j \in DOMAIN c.kernel : c.kernel[i].sid = c.kernel[j].sid => i = j
    BY <1>3 DEF LaneAsks
  <2>. QED
    BY <1>2, <2>1, ThoseDistinct
<1>. HIDE DEF kernel
<1>8. DOMAIN d = Fields /\ d.lane = lane /\ d.kernel = kernel
  BY <1>1, <1>2 DEF Fields
<1>9. SameTool(c, d) /\ SameFlags(c, d) /\ d.sessions = c.sessions /\ d.throttle = c.throttle
  BY <1>1 DEF SameTool, SameFlags
<1>10. IsFiniteSet(DOMAIN lane)
  <2>1. DOMAIN lane \in SUBSET DOMAIN c.lane
    BY <1>5
  <2>. QED
    BY <1>2, <2>1, FS_Subset
<1>11. LaneShape(d)
  <2>1. \A s \in DOMAIN d.lane : \A i \in DOMAIN d.lane[s].queue : d.lane[s].queue[i].sid = s
    BY <1>5, <1>8 DEF LaneOK, LaneShape
  <2>2. \A s \in DOMAIN d.lane : Len(d.lane[s].queue) <= 1
    BY <1>5, <1>8 DEF LaneOK, LaneShape
  <2>3. d.lane \in [DOMAIN d.lane -> Slot] /\ DOMAIN d.lane \subseteq Nat
    BY <1>2, <1>5, <1>8
  <2>. QED
    BY <1>6, <1>8, <1>9, <1>10, <2>1, <2>2, <2>3 DEF LaneOK, LaneShape, SameTool, SameFlags
<1>12. LaneAsks(d, X \ S)
  <2>1. ASSUME NEW j \in DOMAIN kernel
        PROVE  kernel[j].sid \in DOMAIN lane \ (X \ S) /\ lane[kernel[j].sid].busy
    <3>1. PICK i \in DOMAIN c.kernel : kernel[j] = c.kernel[i] /\ c.kernel[i] \in W
      BY <1>6 DEF Yields
    <3>2. c.kernel[i].sid \notin S
      BY <1>4, <3>1
    <3>3. c.kernel[i].sid \in DOMAIN c.lane \ X /\ c.lane[c.kernel[i].sid].busy
      BY <1>3 DEF LaneAsks
    <3>. QED
      BY <1>5, <3>1, <3>2, <3>3
  <2>2. ASSUME NEW s \in DOMAIN lane, lane[s].busy, s \notin X \ S
        PROVE  \E j \in DOMAIN kernel : kernel[j].sid = s
    <3>1. s \in DOMAIN c.lane /\ s \notin S /\ c.lane[s].busy /\ s \notin X
      BY <1>5, <2>2
    <3>2. PICK i \in DOMAIN c.kernel : c.kernel[i].sid = s
      BY <1>3, <3>1 DEF LaneAsks
    <3>3. PICK j \in DOMAIN kernel : kernel[j] = c.kernel[i]
      BY <1>4, <1>6, <3>1, <3>2 DEF Yields
    <3>. QED
      BY <3>2, <3>3
  <2>3. \A s \in (X \ S) \cap DOMAIN lane : lane[s].busy
    BY <1>3, <1>5 DEF LaneAsks
  <2>. QED
    BY <1>7, <1>8, <2>1, <2>2, <2>3 DEF LaneAsks
<1>. QED
  BY <1>5, <1>8, <1>9, <1>11, <1>12 DEF LaneOK, Ended

(* Sessions that start over.                                               *)
Blank(q) == \A i \in DOMAIN q : q[i].applied = 0 /\ q[i].shown = 0 /\ q[i].failed = FALSE

(* What is left when the sessions of a tool are closed.                    *)
Closed(c, d) ==
  /\ SameTool(c, d) /\ d.sessions = <<>> /\ d.throttle = NoThrottle
  /\ d.latch = FALSE /\ d.retried = FALSE /\ d.timer = FALSE
  /\ DOMAIN d.lane = DOMAIN c.lane \ SidsOf(c.sessions)

(* closePreviewSessions ends them all.                                     *)
LEMMA CloseIs ==
    ASSUME NEW c, NEW X, LaneOK(c, X), NEW d, d = ClosePreviewSessions(c)
    PROVE  LaneOK(d, X \ SidsOf(c.sessions)) /\ Closed(c, d)
<1>. DEFINE S == SidsOf(c.sessions)
            e == EndPreviews(c, S)
<1>1. d = [e EXCEPT !.sessions = <<>>, !.latch = FALSE, !.retried = FALSE,
                    !.throttle = NoThrottle, !.timer = FALSE]
  BY DEF ClosePreviewSessions, SidsOf
<1>2. LaneOK(e, X \ S) /\ Ended(c, e, S)
  BY EndIs
<1>. HIDE DEF e, S
<1>3. DOMAIN e = Fields
  BY <1>2 DEF LaneOK, LaneShape
<1>4. /\ DOMAIN d = Fields /\ d.sessions = <<>> /\ d.latch = FALSE /\ d.retried = FALSE
      /\ d.throttle = NoThrottle /\ d.timer = FALSE
  BY <1>1, <1>3 DEF Fields
<1>5. SameTool(e, d) /\ SameLane(e, d)
  BY <1>1 DEF SameTool, SameLane
<1>6. NoThrottle \in Throttle /\ NoThrottle.inFlight = 0 /\ NoThrottle.pending = 0
  BY DEF NoThrottle, Throttle
<1>7. LaneOK(d, X \ S)
  <2>1. <<>> \in Seq(Session) /\ DOMAIN <<>> = {}
    OBVIOUS
  <2>2. 0 \in 0 .. MaxValue
    BY LaneBounds
  <2>3. d.value = e.value
    BY <1>5 DEF SameTool
  <2>. QED
    BY <1>2, <1>4, <1>5, <1>6, <2>1, <2>2, <2>3, ReshapeOK
<1>9. SameTool(c, d) /\ DOMAIN d.lane = DOMAIN c.lane \ S
  BY <1>2, <1>5 DEF Ended, SameTool, SameLane
<1>. QED
  BY <1>4, <1>7, <1>9 DEF Closed, S

(* Every surviving session starts over and is asked.                       *)
Restarted(c, d, survivors) ==
  /\ SameTool(c, d) /\ SameSessions(survivors, d.sessions) /\ Blank(d.sessions) /\ d.latch = FALSE
  /\ DOMAIN d.lane = DOMAIN c.lane /\ PendingOK(d)
  /\ \A s \in DOMAIN c.lane : d.lane[s].value \in {c.lane[s].value, c.value}

(* A reset starts the sessions over.                                       *)
LEMMA ResetIs ==
    ASSUME NEW c, NEW X, LaneOK(c, X), NEW survivors \in Seq(Session),
           \A i, j \in DOMAIN survivors : survivors[i].sid = survivors[j].sid => i = j,
           NEW d, d = Reset(c, survivors)
    PROVE  LaneOK(d, X) /\ Restarted(c, d, survivors)
<1>. DEFINE q == [i \in DOMAIN survivors |->
                    [survivors[i] EXCEPT !.applied = 0, !.shown = 0, !.failed = FALSE]]
            a == [c EXCEPT !.sessions = q, !.throttle = NoThrottle]
            b == [a EXCEPT !.latch = Failing(a)]
<1>1. d = SendPreview(b, FALSE)
  BY DEF Reset
<1>2. Len(survivors) \in Nat /\ DOMAIN survivors = 1 .. Len(survivors)
  BY LenProperties
<1>3. \A i \in DOMAIN survivors : survivors[i] \in Session
  BY ElementOfSeq
<1>4. \A i \in DOMAIN survivors : /\ q[i] \in Session /\ q[i].sid = survivors[i].sid
                                 /\ q[i].region = survivors[i].region /\ q[i].applied = 0
                                 /\ q[i].shown = 0 /\ q[i].failed = FALSE
  BY <1>3 DEF Session
<1>5. q \in Seq(Session) /\ DOMAIN q = DOMAIN survivors
  <2>1. q \in [1 .. Len(survivors) -> Session]
    BY <1>2, <1>4
  <2>. HIDE DEF q
  <2>. QED
    BY <1>2, <2>1, TableIsSeq
<1>. HIDE DEF q
<1>6. SameSessions(survivors, q) /\ Blank(q)
  BY <1>4, <1>5 DEF SameSessions, Blank
<1>7. DOMAIN c = Fields
  BY DEF LaneOK, LaneShape
<1>8. DOMAIN a = Fields /\ a.sessions = q
  BY <1>7 DEF Fields
<1>9. Failing(a) = FALSE
  <2>. HIDE DEF a
  <2>. QED
    BY <1>6, <1>8 DEF Failing, Blank
<1>10. /\ DOMAIN b = Fields /\ b.sessions = q /\ b.throttle = NoThrottle /\ b.latch = FALSE
       /\ SameTool(c, b) /\ SameLane(c, b) /\ b.retried = c.retried /\ b.timer = c.timer
  <2>1. b = [a EXCEPT !.latch = FALSE]
    BY <1>9
  <2>. HIDE DEF b
  <2>. QED
    BY <1>7, <2>1 DEF Fields, SameTool, SameLane
<1>. HIDE DEF b, a
<1>11. LaneOK(b, X)
  <2>1. NoThrottle \in Throttle /\ NoThrottle.inFlight = 0 /\ NoThrottle.pending = 0 /\ 0 \in 0 .. MaxValue
    BY LaneBounds DEF NoThrottle, Throttle
  <2>2. \A i, j \in DOMAIN q : q[i].sid = q[j].sid => i = j
    BY <1>4, <1>5
  <2>3. b.value = c.value /\ b.latch \in BOOLEAN /\ b.retried \in BOOLEAN /\ b.timer \in BOOLEAN
    BY <1>10 DEF LaneOK, LaneShape, SameTool
  <2>. QED
    BY <1>5, <1>10, <2>1, <2>2, <2>3, ReshapeOK
<1>12. LaneOK(d, X) /\ Moves(b, d) /\ d.sessions = b.sessions /\ d.latch = b.latch
  <2>1. FALSE \in BOOLEAN
    OBVIOUS
  <2>. QED
    BY <1>1, <1>11, <2>1, SendIs
<1>13. SameTool(c, d) /\ DOMAIN d.lane = DOMAIN c.lane /\ PendingOK(d)
  BY <1>10, <1>12 DEF Moves, SameTool, SameLane
<1>14. \A s \in DOMAIN c.lane : d.lane[s].value \in {c.lane[s].value, c.value}
  BY <1>10, <1>12 DEF Moves, SameTool, SameLane
<1>. QED
  BY <1>6, <1>10, <1>12, <1>13, <1>14 DEF Restarted

(* A session per region, under new ids, on top of the lane as it is.       *)
Opened(c, d, regions) ==
  /\ SameTool(c, d) /\ Blank(d.sessions) /\ d.latch = FALSE /\ PendingOK(d)
  /\ DOMAIN d.sessions = DOMAIN regions /\ \A i \in DOMAIN regions : d.sessions[i].region = regions[i]
  /\ DOMAIN d.lane = DOMAIN c.lane \cup SidsOf(d.sessions)
  /\ \A i \in DOMAIN d.sessions : d.lane[d.sessions[i].sid].value = c.value

(* Idle sessions on top of the lane.                                       *)
LEMMA GrownOK ==
    ASSUME NEW c, NEW X, LaneOK(c, X), NEW kept, NEW regions \in Seq(Nat), NEW b, Begun(b, c, kept, regions),
           X \subseteq DOMAIN c.lane, NEW d, DOMAIN d = Fields, d.lane = b.lane, d.kernel = c.kernel,
           d.sessions = c.sessions, d.throttle = c.throttle, d.value = c.value, d.latch \in BOOLEAN,
           d.retried \in BOOLEAN, d.timer \in BOOLEAN
    PROVE  LaneOK(d, X)
<1>1. DOMAIN regions = 1 .. Len(regions) /\ Len(regions) \in Nat
  BY LenProperties
<1>2. \A s \in DOMAIN c.lane : d.lane[s] = c.lane[s]
  BY DEF Begun
<1>3. DOMAIN d.lane = DOMAIN c.lane \cup SidsOf(b.sessions)
  BY DEF Begun
<1>4. ASSUME NEW s \in DOMAIN d.lane, s \notin DOMAIN c.lane
      PROVE  d.lane[s].busy = FALSE /\ d.lane[s].queue = <<>>
  <2>1. DOMAIN b.sessions = 1 .. Len(regions)
    <3>1. b.sessions \in Seq(Session) /\ Len(b.sessions) = Len(regions)
      BY DEF Begun
    <3>. QED
      BY <3>1, LenProperties
  <2>2. PICK i \in 1 .. Len(regions) : s = b.sessions[i].sid
    BY <1>3, <1>4, <2>1 DEF SidsOf
  <2>3. b.lane[s] = [value |-> c.value, busy |-> FALSE, queue |-> <<>>]
    BY <2>2 DEF Begun
  <2>. QED
    BY <2>3
<1>5. LaneShape(d)
  <2>1. \A s \in DOMAIN d.lane : /\ \A i \in DOMAIN d.lane[s].queue : d.lane[s].queue[i].sid = s
                                 /\ Len(d.lane[s].queue) <= 1
    <3>. SUFFICES ASSUME NEW s \in DOMAIN d.lane
                  PROVE  /\ \A i \in DOMAIN d.lane[s].queue : d.lane[s].queue[i].sid = s
                         /\ Len(d.lane[s].queue) <= 1
      OBVIOUS
    <3>1. CASE s \in DOMAIN c.lane
      BY <1>2, <3>1 DEF LaneOK, LaneShape
    <3>2. CASE s \notin DOMAIN c.lane
      <4>1. d.lane[s].queue = <<>>
        BY <1>4, <3>2
      <4>2. DOMAIN <<>> = {} /\ Len(<<>>) = 0
        OBVIOUS
      <4>. QED
        BY <4>1, <4>2
    <3>. QED
      BY <3>1, <3>2
  <2>2. d.lane \in [DOMAIN d.lane -> Slot] /\ DOMAIN d.lane \subseteq Nat /\ IsFiniteSet(DOMAIN d.lane)
    BY DEF Begun
  <2>. QED
    BY <2>1, <2>2 DEF LaneOK, LaneShape
<1>6. LaneAsks(d, X)
  <2>1. LaneAsks(c, X)
    BY DEF LaneOK
  <2>2. \A j \in DOMAIN d.kernel : d.kernel[j].sid \in DOMAIN d.lane \ X /\ d.lane[d.kernel[j].sid].busy
    BY <1>2, <1>3, <2>1 DEF LaneAsks
  <2>3. ASSUME NEW s \in DOMAIN d.lane, d.lane[s].busy, s \notin X
        PROVE  \E j \in DOMAIN d.kernel : d.kernel[j].sid = s
    <3>1. s \in DOMAIN c.lane
      BY <1>4, <2>3
    <3>2. c.lane[s].busy
      BY <1>2, <2>3, <3>1
    <3>. QED
      BY <2>1, <2>3, <3>1, <3>2 DEF LaneAsks
  <2>4. \A s \in X \cap DOMAIN d.lane : d.lane[s].busy
    BY <1>2, <2>1 DEF LaneAsks
  <2>5. \A i, j \in DOMAIN d.kernel : d.kernel[i].sid = d.kernel[j].sid => i = j
    BY <2>1 DEF LaneAsks
  <2>. QED
    BY <2>2, <2>3, <2>4, <2>5 DEF LaneAsks
<1>. QED
  BY <1>5, <1>6 DEF LaneOK

(* Opening sessions for the regions leaves a lane with them.               *)
LEMMA OpenIs ==
    ASSUME NEW c, LaneOK(c, {}), NEW regions \in Seq(Nat), NEW d, d = OpenSessions(c, regions)
    PROVE  LaneOK(d, {}) /\ Opened(c, d, regions)
<1>. DEFINE b == Begin(c, <<>>, regions)
            e == [c EXCEPT !.lane = b.lane, !.retried = FALSE]
<1>1. d = Reset(e, b.sessions)
  BY DEF OpenSessions
<1>2. Begun(b, c, <<>>, regions)
  <2>1. <<>> \in Seq(Session) /\ LaneShape(c)
    BY DEF LaneOK
  <2>. QED
    BY <2>1, BeginIs
<1>3. Len(regions) \in Nat /\ DOMAIN regions = 1 .. Len(regions)
  BY LenProperties
<1>. HIDE DEF b
<1>4. b.sessions \in Seq(Session) /\ DOMAIN b.sessions = DOMAIN regions
  <2>1. b.sessions \in Seq(Session) /\ Len(b.sessions) = Len(regions)
    BY <1>2 DEF Begun
  <2>. QED
    BY <1>3, <2>1, LenProperties
<1>5. DOMAIN c = Fields /\ c.latch \in BOOLEAN /\ c.timer \in BOOLEAN
  BY DEF LaneOK, LaneShape
<1>6. /\ DOMAIN e = Fields /\ e.lane = b.lane /\ e.kernel = c.kernel /\ e.sessions = c.sessions
      /\ e.throttle = c.throttle /\ e.latch = c.latch /\ e.retried = FALSE /\ e.timer = c.timer
      /\ SameTool(c, e)
  BY <1>5 DEF Fields, SameTool
<1>. HIDE DEF e
<1>7. LaneOK(e, {})
  <2>1. e.value = c.value /\ e.latch \in BOOLEAN /\ e.retried \in BOOLEAN /\ e.timer \in BOOLEAN
    BY <1>5, <1>6 DEF SameTool
  <2>2. {} \subseteq DOMAIN c.lane
    OBVIOUS
  <2>. QED
    BY <1>2, <1>6, <2>1, <2>2, GrownOK
<1>8. \A i, j \in DOMAIN b.sessions : b.sessions[i].sid = b.sessions[j].sid => i = j
  BY <1>2, <1>3, <1>4 DEF Begun
<1>9. LaneOK(d, {}) /\ Restarted(e, d, b.sessions)
  BY <1>1, <1>4, <1>7, <1>8, ResetIs
<1>10. /\ DOMAIN d.sessions = DOMAIN regions
       /\ \A i \in DOMAIN regions : /\ d.sessions[i].region = regions[i]
                                    /\ d.sessions[i].sid = b.sessions[i].sid
  BY <1>2, <1>3, <1>4, <1>9 DEF Restarted, SameSessions, Begun
<1>11. SidsOf(d.sessions) = SidsOf(b.sessions)
  BY <1>4, <1>10 DEF SidsOf
<1>12. DOMAIN d.lane = DOMAIN c.lane \cup SidsOf(d.sessions)
  BY <1>2, <1>6, <1>9, <1>11 DEF Restarted, Begun
<1>13. ASSUME NEW i \in DOMAIN d.sessions
       PROVE  d.lane[d.sessions[i].sid].value = c.value
  <2>. DEFINE s == b.sessions[i].sid
  <2>1. i \in 1 .. Len(regions) /\ d.sessions[i].sid = s
    BY <1>3, <1>10, <1>13
  <2>2. b.lane[s] = [value |-> c.value, busy |-> FALSE, queue |-> <<>>] /\ s \in DOMAIN b.lane
    BY <1>2, <1>4, <1>10, <2>1 DEF Begun, SidsOf
  <2>3. e.lane[s].value = c.value /\ e.value = c.value /\ s \in DOMAIN e.lane
    BY <1>6, <2>2 DEF SameTool
  <2>4. d.lane[s].value \in {e.lane[s].value, e.value}
    BY <1>9, <2>3 DEF Restarted
  <2>. QED
    BY <2>1, <2>3, <2>4
<1>14. SameTool(c, d) /\ Blank(d.sessions) /\ d.latch = FALSE /\ PendingOK(d)
  BY <1>6, <1>9 DEF Restarted, SameTool
<1>. QED
  BY <1>9, <1>10, <1>12, <1>13, <1>14 DEF Opened

(* -- Answers -------------------------------------------------------------- *)

Distinct(q) == \A i, j \in DOMAIN q : q[i].sid = q[j].sid => i = j

(* One session of the list is written.                                     *)
Written(p, q, i, r) ==
  /\ p \in Seq(Session) /\ Distinct(p) /\ SameSessions(q, p)
  /\ p[i] = r /\ \A j \in DOMAIN q \ {i} : p[j] = q[j]

(* A session that is rewritten under its id keeps the ids distinct.        *)
LEMMA WriteIs ==
    ASSUME NEW q \in Seq(Session), Distinct(q), NEW i \in DOMAIN q, NEW r \in Session,
           r.sid = q[i].sid, r.region = q[i].region, NEW p, p = [q EXCEPT ![i] = r]
    PROVE  Written(p, q, i, r)
<1>1. Len(q) \in Nat /\ DOMAIN q = 1 .. Len(q) /\ \A j \in DOMAIN q : q[j] \in Session
  BY LenProperties, ElementOfSeq
<1>2. DOMAIN p = DOMAIN q /\ p[i] = r /\ \A j \in DOMAIN q \ {i} : p[j] = q[j]
  OBVIOUS
<1>3. p \in Seq(Session)
  <2>1. p \in [1 .. Len(q) -> Session]
    BY <1>1
  <2>. QED
    BY <1>1, <2>1, TableIsSeq
<1>4. \A j \in DOMAIN q : p[j].sid = q[j].sid /\ p[j].region = q[j].region
  BY <1>2
<1>5. SameSessions(q, p)
  BY <1>2, <1>4 DEF SameSessions
<1>6. Distinct(p)
  BY <1>2, <1>4 DEF Distinct
<1>. QED
  BY <1>2, <1>3, <1>5, <1>6 DEF Written

(* The latch is up exactly while a session fails.                          *)
LatchOK(c) == c.latch = Failing(c)

(* A change of the throttle and of what is shown is a move.                *)
LEMMA MoveStill ==
    ASSUME NEW c, PendingOK(c), c.sessions # <<>>, NEW d, SameTool(c, d), SameLane(c, d),
           SameSessions(c.sessions, d.sessions), d.throttle.pending = c.throttle.pending
    PROVE  Moves(c, d)
<1>1. PendingOK(d)
  BY DEF PendingOK, SameTool
<1>. QED
  BY <1>1 DEF Moves, SameLane

(* A good answer is shown.                                                 *)
LEMMA ShownIs ==
    ASSUME NEW c, NEW X, LaneOK(c, X), PendingOK(c), NEW i \in DOMAIN c.sessions, NEW v \in Nat,
           NEW d, d = Shown(c, i, v)
    PROVE  LaneOK(d, X) /\ Moves(c, d) /\ (LatchOK(c) => LatchOK(d)) /\ d.throttle = c.throttle
<1>. DEFINE s == c.sessions[i]
            r == [s EXCEPT !.shown = v, !.failed = FALSE]
            q == [c.sessions EXCEPT ![i] = r]
            rt == IF i = 1 THEN FALSE ELSE c.retried
            e == [c EXCEPT !.sessions = q, !.retried = rt]
<1>1. DOMAIN c = Fields /\ c.sessions \in Seq(Session) /\ c.retried \in BOOLEAN /\ c.latch \in BOOLEAN
      /\ c.timer \in BOOLEAN /\ Distinct(c.sessions)
  BY DEF LaneOK, LaneShape, Distinct
<1>2. s \in Session /\ rt \in BOOLEAN
  <2>1. s \in Session
    BY <1>1, ElementOfSeq
  <2>. QED
    BY <1>1, <2>1
<1>3. d = IF s.failed THEN [e EXCEPT !.latch = Failing(e)] ELSE e
  <2>. DEFINE g == [c EXCEPT !.sessions[i].shown = v, !.sessions[i].failed = FALSE,
                             !.retried = IF i = 1 THEN FALSE ELSE @]
  <2>1. g = e
    BY <1>1 DEF Fields
  <2>2. d = IF s.failed THEN [g EXCEPT !.latch = Failing(g)] ELSE g
    BY DEF Shown
  <2>. HIDE DEF e, g
  <2>. QED
    BY <2>1, <2>2
<1>4. r \in Session /\ r.sid = s.sid /\ r.region = s.region /\ r.failed = FALSE
  BY <1>2 DEF Session
<1>. HIDE DEF r, rt
<1>5. Written(q, c.sessions, i, r)
  BY <1>1, <1>4, WriteIs
<1>. HIDE DEF q
<1>6. /\ DOMAIN e = Fields /\ e.sessions = q /\ SameTool(c, e) /\ SameLane(c, e) /\ e.throttle = c.throttle
      /\ e.timer = c.timer /\ e.latch = c.latch /\ e.retried = rt
  BY <1>1 DEF Fields, SameTool, SameLane
<1>. HIDE DEF e
<1>7. Failing(e) \in BOOLEAN
  BY DEF Failing
<1>8. /\ DOMAIN d = Fields /\ d.sessions = q /\ SameTool(c, d) /\ SameLane(c, d) /\ d.throttle = c.throttle
      /\ d.timer = c.timer /\ d.retried = rt /\ d.latch = IF s.failed THEN Failing(e) ELSE c.latch
  BY <1>3, <1>6 DEF Fields, SameTool, SameLane
<1>9. LaneOK(d, X)
  <2>1. /\ d.value = c.value /\ d.latch \in BOOLEAN /\ d.retried \in BOOLEAN /\ d.timer \in BOOLEAN
        /\ d.throttle \in Throttle /\ d.throttle.inFlight \in {0, d.throttle.epoch}
        /\ d.throttle.pending \in 0 .. MaxValue
    BY <1>1, <1>2, <1>7, <1>8 DEF SameTool, LaneOK, LaneShape
  <2>2. d.sessions \in Seq(Session) /\ \A m, n \in DOMAIN d.sessions : d.sessions[m].sid = d.sessions[n].sid => m = n
    BY <1>5, <1>8 DEF Written, Distinct
  <2>. QED
    BY <1>8, <2>1, <2>2, ReshapeOK
<1>10. Moves(c, d)
  <2>1. SameSessions(c.sessions, d.sessions)
    BY <1>5, <1>8 DEF Written
  <2>2. c.sessions # <<>>
    OBVIOUS
  <2>. QED
    BY <1>8, <2>1, <2>2, MoveStill
<1>11. ASSUME LatchOK(c) PROVE LatchOK(d)
  <2>1. Failing(d) = Failing(e)
    BY <1>6, <1>8 DEF Failing
  <2>2. CASE s.failed
    BY <1>8, <2>1, <2>2 DEF LatchOK
  <2>3. CASE ~s.failed
    <3>1. \A j \in DOMAIN c.sessions : q[j].failed = c.sessions[j].failed
      <4>1. s.failed = FALSE
        BY <1>2, <2>3 DEF Session
      <4>. QED
        BY <1>4, <1>5, <4>1 DEF Written
    <3>2. DOMAIN q = DOMAIN c.sessions
      BY <1>5 DEF Written, SameSessions
    <3>3. Failing(d) = Failing(c)
      BY <1>8, <3>1, <3>2 DEF Failing
    <3>. QED
      BY <1>8, <1>11, <2>3, <3>3 DEF LatchOK
  <2>. QED
    BY <2>2, <2>3
<1>. QED
  BY <1>8, <1>9, <1>10, <1>11

(* A refusal is remembered, and the stale one asked again once.            *)
LEMMA FailedIs ==
    ASSUME NEW c, NEW X, LaneOK(c, X), PendingOK(c), NEW i \in DOMAIN c.sessions, NEW out,
           NEW d, d = Failed(c, i, out)
    PROVE  LaneOK(d, X) /\ Moves(c, d) /\ LatchOK(d)
<1>. DEFINE s == c.sessions[i]
            r == [s EXCEPT !.shown = 0, !.failed = TRUE]
            q == [c.sessions EXCEPT ![i] = r]
            e == [c EXCEPT !.sessions = q, !.latch = TRUE]
            f == [e EXCEPT !.retried = TRUE]
<1>1. DOMAIN c = Fields /\ c.sessions \in Seq(Session) /\ c.retried \in BOOLEAN /\ c.latch \in BOOLEAN
      /\ c.timer \in BOOLEAN /\ Distinct(c.sessions)
  BY DEF LaneOK, LaneShape, Distinct
<1>2. s \in Session
  BY <1>1, ElementOfSeq
<1>3. d = IF out = "stale" /\ ~c.retried THEN SendPreview(f, TRUE) ELSE e
  BY <1>1 DEF Failed, Fields
<1>4. r \in Session /\ r.sid = s.sid /\ r.region = s.region /\ r.failed = TRUE
  BY <1>2 DEF Session
<1>. HIDE DEF r
<1>5. Written(q, c.sessions, i, r)
  BY <1>1, <1>4, WriteIs
<1>. HIDE DEF q
<1>6. /\ DOMAIN e = Fields /\ e.sessions = q /\ SameTool(c, e) /\ SameLane(c, e) /\ e.throttle = c.throttle
      /\ e.timer = c.timer /\ e.latch = TRUE /\ e.retried = c.retried
  BY <1>1 DEF Fields, SameTool, SameLane
<1>. HIDE DEF e
<1>7. /\ DOMAIN f = Fields /\ f.sessions = q /\ SameTool(c, f) /\ SameLane(c, f) /\ f.throttle = c.throttle
      /\ f.timer = c.timer /\ f.latch = TRUE /\ f.retried = TRUE
  BY <1>6 DEF Fields, SameTool, SameLane
<1>. HIDE DEF f
<1>8. ASSUME NEW g, g \in {e, f} PROVE LaneOK(g, X) /\ Moves(c, g)
  <2>1. /\ DOMAIN g = Fields /\ g.sessions = q /\ SameTool(c, g) /\ SameLane(c, g) /\ g.throttle = c.throttle
        /\ g.timer = c.timer /\ g.latch = TRUE /\ g.retried \in BOOLEAN
    BY <1>1, <1>6, <1>7, <1>8
  <2>2. /\ g.value = c.value /\ g.latch \in BOOLEAN /\ g.timer \in BOOLEAN
        /\ g.throttle \in Throttle /\ g.throttle.inFlight \in {0, g.throttle.epoch}
        /\ g.throttle.pending \in 0 .. MaxValue
    BY <1>1, <2>1 DEF SameTool, LaneOK, LaneShape
  <2>3. g.sessions \in Seq(Session) /\ \A m, n \in DOMAIN g.sessions : g.sessions[m].sid = g.sessions[n].sid => m = n
    BY <1>5, <2>1 DEF Written, Distinct
  <2>4. SameSessions(c.sessions, g.sessions) /\ c.sessions # <<>>
    BY <1>5, <2>1 DEF Written
  <2>. QED
    BY <2>1, <2>2, <2>3, <2>4, ReshapeOK, MoveStill
<1>9. ASSUME NEW g, g.sessions = q, g.latch = TRUE PROVE LatchOK(g)
  <2>1. i \in DOMAIN q /\ q[i].failed
    BY <1>4, <1>5 DEF Written, SameSessions
  <2>. QED
    BY <1>9, <2>1 DEF LatchOK, Failing
<1>10. CASE d = e
  BY <1>6, <1>8, <1>9, <1>10
<1>11. CASE d = SendPreview(f, TRUE)
  <2>1. LaneOK(f, X) /\ Moves(c, f) /\ TRUE \in BOOLEAN
    BY <1>8
  <2>2. LaneOK(d, X) /\ Moves(f, d) /\ d.sessions = f.sessions /\ d.latch = f.latch
    BY <1>11, <2>1, SendIs
  <2>. QED
    BY <1>7, <1>9, <2>1, <2>2, MovesTrans
<1>. QED
  BY <1>3, <1>10, <1>11

(* An answer moves the lane and keeps the latch true.                      *)
LEMMA ResultIs ==
    ASSUME NEW c, NEW X, LaneOK(c, X), PendingOK(c), NEW ask \in Ask, NEW out,
           NEW d, d = OnPreviewResult(c, ask, out)
    PROVE  LaneOK(d, X) /\ Moves(c, d) /\ (LatchOK(c) => LatchOK(d))
<1>1. CASE d = c
  <2>. QED
    BY <1>1 DEF Moves, SameTool, SameSessions
<1>2. CASE Index(c, ask.sid) # {}
  <2>. DEFINE i == CHOOSE j \in Index(c, ask.sid) : TRUE
              s == c.sessions[i]
              r == [s EXCEPT !.applied = ask.epoch]
              q == [c.sessions EXCEPT ![i] = r]
              t == [c.throttle EXCEPT !.inFlight = IF i = 1 THEN 0 ELSE c.throttle.inFlight]
              b == [c EXCEPT !.sessions = q, !.throttle = t]
              e == IF out = "good" THEN Shown(b, i, ask.value) ELSE Failed(b, i, out)
  <2>1. i \in DOMAIN c.sessions
    BY <1>2 DEF Index
  <2>2. DOMAIN c = Fields /\ c.sessions \in Seq(Session) /\ Distinct(c.sessions) /\ c.throttle \in Throttle
        /\ c.retried \in BOOLEAN /\ c.latch \in BOOLEAN /\ c.timer \in BOOLEAN
    BY DEF LaneOK, LaneShape, Distinct
  <2>3. d \in {c, e, MaybeSend(e)}
    <3>1. b = [c EXCEPT !.sessions[i].applied = ask.epoch,
                        !.throttle.inFlight = IF i = 1 THEN 0 ELSE @]
      BY <2>2 DEF Fields
    <3>. HIDE DEF b, i
    <3>. QED
      BY <1>2, <3>1 DEF OnPreviewResult, i
  <2>. HIDE DEF i
  <2>4. s \in Session /\ ask.epoch \in Nat /\ ask.value \in Nat
    BY <2>1, <2>2, ElementOfSeq DEF Ask
  <2>5. r \in Session /\ r.sid = s.sid /\ r.region = s.region /\ r.failed = s.failed
    BY <2>4 DEF Session
  <2>6. t \in Throttle /\ t.inFlight \in {0, t.epoch} /\ t.pending = c.throttle.pending
    <3>1. c.throttle.inFlight \in {0, c.throttle.epoch}
      BY DEF LaneOK, LaneShape
    <3>. QED
      BY <2>2, <3>1 DEF Throttle
  <2>. HIDE DEF r, t
  <2>7. Written(q, c.sessions, i, r)
    BY <2>1, <2>2, <2>5, WriteIs
  <2>. HIDE DEF q
  <2>8. /\ DOMAIN b = Fields /\ b.sessions = q /\ b.throttle = t /\ SameTool(c, b) /\ SameLane(c, b)
        /\ b.latch = c.latch /\ b.retried = c.retried /\ b.timer = c.timer
    BY <2>2 DEF Fields, SameTool, SameLane
  <2>. HIDE DEF b, s
  <2>9. SameSessions(c.sessions, b.sessions) /\ c.sessions # <<>>
    BY <2>1, <2>7, <2>8 DEF Written
  <2>10. LaneOK(b, X)
    <3>1. /\ b.value = c.value /\ b.latch \in BOOLEAN /\ b.retried \in BOOLEAN /\ b.timer \in BOOLEAN
          /\ b.throttle \in Throttle /\ b.throttle.inFlight \in {0, b.throttle.epoch}
          /\ b.throttle.pending \in 0 .. MaxValue
      BY <2>2, <2>6, <2>8 DEF SameTool, LaneOK, LaneShape
    <3>2. b.sessions \in Seq(Session) /\ \A m, n \in DOMAIN b.sessions : b.sessions[m].sid = b.sessions[n].sid => m = n
      BY <2>7, <2>8 DEF Written, Distinct
    <3>. QED
      BY <2>8, <3>1, <3>2, ReshapeOK
  <2>11. Moves(c, b)
    BY <2>6, <2>8, <2>9, MoveStill
  <2>12. LatchOK(c) => LatchOK(b)
    <3>1. \A j \in DOMAIN c.sessions : q[j].failed = c.sessions[j].failed
      BY <2>5, <2>7 DEF Written, s
    <3>2. DOMAIN q = DOMAIN c.sessions
      BY <2>7 DEF Written, SameSessions
    <3>. QED
      BY <2>8, <3>1, <3>2 DEF LatchOK, Failing
  <2>13. i \in DOMAIN b.sessions /\ PendingOK(b)
    BY <2>1, <2>9, <2>11 DEF SameSessions, Moves
  <2>14. LaneOK(e, X) /\ Moves(b, e) /\ (LatchOK(b) => LatchOK(e))
    <3>1. CASE out = "good"
      <4>1. e = Shown(b, i, ask.value)
        BY <3>1
      <4>. HIDE DEF e
      <4>. QED
        BY <2>4, <2>10, <2>13, <4>1, ShownIs
    <3>2. CASE out # "good"
      <4>1. e = Failed(b, i, out)
        BY <3>2
      <4>. HIDE DEF e
      <4>. QED
        BY <2>10, <2>13, <4>1, FailedIs
    <3>. QED
      BY <3>1, <3>2
  <2>. HIDE DEF e
  <2>15. Moves(c, e) /\ PendingOK(e)
    BY <2>11, <2>14, MovesTrans DEF Moves
  <2>16. CASE d = e
    BY <2>12, <2>14, <2>15, <2>16
  <2>17. CASE d = MaybeSend(e)
    <3>1. e.sessions # <<>>
      <4>1. DOMAIN e.sessions = DOMAIN c.sessions
        BY <2>15 DEF Moves, SameSessions
      <4>2. i \in DOMAIN e.sessions
        BY <2>1, <4>1
      <4>. QED
        BY <4>2
    <3>2. LaneOK(d, X)
      BY <2>14, <2>17, MaybeIs
    <3>3. Moves(e, d) /\ d.sessions = e.sessions /\ SameFlags(e, d)
      BY <2>14, <2>15, <2>17, <3>1, MaybeMoves
    <3>4. LatchOK(e) => LatchOK(d)
      BY <3>3 DEF LatchOK, Failing, SameFlags
    <3>. QED
      BY <2>12, <2>14, <2>15, <3>2, <3>3, <3>4, MovesTrans
  <2>. QED
    BY <1>1, <2>3, <2>16, <2>17
<1>3. CASE Index(c, ask.sid) = {}
  BY <1>1, <1>3 DEF OnPreviewResult
<1>. QED
  BY <1>2, <1>3

(* -- The steps of a commit ------------------------------------------------ *)

(* The lane is not touched at all.                                         *)
Untouched(c, d) ==
  /\ SameLane(c, d) /\ SameFlags(c, d) /\ d.sessions = c.sessions /\ d.throttle = c.throttle
  /\ d.value = c.value

(* A lane nobody touched is as well as it was.                             *)
LEMMA UntouchedOK ==
    ASSUME NEW c, NEW X, LaneOK(c, X), NEW d, DOMAIN d = Fields, Untouched(c, d)
    PROVE  LaneOK(d, X) /\ (PendingOK(c) => PendingOK(d)) /\ (LatchOK(c) => LatchOK(d))
<1>1. LaneOK(d, X)
  <2>1. d.latch \in BOOLEAN /\ d.retried \in BOOLEAN /\ d.timer \in BOOLEAN
    BY DEF LaneOK, LaneShape, Untouched, SameFlags
  <2>. QED
    BY <2>1, FlagsOK DEF Untouched
<1>2. PendingOK(c) => PendingOK(d)
  BY DEF PendingOK, Untouched
<1>3. LatchOK(c) => LatchOK(d)
  BY DEF LatchOK, Failing, Untouched, SameFlags
<1>. QED
  BY <1>1, <1>2, <1>3

(* The fields that only an arm, a drag or a leave changes.                 *)
SameArm(c, d) ==
  /\ d.tool = c.tool /\ d.value = c.value /\ d.basis = c.basis /\ d.prepared = c.prepared
  /\ d.arm = c.arm /\ d.chosen = c.chosen

CallOf(c, kind, region, value, approved) ==
  [kind |-> kind, tool |-> c.tool, arm |-> c.arm, region |-> region, value |-> value, approved |-> approved,
   live |-> TRUE, answer |-> "none", doc |-> [rev |-> 0, recs |-> <<>>]]

Called(c, d, kind, k, region, value, approved) ==
  /\ SameArm(c, d) /\ Untouched(c, d) /\ d.phase = c.phase /\ d.regions = c.regions
  /\ d.commit.pc = kind /\ d.commit.k = k /\ d.commit.final = c.commit.final
  /\ DOMAIN d.commit = DOMAIN c.commit
  /\ d.calls = Append(c.calls, CallOf(c, kind, region, value, approved))

Commit == [pc : {"none", "record", "barrier", "apply", "undo", "loading"}, k : Nat, final : Nat]

(* A call is sent.                                                         *)
LEMMA CallIs ==
    ASSUME NEW c, DOMAIN c = Fields, c.commit \in Commit,
           NEW kind \in {"apply", "undo"}, NEW k \in Nat, NEW region, NEW value, NEW approved,
           NEW d, d = Call(c, kind, k, region, value, approved)
    PROVE  DOMAIN d = Fields /\ d.commit \in Commit /\ Called(c, d, kind, k, region, value, approved)
<1>. DEFINE t == [c.commit EXCEPT !.pc = kind, !.k = k]
            calls == Append(c.calls, CallOf(c, kind, region, value, approved))
<1>1. d = [c EXCEPT !.commit = t, !.calls = calls]
  BY DEF Call, CallOf, Fields
<1>2. t \in Commit /\ t.pc = kind /\ t.k = k /\ t.final = c.commit.final /\ DOMAIN t = DOMAIN c.commit
  BY DEF Commit
<1>. HIDE DEF t, calls
<1>3. DOMAIN d = Fields /\ d.commit = t /\ d.calls = calls
  BY <1>1 DEF Fields
<1>4. SameArm(c, d) /\ Untouched(c, d) /\ d.phase = c.phase /\ d.regions = c.regions
  BY <1>1 DEF SameArm, Untouched, SameLane, SameFlags
<1>. QED
  BY <1>2, <1>3, <1>4 DEF Called, calls

(* The tool is armed again.                                                *)
Rearmed(c, d, k) ==
  /\ SameArm(c, d) /\ d.phase = "armed" /\ d.commit = NoCommit /\ d.calls = c.calls
  /\ d.regions = IF c.tool = "revolve" THEN SubSeq(c.regions, k, Len(c.regions)) ELSE c.regions

(* How the lane is left: with the k-th region's session opened once more,  *)
(* before the ones after it;                                               *)
Retried(c, d, k) ==
  /\ DOMAIN d.sessions = 1 .. (Len(c.sessions) - k + 1) /\ Blank(d.sessions) /\ d.latch = FALSE
  /\ \A i \in DOMAIN d.sessions : d.sessions[i].region = c.sessions[i + k - 1].region
  /\ \A i \in DOMAIN d.sessions \ {1} : d.sessions[i].sid = c.sessions[i + k - 1].sid
  /\ DOMAIN d.lane = DOMAIN c.lane \cup {d.sessions[1].sid}

(* or with a session of its own for a tool that has one;                   *)
Reopened(c, d) ==
  /\ Blank(d.sessions) /\ d.latch = FALSE /\ DOMAIN d.sessions = DOMAIN c.regions
  /\ \A i \in DOMAIN c.regions : d.sessions[i].region = c.regions[i]
  /\ DOMAIN d.lane = DOMAIN c.lane \cup SidsOf(d.sessions)

(* A re-arm starts by this.                                                *)
LEMMA ArmedIs ==
    ASSUME NEW c, NEW X, LaneOK(c, X), NEW k, NEW d,
           d = Armed([c EXCEPT !.regions = IF c.tool = "revolve" THEN SubSeq(@, k, Len(@)) ELSE @])
    PROVE  LaneOK(d, X) /\ DOMAIN d = Fields /\ Untouched(c, d) /\ Rearmed(c, d, k)
<1>. DEFINE r == IF c.tool = "revolve" THEN SubSeq(c.regions, k, Len(c.regions)) ELSE c.regions
<1>1. DOMAIN c = Fields
  BY DEF LaneOK, LaneShape
<1>2. d = [c EXCEPT !.regions = r, !.phase = "armed", !.commit = NoCommit]
  BY DEF Armed
<1>. HIDE DEF r
<1>3. DOMAIN d = Fields /\ d.regions = r /\ d.phase = "armed" /\ d.commit = NoCommit
  BY <1>1, <1>2 DEF Fields
<1>4. SameArm(c, d) /\ Untouched(c, d) /\ d.calls = c.calls
  <2>1. SameArm(c, d) /\ d.calls = c.calls
    BY ONLY <1>2 DEF SameArm
  <2>2. Untouched(c, d)
    BY ONLY <1>2 DEF Untouched, SameLane, SameFlags
  <2>. QED
    BY <2>1, <2>2
<1>. QED
  BY <1>3, <1>4, UntouchedOK DEF Rearmed, r

(* What is armed again stays so when its lane moves.                       *)
LEMMA RearmedOn ==
    ASSUME NEW c, NEW d, NEW e, NEW k, Rearmed(c, d, k), SameTool(d, e)
    PROVE  Rearmed(c, e, k)
<1>1. SameArm(c, e) /\ e.phase = d.phase /\ e.commit = d.commit /\ e.calls = d.calls /\ e.regions = d.regions
  BY DEF Rearmed, SameArm, SameTool
<1>. QED
  BY <1>1 DEF Rearmed

(* The sessions after the k-th.                                            *)
After(p, q, k) ==
  /\ p \in Seq(Session) /\ Distinct(p)
  /\ k <= Len(q) => DOMAIN p = 1 .. (Len(q) - k)
  /\ ~(k <= Len(q)) => DOMAIN p = {}
  /\ \A i \in DOMAIN p : i + k \in DOMAIN q /\ p[i] = q[i + k]

(* The sessions after the k-th.                                            *)
LEMMA SurvivorsAre ==
    ASSUME NEW q \in Seq(Session), Distinct(q), NEW k \in Nat, k > 0,
           NEW p, p = SubSeq(q, k + 1, Len(q))
    PROVE  After(p, q, k)
<1>. DEFINE L == Len(q)
<1>1. L \in Nat /\ DOMAIN q = 1 .. L /\ \A i \in 1 .. L : q[i] \in Session
  BY LenProperties, ElementOfSeq
<1>2. p = SubSeq(q, k + 1, L)
  OBVIOUS
<1>. HIDE DEF L
<1>3. /\ p \in Seq(Session) /\ Len(p) = IF k + 1 <= L THEN L - (k + 1) + 1 ELSE 0
      /\ \A i \in 1 .. (L - (k + 1) + 1) : p[i] = q[(k + 1) + i - 1]
  <2>1. \A i \in (k + 1) .. L : q[i] \in Session
    BY <1>1
  <2>. DEFINE m == k + 1
  <2>2. m \in Int /\ L \in Int
    BY <1>1
  <2>3. \A i \in m .. L : q[i] \in Session
    BY <2>1
  <2>4. p = SubSeq(q, m, L)
    BY <1>2
  <2>. HIDE DEF m
  <2>5. /\ SubSeq(q, m, L) \in Seq(Session)
        /\ Len(SubSeq(q, m, L)) = IF m <= L THEN L - m + 1 ELSE 0
        /\ \A i \in 1 .. L - m + 1 : SubSeq(q, m, L)[i] = q[m + i - 1]
    BY ONLY <2>2, <2>3
  <2>6. /\ p \in Seq(Session) /\ Len(p) = IF m <= L THEN L - m + 1 ELSE 0
        /\ \A i \in 1 .. L - m + 1 : p[i] = q[m + i - 1]
    BY ONLY <2>4, <2>5, Zenon
  <2>. QED
    BY <2>6 DEF m
<1>4. k \in Nat
  OBVIOUS
<1>5. DOMAIN p = 1 .. Len(p)
  BY <1>3, LenProperties
<1>6. k <= L => Len(p) = L - k
  BY ONLY <1>1, <1>3, <1>4
<1>7. ~(k <= L) => Len(p) = 0
  BY ONLY <1>1, <1>3, <1>4
<1>8. ASSUME NEW i \in DOMAIN p PROVE i + k \in DOMAIN q /\ p[i] = q[i + k]
  <2>1. i \in 1 .. Len(p)
    BY <1>5
  <2>2. k <= L /\ i \in 1 .. (L - k)
    BY ONLY <1>1, <1>4, <1>6, <1>7, <2>1
  <2>3. i + k \in 1 .. L /\ (k + 1) + i - 1 = i + k /\ i \in 1 .. (L - (k + 1) + 1)
    BY ONLY <1>1, <1>4, <2>2
  <2>. QED
    BY <1>1, <1>3, <2>3
<1>9. Distinct(p)
  <2>. SUFFICES ASSUME NEW i \in DOMAIN p, NEW j \in DOMAIN p, p[i].sid = p[j].sid
                PROVE  i = j
    BY DEF Distinct
  <2>1. i + k \in DOMAIN q /\ j + k \in DOMAIN q /\ p[i] = q[i + k] /\ p[j] = q[j + k]
    BY <1>8
  <2>2. i + k = j + k
    BY <2>1 DEF Distinct
  <2>3. Len(p) \in Nat
    BY <1>3, LenProperties
  <2>4. i \in Nat /\ j \in Nat
    BY <1>5, <2>3
  <2>. QED
    BY ONLY <1>4, <2>2, <2>4
<1>10. (k <= L => DOMAIN p = 1 .. (L - k)) /\ (~(k <= L) => DOMAIN p = {})
  BY <1>5, <1>6, <1>7
<1>. QED
  BY <1>3, <1>8, <1>9, <1>10 DEF After, L

(* Counting on from the k-th of L.                                         *)
LEMMA CountOn ==
    ASSUME NEW L \in Nat, NEW k \in Nat, k > 0, k <= L, NEW i \in 1 .. (L - k + 1)
    PROVE  /\ i # 1 => i - 1 \in 1 .. (L - k) /\ 1 + (i - 1) = i /\ (i - 1) + k = i + k - 1
           /\ 1 + k - 1 = k /\ 1 \in 1 .. (L - k + 1)
  OBVIOUS

(* A tool of several regions opens the failed region's session once more.  *)
LEMMA RetryIs ==
    ASSUME NEW c, LaneOK(c, {}), NEW k \in Nat, k > 0, k <= Len(c.sessions),
           NEW a, LaneOK(a, {}), Untouched(c, a),
           NEW d, d = Reset([a EXCEPT !.lane = Begin(c, SubSeq(c.sessions, k + 1, Len(c.sessions)),
                                                     <<c.sessions[k].region>>).lane],
                            Begin(c, SubSeq(c.sessions, k + 1, Len(c.sessions)), <<c.sessions[k].region>>).sessions
                              \o SubSeq(c.sessions, k + 1, Len(c.sessions)))
    PROVE  LaneOK(d, {}) /\ SameTool(a, d) /\ PendingOK(d) /\ Retried(c, d, k)
<1>. DEFINE survivors == SubSeq(c.sessions, k + 1, Len(c.sessions))
            regions == <<c.sessions[k].region>>
            b == Begin(c, survivors, regions)
            e == [a EXCEPT !.lane = b.lane]
            q == b.sessions \o survivors
            L == Len(c.sessions)
<1>1. c.sessions \in Seq(Session) /\ Distinct(c.sessions) /\ LaneShape(c)
  BY DEF LaneOK, LaneShape, Distinct
<1>2. L \in Nat /\ DOMAIN c.sessions = 1 .. L /\ k \in DOMAIN c.sessions
  BY <1>1, LenProperties
<1>3. c.sessions[k] \in Session
  BY <1>1, <1>2, ElementOfSeq
<1>4. regions \in Seq(Nat) /\ Len(regions) = 1 /\ regions[1] = c.sessions[k].region
  BY <1>3 DEF Session
<1>5. /\ survivors \in Seq(Session) /\ Distinct(survivors) /\ DOMAIN survivors = 1 .. (L - k)
      /\ \A i \in DOMAIN survivors : i + k \in DOMAIN c.sessions /\ survivors[i] = c.sessions[i + k]
  <2>1. After(survivors, c.sessions, k)
    BY <1>1, SurvivorsAre
  <2>. QED
    BY <2>1 DEF After
<1>. HIDE DEF survivors, regions
<1>6. Begun(b, c, survivors, regions)
  BY <1>1, <1>4, <1>5, BeginIs
<1>7. d = Reset(e, q)
  BY DEF survivors, regions
<1>. HIDE DEF b
<1>8. b.sessions \in Seq(Session) /\ Len(b.sessions) = 1 /\ DOMAIN b.sessions = 1 .. 1
  <2>1. b.sessions \in Seq(Session) /\ Len(b.sessions) = 1
    BY <1>4, <1>6 DEF Begun
  <2>. QED
    BY <2>1, LenProperties
<1>9. /\ b.sessions[1].region = c.sessions[k].region
      /\ b.sessions[1].sid \notin DOMAIN c.lane \cup SidsOf(survivors)
  <2>1. 1 \in 1 .. Len(regions)
    BY <1>4
  <2>. QED
    BY <1>4, <1>6, <2>1 DEF Begun
<1>10. q \in Seq(Session) /\ Row(q, b.sessions, survivors)
  BY <1>5, <1>8, RowIs
<1>. HIDE DEF q
<1>11. Len(q) = 1 + (L - k) /\ DOMAIN q = 1 .. (L - k + 1)
  <2>1. Len(survivors) = L - k
    <3>1. DOMAIN survivors = 1 .. Len(survivors) /\ Len(survivors) \in Nat
      BY <1>5, LenProperties
    <3>2. L - k \in Nat
      BY <1>2
    <3>3. 1 .. Len(survivors) = 1 .. (L - k)
      BY <1>5, <3>1
    <3>. QED
      BY <3>1, <3>2, <3>3
  <2>2. Len(q) = Len(b.sessions) + Len(survivors)
    BY <1>10 DEF Row
  <2>3. DOMAIN q = 1 .. Len(q)
    BY <1>10, LenProperties
  <2>. QED
    BY <1>2, <1>8, <2>1, <2>2, <2>3
<1>12. \A i, j \in DOMAIN q : q[i].sid = q[j].sid => i = j
  <2>1. \A i, j \in DOMAIN b.sessions : b.sessions[i].sid = b.sessions[j].sid => i = j
    BY <1>8
  <2>2. \A i, j \in DOMAIN survivors : survivors[i].sid = survivors[j].sid => i = j
    BY <1>5 DEF Distinct
  <2>3. \A i \in DOMAIN b.sessions : \A j \in DOMAIN survivors : b.sessions[i].sid # survivors[j].sid
    BY <1>8, <1>9 DEF SidsOf
  <2>4. Row(q, b.sessions, survivors)
    BY <1>10
  <2>. QED
    BY ONLY <2>1, <2>2, <2>3, <2>4, RowDistinct
<1>13. q[1] = b.sessions[1] /\ \A i \in 1 .. (L - k) : q[1 + i] = survivors[i]
  BY <1>5, <1>8, <1>10 DEF Row
<1>14. /\ DOMAIN a = Fields /\ a.sessions = c.sessions /\ a.throttle = c.throttle /\ a.value = c.value
       /\ a.lane = c.lane /\ a.kernel = c.kernel
       /\ a.latch \in BOOLEAN /\ a.retried \in BOOLEAN /\ a.timer \in BOOLEAN
  BY DEF LaneOK, LaneShape, Untouched, SameLane
<1>15. DOMAIN e = Fields /\ e.lane = b.lane /\ SameTool(a, e)
       /\ e.sessions = a.sessions /\ e.throttle = a.throttle /\ e.kernel = a.kernel
       /\ e.latch = a.latch /\ e.retried = a.retried /\ e.timer = a.timer
  BY <1>14 DEF Fields, SameTool
<1>. HIDE DEF e
<1>16. LaneOK(e, {})
  <2>1. /\ e.kernel = c.kernel /\ e.sessions = c.sessions /\ e.throttle = c.throttle /\ e.value = c.value
        /\ e.latch \in BOOLEAN /\ e.retried \in BOOLEAN /\ e.timer \in BOOLEAN
    BY <1>14, <1>15 DEF SameTool
  <2>2. {} \subseteq DOMAIN c.lane
    OBVIOUS
  <2>. QED
    BY <1>4, <1>6, <1>15, <2>1, <2>2, GrownOK
<1>17. LaneOK(d, {}) /\ Restarted(e, d, q)
  BY <1>7, <1>10, <1>12, <1>16, ResetIs
<1>18. DOMAIN d.sessions = DOMAIN q /\ \A i \in DOMAIN q : /\ d.sessions[i].sid = q[i].sid
                                                        /\ d.sessions[i].region = q[i].region
  BY <1>17 DEF Restarted, SameSessions
<1>19. ASSUME NEW i \in DOMAIN q, i # 1
       PROVE  i + k - 1 \in DOMAIN c.sessions /\ q[i] = c.sessions[i + k - 1]
  <2>1. i - 1 \in 1 .. (L - k) /\ 1 + (i - 1) = i /\ (i - 1) + k = i + k - 1
    <3>. HIDE DEF L
    <3>1. k \in Nat /\ k > 0 /\ k <= L
      BY <1>2
    <3>. QED
      BY <1>2, <1>11, <1>19, <3>1, CountOn
  <2>2. q[i] = survivors[i - 1] /\ i - 1 \in DOMAIN survivors
    BY <1>5, <1>13, <2>1
  <2>3. survivors[i - 1] = c.sessions[(i - 1) + k] /\ (i - 1) + k \in DOMAIN c.sessions
    BY <1>5, <2>2
  <2>. QED
    BY <2>1, <2>2, <2>3
<1>20. 1 + k - 1 = k /\ 1 \in DOMAIN q
  <2>. HIDE DEF L
  <2>1. k \in Nat /\ k > 0 /\ k <= L
    BY <1>2
  <2>2. DOMAIN q = 1 .. (L - k + 1)
    BY <1>11
  <2>. QED
    BY ONLY <1>2, <2>1, <2>2
<1>21. \A i \in DOMAIN d.sessions : d.sessions[i].region = c.sessions[i + k - 1].region
  <2>. SUFFICES ASSUME NEW i \in DOMAIN q PROVE d.sessions[i].region = c.sessions[i + k - 1].region
    BY <1>18
  <2>1. CASE i = 1
    BY <1>9, <1>13, <1>18, <1>20, <2>1
  <2>2. CASE i # 1
    BY <1>18, <1>19, <2>2
  <2>. QED
    BY <2>1, <2>2
<1>22. \A i \in DOMAIN d.sessions \ {1} : d.sessions[i].sid = c.sessions[i + k - 1].sid
  BY <1>18, <1>19
<1>23. DOMAIN d.lane = DOMAIN c.lane \cup {d.sessions[1].sid}
  <2>1. SidsOf(b.sessions) = {b.sessions[1].sid}
    BY <1>8 DEF SidsOf
  <2>2. d.sessions[1].sid = b.sessions[1].sid
    BY <1>13, <1>18, <1>20
  <2>. QED
    BY <1>6, <1>15, <1>17, <2>1, <2>2 DEF Restarted, Begun
<1>24. Retried(c, d, k)
  BY <1>11, <1>17, <1>18, <1>21, <1>22, <1>23 DEF Retried, Restarted
<1>25. SameTool(a, d)
  BY <1>15, <1>17 DEF Restarted, SameTool
<1>. QED
  BY <1>17, <1>24, <1>25 DEF Restarted

(* With only the sessions after the k-th left,                             *)
Dropped(c, d, k) ==
  /\ SameLane(c, d) /\ d.sessions \in Seq(Session)
  /\ DOMAIN d.sessions = 1 .. (Len(c.sessions) - k)
  /\ \A i \in DOMAIN d.sessions : i + k \in DOMAIN c.sessions /\ d.sessions[i].sid = c.sessions[i + k].sid

(* or with all of them as they were.                                       *)
Kept(c, d) ==
  /\ SameLane(c, d) /\ SameFlags(c, d) /\ SameSessions(c.sessions, d.sessions)
  /\ \A i \in DOMAIN c.sessions : d.sessions[i].failed = c.sessions[i].failed

(* The lane after a re-arm at k.                                           *)
RearmedLane(c, d, k, reopened) ==
  \/ c.tool \notin Multi /\ reopened /\ Reopened(c, d)
  \/ c.tool \notin Multi /\ ~reopened /\ SameLane(c, d) /\ d.sessions = <<>>
  \/ c.tool \in Multi /\ c.sessions = <<>> /\ Untouched(c, d)
  \/ /\ c.tool = "revolve" /\ k > Len(c.sessions)
     /\ d.sessions = <<>> /\ d.latch = FALSE /\ DOMAIN d.lane = DOMAIN c.lane
  \/ c.tool \in Multi /\ k <= Len(c.sessions) /\ reopened /\ Retried(c, d, k)
  \/ c.tool = "revolve" /\ k <= Len(c.sessions) /\ ~reopened /\ Dropped(c, d, k)
  \/ /\ c.tool = "extrude" /\ c.sessions # <<>> /\ (k > Len(c.sessions) \/ ~reopened)
     /\ Kept(c, d)

(* Sessions that all start over.                                           *)
LEMMA BlankIs ==
    ASSUME NEW q \in Seq(Session), Distinct(q), NEW p,
           p = [i \in DOMAIN q |-> [q[i] EXCEPT !.applied = 0, !.shown = 0, !.failed = FALSE]]
    PROVE  /\ p \in Seq(Session) /\ Distinct(p) /\ SameSessions(q, p)
           /\ Blank(p)
<1>1. Len(q) \in Nat /\ DOMAIN q = 1 .. Len(q) /\ \A i \in DOMAIN q : q[i] \in Session
  BY LenProperties, ElementOfSeq
<1>2. DOMAIN p = DOMAIN q
  OBVIOUS
<1>3. ASSUME NEW i \in DOMAIN q
      PROVE  /\ p[i] \in Session /\ p[i].sid = q[i].sid /\ p[i].region = q[i].region
             /\ p[i].applied = 0 /\ p[i].shown = 0 /\ p[i].failed = FALSE
  <2>. DEFINE r == [q[i] EXCEPT !.applied = 0, !.shown = 0, !.failed = FALSE]
  <2>1. q[i] \in Session
    BY <1>1
  <2>2. r \in Session /\ r.sid = q[i].sid /\ r.region = q[i].region /\ r.applied = 0 /\ r.shown = 0 /\ r.failed = FALSE
    BY <2>1 DEF Session
  <2>3. p[i] = r
    OBVIOUS
  <2>. HIDE DEF r
  <2>. QED
    BY ONLY <2>2, <2>3
<1>4. p \in [1 .. Len(q) -> Session]
  BY <1>1, <1>2, <1>3
<1>5. p \in Seq(Session)
  BY <1>1, <1>4, TableIsSeq
<1>6. Distinct(p) /\ SameSessions(q, p)
  <2>1. Distinct(q)
    OBVIOUS
  <2>. QED
    BY ONLY <1>2, <1>3, <2>1 DEF Distinct, SameSessions
<1>. QED
  BY <1>2, <1>3, <1>5, <1>6 DEF Blank

(* Sessions whose previews are cleared.                                    *)
LEMMA HiddenIs ==
    ASSUME NEW q \in Seq(Session), Distinct(q), NEW p,
           p = [i \in DOMAIN q |-> [q[i] EXCEPT !.shown = 0]]
    PROVE  /\ p \in Seq(Session) /\ Distinct(p) /\ SameSessions(q, p)
           /\ \A i \in DOMAIN q : p[i].failed = q[i].failed
<1>1. Len(q) \in Nat /\ DOMAIN q = 1 .. Len(q) /\ \A i \in DOMAIN q : q[i] \in Session
  BY LenProperties, ElementOfSeq
<1>2. DOMAIN p = DOMAIN q
  OBVIOUS
<1>3. ASSUME NEW i \in DOMAIN q
      PROVE  p[i] \in Session /\ p[i].sid = q[i].sid /\ p[i].region = q[i].region /\ p[i].failed = q[i].failed
  <2>. DEFINE r == [q[i] EXCEPT !.shown = 0]
  <2>1. q[i] \in Session
    BY <1>1
  <2>2. r \in Session /\ r.sid = q[i].sid /\ r.region = q[i].region /\ r.failed = q[i].failed
    BY <2>1 DEF Session
  <2>3. p[i] = r
    OBVIOUS
  <2>. HIDE DEF r
  <2>. QED
    BY ONLY <2>2, <2>3
<1>4. p \in [1 .. Len(q) -> Session]
  BY <1>1, <1>2, <1>3
<1>5. p \in Seq(Session)
  BY <1>1, <1>4, TableIsSeq
<1>6. Distinct(p) /\ SameSessions(q, p)
  <2>1. Distinct(q)
    OBVIOUS
  <2>. QED
    BY ONLY <1>2, <1>3, <2>1 DEF Distinct, SameSessions
<1>. QED
  BY <1>2, <1>3, <1>5, <1>6 DEF Blank

(* A commit that failed at the k-th region arms the tool again.            *)
LEMMA RearmIs ==
    ASSUME NEW c, LaneOK(c, {}), PendingOK(c), c.regions \in Seq(Nat), NEW k \in Nat, k > 0,
           NEW reopened \in BOOLEAN, NEW e, e = Rearm(c, k, reopened)
    PROVE  LaneOK(e, {}) /\ PendingOK(e) /\ Rearmed(c, e, k) /\ RearmedLane(c, e, k, reopened)
<1>. DEFINE d == Armed([c EXCEPT !.regions = IF c.tool = "revolve" THEN SubSeq(@, k, Len(@)) ELSE @])
            survivors == SubSeq(c.sessions, k + 1, Len(c.sessions))
            blank == [i \in DOMAIN survivors |->
                        [survivors[i] EXCEPT !.applied = 0, !.shown = 0, !.failed = FALSE]]
            fresh == Begin(c, survivors, <<c.sessions[k].region>>)
            L == Len(c.sessions)
            v1 == OpenSessions(d, c.regions)
            v2 == [d EXCEPT !.sessions = <<>>]
            v4 == Reset(d, survivors)
            v5 == Reset([d EXCEPT !.lane = fresh.lane], fresh.sessions \o survivors)
            v6 == [d EXCEPT !.sessions = blank]
            v7 == [d EXCEPT !.sessions = [i \in DOMAIN @ |-> [@[i] EXCEPT !.shown = 0]]]
<1>0. e = IF c.tool \notin Multi THEN IF reopened THEN v1 ELSE v2
          ELSE IF c.sessions = <<>> THEN d
          ELSE IF c.tool = "revolve" /\ k > L THEN v4
          ELSE IF k <= L /\ reopened THEN v5
          ELSE IF c.tool = "revolve" THEN v6 ELSE v7
  <2>1. e = CASE c.tool \notin Multi /\ reopened -> v1
              [] c.tool \notin Multi /\ ~reopened -> v2
              [] c.tool \in Multi /\ c.sessions = <<>> -> d
              [] c.tool = "revolve" /\ k > L /\ c.sessions # <<>> -> v4
              [] c.tool \in Multi /\ k <= L /\ reopened -> v5
              [] c.tool = "revolve" /\ k <= L /\ ~reopened -> v6
              [] OTHER -> v7
    BY Zenon DEF Rearm
  <2>. DEFINE q == c.sessions
  <2>2. c.sessions \in Seq(Session)
    BY DEF LaneOK, LaneShape
  <2>3. L \in Nat /\ k \in Nat /\ reopened \in BOOLEAN /\ (q = <<>> => ~(k <= L))
    BY <2>2, LenProperties
  <2>. HIDE DEF v1, v2, d, v4, v5, v6, v7, L, q
  <2>. QED
    BY ONLY <2>1, <2>3 DEF Multi, q
<1>. HIDE DEF v1, v2, v4, v5, v6, v7
<1>1. LaneOK(d, {}) /\ DOMAIN d = Fields /\ Untouched(c, d) /\ Rearmed(c, d, k)
  BY ArmedIs
<1>2. c.sessions \in Seq(Session) /\ Distinct(c.sessions) /\ L \in Nat
  BY LenProperties DEF LaneOK, LaneShape, Distinct
<1>3. After(survivors, c.sessions, k)
  BY <1>2, SurvivorsAre
<1>4. CASE c.tool \notin Multi /\ reopened
  <2>1. e = OpenSessions(d, c.regions)
    BY <1>0, <1>4, Zenon DEF v1
  <2>. HIDE DEF d
  <2>2. LaneOK(e, {}) /\ Opened(d, e, c.regions)
    BY <1>1, <2>1, OpenIs
  <2>3. Reopened(c, e)
    BY <1>1, <2>2 DEF Opened, Reopened, Untouched, SameLane
  <2>4. Rearmed(c, e, k)
    BY <1>1, <2>2, RearmedOn DEF Opened
  <2>. QED
    BY <1>4, <2>2, <2>3, <2>4 DEF RearmedLane, Opened
<1>5. CASE c.tool \notin Multi /\ ~reopened
  <2>1. e = [d EXCEPT !.sessions = <<>>]
    BY <1>0, <1>5, Zenon DEF v2
  <2>. HIDE DEF d
  <2>2. DOMAIN e = Fields /\ e.sessions = <<>>
    BY <1>1, <2>1 DEF Fields
  <2>3. SameTool(d, e) /\ SameLane(d, e) /\ SameFlags(d, e) /\ e.throttle = d.throttle
    BY ONLY <2>1 DEF SameTool, SameLane, SameFlags
  <2>4. LaneOK(e, {}) /\ PendingOK(e)
    <3>1. <<>> \in Seq(Session) /\ DOMAIN <<>> = {}
      OBVIOUS
    <3>2. /\ e.value = d.value /\ e.throttle \in Throttle /\ e.throttle.inFlight \in {0, e.throttle.epoch}
          /\ e.throttle.pending \in 0 .. MaxValue
          /\ e.latch \in BOOLEAN /\ e.retried \in BOOLEAN /\ e.timer \in BOOLEAN
      BY <1>1, <2>3 DEF LaneOK, LaneShape, SameTool, SameFlags
    <3>3. PendingOK(e)
      BY <2>2 DEF PendingOK
    <3>. QED
      BY <1>1, <2>2, <2>3, <3>1, <3>2, <3>3, ReshapeOK
  <2>5. SameLane(c, e)
    BY <1>1, <2>3 DEF SameLane, Untouched
  <2>6. Rearmed(c, e, k)
    BY <1>1, <2>3, RearmedOn
  <2>. QED
    BY <1>5, <2>2, <2>4, <2>5, <2>6 DEF RearmedLane
<1>6. CASE c.tool \in Multi /\ c.sessions = <<>>
  <2>1. e = d
    BY <1>0, <1>6, Zenon
  <2>. HIDE DEF d
  <2>. QED
    BY <1>1, <1>6, <2>1, UntouchedOK DEF RearmedLane
<1>7. CASE c.tool = "revolve" /\ k > L /\ c.sessions # <<>>
  <2>0. c.tool \in Multi
    BY <1>7 DEF Multi
  <2>1. e = Reset(d, survivors)
    BY <1>0, <1>7, <2>0, Zenon DEF v4
  <2>2. survivors \in Seq(Session) /\ Distinct(survivors) /\ DOMAIN survivors = {}
    BY <1>2, <1>3, <1>7 DEF After
  <2>. HIDE DEF d, survivors
  <2>3. LaneOK(e, {}) /\ Restarted(d, e, survivors)
    BY <1>1, <2>1, <2>2, ResetIs DEF Distinct
  <2>4. Rearmed(c, e, k) /\ PendingOK(e)
    BY <1>1, <2>3, RearmedOn DEF Restarted
  <2>5. e.sessions = <<>>
    <3>1. DOMAIN e.sessions = {} /\ e.sessions \in Seq(Session)
      BY <2>2, <2>3 DEF Restarted, SameSessions, LaneOK, LaneShape
    <3>2. Len(e.sessions) \in Nat /\ 1 .. Len(e.sessions) = {}
      BY <3>1, LenProperties
    <3>3. Len(e.sessions) = 0
      <4>. DEFINE n == Len(e.sessions)
      <4>. HIDE DEF n
      <4>1. n \in Nat /\ 1 .. n = {}
        BY <3>2 DEF n
      <4>2. n = 0
        BY ONLY <4>1
      <4>. QED
        BY <4>2 DEF n
    <3>. QED
      BY <3>1, <3>3, EmptySeq
  <2>6. e.latch = FALSE /\ DOMAIN e.lane = DOMAIN c.lane
    BY <1>1, <2>3 DEF Restarted, Untouched, SameLane
  <2>. QED
    BY <1>7, <2>3, <2>4, <2>5, <2>6 DEF RearmedLane
<1>8. CASE c.tool \in Multi /\ k <= L /\ c.sessions # <<>> /\ reopened
  <2>1. e = Reset([d EXCEPT !.lane = fresh.lane], fresh.sessions \o survivors)
    <3>1. ~(k > L)
      BY <1>2, <1>8
    <3>. QED
      BY <1>0, <1>8, <3>1, Zenon DEF v5
  <2>2. LaneOK(e, {}) /\ SameTool(d, e) /\ PendingOK(e) /\ Retried(c, e, k)
    <3>. HIDE DEF d
    <3>. QED
      BY <1>1, <1>8, <2>1, RetryIs
  <2>. HIDE DEF d, fresh, survivors
  <2>3. Rearmed(c, e, k)
    BY <1>1, <2>2, RearmedOn
  <2>. QED
    BY <1>8, <2>2, <2>3 DEF RearmedLane
<1>9. CASE c.tool = "revolve" /\ k <= L /\ c.sessions # <<>> /\ ~reopened
  <2>0. c.tool \in Multi /\ ~(k > L)
    BY <1>2, <1>9 DEF Multi
  <2>1. e = [d EXCEPT !.sessions = blank]
    BY <1>0, <1>9, <2>0, Zenon DEF v6
  <2>2. survivors \in Seq(Session) /\ Distinct(survivors) /\ DOMAIN survivors = 1 .. (L - k)
        /\ \A i \in DOMAIN survivors : i + k \in DOMAIN c.sessions /\ survivors[i] = c.sessions[i + k]
    BY <1>3, <1>9 DEF After
  <2>. HIDE DEF survivors
  <2>3. blank \in Seq(Session) /\ Distinct(blank) /\ DOMAIN blank = DOMAIN survivors
        /\ \A i \in DOMAIN survivors : blank[i].sid = survivors[i].sid
    <3>1. blank = [i \in DOMAIN survivors |->
                     [survivors[i] EXCEPT !.applied = 0, !.shown = 0, !.failed = FALSE]]
      OBVIOUS
    <3>. HIDE DEF blank
    <3>2. SameSessions(survivors, blank) /\ blank \in Seq(Session) /\ Distinct(blank)
      BY <2>2, <3>1, BlankIs
    <3>. QED
      BY <3>2 DEF SameSessions
  <2>. HIDE DEF d, blank
  <2>4. DOMAIN e = Fields /\ e.sessions = blank
    BY <1>1, <2>1 DEF Fields
  <2>5. SameTool(d, e) /\ SameLane(d, e) /\ SameFlags(d, e) /\ e.throttle = d.throttle
    BY ONLY <2>1 DEF SameTool, SameLane, SameFlags
  <2>6. LaneOK(e, {})
    <3>2. /\ e.value = d.value /\ e.throttle \in Throttle /\ e.throttle.inFlight \in {0, e.throttle.epoch}
          /\ e.throttle.pending \in 0 .. MaxValue
          /\ e.latch \in BOOLEAN /\ e.retried \in BOOLEAN /\ e.timer \in BOOLEAN
      BY <1>1, <2>5 DEF LaneOK, LaneShape, SameTool, SameFlags
    <3>3. \A i, j \in DOMAIN e.sessions : e.sessions[i].sid = e.sessions[j].sid => i = j
      BY <2>3, <2>4 DEF Distinct
    <3>. QED
      BY <1>1, <2>3, <2>4, <2>5, <3>2, <3>3, ReshapeOK
  <2>7. PendingOK(e)
    BY <1>1, <1>9, <2>5 DEF PendingOK, Untouched, SameTool
  <2>8. Dropped(c, e, k)
    <3>1. SameLane(c, e)
      BY <1>1, <2>5 DEF SameLane, Untouched
    <3>. QED
      BY <2>2, <2>3, <2>4, <3>1 DEF Dropped
  <2>9. Rearmed(c, e, k)
    BY <1>1, <2>5, RearmedOn
  <2>. QED
    BY <1>9, <2>6, <2>7, <2>8, <2>9 DEF RearmedLane
<1>10. CASE c.tool = "extrude" /\ c.sessions # <<>> /\ (k > L \/ ~reopened)
  <2>. DEFINE q == [i \in DOMAIN d.sessions |-> [d.sessions[i] EXCEPT !.shown = 0]]
  <2>0. c.tool \in Multi /\ c.tool # "revolve"
    BY <1>10 DEF Multi
  <2>1. e = [d EXCEPT !.sessions = q]
    <3>1. ~(k <= L /\ reopened)
      BY <1>2, <1>10
    <3>. QED
      BY <1>0, <1>10, <2>0, <3>1, Zenon DEF v7
  <2>. HIDE DEF d
  <2>2. d.sessions = c.sessions
    BY <1>1 DEF Untouched
  <2>3. /\ q \in Seq(Session) /\ Distinct(q) /\ SameSessions(c.sessions, q)
        /\ \A i \in DOMAIN c.sessions : q[i].failed = c.sessions[i].failed
    BY <1>2, <2>2, HiddenIs
  <2>. HIDE DEF q
  <2>4. DOMAIN e = Fields /\ e.sessions = q
    BY <1>1, <2>1 DEF Fields
  <2>5. SameTool(d, e) /\ SameLane(d, e) /\ SameFlags(d, e) /\ e.throttle = d.throttle
    BY ONLY <2>1 DEF SameTool, SameLane, SameFlags
  <2>6. LaneOK(e, {})
    <3>2. /\ e.value = d.value /\ e.throttle \in Throttle /\ e.throttle.inFlight \in {0, e.throttle.epoch}
          /\ e.throttle.pending \in 0 .. MaxValue
          /\ e.latch \in BOOLEAN /\ e.retried \in BOOLEAN /\ e.timer \in BOOLEAN
      BY <1>1, <2>5 DEF LaneOK, LaneShape, SameTool, SameFlags
    <3>3. \A i, j \in DOMAIN e.sessions : e.sessions[i].sid = e.sessions[j].sid => i = j
      BY <2>3, <2>4 DEF Distinct
    <3>. QED
      BY <1>1, <2>3, <2>4, <2>5, <3>2, <3>3, ReshapeOK
  <2>7. PendingOK(e)
    BY <1>1, <1>10, <2>5 DEF PendingOK, Untouched, SameTool
  <2>8. Kept(c, e)
    <3>1. SameLane(c, e) /\ SameFlags(c, e)
      BY <1>1, <2>5 DEF SameLane, SameFlags, Untouched
    <3>. QED
      BY <2>3, <2>4, <3>1 DEF Kept
  <2>9. Rearmed(c, e, k)
    BY <1>1, <2>5, RearmedOn
  <2>. QED
    BY <1>10, <2>6, <2>7, <2>8, <2>9 DEF RearmedLane
<1>. QED
  BY <1>2, <1>4, <1>5, <1>6, <1>7, <1>8, <1>9, <1>10 DEF Multi

(* The commit goes on to wait for the k-th session's barrier,              *)
Barred(c, e, k) ==
  /\ k <= Len(c.sessions)
  /\ SameArm(c, e) /\ e.phase = "committing" /\ e.regions = c.regions /\ e.calls = c.calls
  /\ e.commit.pc = "barrier" /\ e.commit.k = k
  /\ e.sessions = c.sessions /\ SameFlags(c, e) /\ DOMAIN e.lane = DOMAIN c.lane
  /\ c.sessions[k].sid \in DOMAIN c.lane => e.lane[c.sessions[k].sid].value = c.value

(* or for the bodies to load, once no region is left,                      *)
Loads(c, e) ==
  /\ SameArm(c, e) /\ Untouched(c, e) /\ e.phase = c.phase /\ e.regions = c.regions /\ e.calls = c.calls
  /\ e.commit = [pc |-> "loading", k |-> 0, final |-> 0]

(* or applies a region that has no session.                                *)
Applied(c, e, k) ==
  /\ c.tool \notin Strict /\ k > Len(c.sessions)
  /\ SameArm(c, e) /\ Untouched(c, e) /\ e.phase = "committing" /\ e.regions = c.regions
  /\ e.commit.pc = "apply" /\ e.commit.k = k
  /\ e.calls = Append(c.calls, CallOf(c, "apply", c.regions[k], c.value, FALSE))

(* A strict tool without a session arms again.                             *)
Stepped(c, e, k, reopened) ==
  \/ k > Total(c) /\ Loads(c, e)
  \/ k <= Total(c) /\ Barred(c, e, k)
  \/ /\ k <= Total(c) /\ k > Len(c.sessions) /\ c.tool \in Strict
     /\ Rearmed(c, e, k) /\ RearmedLane(c, e, k, reopened)
  \/ k <= Total(c) /\ Applied(c, e, k)

(* The commit loop goes on with the k-th region.                           *)
LEMMA CommitStepIs ==
    ASSUME NEW c, LaneOK(c, {}), PendingOK(c), c.regions \in Seq(Nat), c.commit \in Commit,
           NEW k \in Nat, k > 0, NEW reopened \in BOOLEAN, NEW e, e = CommitStep(c, k, reopened)
    PROVE  LaneOK(e, {}) /\ PendingOK(e) /\ e.commit \in Commit /\ Stepped(c, e, k, reopened)
<1>. DEFINE L == Len(c.sessions)
            a == [c EXCEPT !.phase = "committing"]
            d == DispatchSend(a, c.value)
            b == [d EXCEPT !.commit = [pc |-> "barrier", k |-> k, final |-> d.throttle.epoch]]
            v1 == [c EXCEPT !.commit = [NoCommit EXCEPT !.pc = "loading"]]
            v2 == UpdatePreview(b, {k})
            v3 == Rearm(c, k, reopened)
            v4 == Call(a, "apply", k, c.regions[k], c.value, FALSE)
<1>1. e = IF k > Total(c) THEN v1 ELSE IF k <= L THEN v2 ELSE IF c.tool \in Strict THEN v3 ELSE v4
  BY Zenon DEF CommitStep
<1>2. /\ DOMAIN c = Fields /\ c.value \in Nat /\ c.sessions \in Seq(Session) /\ c.throttle \in Throttle
      /\ c.latch \in BOOLEAN /\ c.retried \in BOOLEAN /\ c.timer \in BOOLEAN
  BY DEF LaneOK, LaneShape
<1>3. L \in Nat /\ DOMAIN c.sessions = 1 .. L /\ Total(c) \in Nat
  <2>1. Len(c.regions) \in Nat /\ L \in Nat /\ DOMAIN c.sessions = 1 .. L
    BY <1>2, LenProperties
  <2>. HIDE DEF L
  <2>. QED
    BY <2>1 DEF Total, L
<1>4. DOMAIN a = Fields /\ SameArm(c, a) /\ Untouched(c, a) /\ a.phase = "committing" /\ a.regions = c.regions
      /\ a.commit = c.commit /\ a.calls = c.calls
  BY <1>2 DEF Fields, SameArm, Untouched, SameLane, SameFlags
<1>. HIDE DEF v1, v2, v3, v4, a
<1>5. LaneOK(a, {}) /\ PendingOK(a)
  BY <1>4, UntouchedOK
<1>6. CASE k > Total(c)
  <2>1. e = v1
    BY <1>1, <1>6, Zenon
  <2>2. DOMAIN e = Fields /\ e.commit = [pc |-> "loading", k |-> 0, final |-> 0]
    <3>1. [NoCommit EXCEPT !.pc = "loading"] = [pc |-> "loading", k |-> 0, final |-> 0]
      BY DEF NoCommit
    <3>2. e = [c EXCEPT !.commit = [pc |-> "loading", k |-> 0, final |-> 0]]
      BY <2>1, <3>1, Zenon DEF v1
    <3>. QED
      BY <1>2, <3>2 DEF Fields
  <2>3. SameArm(c, e) /\ Untouched(c, e) /\ e.phase = c.phase /\ e.regions = c.regions /\ e.calls = c.calls
    BY ONLY <2>1 DEF v1, SameArm, Untouched, SameLane, SameFlags
  <2>4. LaneOK(e, {}) /\ PendingOK(e) /\ e.commit \in Commit
    BY <2>2, <2>3, UntouchedOK DEF Commit
  <2>. QED
    BY <1>6, <2>2, <2>3, <2>4 DEF Stepped, Loads
<1>7. CASE k <= Total(c) /\ k <= L
  <2>1. e = v2
    BY <1>1, <1>3, <1>7
  <2>2. LaneOK(d, {}) /\ Dispatched(a, d, c.value)
    BY <1>2, <1>5, DispatchIs
  <2>. HIDE DEF d
  <2>3. d.throttle.epoch \in Nat /\ DOMAIN d = Fields
    BY <2>2 DEF LaneOK, LaneShape, Throttle
  <2>4. DOMAIN b = Fields /\ b.commit = [pc |-> "barrier", k |-> k, final |-> d.throttle.epoch] /\ Untouched(d, b)
        /\ SameArm(d, b) /\ b.phase = d.phase /\ b.regions = d.regions /\ b.calls = d.calls
    BY <2>3 DEF Fields, SameArm, Untouched, SameLane, SameFlags
  <2>. HIDE DEF b
  <2>5. LaneOK(b, {})
    BY <2>2, <2>4, UntouchedOK
  <2>6. /\ b.sessions = c.sessions /\ b.lane = c.lane /\ SameFlags(c, b) /\ SameArm(c, b)
        /\ b.phase = "committing" /\ b.regions = c.regions /\ b.calls = c.calls
        /\ b.throttle.last = c.value /\ b.throttle.pending = 0
    BY <1>4, <2>2, <2>4 DEF Dispatched, Untouched, SameArm, SameTool, SameLane, SameFlags
  <2>7. {k} \subseteq DOMAIN b.sessions
    BY <1>3, <1>7, <2>6
  <2>8. LaneOK(e, {}) /\ Asked(b, e, {b.sessions[i].sid : i \in {k}} \cap DOMAIN b.lane)
    BY <2>1, <2>5, <2>7, UpdateIs DEF v2
  <2>9. /\ e.sessions = c.sessions /\ SameFlags(c, e) /\ SameArm(c, e) /\ e.phase = "committing"
        /\ e.regions = c.regions /\ e.calls = c.calls /\ e.commit = b.commit
        /\ DOMAIN e.lane = DOMAIN c.lane /\ e.throttle = b.throttle
    BY <2>6, <2>8 DEF Asked, SameTool, SameArm, SameFlags
  <2>10. ASSUME c.sessions[k].sid \in DOMAIN c.lane PROVE e.lane[c.sessions[k].sid].value = c.value
    <3>. DEFINE s == c.sessions[k].sid
    <3>1. s \in {b.sessions[i].sid : i \in {k}} \cap DOMAIN b.lane
      BY <2>6, <2>10
    <3>2. e.lane[s] = [value |-> b.throttle.last, busy |-> TRUE,
                       queue |-> IF b.lane[s].busy THEN <<AskOf(b, s)>> ELSE b.lane[s].queue]
      BY <2>8, <3>1 DEF Asked
    <3>. QED
      BY <2>6, <3>2
  <2>11. PendingOK(e) /\ e.commit \in Commit /\ e.commit.pc = "barrier" /\ e.commit.k = k
    BY <2>3, <2>4, <2>6, <2>9 DEF PendingOK, Commit
  <2>. QED
    BY <1>7, <2>8, <2>9, <2>10, <2>11 DEF Stepped, Barred
<1>8. CASE k <= Total(c) /\ k > L /\ c.tool \in Strict
  <2>1. e = Rearm(c, k, reopened)
    BY <1>1, <1>3, <1>8 DEF v3
  <2>2. LaneOK(e, {}) /\ PendingOK(e) /\ Rearmed(c, e, k) /\ RearmedLane(c, e, k, reopened)
    BY <2>1, RearmIs
  <2>3. e.commit \in Commit
    BY <2>2 DEF Rearmed, Commit, NoCommit
  <2>. QED
    BY <1>8, <2>2, <2>3 DEF Stepped
<1>9. CASE k <= Total(c) /\ k > L /\ c.tool \notin Strict
  <2>1. e = v4
    BY <1>1, <1>3, <1>9
  <2>2. DOMAIN e = Fields /\ e.commit \in Commit /\ Called(a, e, "apply", k, c.regions[k], c.value, FALSE)
    <3>1. a.commit \in Commit /\ "apply" \in {"apply", "undo"}
      BY <1>4
    <3>2. e = Call(a, "apply", k, c.regions[k], c.value, FALSE)
      BY <2>1 DEF v4
    <3>. QED
      BY <1>4, <3>1, <3>2, CallIs
  <2>3. LaneOK(e, {}) /\ PendingOK(e)
    BY <1>5, <2>2, UntouchedOK DEF Called
  <2>4. SameArm(c, e) /\ Untouched(c, e) /\ e.phase = "committing" /\ e.regions = c.regions
        /\ e.commit.pc = "apply" /\ e.commit.k = k
    BY <1>4, <2>2 DEF Called, SameArm, Untouched, SameLane, SameFlags
  <2>5. e.calls = Append(c.calls, CallOf(c, "apply", c.regions[k], c.value, FALSE))
    <3>1. CallOf(a, "apply", c.regions[k], c.value, FALSE) = CallOf(c, "apply", c.regions[k], c.value, FALSE)
      BY <1>4 DEF CallOf, SameArm
    <3>. QED
      BY <1>4, <2>2, <3>1 DEF Called
  <2>. QED
    BY <1>9, <2>2, <2>3, <2>4, <2>5 DEF Stepped, Applied
<1>. QED
  BY <1>3, <1>6, <1>7, <1>8, <1>9

(* The barrier ends: the session is released, and either the tool is armed *)
(* again or the session is applied; one that is gone is undone.            *)
BarrierEnds(c, e, k, out, reopened) ==
  \/ /\ out \in {"bad", "stale"} \/ (out = "timeout" /\ c.tool \in Strict)
     /\ \E d : Ended(c, d, {c.sessions[k].sid}) /\ Rearmed(d, e, k) /\ RearmedLane(d, e, k, reopened)
  \/ /\ c.sessions[k].sid \in DOMAIN c.lane /\ (c.tool \in Strict => out = "good")
     /\ \E d : /\ Ended(c, d, {c.sessions[k].sid})
               /\ Called(d, e, "apply", k, c.sessions[k].region, c.lane[c.sessions[k].sid].value, out = "good")
  \/ /\ c.sessions[k].sid \notin DOMAIN c.lane /\ out \in {"good", "timeout"}
     /\ Called(c, e, "undo", k, c.sessions[k].region, 0, FALSE)

(* The barrier of the k-th region ends.                                    *)
LEMMA BarrierIs ==
    ASSUME NEW c, NEW X, LaneOK(c, X), PendingOK(c), c.regions \in Seq(Nat), c.commit \in Commit,
           c.commit.k \in DOMAIN c.sessions, c.commit.k > 0, X \subseteq {c.sessions[c.commit.k].sid},
           NEW out \in {"good", "bad", "stale", "timeout"},
           NEW reopened \in BOOLEAN, NEW e, e = Barrier(c, out, reopened)
    PROVE  LaneOK(e, {}) /\ PendingOK(e) /\ e.commit \in Commit /\ BarrierEnds(c, e, c.commit.k, out, reopened)
<1>. DEFINE k == c.commit.k
            s == c.sessions[k].sid
            r == c.sessions[k].region
            d == EndPreviews(c, {s})
            v1 == Rearm(d, k, reopened)
            v2 == Call(d, "apply", k, r, c.lane[s].value, out = "good")
            v3 == Call(c, "undo", k, r, 0, FALSE)
            back == out \in {"bad", "stale"} \/ (out = "timeout" /\ c.tool \in Strict)
<1>1. e = IF back THEN v1 ELSE IF s \in DOMAIN c.lane THEN v2 ELSE v3
  BY Zenon DEF Barrier
<1>2. LaneOK(d, X \ {s}) /\ Ended(c, d, {s})
  BY EndIs
<1>3. LaneOK(d, {})
  <2>1. X \ {s} = {}
    OBVIOUS
  <2>. HIDE DEF d
  <2>. QED
    BY <1>2, <2>1
<1>4. k \in Nat /\ k > 0
  BY DEF Commit
<1>. HIDE DEF d, v1, v2, v3
<1>5. DOMAIN d = Fields /\ d.regions \in Seq(Nat) /\ d.commit \in Commit /\ PendingOK(d)
  BY <1>2, <1>3 DEF Ended, SameTool, LaneOK, LaneShape, PendingOK
<1>6. CASE back
  <2>1. e = Rearm(d, k, reopened)
    BY <1>1, <1>6 DEF v1
  <2>2. LaneOK(e, {}) /\ PendingOK(e) /\ Rearmed(d, e, k) /\ RearmedLane(d, e, k, reopened)
    BY <1>3, <1>4, <1>5, <2>1, RearmIs
  <2>3. e.commit \in Commit
    BY <2>2 DEF Rearmed, Commit, NoCommit
  <2>. QED
    BY <1>2, <1>6, <2>2, <2>3 DEF BarrierEnds
<1>7. CASE ~back /\ s \in DOMAIN c.lane
  <2>1. e = Call(d, "apply", k, r, c.lane[s].value, out = "good")
    BY <1>1, <1>7 DEF v2
  <2>2. DOMAIN e = Fields /\ e.commit \in Commit /\ Called(d, e, "apply", k, r, c.lane[s].value, out = "good")
    <3>1. "apply" \in {"apply", "undo"}
      OBVIOUS
    <3>. HIDE DEF k, r, s
    <3>. QED
      BY <1>4, <1>5, <2>1, <3>1, CallIs
  <2>3. LaneOK(e, {}) /\ PendingOK(e)
    BY <1>3, <1>5, <2>2, UntouchedOK DEF Called
  <2>4. c.tool \in Strict => out = "good"
    BY <1>7
  <2>. QED
    BY <1>2, <1>7, <2>2, <2>3, <2>4 DEF BarrierEnds
<1>8. CASE ~back /\ s \notin DOMAIN c.lane
  <2>1. e = Call(c, "undo", k, r, 0, FALSE)
    BY <1>1, <1>8 DEF v3
  <2>2. DOMAIN e = Fields /\ e.commit \in Commit /\ Called(c, e, "undo", k, r, 0, FALSE)
    <3>1. "undo" \in {"apply", "undo"} /\ DOMAIN c = Fields
      BY DEF LaneOK, LaneShape
    <3>. HIDE DEF r
    <3>. QED
      BY <1>4, <2>1, <3>1, CallIs
  <2>3. LaneOK(c, {})
    BY <1>8 DEF LaneOK, LaneAsks
  <2>4. LaneOK(e, {}) /\ PendingOK(e)
    BY <2>2, <2>3, UntouchedOK DEF Called
  <2>5. out \in {"good", "timeout"}
    BY <1>8
  <2>. QED
    BY <1>8, <2>2, <2>4, <2>5 DEF BarrierEnds
<1>. QED
  BY <1>6, <1>7, <1>8

Hushed(q) == [i \in DOMAIN q |-> [q[i] EXCEPT !.live = FALSE]]

(* Every tool is swept, and every call superseded.                         *)
Swept(c, e) ==
  /\ e.tool = "select" /\ e.phase = "idle" /\ e.value = 0 /\ e.regions = <<>> /\ e.basis = <<>>
  /\ e.prepared = -1 /\ e.commit = NoCommit /\ e.arm = c.arm /\ e.chosen = c.chosen
  /\ e.sessions = <<>> /\ e.latch = FALSE /\ DOMAIN e.lane = DOMAIN c.lane \ SidsOf(c.sessions)
  /\ e.calls = Hushed(c.calls)

(* onToolChange leaves no session, and no call that is waited for.         *)
LEMMA SweepIs ==
    ASSUME NEW c, LaneOK(c, {}), NEW e, e = OnToolChange(c)
    PROVE  LaneOK(e, {}) /\ PendingOK(e) /\ Swept(c, e)
<1>. DEFINE d == ClosePreviewSessions(c)
            q == Hushed(d.calls)
<1>1. e = [d EXCEPT !.tool = "select", !.phase = "idle", !.value = 0, !.regions = <<>>, !.basis = <<>>,
                    !.prepared = -1, !.commit = NoCommit, !.calls = q]
  BY DEF OnToolChange, Hushed
<1>2. LaneOK(d, {} \ SidsOf(c.sessions)) /\ Closed(c, d)
  BY CloseIs
<1>. HIDE DEF d, q
<1>3. LaneOK(d, {}) /\ DOMAIN d = Fields
  <2>1. {} \ SidsOf(c.sessions) = {}
    OBVIOUS
  <2>. QED
    BY <1>2, <2>1 DEF LaneOK, LaneShape
<1>4. /\ DOMAIN e = Fields /\ e.tool = "select" /\ e.phase = "idle" /\ e.value = 0 /\ e.regions = <<>>
      /\ e.basis = <<>> /\ e.prepared = -1 /\ e.commit = NoCommit /\ e.calls = q
  BY <1>1, <1>3 DEF Fields
<1>5. /\ SameLane(d, e) /\ SameFlags(d, e) /\ e.sessions = d.sessions /\ e.throttle = d.throttle
      /\ e.arm = d.arm /\ e.chosen = d.chosen
  BY ONLY <1>1 DEF SameLane, SameFlags
<1>6. LaneOK(e, {})
  <2>1. LaneShape(e)
    <3>1. 0 \in 0 .. MaxValue
      BY LaneBounds
    <3>. QED
      BY <1>3, <1>4, <1>5, <3>1 DEF LaneOK, LaneShape, SameLane, SameFlags
  <2>2. LaneAsks(e, {})
    BY <1>3, <1>5 DEF LaneOK, LaneAsks, SameLane
  <2>. QED
    BY <2>1, <2>2 DEF LaneOK
<1>7. PendingOK(e)
  BY <1>2, <1>5 DEF PendingOK, Closed
<1>8. q = Hushed(c.calls)
  BY <1>2 DEF q, Closed, SameTool
<1>. QED
  BY <1>2, <1>4, <1>5, <1>6, <1>7, <1>8 DEF Swept, Closed, SameLane, SameFlags, SameTool

(* -- The tool, its phase and its calls ----------------------------------- *)

Record == [arm : Nat, region : Nat, ok : BOOLEAN]
Doc == [rev : Nat, recs : Seq(Record)]
CallRec == [kind : {"apply", "undo"}, tool : Tools, arm : Nat, region : Nat, value : Nat, approved : BOOLEAN,
            live : BOOLEAN, answer : {"none", "ok", "failed", "refused"}, doc : Doc]

ToolOK(c) ==
  /\ c.tool \in Tools \cup {"select"} /\ c.arm \in 0 .. MaxArms /\ c.chosen \in Nat
  /\ c.regions \in Seq(Nat) /\ c.commit \in Commit
  /\ c.tool \notin Multi \cup {"select"} => c.regions = <<1>>
  /\ c.tool \notin Multi => DOMAIN c.sessions \subseteq {1}

PhaseOK(c) ==
  /\ c.phase \in {"idle", "waiting", "axisPick", "armed", "committing"}
  /\ c.phase = "idle" <=> c.tool = "select"
  /\ c.phase = "committing" <=> c.commit.pc # "none"
  /\ c.phase \notin {"armed", "committing"} => c.sessions = <<>>
  /\ c.phase = "axisPick" => c.tool = "revolve"
  /\ c.commit.pc \in {"record", "loading"} => c.tool \in Multi
  /\ c.commit.pc \in {"barrier", "apply", "undo"} => c.commit.k > 0
  /\ c.commit.pc = "barrier" => c.commit.k \in DOMAIN c.sessions

(* Nobody waits for the calls of q, or only the commit for the last one.   *)
Quiet(q) == q \in Seq(CallRec) /\ \A i \in DOMAIN q : ~q[i].live
Awaits(q, c) ==
  /\ q \in Seq(CallRec) /\ q # <<>>
  /\ \A i \in DOMAIN q : q[i].live <=> i = Len(q)
  /\ q[Len(q)].kind = c.commit.pc /\ q[Len(q)].arm = c.arm /\ q[Len(q)].tool = c.tool

CallsOK(c) == IF c.commit.pc \in {"apply", "undo"} THEN Awaits(c.calls, c) ELSE Quiet(c.calls)

Control(c) == ToolOK(c) /\ PhaseOK(c) /\ CallsOK(c)
Base(c) == LaneOK(c, {}) /\ PendingOK(c) /\ Control(c)

(* A list over no places is empty.                                         *)
LEMMA EmptyBy ==
    ASSUME NEW S, NEW q \in Seq(S), DOMAIN q = {}
    PROVE  q = <<>>
<1>. DEFINE n == Len(q)
<1>1. n \in Nat /\ 1 .. n = {}
  BY LenProperties
<1>. HIDE DEF n
<1>2. n = 0
  BY <1>1
<1>. QED
  BY <1>2, EmptySeq DEF n

(* What the lane does leaves them alone.                                   *)
LEMMA MovesControl ==
    ASSUME NEW c, Control(c), NEW e, NEW X, LaneOK(e, X), Moves(c, e)
    PROVE  Control(e)
<1>1. SameTool(c, e) /\ DOMAIN e.sessions = DOMAIN c.sessions
  BY DEF Moves, SameSessions
<1>2. c.sessions = <<>> => e.sessions = <<>>
  <2>. SUFFICES ASSUME c.sessions = <<>> PROVE e.sessions = <<>>
    OBVIOUS
  <2>1. DOMAIN e.sessions = {}
    BY <1>1
  <2>2. e.sessions \in Seq(Session)
    BY DEF LaneOK, LaneShape
  <2>. QED
    BY <2>1, <2>2, EmptyBy
<1>3. ToolOK(e)
  BY <1>1 DEF Control, ToolOK, SameTool
<1>4. PhaseOK(e)
  BY <1>1, <1>2 DEF Control, PhaseOK, SameTool
<1>5. CallsOK(e)
  BY <1>1 DEF Control, CallsOK, Awaits, SameTool
<1>. QED
  BY <1>3, <1>4, <1>5 DEF Control

(* Calls nobody waits for any more.                                        *)
LEMMA HushedIs ==
    ASSUME NEW q \in Seq(CallRec), NEW p, p = Hushed(q)
    PROVE  /\ Quiet(p) /\ DOMAIN p = DOMAIN q
           /\ \A i \in DOMAIN q : p[i].kind = q[i].kind /\ p[i].tool = q[i].tool
                                  /\ p[i].approved = q[i].approved
<1>1. Len(q) \in Nat /\ DOMAIN q = 1 .. Len(q) /\ \A i \in DOMAIN q : q[i] \in CallRec
  BY LenProperties, ElementOfSeq
<1>2. DOMAIN p = DOMAIN q
  BY DEF Hushed
<1>3. ASSUME NEW i \in DOMAIN q
      PROVE  /\ p[i] \in CallRec /\ p[i].live = FALSE /\ p[i].kind = q[i].kind /\ p[i].tool = q[i].tool
             /\ p[i].approved = q[i].approved
  <2>. DEFINE r == [q[i] EXCEPT !.live = FALSE]
  <2>1. q[i] \in CallRec
    BY <1>1
  <2>2. r \in CallRec /\ r.live = FALSE /\ r.kind = q[i].kind /\ r.tool = q[i].tool /\ r.approved = q[i].approved
    BY <2>1 DEF CallRec
  <2>3. p[i] = r
    BY DEF Hushed
  <2>. HIDE DEF r
  <2>. QED
    BY ONLY <2>2, <2>3
<1>4. p \in [1 .. Len(q) -> CallRec]
  <2>1. p = [i \in DOMAIN p |-> p[i]]
    BY Zenon DEF Hushed
  <2>. QED
    BY <1>1, <1>2, <1>3, <2>1
<1>5. p \in Seq(CallRec)
  BY <1>1, <1>4, TableIsSeq
<1>. QED
  BY <1>2, <1>3, <1>5 DEF Quiet

(* A tool that was left is in control.                                     *)
LEMMA SweptControl ==
    ASSUME NEW c, c.calls \in Seq(CallRec), c.arm \in 0 .. MaxArms, c.chosen \in Nat, NEW e, Swept(c, e)
    PROVE  Control(e)
<1>1. Quiet(e.calls)
  BY HushedIs DEF Swept
<1>2. ToolOK(e)
  <2>1. NoCommit \in Commit
    BY DEF NoCommit, Commit
  <2>2. <<>> \in Seq(Nat) /\ DOMAIN <<>> = {}
    OBVIOUS
  <2>. QED
    BY <2>1, <2>2 DEF ToolOK, Swept
<1>3. PhaseOK(e) /\ e.commit.pc = "none"
  <2>1. NoCommit.pc = "none"
    BY DEF NoCommit
  <2>. QED
    BY <2>1 DEF PhaseOK, Swept
<1>. QED
  BY <1>1, <1>2, <1>3 DEF Control, CallsOK

(* The sessions of a tool that has but one stay so over a re-arm.          *)
LEMMA RearmedControl ==
    ASSUME NEW c, ToolOK(c), c.tool # "select", Quiet(c.calls), NEW k \in Nat, k > 0, NEW reopened,
           NEW e, LaneOK(e, {}), Rearmed(c, e, k), RearmedLane(c, e, k, reopened)
    PROVE  Control(e)
<1>1. e.tool = c.tool /\ e.arm = c.arm /\ e.chosen = c.chosen /\ e.phase = "armed" /\ e.commit = NoCommit
      /\ e.calls = c.calls
  BY DEF Rearmed, SameArm
<1>2. NoCommit \in Commit /\ NoCommit.pc = "none"
  BY DEF NoCommit, Commit
<1>3. e.regions \in Seq(Nat)
  <2>1. Len(c.regions) \in Nat /\ c.regions \in Seq(Nat)
    BY LenProperties DEF ToolOK
  <2>2. SubSeq(c.regions, k, Len(c.regions)) \in Seq(Nat)
    BY <2>1
  <2>. QED
    BY <2>1, <2>2 DEF Rearmed
<1>4. ASSUME c.tool \notin Multi
      PROVE  e.regions = <<1>> /\ DOMAIN e.sessions \subseteq {1}
  <2>1. c.regions = <<1>> /\ c.tool # "revolve" /\ c.tool # "extrude"
    BY <1>4 DEF ToolOK, Multi
  <2>2. e.regions = <<1>>
    BY <2>1 DEF Rearmed
  <2>3. Reopened(c, e) \/ e.sessions = <<>>
    BY <1>4, <2>1 DEF RearmedLane
  <2>4. DOMAIN <<1>> = {1} /\ DOMAIN <<>> = {}
    OBVIOUS
  <2>. QED
    BY <2>1, <2>2, <2>3, <2>4 DEF Reopened
<1>5. ToolOK(e)
  BY <1>1, <1>2, <1>3, <1>4 DEF ToolOK
<1>6. PhaseOK(e)
  BY <1>1, <1>2 DEF PhaseOK
<1>. QED
  BY <1>1, <1>2, <1>5, <1>6 DEF Control, CallsOK

(* The commit sends a call and waits for it.                               *)
Speaks(c, e, kind, k, region, value, approved) ==
  /\ SameArm(c, e) /\ DOMAIN e.sessions = DOMAIN c.sessions /\ e.phase = "committing" /\ e.regions = c.regions
  /\ e.commit.pc = kind /\ e.commit.k = k
  /\ e.calls = Append(c.calls, CallOf(c, kind, region, value, approved))

(* So is a commit that sends its call,                                     *)
LEMMA SpeaksControl ==
    ASSUME NEW c, ToolOK(c), c.tool # "select", Quiet(c.calls), NEW k \in Nat, k > 0, NEW region \in Nat,
           NEW value \in Nat, NEW approved \in BOOLEAN, NEW kind \in {"apply", "undo"},
           NEW e, e.commit \in Commit, Speaks(c, e, kind, k, region, value, approved)
    PROVE  Control(e)
<1>. DEFINE call == CallOf(c, kind, region, value, approved)
<1>1. e.tool = c.tool /\ e.arm = c.arm /\ e.chosen = c.chosen /\ e.phase = "committing" /\ e.regions = c.regions
      /\ e.commit.pc = kind /\ e.commit.k = k /\ e.calls = Append(c.calls, call)
      /\ DOMAIN e.sessions = DOMAIN c.sessions
  BY DEF Speaks, SameArm
<1>2. /\ call \in CallRec /\ call.live = TRUE /\ call.kind = kind /\ call.arm = c.arm /\ call.tool = c.tool
  <2>1. c.tool \in Tools /\ c.arm \in Nat
    BY DEF ToolOK
  <2>2. [rev |-> 0, recs |-> <<>>] \in Doc
    BY DEF Doc
  <2>. QED
    BY <2>1, <2>2 DEF CallOf, CallRec
<1>. HIDE DEF call
<1>3. ToolOK(e)
  BY <1>1 DEF ToolOK
<1>4. PhaseOK(e)
  BY <1>1 DEF PhaseOK
<1>5. Awaits(e.calls, e)
  <2>. DEFINE n == Len(c.calls)
  <2>1. c.calls \in Seq(CallRec) /\ n \in Nat /\ DOMAIN c.calls = 1 .. n
    BY LenProperties DEF Quiet
  <2>2. e.calls \in Seq(CallRec) /\ Len(e.calls) = n + 1 /\ e.calls # <<>>
    BY <1>1, <1>2, <2>1
  <2>3. DOMAIN e.calls = 1 .. (n + 1)
    BY <2>2, LenProperties
  <2>4. e.calls[n + 1] = call /\ \A i \in 1 .. n : e.calls[i] = c.calls[i]
    BY <1>1, <1>2, <2>1
  <2>. HIDE DEF n
  <2>5. ASSUME NEW i \in DOMAIN e.calls PROVE e.calls[i].live <=> i = n + 1
    <3>1. CASE i = n + 1
      BY <1>2, <2>4, <3>1
    <3>2. CASE i # n + 1
      <4>1. i \in 1 .. n
        BY <2>1, <2>3, <3>2
      <4>. QED
        BY <2>1, <2>4, <3>2, <4>1 DEF Quiet
    <3>. QED
      BY <3>1, <3>2
  <2>. QED
    BY <1>1, <1>2, <2>2, <2>4, <2>5 DEF Awaits
<1>. QED
  BY <1>1, <1>3, <1>4, <1>5 DEF Control, CallsOK

(* one that takes a step of its loop,                                      *)
LEMMA SteppedControl ==
    ASSUME NEW c, ToolOK(c), c.tool # "select", Quiet(c.calls), LaneOK(c, {}), NEW k \in Nat, k > 0,
           k = 1 \/ c.tool \in Multi, c.tool \in Multi => c.phase = "committing",
           NEW reopened, NEW e, LaneOK(e, {}), e.commit \in Commit, Stepped(c, e, k, reopened)
    PROVE  Control(e)
<1>1. c.sessions \in Seq(Session) /\ Len(c.sessions) \in Nat /\ DOMAIN c.sessions = 1 .. Len(c.sessions)
  BY LenProperties DEF LaneOK, LaneShape
<1>2. CASE k > Total(c) /\ Loads(c, e)
  <2>1. c.tool \in Multi
    BY <1>2 DEF Total, Multi
  <2>2. e.tool = c.tool /\ e.arm = c.arm /\ e.chosen = c.chosen /\ e.phase = "committing"
        /\ e.regions = c.regions /\ e.commit.pc = "loading" /\ e.calls = c.calls
    BY <1>2, <2>1 DEF Loads, SameArm
  <2>3. ToolOK(e)
    BY <2>1, <2>2 DEF ToolOK
  <2>4. PhaseOK(e)
    BY <2>1, <2>2 DEF PhaseOK
  <2>. QED
    BY <2>2, <2>3, <2>4 DEF Control, CallsOK
<1>3. CASE Barred(c, e, k)
  <2>1. e.tool = c.tool /\ e.arm = c.arm /\ e.chosen = c.chosen /\ e.phase = "committing"
        /\ e.regions = c.regions /\ e.commit.pc = "barrier" /\ e.commit.k = k /\ e.calls = c.calls
        /\ e.sessions = c.sessions /\ k \in DOMAIN c.sessions
    BY <1>1, <1>3 DEF Barred, SameArm
  <2>2. ToolOK(e)
    BY <2>1 DEF ToolOK
  <2>3. PhaseOK(e)
    BY <2>1 DEF PhaseOK
  <2>. QED
    BY <2>1, <2>2, <2>3 DEF Control, CallsOK
<1>4. CASE Rearmed(c, e, k) /\ RearmedLane(c, e, k, reopened)
  BY <1>4, RearmedControl
<1>5. CASE k <= Total(c) /\ Applied(c, e, k)
  <2>1. c.regions[k] \in Nat
    <3>1. c.regions \in Seq(Nat) /\ Len(c.regions) \in Nat /\ DOMAIN c.regions = 1 .. Len(c.regions)
      BY LenProperties DEF ToolOK
    <3>2. CASE c.tool = "revolve"
      <4>1. k \in DOMAIN c.regions
        BY <1>5, <3>1, <3>2 DEF Total
      <4>. QED
        BY <3>1, <4>1, ElementOfSeq
    <3>3. c.tool # "extrude"
      BY <1>1, <1>5 DEF Total, Applied
    <3>4. CASE c.tool \notin Multi
      BY <3>4 DEF ToolOK
    <3>. QED
      BY <3>2, <3>3, <3>4 DEF Multi
  <2>2. c.value \in Nat /\ FALSE \in BOOLEAN /\ "apply" \in {"apply", "undo"}
    BY LaneBounds DEF LaneOK, LaneShape
  <2>3. Speaks(c, e, "apply", k, c.regions[k], c.value, FALSE)
    BY <1>5 DEF Applied, Speaks, Untouched
  <2>. QED
    BY <2>1, <2>2, <2>3, SpeaksControl
<1>. QED
  BY <1>2, <1>3, <1>4, <1>5 DEF Stepped

(* and one whose barrier ends.                                             *)
LEMMA BarrierControl ==
    ASSUME NEW c, NEW X, LaneOK(c, X), Control(c), c.commit.pc = "barrier", NEW out,
           NEW reopened, NEW e, LaneOK(e, {}), e.commit \in Commit, BarrierEnds(c, e, c.commit.k, out, reopened)
    PROVE  Control(e)
<1>. DEFINE k == c.commit.k
            s == c.sessions[k].sid
<1>1. k \in Nat /\ k > 0 /\ k \in DOMAIN c.sessions /\ Quiet(c.calls) /\ c.tool # "select"
      /\ c.phase = "committing" /\ ToolOK(c)
  BY DEF Control, ToolOK, PhaseOK, CallsOK, Commit
<1>2. c.sessions[k] \in Session /\ c.sessions[k].region \in Nat
  <2>1. c.sessions \in Seq(Session)
    BY DEF LaneOK, LaneShape
  <2>2. c.sessions[k] \in Session
    BY <1>1, <2>1, ElementOfSeq, LenProperties
  <2>. QED
    BY <2>2 DEF Session
<1>. HIDE DEF k
<1>3. ASSUME NEW d, Ended(c, d, {s})
      PROVE  ToolOK(d) /\ d.tool = c.tool /\ d.calls = c.calls /\ d.phase = c.phase
  BY <1>1, <1>3 DEF ToolOK, Ended, SameTool
<1>4. CASE \E d : Ended(c, d, {s}) /\ Rearmed(d, e, k) /\ RearmedLane(d, e, k, reopened)
  <2>1. PICK d : Ended(c, d, {s}) /\ Rearmed(d, e, k) /\ RearmedLane(d, e, k, reopened)
    BY <1>4
  <2>2. ToolOK(d) /\ d.tool # "select" /\ Quiet(d.calls)
    BY <1>1, <1>3, <2>1
  <2>. QED
    BY <1>1, <2>1, <2>2, RearmedControl
<1>5. CASE /\ s \in DOMAIN c.lane
           /\ \E d : Ended(c, d, {s}) /\ Called(d, e, "apply", k, c.sessions[k].region, c.lane[s].value, out = "good")
  <2>1. PICK d : Ended(c, d, {s}) /\ Called(d, e, "apply", k, c.sessions[k].region, c.lane[s].value, out = "good")
    BY <1>5
  <2>2. ToolOK(d) /\ d.tool # "select" /\ Quiet(d.calls) /\ d.phase = "committing"
    BY <1>1, <1>3, <2>1
  <2>. DEFINE v == c.lane[s].value
              b == out = "good"
  <2>3. v \in Nat /\ b \in BOOLEAN /\ "apply" \in {"apply", "undo"}
    <3>1. c.lane[s] \in Slot
      BY <1>5 DEF LaneOK, LaneShape
    <3>. QED
      BY <3>1 DEF Slot
  <2>4. Called(d, e, "apply", k, c.sessions[k].region, v, b)
    BY <2>1
  <2>. HIDE DEF v, b
  <2>5. Speaks(d, e, "apply", k, c.sessions[k].region, v, b)
    BY <2>2, <2>4 DEF Called, Speaks, Untouched
  <2>. QED
    BY <1>1, <1>2, <2>2, <2>3, <2>5, SpeaksControl
<1>6. CASE Called(c, e, "undo", k, c.sessions[k].region, 0, FALSE)
  <2>1. 0 \in Nat /\ FALSE \in BOOLEAN /\ "undo" \in {"apply", "undo"}
    OBVIOUS
  <2>2. Speaks(c, e, "undo", k, c.sessions[k].region, 0, FALSE)
    BY <1>1, <1>6 DEF Called, Speaks, Untouched
  <2>. QED
    BY <1>1, <1>2, <2>1, <2>2, SpeaksControl
<1>. QED
  BY <1>4, <1>5, <1>6 DEF BarrierEnds, k

(* -- The actions, one by one --------------------------------------------- *)

(* The first of a queue goes.                                              *)
Rest(p, q) == Len(q) > 0 /\ Len(p) = Len(q) - 1 /\ \A i \in DOMAIN p : i + 1 \in DOMAIN q /\ p[i] = q[i + 1]

(* The tail of a queue, by its places.                                     *)
LEMMA TailIs ==
    ASSUME NEW S, NEW q \in Seq(S), q # <<>>
    PROVE  /\ Head(q) \in S /\ Head(q) = q[1] /\ 1 \in DOMAIN q
           /\ Tail(q) \in Seq(S) /\ Rest(Tail(q), q)
<1>. DEFINE n == Len(q)
            p == Tail(q)
<1>1. n \in Nat \ {0} /\ DOMAIN q = 1 .. n
  BY EmptySeq, LenProperties
<1>2. Head(q) \in S /\ p \in Seq(S) /\ Len(p) = n - 1 /\ \A i \in 1 .. Len(p) : p[i] = q[i + 1]
  BY HeadTailProperties
<1>3. Head(q) = q[1]
  OBVIOUS
<1>4. DOMAIN p = 1 .. Len(p)
  BY <1>2, LenProperties
<1>. HIDE DEF p, n
<1>5. \A i \in DOMAIN p : i + 1 \in 1 .. n
  BY <1>1, <1>2, <1>4
<1>. QED
  BY <1>1, <1>2, <1>3, <1>4, <1>5 DEF Rest, n, p

(* The kernel has just answered the first question.                        *)
LEMMA TakenIs ==
    ASSUME NEW c, LaneOK(c, {}), c.kernel # <<>>, NEW a, a = [c EXCEPT !.kernel = Tail(@)]
    PROVE  /\ Head(c.kernel) \in Ask /\ LaneOK(a, {Head(c.kernel).sid})
           /\ SameTool(c, a) /\ a.sessions = c.sessions /\ a.lane = c.lane /\ a.throttle = c.throttle
           /\ SameFlags(c, a)
<1>. DEFINE s == Head(c.kernel).sid
            q == c.kernel
            p == Tail(q)
<1>1. q \in Seq(Ask) /\ DOMAIN c = Fields
  BY DEF LaneOK, LaneShape
<1>2. Head(q) \in Ask /\ Head(q) = q[1] /\ 1 \in DOMAIN q /\ p \in Seq(Ask) /\ Rest(p, q)
  BY <1>1, TailIs
<1>3. DOMAIN a = Fields /\ a.kernel = p
  BY <1>1 DEF Fields
<1>4. SameTool(c, a) /\ a.sessions = c.sessions /\ a.lane = c.lane /\ a.throttle = c.throttle /\ SameFlags(c, a)
  BY DEF SameTool, SameFlags
<1>. HIDE DEF p
<1>5. LaneShape(a)
  BY <1>2, <1>3, <1>4 DEF LaneOK, LaneShape, SameTool, SameFlags
<1>6. \A i \in DOMAIN p : i \in Nat /\ i > 0
  <2>. DEFINE m == Len(p)
  <2>1. m \in Nat /\ DOMAIN p = 1 .. m
    BY <1>2, LenProperties
  <2>. HIDE DEF m
  <2>. QED
    BY <2>1
<1>7. \A i, j \in DOMAIN q : q[i].sid = q[j].sid => i = j
  BY DEF LaneOK, LaneAsks
<1>8. ASSUME NEW i \in DOMAIN p PROVE i + 1 \in DOMAIN q /\ p[i] = q[i + 1] /\ p[i].sid # s
  <2>1. i + 1 \in DOMAIN q /\ p[i] = q[i + 1]
    BY <1>2 DEF Rest
  <2>2. i + 1 # 1
    BY <1>6
  <2>. QED
    BY <1>2, <1>7, <2>1, <2>2
<1>9. \A i, j \in DOMAIN p : p[i].sid = p[j].sid => i = j
  <2>. SUFFICES ASSUME NEW i \in DOMAIN p, NEW j \in DOMAIN p, p[i].sid = p[j].sid PROVE i = j
    OBVIOUS
  <2>1. i + 1 = j + 1
    BY <1>7, <1>8
  <2>. QED
    BY <1>6, <2>1
<1>10. \A j \in DOMAIN p : p[j].sid \in DOMAIN c.lane \ {s} /\ c.lane[p[j].sid].busy
  BY <1>8 DEF LaneOK, LaneAsks
<1>11. ASSUME NEW r \in DOMAIN c.lane, c.lane[r].busy, r # s
       PROVE  \E j \in DOMAIN p : p[j].sid = r
  <2>1. PICK i \in DOMAIN q : q[i].sid = r
    BY <1>11 DEF LaneOK, LaneAsks
  <2>2. i # 1
    BY <1>2, <1>11, <2>1
  <2>3. i - 1 \in DOMAIN p /\ (i - 1) + 1 = i
    <3>. DEFINE n == Len(q)
                m == Len(p)
    <3>1. n \in Nat /\ DOMAIN q = 1 .. n /\ m \in Nat /\ DOMAIN p = 1 .. m /\ m = n - 1
      BY <1>1, <1>2, LenProperties DEF Rest
    <3>. HIDE DEF n, m
    <3>2. i \in 1 .. n
      BY <3>1
    <3>. QED
      BY <2>2, <3>1, <3>2
  <2>. QED
    BY <1>8, <2>1, <2>3
<1>12. s \in DOMAIN c.lane => c.lane[s].busy
  BY <1>2 DEF LaneOK, LaneAsks
<1>13. LaneAsks(a, {s})
  <2>. HIDE DEF s
  <2>1. a.kernel = p /\ a.lane = c.lane
    BY <1>3, <1>4
  <2>. QED
    BY ONLY <1>9, <1>10, <1>11, <1>12, <2>1 DEF LaneAsks
<1>. QED
  BY <1>2, <1>4, <1>5, <1>13 DEF LaneOK

(* An answer moves the lane, and may end the barrier.                      *)
Paced(c, d) == Moves(c, d) /\ (LatchOK(c) => LatchOK(d))
Answered(c, e, out, reopened) ==
  \/ Paced(c, e)
  \/ /\ c.commit.pc = "barrier"
     /\ \E d : Paced(c, d) /\ LaneShape(d) /\ BarrierEnds(d, e, c.commit.k, out, reopened)

(* The kernel answers, in the barrier or out of it.                        *)
LEMMA AnswerIs ==
    ASSUME NEW c, Base(c), c.kernel # <<>>, NEW out \in {"good", "bad", "stale"}, NEW reopened \in BOOLEAN,
           NEW a, a = [c EXCEPT !.kernel = Tail(@)],
           NEW d, d = OnPreviewResult(a, Head(c.kernel), out),
           NEW e, e = IF Waits(c, Head(c.kernel)) THEN Barrier(d, out, reopened) ELSE PopQueue(d, Head(c.kernel).sid)
    PROVE  Base(e) /\ Answered(c, e, out, reopened)
<1>. DEFINE ask == Head(c.kernel)
            s == ask.sid
<1>1. /\ ask \in Ask /\ LaneOK(a, {s}) /\ SameTool(c, a) /\ a.sessions = c.sessions /\ a.lane = c.lane
      /\ a.throttle = c.throttle /\ SameFlags(c, a)
  BY TakenIs DEF Base
<1>2. PendingOK(a) /\ (LatchOK(c) => LatchOK(a))
  BY <1>1 DEF Base, PendingOK, LatchOK, Failing, SameTool, SameFlags
<1>. HIDE DEF ask
<1>3. LaneOK(d, {s}) /\ Moves(a, d) /\ (LatchOK(a) => LatchOK(d))
  BY <1>1, <1>2, ResultIs DEF ask
<1>4. Moves(c, d)
  BY ONLY <1>1, <1>3 DEF Moves, SameTool, SameSessions
<1>5. Paced(c, d) /\ PendingOK(d)
  BY <1>2, <1>3, <1>4 DEF Paced, Moves
<1>6. Control(d)
  BY <1>3, <1>4, MovesControl DEF Base
<1>7. CASE Waits(c, ask)
  <2>. DEFINE k == d.commit.k
  <2>1. c.commit.pc = "barrier" /\ s = c.sessions[c.commit.k].sid /\ d.commit = c.commit
    BY <1>4, <1>7 DEF Waits, Moves, SameTool
  <2>2. k \in DOMAIN d.sessions /\ k > 0 /\ d.regions \in Seq(Nat) /\ d.commit \in Commit
    BY <1>6, <2>1 DEF Control, PhaseOK, ToolOK
  <2>3. {s} \subseteq {d.sessions[k].sid}
    BY <1>4, <2>1, <2>2 DEF Moves, SameSessions
  <2>4. out \in {"good", "bad", "stale", "timeout"}
    OBVIOUS
  <2>5. e = Barrier(d, out, reopened)
    BY <1>7 DEF ask
  <2>6. LaneOK(e, {}) /\ PendingOK(e) /\ e.commit \in Commit /\ BarrierEnds(d, e, k, out, reopened)
    BY <1>3, <1>5, <2>2, <2>3, <2>4, <2>5, BarrierIs
  <2>7. Control(e)
    BY <1>3, <1>6, <2>1, <2>6, BarrierControl
  <2>8. LaneShape(d)
    BY <1>3 DEF LaneOK
  <2>9. BarrierEnds(d, e, c.commit.k, out, reopened)
    BY <2>1, <2>6
  <2>. QED
    BY <1>5, <2>1, <2>6, <2>7, <2>8, <2>9 DEF Base, Answered
<1>8. CASE ~Waits(c, ask)
  <2>1. e = PopQueue(d, s)
    BY <1>8 DEF ask
  <2>2. LaneOK(e, {}) /\ Moves(d, e) /\ e.sessions = d.sessions /\ SameFlags(d, e)
    BY <1>3, <1>5, <2>1, PopIs
  <2>3. Moves(c, e)
    BY <1>4, <2>2, MovesTrans
  <2>4. LatchOK(d) => LatchOK(e)
    BY <2>2 DEF LatchOK, Failing, SameFlags
  <2>5. Control(e) /\ PendingOK(e)
    BY <2>2, <2>3, MovesControl DEF Base, Moves
  <2>. QED
    BY <1>5, <2>2, <2>3, <2>4, <2>5 DEF Base, Answered, Paced
<1>. QED
  BY <1>7, <1>8

(* The barrier runs out.                                                   *)
LEMMA TimeoutIs ==
    ASSUME NEW c, Base(c), c.commit.pc = "barrier", NEW reopened \in BOOLEAN,
           NEW e, e = Barrier(c, "timeout", reopened)
    PROVE  Base(e) /\ BarrierEnds(c, e, c.commit.k, "timeout", reopened)
<1>1. /\ LaneOK(c, {}) /\ PendingOK(c) /\ Control(c) /\ c.commit.k \in DOMAIN c.sessions /\ c.commit.k > 0
      /\ c.regions \in Seq(Nat) /\ c.commit \in Commit
  BY DEF Base, Control, PhaseOK, ToolOK
<1>2. {} \subseteq {c.sessions[c.commit.k].sid} /\ "timeout" \in {"good", "bad", "stale", "timeout"}
  OBVIOUS
<1>3. LaneOK(e, {}) /\ PendingOK(e) /\ e.commit \in Commit /\ BarrierEnds(c, e, c.commit.k, "timeout", reopened)
  BY <1>1, <1>2, BarrierIs
<1>4. Control(e)
  BY <1>1, <1>3, BarrierControl
<1>. QED
  BY <1>3, <1>4 DEF Base

(* A tool is armed with a session per region.                              *)
Arms(c, e) ==
  /\ e.tool = c.tool /\ e.value = c.value /\ e.regions = c.regions /\ e.basis = c.basis /\ e.commit = c.commit
  /\ e.arm = c.arm /\ e.chosen = c.chosen /\ e.calls = c.calls
  /\ e.phase = "armed" /\ Reopened(c, e)

(* The sessions of a tool that waited are opened.                          *)
LEMMA ArmsIs ==
    ASSUME NEW c, Base(c), c.tool # "select", c.commit.pc = "none",
           NEW a, DOMAIN a = Fields, Untouched(c, a), a.phase = "armed",
           a.tool = c.tool, a.regions = c.regions, a.basis = c.basis, a.commit = c.commit,
           a.arm = c.arm, a.chosen = c.chosen, a.calls = c.calls,
           NEW e, e = OpenSessions(a, c.regions)
    PROVE  Base(e) /\ Arms(c, e)
<1>1. LaneOK(a, {})
  BY UntouchedOK DEF Base
<1>2. c.regions \in Seq(Nat)
  BY DEF Base, Control, ToolOK
<1>3. LaneOK(e, {}) /\ Opened(a, e, c.regions)
  BY <1>1, <1>2, OpenIs
<1>4. Arms(c, e)
  BY <1>3 DEF Opened, Arms, Reopened, SameTool, Untouched, SameLane
<1>5. PendingOK(e)
  BY <1>3 DEF Opened
<1>6. ToolOK(e)
  <2>1. e.tool \notin Multi => DOMAIN e.sessions \subseteq {1}
    <3>1. DOMAIN <<1>> = {1}
      OBVIOUS
    <3>. QED
      BY <1>4, <3>1 DEF Arms, Reopened, Base, Control, ToolOK
  <2>. QED
    BY <1>4, <2>1 DEF Arms, Base, Control, ToolOK
<1>7. PhaseOK(e)
  BY <1>4 DEF Arms, Base, Control, PhaseOK
<1>8. CallsOK(e)
  BY <1>4 DEF Arms, Base, Control, CallsOK
<1>. QED
  BY <1>3, <1>4, <1>5, <1>6, <1>7, <1>8 DEF Base, Control

(* A tool is chosen: what was armed is swept, and it arms at once or waits *)
(* for what it has asked.                                                  *)
AtOnce == {"shell", "boolean", "hole"}
Starts(c, e, t, regions, basis) ==
  /\ e.tool = t /\ e.value = 1 /\ e.regions = regions /\ e.basis = basis /\ e.commit = NoCommit
  /\ e.chosen = Len(regions) /\ e.arm = c.arm + 1 /\ e.latch = FALSE /\ Blank(e.sessions)
  /\ e.calls = Hushed(c.calls)
  /\ DOMAIN e.lane = (DOMAIN c.lane \ SidsOf(c.sessions)) \cup SidsOf(e.sessions)
  /\ IF t \in AtOnce
       THEN /\ e.phase = "armed" /\ DOMAIN e.sessions = DOMAIN regions
            /\ \A i \in DOMAIN regions : e.sessions[i].region = regions[i]
       ELSE e.phase = "waiting" /\ e.sessions = <<>>

(* The regions a tool starts with.                                         *)
LEMMA SubjectsAre ==
    ASSUME NEW t, NEW regions \in Subjects(t)
    PROVE  regions \in Seq(Nat) /\ Len(regions) \in Nat /\ (t \notin Multi => regions = <<1>>)
<1>1. CASE t \in Multi
  <2>1. PICK n \in 1 .. MaxRegions : regions = [i \in 1 .. n |-> i]
    BY <1>1 DEF Subjects
  <2>2. n \in Nat
    BY LaneBounds
  <2>3. regions \in [1 .. n -> Nat]
    BY <2>1, <2>2
  <2>. QED
    BY <1>1, <2>2, <2>3, TableIsSeq
<1>2. CASE t \notin Multi
  <2>1. regions = <<1>>
    BY <1>2 DEF Subjects
  <2>2. <<1>> \in Seq(Nat) /\ Len(<<1>>) = 1
    OBVIOUS
  <2>. QED
    BY <2>1, <2>2
<1>. QED
  BY <1>1, <1>2

(* A tool is started.                                                      *)
LEMMA SetToolIs ==
    ASSUME NEW c, Base(c), NEW t \in Tools, NEW regions \in Subjects(t), c.arm < MaxArms, NEW basis,
           NEW a, a = [OnToolChange(c) EXCEPT !.tool = t, !.value = 1, !.regions = regions, !.arm = @ + 1,
                                              !.chosen = Len(regions), !.basis = basis],
           NEW e, e = IF t \in AtOnce THEN OpenSessions([a EXCEPT !.phase = "armed"], regions)
                      ELSE [a EXCEPT !.phase = "waiting"]
    PROVE  Base(e) /\ Starts(c, e, t, regions, basis)
<1>. DEFINE d == OnToolChange(c)
            q == Hushed(c.calls)
<1>1. LaneOK(d, {}) /\ PendingOK(d) /\ Swept(c, d)
  BY SweepIs DEF Base
<1>2. c.calls \in Seq(CallRec) /\ c.arm \in 0 .. MaxArms
  BY DEF Base, Control, ToolOK, CallsOK, Awaits, Quiet
<1>3. Quiet(q)
  BY <1>2, HushedIs
<1>4. regions \in Seq(Nat) /\ Len(regions) \in Nat /\ (t \notin Multi => regions = <<1>>)
  BY SubjectsAre
<1>5. t # "select" /\ t \in Tools
  BY LaneBounds
<1>. HIDE DEF d
<1>6. DOMAIN d = Fields /\ d.sessions = <<>> /\ d.latch = FALSE /\ d.calls = q /\ d.commit = NoCommit /\ d.arm = c.arm
      /\ DOMAIN d.lane = DOMAIN c.lane \ SidsOf(c.sessions)
  BY <1>1 DEF LaneOK, LaneShape, Swept
<1>. HIDE DEF q
<1>7. /\ DOMAIN a = Fields /\ a.tool = t /\ a.value = 1 /\ a.regions = regions /\ a.arm = c.arm + 1
      /\ a.chosen = Len(regions) /\ a.basis = basis
  <2>1. a = [d EXCEPT !.tool = t, !.value = 1, !.regions = regions, !.arm = d.arm + 1,
                      !.chosen = Len(regions), !.basis = basis]
    BY DEF d
  <2>. QED
    BY ONLY <1>6, <2>1 DEF Fields
<1>8. SameLane(d, a) /\ SameFlags(d, a) /\ a.sessions = d.sessions /\ a.throttle = d.throttle
      /\ a.commit = d.commit /\ a.calls = d.calls
  <2>1. a = [d EXCEPT !.tool = t, !.value = 1, !.regions = regions, !.arm = d.arm + 1,
                      !.chosen = Len(regions), !.basis = basis]
    BY DEF d
  <2>. QED
    BY ONLY <2>1 DEF SameLane, SameFlags
<1>9. LaneOK(a, {})
  <2>1. LaneShape(a)
    <3>1. 1 \in 0 .. MaxValue
      BY LaneBounds
    <3>. QED
      BY ONLY <1>1, <1>7, <1>8, <3>1 DEF LaneOK, LaneShape, SameLane, SameFlags
  <2>2. LaneAsks(a, {})
    BY ONLY <1>1, <1>8 DEF LaneOK, LaneAsks, SameLane
  <2>. QED
    BY <2>1, <2>2 DEF LaneOK
<1>10. ASSUME NEW p, p \in {"armed", "waiting"}, NEW b, b = [a EXCEPT !.phase = p]
       PROVE  DOMAIN b = Fields /\ LaneOK(b, {}) /\ Untouched(a, b) /\ b.phase = p /\ b.tool = t /\ b.value = 1
              /\ b.regions = regions /\ b.arm = c.arm + 1 /\ b.chosen = Len(regions) /\ b.basis = basis
              /\ b.commit = NoCommit /\ b.calls = q
  <2>1. DOMAIN b = Fields /\ b.phase = p /\ Untouched(a, b) /\ b.tool = a.tool /\ b.value = a.value
        /\ b.regions = a.regions /\ b.arm = a.arm /\ b.chosen = a.chosen /\ b.basis = a.basis
        /\ b.commit = a.commit /\ b.calls = a.calls
    BY ONLY <1>7, <1>10 DEF Fields, Untouched, SameLane, SameFlags
  <2>2. LaneOK(b, {})
    BY <1>9, <2>1, UntouchedOK
  <2>. QED
    BY ONLY <1>6, <1>7, <1>8, <2>1, <2>2
<1>11. ASSUME /\ e.tool = t /\ e.arm = c.arm + 1 /\ e.chosen = Len(regions) /\ e.regions = regions
              /\ e.commit = NoCommit /\ e.calls = q
              /\ t \notin Multi => DOMAIN e.sessions \subseteq {1},
              e.phase = "armed" \/ (e.phase = "waiting" /\ e.sessions = <<>>)
       PROVE  Control(e)
  <2>1. NoCommit \in Commit /\ NoCommit.pc = "none"
    BY DEF NoCommit, Commit
  <2>2. c.arm + 1 \in 0 .. MaxArms
    BY <1>2, LaneBounds
  <2>3. ToolOK(e)
    BY <1>4, <1>11, <2>1, <2>2 DEF ToolOK
  <2>4. PhaseOK(e)
    BY <1>5, <1>11, <2>1 DEF PhaseOK
  <2>. QED
    BY <1>3, <1>11, <2>1, <2>3, <2>4 DEF Control, CallsOK
<1>12. CASE t \in AtOnce
  <2>. DEFINE b == [a EXCEPT !.phase = "armed"]
  <2>1. e = OpenSessions(b, regions)
    BY <1>12
  <2>2. DOMAIN b = Fields /\ LaneOK(b, {}) /\ Untouched(a, b) /\ b.phase = "armed" /\ b.tool = t /\ b.value = 1
              /\ b.regions = regions /\ b.arm = c.arm + 1 /\ b.chosen = Len(regions) /\ b.basis = basis
              /\ b.commit = NoCommit /\ b.calls = q
    BY <1>10
  <2>. HIDE DEF b
  <2>3. LaneOK(e, {}) /\ Opened(b, e, regions)
    BY <1>4, <2>1, <2>2, OpenIs
  <2>4. /\ e.tool = t /\ e.value = 1 /\ e.regions = regions /\ e.basis = basis /\ e.commit = NoCommit
        /\ e.chosen = Len(regions) /\ e.arm = c.arm + 1 /\ e.latch = FALSE /\ Blank(e.sessions) /\ e.calls = q
        /\ e.phase = "armed" /\ DOMAIN e.sessions = DOMAIN regions
        /\ \A i \in DOMAIN regions : e.sessions[i].region = regions[i]
        /\ DOMAIN e.lane = DOMAIN b.lane \cup SidsOf(e.sessions) /\ PendingOK(e)
    BY ONLY <2>2, <2>3 DEF Opened, SameTool
  <2>5. DOMAIN b.lane = DOMAIN c.lane \ SidsOf(c.sessions)
    BY ONLY <1>6, <1>8, <2>2 DEF SameLane, Untouched
  <2>6. t \notin Multi => DOMAIN e.sessions \subseteq {1}
    <3>1. DOMAIN <<1>> = {1}
      OBVIOUS
    <3>. QED
      BY <1>4, <2>4, <3>1
  <2>7. Control(e)
    BY <1>11, <2>4, <2>6
  <2>8. Starts(c, e, t, regions, basis)
    BY ONLY <1>12, <2>4, <2>5 DEF Starts, q
  <2>. QED
    BY <2>3, <2>4, <2>7, <2>8 DEF Base
<1>13. CASE t \notin AtOnce
  <2>1. e = [a EXCEPT !.phase = "waiting"]
    BY <1>13
  <2>2. DOMAIN e = Fields /\ LaneOK(e, {}) /\ Untouched(a, e) /\ e.phase = "waiting" /\ e.tool = t /\ e.value = 1
              /\ e.regions = regions /\ e.arm = c.arm + 1 /\ e.chosen = Len(regions) /\ e.basis = basis
              /\ e.commit = NoCommit /\ e.calls = q
    BY <1>10, <2>1
  <2>3. e.sessions = <<>> /\ e.latch = FALSE /\ DOMAIN e.lane = DOMAIN c.lane \ SidsOf(c.sessions)
    BY ONLY <1>6, <1>8, <2>2 DEF Untouched, SameLane, SameFlags
  <2>4. Blank(e.sessions) /\ SidsOf(e.sessions) = {} /\ DOMAIN e.sessions = {}
    <3>1. DOMAIN <<>> = {}
      OBVIOUS
    <3>. QED
      BY <2>3, <3>1 DEF Blank, SidsOf
  <2>5. PendingOK(e)
    BY <2>3 DEF PendingOK
  <2>6. Control(e)
    BY <1>11, <2>2, <2>3, <2>4
  <2>7. Starts(c, e, t, regions, basis)
    BY ONLY <1>13, <2>2, <2>3, <2>4 DEF Starts, q
  <2>. QED
    BY <2>2, <2>5, <2>6, <2>7 DEF Base
<1>. QED
  BY <1>12, <1>13

(* A tool is left.                                                         *)
LEMMA LeaveIs ==
    ASSUME NEW c, Base(c), NEW e, e = OnToolChange(c)
    PROVE  Base(e) /\ Swept(c, e)
<1>1. LaneOK(e, {}) /\ PendingOK(e) /\ Swept(c, e)
  BY SweepIs DEF Base
<1>2. c.calls \in Seq(CallRec) /\ c.arm \in 0 .. MaxArms /\ c.chosen \in Nat
  BY DEF Base, Control, ToolOK, CallsOK, Awaits, Quiet
<1>3. Control(e)
  BY <1>1, <1>2, SweptControl
<1>. QED
  BY <1>1, <1>3 DEF Base

(* Only the phase of a tool that is not committing changes.                *)
Turns(c, e, phase) ==
  /\ e.tool = c.tool /\ e.value = c.value /\ e.regions = c.regions /\ e.basis = c.basis
  /\ e.prepared = c.prepared /\ e.commit = c.commit
  /\ e.arm = c.arm /\ e.chosen = c.chosen /\ e.calls = c.calls /\ Untouched(c, e) /\ e.phase = phase

(* A tool that waits turns to its next phase.                              *)
LEMMA TurnIs ==
    ASSUME NEW c, Base(c), c.tool # "select", c.commit.pc = "none", c.sessions = <<>>,
           NEW phase \in {"armed", "axisPick"}, phase = "axisPick" => c.tool = "revolve",
           NEW e, e = [c EXCEPT !.phase = phase]
    PROVE  Base(e) /\ Turns(c, e, phase)
<1>1. DOMAIN c = Fields
  BY DEF Base, LaneOK, LaneShape
<1>2. DOMAIN e = Fields /\ Turns(c, e, phase)
  BY <1>1 DEF Fields, Turns, Untouched, SameLane, SameFlags
<1>3. LaneOK(e, {}) /\ PendingOK(e)
  BY <1>2, UntouchedOK DEF Base, Turns
<1>4. ToolOK(e) /\ CallsOK(e)
  BY ONLY <1>2, Base(c) DEF Turns, Untouched, Base, Control, ToolOK, CallsOK, Awaits
<1>5. PhaseOK(e)
  <2>1. PhaseOK(c) /\ c.tool # "select" /\ c.commit.pc = "none" /\ c.sessions = <<>>
        /\ phase \in {"armed", "axisPick"} /\ (phase = "axisPick" => c.tool = "revolve")
    BY DEF Base, Control
  <2>. QED
    BY ONLY <1>2, <2>1 DEF Turns, Untouched, PhaseOK
<1>. QED
  BY <1>2, <1>3, <1>4, <1>5 DEF Base, Control

(* The axis of a revolve is picked anew.                                   *)
Unpicked(c, e) ==
  /\ e.tool = c.tool /\ e.value = c.value /\ e.regions = c.regions /\ e.basis = c.basis /\ e.commit = c.commit
  /\ e.arm = c.arm /\ e.chosen = c.chosen /\ e.calls = c.calls
  /\ e.phase = "axisPick" /\ e.sessions = <<>> /\ e.latch = FALSE
  /\ DOMAIN e.lane = DOMAIN c.lane \ SidsOf(c.sessions)

(* The axis is given up.                                                   *)
LEMMA UnpickIs ==
    ASSUME NEW c, Base(c), c.phase = "armed", c.tool = "revolve",
           NEW e, e = [ClosePreviewSessions(c) EXCEPT !.phase = "axisPick"]
    PROVE  Base(e) /\ Unpicked(c, e)
<1>. DEFINE d == ClosePreviewSessions(c)
<1>1. LaneOK(d, {} \ SidsOf(c.sessions)) /\ Closed(c, d)
  BY CloseIs DEF Base
<1>2. LaneOK(d, {})
  <2>1. {} \ SidsOf(c.sessions) = {}
    OBVIOUS
  <2>. HIDE DEF d
  <2>. QED
    BY <1>1, <2>1
<1>. HIDE DEF d
<1>3. DOMAIN d = Fields /\ e = [d EXCEPT !.phase = "axisPick"]
  BY <1>2 DEF LaneOK, LaneShape, d
<1>4. DOMAIN e = Fields /\ Turns(d, e, "axisPick")
  BY ONLY <1>3 DEF Fields, Turns, Untouched, SameLane, SameFlags
<1>5. LaneOK(e, {})
  BY <1>2, <1>4, UntouchedOK DEF Turns
<1>6. Unpicked(c, e) /\ PendingOK(e)
  BY ONLY <1>1, <1>4 DEF Turns, Untouched, SameLane, SameFlags, Closed, SameTool, Unpicked, PendingOK
<1>7. ToolOK(e) /\ CallsOK(e)
  <2>1. DOMAIN <<>> = {}
    OBVIOUS
  <2>. QED
    BY ONLY <1>6, <2>1, Base(c) DEF Unpicked, Base, Control, ToolOK, CallsOK, Awaits
<1>8. PhaseOK(e)
  <2>1. PhaseOK(c) /\ c.tool = "revolve" /\ c.phase = "armed"
    BY DEF Base, Control
  <2>. QED
    BY ONLY <1>6, <2>1 DEF Unpicked, PhaseOK
<1>. QED
  BY <1>5, <1>6, <1>7, <1>8 DEF Base, Control

(* The user sets another value.                                            *)
Sets(c, e, v) ==
  /\ e.tool = c.tool /\ e.phase = c.phase /\ e.value = v /\ e.regions = c.regions /\ e.basis = c.basis
  /\ e.prepared = c.prepared /\ e.commit = c.commit
  /\ e.arm = c.arm /\ e.chosen = c.chosen /\ e.calls = c.calls
  /\ e.sessions = c.sessions /\ e.latch = c.latch /\ DOMAIN e.lane = DOMAIN c.lane

(* The value is set.                                                       *)
LEMMA SetIs ==
    ASSUME NEW c, Base(c), NEW v \in 1 .. MaxValue, NEW e, e = SendPreview([c EXCEPT !.value = v], FALSE)
    PROVE  Base(e) /\ Sets(c, e, v)
<1>. DEFINE a == [c EXCEPT !.value = v]
<1>1. DOMAIN c = Fields
  BY DEF Base, LaneOK, LaneShape
<1>2. DOMAIN a = Fields /\ a.value = v /\ a.tool = c.tool /\ a.phase = c.phase /\ a.regions = c.regions
      /\ a.basis = c.basis /\ a.prepared = c.prepared /\ a.commit = c.commit /\ a.arm = c.arm
      /\ a.chosen = c.chosen /\ a.calls = c.calls
      /\ a.sessions = c.sessions /\ SameLane(c, a) /\ SameFlags(c, a) /\ a.throttle = c.throttle
  BY <1>1 DEF Fields, SameLane, SameFlags
<1>. HIDE DEF a
<1>3. LaneOK(a, {})
  <2>1. v \in 0 .. MaxValue
    BY LaneBounds
  <2>2. LaneShape(a)
    BY <1>2, <2>1 DEF Base, LaneOK, LaneShape, SameLane, SameFlags
  <2>3. LaneAsks(a, {})
    BY <1>2 DEF Base, LaneOK, LaneAsks, SameLane
  <2>. QED
    BY <2>2, <2>3 DEF LaneOK
<1>4. LaneOK(e, {}) /\ Moves(a, e) /\ e.sessions = a.sessions /\ e.latch = a.latch
  <2>1. FALSE \in BOOLEAN /\ e = SendPreview(a, FALSE)
    BY DEF a
  <2>. QED
    BY <1>3, <2>1, SendIs
<1>5. Sets(c, e, v) /\ PendingOK(e)
  BY ONLY <1>2, <1>4 DEF Sets, Moves, SameTool, SameLane, SameFlags
<1>6. ToolOK(e) /\ PhaseOK(e) /\ CallsOK(e)
  BY ONLY <1>5, Base(c) DEF Sets, Base, Control, ToolOK, PhaseOK, CallsOK, Awaits
<1>. QED
  BY <1>4, <1>5, <1>6 DEF Base, Control

(* The session of a fillet is closed and another opened.                   *)
Flipped(c, x) ==
  /\ SameTool(c, x) /\ Blank(x.sessions) /\ x.latch = FALSE /\ PendingOK(x)
  /\ DOMAIN x.sessions = DOMAIN c.regions
  /\ \A i \in DOMAIN c.regions : x.sessions[i].region = c.regions[i]
  /\ DOMAIN x.lane = (DOMAIN c.lane \ SidsOf(c.sessions)) \cup SidsOf(x.sessions)

(* The kind of the fillet is flipped: its session is opened anew.          *)
LEMMA FlipIs ==
    ASSUME NEW c, Base(c), c.tool = "fillet", NEW x, x = OpenSessions(ClosePreviewSessions(c), c.regions)
    PROVE  /\ LaneOK(x, {}) /\ Flipped(c, x) /\ ToolOK(x)
           /\ c.commit.pc # "barrier" /\ c.phase \in {"armed", "committing"} => Control(x)
<1>. DEFINE d == ClosePreviewSessions(c)
<1>1. LaneOK(d, {} \ SidsOf(c.sessions)) /\ Closed(c, d)
  BY CloseIs DEF Base
<1>2. LaneOK(d, {})
  <2>1. {} \ SidsOf(c.sessions) = {}
    OBVIOUS
  <2>. HIDE DEF d
  <2>. QED
    BY <1>1, <2>1
<1>. HIDE DEF d
<1>3. c.regions \in Seq(Nat) /\ c.regions = <<1>>
  BY DEF Base, Control, ToolOK, Multi
<1>4. LaneOK(x, {}) /\ Opened(d, x, c.regions)
  <2>1. x = OpenSessions(d, c.regions)
    BY DEF d
  <2>. QED
    BY <1>2, <1>3, <2>1, OpenIs
<1>5. Flipped(c, x)
  BY ONLY <1>1, <1>4 DEF Closed, Opened, SameTool, Flipped
<1>6. ToolOK(x)
  <2>1. DOMAIN <<1>> = {1}
    OBVIOUS
  <2>2. ToolOK(c)
    BY DEF Base, Control
  <2>. QED
    BY ONLY <1>3, <1>5, <2>1, <2>2 DEF Flipped, SameTool, ToolOK
<1>7. ASSUME c.commit.pc # "barrier", c.phase \in {"armed", "committing"} PROVE Control(x)
  <2>1. PhaseOK(c) /\ CallsOK(c) /\ c.tool = "fillet"
    BY DEF Base, Control
  <2>2. PhaseOK(x)
    BY ONLY <1>5, <1>7, <2>1 DEF Flipped, SameTool, PhaseOK, Multi
  <2>3. CallsOK(x)
    BY ONLY <1>5, <2>1 DEF Flipped, SameTool, CallsOK, Awaits
  <2>. QED
    BY <1>6, <2>2, <2>3 DEF Control
<1>. QED
  BY <1>4, <1>5, <1>6, <1>7

(* In the barrier the flip also ends the commit.                           *)
LEMMA FlipKindIs ==
    ASSUME NEW c, Base(c), c.tool = "fillet", c.phase \in {"armed", "committing"}, NEW x,
           x = OpenSessions(ClosePreviewSessions(c), c.regions), NEW e,
           IF c.commit.pc = "barrier" THEN e = Rearm(x, 1, TRUE) ELSE e = x
    PROVE  /\ Base(e)
           /\ IF c.commit.pc = "barrier"
                THEN LaneOK(x, {}) /\ Flipped(c, x) /\ Rearmed(x, e, 1) /\ RearmedLane(x, e, 1, TRUE)
              ELSE Flipped(c, e)
<1>1. LaneOK(x, {}) /\ Flipped(c, x) /\ ToolOK(x)
      /\ (c.commit.pc # "barrier" /\ c.phase \in {"armed", "committing"} => Control(x))
  BY FlipIs
<1>2. CASE c.commit.pc # "barrier"
  BY <1>1, <1>2 DEF Base, Flipped
<1>3. CASE c.commit.pc = "barrier"
  <2>1. x.regions \in Seq(Nat) /\ PendingOK(x) /\ x.tool # "select" /\ x.calls = c.calls
    BY <1>1 DEF Flipped, SameTool, ToolOK
  <2>2. 1 \in Nat /\ 1 > 0 /\ TRUE \in BOOLEAN
    OBVIOUS
  <2>3. e = Rearm(x, 1, TRUE)
    BY <1>3
  <2>4. LaneOK(e, {}) /\ PendingOK(e) /\ Rearmed(x, e, 1) /\ RearmedLane(x, e, 1, TRUE)
    BY ONLY <1>1, <2>1, <2>2, <2>3, RearmIs
  <2>5. Quiet(x.calls)
    BY <1>3, <2>1 DEF Base, Control, CallsOK
  <2>6. Control(e)
    BY ONLY <1>1, <2>1, <2>2, <2>4, <2>5, RearmedControl
  <2>. QED
    BY <1>1, <1>3, <2>4, <2>6 DEF Base
<1>. QED
  BY <1>2, <1>3

(* A commit of several regions first makes sure of the profile's record.   *)
AsksRecord(c, e) ==
  /\ SameArm(c, e) /\ Untouched(c, e) /\ e.regions = c.regions /\ e.calls = c.calls
  /\ e.phase = "committing" /\ e.commit.pc = "record" /\ e.commit \in Commit

(* The user confirms.                                                      *)
LEMMA ConfirmIs ==
    ASSUME NEW c, Base(c), c.phase = "armed", NEW reopened \in BOOLEAN,
           NEW e, e = IF c.tool \in Multi THEN [c EXCEPT !.phase = "committing", !.commit.pc = "record"]
                      ELSE CommitStep(c, 1, reopened)
    PROVE  /\ Base(e)
           /\ IF c.tool \in Multi THEN AsksRecord(c, e) ELSE Stepped(c, e, 1, reopened)
<1>1. DOMAIN c = Fields /\ c.commit \in Commit /\ c.commit.pc = "none" /\ c.tool # "select" /\ c.regions \in Seq(Nat)
      /\ LaneOK(c, {}) /\ PendingOK(c) /\ ToolOK(c) /\ PhaseOK(c) /\ Quiet(c.calls)
  BY DEF Base, Control, LaneOK, LaneShape, ToolOK, PhaseOK, CallsOK
<1>2. CASE c.tool \in Multi
  <2>. DEFINE t == [c.commit EXCEPT !.pc = "record"]
  <2>1. e = [c EXCEPT !.phase = "committing", !.commit = t]
    BY <1>2
  <2>2. t \in Commit /\ t.pc = "record"
    BY <1>1 DEF Commit
  <2>. HIDE DEF t
  <2>3. DOMAIN e = Fields /\ e.commit = t /\ e.phase = "committing" /\ SameArm(c, e) /\ Untouched(c, e)
        /\ e.regions = c.regions /\ e.calls = c.calls
    BY ONLY <1>1, <2>1 DEF Fields, SameArm, Untouched, SameLane, SameFlags
  <2>4. AsksRecord(c, e)
    BY <2>2, <2>3 DEF AsksRecord
  <2>5. LaneOK(e, {}) /\ PendingOK(e)
    BY <1>1, <2>3, UntouchedOK
  <2>6. ToolOK(e)
    BY ONLY <1>1, <2>2, <2>3 DEF ToolOK, SameArm, Untouched
  <2>7. PhaseOK(e)
    BY ONLY <1>1, <1>2, <2>2, <2>3 DEF PhaseOK, SameArm, Untouched
  <2>8. CallsOK(e)
    BY ONLY <1>1, <2>2, <2>3 DEF CallsOK
  <2>. QED
    BY <1>2, <2>4, <2>5, <2>6, <2>7, <2>8 DEF Base, Control
<1>3. CASE c.tool \notin Multi
  <2>1. e = CommitStep(c, 1, reopened) /\ 1 \in Nat /\ 1 > 0
    BY <1>3
  <2>2. LaneOK(e, {}) /\ PendingOK(e) /\ e.commit \in Commit /\ Stepped(c, e, 1, reopened)
    BY ONLY <1>1, <2>1, reopened \in BOOLEAN, CommitStepIs
  <2>3. Control(e)
    BY ONLY <1>1, <1>3, <2>1, <2>2, SteppedControl
  <2>. QED
    BY <1>3, <2>2, <2>3 DEF Base
<1>. QED
  BY <1>2, <1>3

(* It steps to the first region, or the tool is armed as before.           *)
Backs(c, e) ==
  /\ SameArm(c, e) /\ Untouched(c, e) /\ e.regions = c.regions /\ e.calls = c.calls
  /\ e.phase = "armed" /\ e.commit = NoCommit

(* The profile has its record, or the commit is given up.                  *)
LEMMA RecordIs ==
    ASSUME NEW c, Base(c), c.commit.pc = "record", NEW e, e \in {CommitStep(c, 1, TRUE), Armed(c)}
    PROVE  /\ Base(e)
           /\ Stepped(c, e, 1, TRUE) \/ Backs(c, e)
<1>1. DOMAIN c = Fields /\ c.commit \in Commit /\ c.phase = "committing" /\ c.tool # "select" /\ c.regions \in Seq(Nat)
      /\ LaneOK(c, {}) /\ PendingOK(c) /\ ToolOK(c) /\ PhaseOK(c) /\ Quiet(c.calls) /\ c.tool \in Multi
  BY DEF Base, Control, LaneOK, LaneShape, ToolOK, PhaseOK, CallsOK
<1>2. CASE e = CommitStep(c, 1, TRUE)
  <2>1. 1 \in Nat /\ 1 > 0 /\ TRUE \in BOOLEAN
    OBVIOUS
  <2>2. LaneOK(e, {}) /\ PendingOK(e) /\ e.commit \in Commit /\ Stepped(c, e, 1, TRUE)
    BY ONLY <1>1, <1>2, <2>1, CommitStepIs
  <2>3. Control(e)
    BY ONLY <1>1, <2>1, <2>2, SteppedControl
  <2>. QED
    BY <2>2, <2>3 DEF Base
<1>3. CASE e = Armed(c)
  <2>1. DOMAIN e = Fields /\ Backs(c, e)
    BY ONLY <1>1, <1>3 DEF Armed, Fields, Backs, SameArm, Untouched, SameLane, SameFlags
  <2>2. LaneOK(e, {}) /\ PendingOK(e)
    BY <1>1, <2>1, UntouchedOK DEF Backs
  <2>3. NoCommit \in Commit /\ NoCommit.pc = "none"
    BY DEF NoCommit, Commit
  <2>4. ToolOK(e)
    BY ONLY <1>1, <2>1, <2>3 DEF ToolOK, Backs, SameArm, Untouched
  <2>5. PhaseOK(e)
    BY ONLY <1>1, <2>1, <2>3 DEF PhaseOK, Backs, SameArm, Untouched
  <2>6. CallsOK(e)
    BY ONLY <1>1, <2>1, <2>3 DEF CallsOK, Backs
  <2>. QED
    BY <2>1, <2>2, <2>4, <2>5, <2>6 DEF Base, Control
<1>. QED
  BY <1>2, <1>3

(* The floor and the timer of the throttle.                                *)
LEMMA FloorIs ==
    ASSUME NEW c, Base(c), NEW e, e = [c EXCEPT !.throttle.open = TRUE]
    PROVE  Base(e) /\ Paced(c, e)
<1>. DEFINE t == [c.throttle EXCEPT !.open = TRUE]
<1>1. DOMAIN c = Fields /\ c.throttle \in Throttle /\ LaneOK(c, {}) /\ PendingOK(c) /\ Control(c)
  BY DEF Base, LaneOK, LaneShape
<1>2. t \in Throttle /\ t.inFlight = c.throttle.inFlight /\ t.epoch = c.throttle.epoch
      /\ t.pending = c.throttle.pending
  BY <1>1 DEF Throttle
<1>3. e = [c EXCEPT !.throttle = t]
  OBVIOUS
<1>. HIDE DEF t
<1>4. /\ DOMAIN e = Fields /\ e.throttle = t /\ e.sessions = c.sessions
      /\ SameTool(c, e) /\ SameLane(c, e) /\ SameFlags(c, e)
  BY ONLY <1>1, <1>3 DEF Fields, SameTool, SameLane, SameFlags
<1>5. LaneOK(e, {})
  <2>1. LaneShape(e)
    BY ONLY <1>1, <1>2, <1>4 DEF LaneOK, LaneShape, SameTool, SameLane, SameFlags
  <2>2. LaneAsks(e, {})
    BY ONLY <1>1, <1>4 DEF LaneOK, LaneAsks, SameLane
  <2>. QED
    BY <2>1, <2>2 DEF LaneOK
<1>6. PendingOK(e)
  BY ONLY <1>1, <1>2, <1>4 DEF PendingOK, SameTool
<1>7. Moves(c, e)
  BY ONLY <1>4, <1>6 DEF Moves, SameSessions, SameLane
<1>8. LatchOK(c) => LatchOK(e)
  BY ONLY <1>4 DEF LatchOK, Failing, SameFlags
<1>9. Control(e)
  BY ONLY <1>1, <1>5, <1>7, MovesControl
<1>. QED
  BY <1>5, <1>6, <1>7, <1>8, <1>9 DEF Base, Paced

(* The timer fires.                                                        *)
LEMMA TimerIs ==
    ASSUME NEW c, Base(c), NEW d, d = IF c.sessions = <<>> THEN c ELSE MaybeSend(c), NEW b \in BOOLEAN,
           NEW e, e = [d EXCEPT !.timer = b]
    PROVE  Base(e) /\ Paced(c, e)
<1>1. LaneOK(c, {}) /\ PendingOK(c) /\ Control(c)
  BY DEF Base
<1>2. LaneOK(d, {}) /\ Moves(c, d) /\ d.sessions = c.sessions /\ SameFlags(c, d)
  <2>1. CASE c.sessions = <<>>
    <3>1. d = c
      BY <2>1
    <3>. QED
      BY ONLY <1>1, <3>1 DEF Moves, SameTool, SameSessions, SameFlags
  <2>2. CASE c.sessions # <<>>
    <3>1. d = MaybeSend(c)
      BY <2>2
    <3>. QED
      BY ONLY <1>1, <2>2, <3>1, MaybeMoves, MaybeIs
  <2>. QED
    BY <2>1, <2>2
<1>3. DOMAIN d = Fields /\ d.latch \in BOOLEAN /\ d.retried \in BOOLEAN
  BY ONLY <1>2 DEF LaneOK, LaneShape
<1>4. DOMAIN e = Fields /\ e.timer \in BOOLEAN /\ SameTool(d, e) /\ SameLane(d, e) /\ e.sessions = d.sessions
      /\ e.throttle = d.throttle /\ e.latch = d.latch /\ e.retried = d.retried
  <2>1. e = [d EXCEPT !.timer = b] /\ b \in BOOLEAN
    OBVIOUS
  <2>. QED
    BY ONLY <1>3, <2>1 DEF Fields, SameTool, SameLane
<1>5. LaneOK(e, {})
  <2>1. e.value = d.value
    BY <1>4 DEF SameTool
  <2>. QED
    BY ONLY <1>2, <1>3, <1>4, <2>1, FlagsOK
<1>6. Moves(c, e)
  BY ONLY <1>2, <1>4 DEF Moves, SameTool, SameSessions, SameLane, PendingOK
<1>7. LatchOK(c) => LatchOK(e)
  BY ONLY <1>2, <1>4 DEF LatchOK, Failing, SameFlags
<1>8. Control(e)
  BY ONLY <1>1, <1>5, <1>6, MovesControl
<1>9. PendingOK(e)
  BY ONLY <1>6 DEF Moves
<1>. QED
  BY <1>5, <1>6, <1>7, <1>8, <1>9 DEF Base, Paced

(* The backend answers the i-th call.                                      *)
Replied(c, e, i, out, d) ==
  /\ SameArm(c, e) /\ Untouched(c, e) /\ e.regions = c.regions /\ e.phase = c.phase /\ e.commit = c.commit
  /\ DOMAIN e.calls = DOMAIN c.calls /\ \A j \in DOMAIN c.calls \ {i} : e.calls[j] = c.calls[j]
  /\ e.calls[i] = [c.calls[i] EXCEPT !.answer = out, !.doc = d]

(* The backend replies to a call.                                          *)
LEMMA ReplyIs ==
    ASSUME NEW c, Base(c), NEW i \in DOMAIN c.calls, NEW out \in {"ok", "failed", "refused"}, NEW d \in Doc,
           NEW e, e = [c EXCEPT !.calls[i].answer = out, !.calls[i].doc = d]
    PROVE  Base(e) /\ Replied(c, e, i, out, d)
<1>. DEFINE r == [c.calls[i] EXCEPT !.answer = out, !.doc = d]
            q == [c.calls EXCEPT ![i] = r]
<1>1. DOMAIN c = Fields /\ LaneOK(c, {}) /\ PendingOK(c) /\ Control(c) /\ c.calls \in Seq(CallRec)
  BY DEF Base, LaneOK, LaneShape, Control, CallsOK, Awaits, Quiet
<1>2. Len(c.calls) \in Nat /\ DOMAIN c.calls = 1 .. Len(c.calls) /\ c.calls[i] \in CallRec
  BY <1>1, LenProperties, ElementOfSeq
<1>3. r \in CallRec /\ r.live = c.calls[i].live /\ r.kind = c.calls[i].kind /\ r.arm = c.calls[i].arm
      /\ r.tool = c.calls[i].tool
  BY <1>2 DEF CallRec
<1>4. e = [c EXCEPT !.calls = q]
  <2>1. [c.calls EXCEPT ![i].answer = out] = [c.calls EXCEPT ![i] = [c.calls[i] EXCEPT !.answer = out]]
    OBVIOUS
  <2>. QED
    BY <1>1, <1>2 DEF Fields, CallRec
<1>. HIDE DEF r
<1>5. DOMAIN q = DOMAIN c.calls /\ q[i] = r /\ \A j \in DOMAIN c.calls \ {i} : q[j] = c.calls[j]
  BY <1>1, <1>2
<1>6. q \in Seq(CallRec) /\ Len(q) = Len(c.calls)
  <2>1. \A j \in DOMAIN c.calls : c.calls[j] \in CallRec
    BY <1>1, <1>2, ElementOfSeq
  <2>2. q \in [1 .. Len(c.calls) -> CallRec]
    BY <1>2, <1>3, <2>1
  <2>. QED
    BY <1>2, <2>2, TableIsSeq
<1>. HIDE DEF q
<1>7. DOMAIN e = Fields /\ e.calls = q /\ SameArm(c, e) /\ Untouched(c, e) /\ e.regions = c.regions
      /\ e.phase = c.phase /\ e.commit = c.commit
  BY ONLY <1>1, <1>4 DEF Fields, SameArm, Untouched, SameLane, SameFlags
<1>8. LaneOK(e, {}) /\ PendingOK(e)
  BY <1>1, <1>7, UntouchedOK
<1>9. ToolOK(e) /\ PhaseOK(e)
  BY ONLY <1>1, <1>7 DEF Control, ToolOK, PhaseOK, SameArm, Untouched
<1>10. \A j \in DOMAIN q : /\ q[j].live = c.calls[j].live /\ q[j].kind = c.calls[j].kind
                          /\ q[j].arm = c.calls[j].arm /\ q[j].tool = c.calls[j].tool
  BY <1>3, <1>5
<1>11. CallsOK(e)
  <2>1. CASE c.commit.pc \in {"apply", "undo"}
    <3>1. Awaits(c.calls, c)
      BY <1>1, <2>1 DEF Control, CallsOK
    <3>2. q # <<>> /\ Len(q) \in DOMAIN q
      <4>1. Len(c.calls) \in DOMAIN c.calls
        <5>1. Len(c.calls) # 0
          BY <1>2
        <5>. QED
          BY <1>2, <5>1
      <4>2. DOMAIN <<>> = {}
        OBVIOUS
      <4>. QED
        BY <1>5, <1>6, <4>1, <4>2
    <3>3. Awaits(q, c)
      BY ONLY <1>5, <1>6, <1>10, <3>1, <3>2 DEF Awaits
    <3>. QED
      BY ONLY <1>7, <2>1, <3>3 DEF CallsOK, Awaits, SameArm
  <2>2. CASE c.commit.pc \notin {"apply", "undo"}
    <3>1. Quiet(c.calls)
      BY <1>1, <2>2 DEF Control, CallsOK
    <3>2. Quiet(q)
      BY ONLY <1>5, <1>6, <1>10, <3>1 DEF Quiet
    <3>. QED
      BY ONLY <1>7, <2>2, <3>2 DEF CallsOK
  <2>. QED
    BY <2>1, <2>2
<1>12. Replied(c, e, i, out, d)
  BY <1>5, <1>7 DEF Replied, r
<1>. QED
  BY <1>8, <1>9, <1>11, <1>12 DEF Base, Control

(* The first call leaves the queue with its answer.                        *)
Dequeued(c, a) ==
  /\ SameArm(c, a) /\ Untouched(c, a) /\ a.regions = c.regions /\ a.phase = c.phase /\ a.commit = c.commit
  /\ a.calls \in Seq(CallRec) /\ Rest(a.calls, c.calls)

(* An answer is taken off the queue.                                       *)
LEMMA DequeueIs ==
    ASSUME NEW c, Base(c), c.calls # <<>>, NEW a, a = [c EXCEPT !.calls = Tail(@)]
    PROVE  LaneOK(a, {}) /\ PendingOK(a) /\ ToolOK(a) /\ PhaseOK(a) /\ Dequeued(c, a)
<1>1. DOMAIN c = Fields /\ LaneOK(c, {}) /\ PendingOK(c) /\ ToolOK(c) /\ PhaseOK(c) /\ c.calls \in Seq(CallRec)
  BY DEF Base, LaneOK, LaneShape, Control, CallsOK, Awaits, Quiet
<1>. DEFINE q == Tail(c.calls)
<1>2. q \in Seq(CallRec) /\ Rest(q, c.calls)
  BY <1>1, TailIs
<1>3. a = [c EXCEPT !.calls = q]
  OBVIOUS
<1>. HIDE DEF q
<1>4. DOMAIN a = Fields /\ a.calls = q /\ SameArm(c, a) /\ Untouched(c, a) /\ a.regions = c.regions
      /\ a.phase = c.phase /\ a.commit = c.commit
  BY ONLY <1>1, <1>3 DEF Fields, SameArm, Untouched, SameLane, SameFlags
<1>5. LaneOK(a, {}) /\ PendingOK(a)
  BY <1>1, <1>4, UntouchedOK
<1>6. ToolOK(a) /\ PhaseOK(a)
  BY ONLY <1>1, <1>4 DEF ToolOK, PhaseOK, SameArm, Untouched
<1>. QED
  BY <1>2, <1>4, <1>5, <1>6 DEF Dequeued

(* Nobody waits for it: the previews on screen may be cleared.             *)
Discards(c, e) ==
  /\ SameArm(c, e) /\ SameLane(c, e) /\ SameFlags(c, e) /\ e.throttle = c.throttle /\ e.regions = c.regions
  /\ e.phase = c.phase /\ e.commit = c.commit
  /\ e.calls \in Seq(CallRec) /\ Rest(e.calls, c.calls)
  /\ SameSessions(c.sessions, e.sessions)
  /\ \A i \in DOMAIN c.sessions : e.sessions[i].failed = c.sessions[i].failed

Cleared(q) == [i \in DOMAIN q |-> [q[i] EXCEPT !.shown = 0]]

(* A superseded commit drops its answer.                                   *)
LEMMA DropIs ==
    ASSUME NEW c, Base(c), c.calls # <<>>, ~Head(c.calls).live, NEW a, a = [c EXCEPT !.calls = Tail(@)],
           NEW p, p = Cleared(a.sessions),
           NEW e, e = a \/ e = [a EXCEPT !.sessions = p]
    PROVE  Base(e) /\ Discards(c, e)
<1>1. LaneOK(a, {}) /\ PendingOK(a) /\ ToolOK(a) /\ PhaseOK(a) /\ Dequeued(c, a)
  BY DequeueIs
<1>2. CallsOK(a)
  <2>1. c.calls \in Seq(CallRec) /\ Head(c.calls) = c.calls[1] /\ 1 \in DOMAIN c.calls
    <3>1. c.calls \in Seq(CallRec)
      BY DEF Base, Control, CallsOK, Awaits, Quiet
    <3>. QED
      BY <3>1, TailIs
  <2>. DEFINE m == Len(a.calls)
              n == Len(c.calls)
  <2>2. /\ n \in Nat /\ m \in Nat /\ n > 0 /\ m = n - 1 /\ DOMAIN a.calls = 1 .. m /\ DOMAIN c.calls = 1 .. n
        /\ \A i \in DOMAIN a.calls : i + 1 \in DOMAIN c.calls /\ a.calls[i] = c.calls[i + 1]
    BY <1>1, <2>1, LenProperties DEF Dequeued, Rest
  <2>. HIDE DEF m, n
  <2>3. a.commit = c.commit /\ a.arm = c.arm /\ a.tool = c.tool /\ a.calls \in Seq(CallRec)
    BY <1>1 DEF Dequeued, SameArm
  <2>4. CASE c.commit.pc \in {"apply", "undo"}
    <3>1. Awaits(c.calls, c)
      BY <2>4 DEF Base, Control, CallsOK
    <3>2. n # 1
      BY <2>1, <3>1 DEF Awaits, n
    <3>3. m \in DOMAIN a.calls /\ m + 1 = n
      BY <2>2, <3>2
    <3>4. a.calls # <<>>
      <4>1. DOMAIN <<>> = {}
        OBVIOUS
      <4>. QED
        BY <3>3, <4>1
    <3>5. \A i \in DOMAIN a.calls : a.calls[i].live <=> i = m
      <4>. SUFFICES ASSUME NEW i \in DOMAIN a.calls PROVE a.calls[i].live <=> i = m
        OBVIOUS
      <4>1. a.calls[i].live <=> i + 1 = n
        BY <2>2, <3>1 DEF Awaits, n
      <4>2. i \in Nat
        BY <2>2
      <4>. QED
        BY <2>2, <4>1, <4>2
    <3>6. a.calls[m] = c.calls[n]
      BY <2>2, <3>3
    <3>7. Awaits(a.calls, a)
      BY ONLY <2>3, <3>1, <3>4, <3>5, <3>6 DEF Awaits, m, n
    <3>. QED
      BY <2>3, <2>4, <3>7 DEF CallsOK
  <2>5. CASE c.commit.pc \notin {"apply", "undo"}
    <3>1. Quiet(c.calls)
      BY <2>5 DEF Base, Control, CallsOK
    <3>2. Quiet(a.calls)
      BY ONLY <2>2, <2>3, <3>1 DEF Quiet
    <3>. QED
      BY <2>3, <2>5, <3>2 DEF CallsOK
  <2>. QED
    BY <2>4, <2>5
<1>3. CASE e = a
  <2>1. Discards(c, e)
    BY ONLY <1>1, <1>3 DEF Dequeued, Discards, Untouched, SameSessions
  <2>. QED
    BY ONLY <1>1, <1>2, <1>3, <2>1 DEF Base, Control
<1>4. CASE e = [a EXCEPT !.sessions = p]
  <2>. DEFINE q == p
  <2>1. /\ a.sessions \in Seq(Session) /\ Distinct(a.sessions)
        /\ p = [i \in DOMAIN a.sessions |-> [a.sessions[i] EXCEPT !.shown = 0]]
    BY <1>1 DEF Cleared, LaneOK, LaneShape, Distinct
  <2>2. /\ q \in Seq(Session) /\ Distinct(q) /\ SameSessions(a.sessions, q)
        /\ \A i \in DOMAIN a.sessions : q[i].failed = a.sessions[i].failed
    BY ONLY <2>1, HiddenIs
  <2>3. e = [a EXCEPT !.sessions = q] /\ DOMAIN a = Fields
    BY <1>1, <1>4 DEF LaneOK, LaneShape
  <2>. HIDE DEF q
  <2>4. DOMAIN e = Fields /\ e.sessions = q /\ SameTool(a, e) /\ SameLane(a, e) /\ SameFlags(a, e)
        /\ e.throttle = a.throttle
    BY ONLY <2>3 DEF Fields, SameTool, SameLane, SameFlags
  <2>5. LaneOK(e, {})
    <3>2. /\ e.value = a.value /\ e.throttle \in Throttle /\ e.throttle.inFlight \in {0, e.throttle.epoch}
          /\ e.throttle.pending \in 0 .. MaxValue
          /\ e.latch \in BOOLEAN /\ e.retried \in BOOLEAN /\ e.timer \in BOOLEAN
      BY ONLY <1>1, <2>4 DEF LaneOK, LaneShape, SameTool, SameFlags
    <3>3. \A i, j \in DOMAIN e.sessions : e.sessions[i].sid = e.sessions[j].sid => i = j
      BY <2>2, <2>4 DEF Distinct
    <3>. QED
      BY ONLY <1>1, <2>2, <2>4, <3>2, <3>3, ReshapeOK
  <2>6. Moves(a, e)
    <3>1. PendingOK(e)
      <4>1. e.sessions # <<>> => a.sessions # <<>>
        <5>1. DOMAIN <<>> = {} /\ DOMAIN e.sessions = DOMAIN a.sessions /\ e.sessions \in Seq(Session)
          BY <2>2, <2>4 DEF SameSessions
        <5>. QED
          BY ONLY <5>1, EmptyBy
      <4>. QED
        BY ONLY <1>1, <2>4, <4>1 DEF PendingOK, SameTool
    <3>. QED
      BY ONLY <2>2, <2>4, <3>1 DEF Moves, SameLane
  <2>7. Control(e) /\ PendingOK(e)
    BY ONLY <1>1, <1>2, <2>5, <2>6, MovesControl DEF Control, Moves
  <2>8. Discards(c, e)
    BY ONLY <1>1, <2>2, <2>4 DEF Dequeued, Discards, Untouched, SameTool, SameArm, SameLane, SameFlags
  <2>. QED
    BY ONLY <2>5, <2>7, <2>8 DEF Base
<1>. QED
  BY <1>3, <1>4

(* The commit goes on with its answer.                                     *)
Goes(c, a, e, call, reopened) ==
  \/ /\ call.kind = "undo" \/ call.answer = "refused"
     /\ Rearmed(a, e, c.commit.k) /\ RearmedLane(a, e, c.commit.k, reopened)
  \/ /\ call.kind = "apply" /\ call.answer = "failed"
     /\ Called(a, e, "undo", c.commit.k, call.region, 0, FALSE)
  \/ /\ call.kind = "apply" /\ call.answer = "ok" /\ c.tool \in Multi
     /\ Stepped(a, e, c.commit.k + 1, reopened)
  \/ /\ call.kind = "apply" /\ call.answer = "ok" /\ c.tool \notin Multi /\ Swept(a, e)

(* The awaiting commit goes on by the answer.                              *)
LEMMA GoesIs ==
    ASSUME NEW c, Base(c), c.calls # <<>>, Head(c.calls).live, Head(c.calls).answer # "none",
           NEW a, a = [c EXCEPT !.calls = Tail(@)], NEW reopened \in BOOLEAN,
           NEW e, e = AfterCall(a, Head(c.calls), reopened)
    PROVE  /\ Base(e) /\ Dequeued(c, a) /\ a.calls = <<>> /\ Goes(c, a, e, Head(c.calls), reopened)
           /\ Len(c.calls) = 1 /\ c.commit.pc = Head(c.calls).kind /\ LaneOK(a, {})
<1>. DEFINE call == Head(c.calls)
            k == a.commit.k
<1>1. LaneOK(a, {}) /\ PendingOK(a) /\ ToolOK(a) /\ PhaseOK(a) /\ Dequeued(c, a)
  BY DequeueIs
<1>2. c.calls \in Seq(CallRec) /\ call = c.calls[1] /\ 1 \in DOMAIN c.calls /\ call \in CallRec
  <2>1. c.calls \in Seq(CallRec)
    BY DEF Base, Control, CallsOK, Awaits, Quiet
  <2>. QED
    BY <2>1, TailIs
<1>3. /\ c.commit.pc \in {"apply", "undo"} /\ Len(c.calls) = 1 /\ call.kind = c.commit.pc
  <2>1. c.commit.pc \in {"apply", "undo"} /\ Awaits(c.calls, c)
    BY <1>2 DEF Base, Control, CallsOK, Quiet
  <2>2. Len(c.calls) = 1
    BY <1>2, <2>1 DEF Awaits
  <2>. QED
    BY <1>2, <2>1, <2>2 DEF Awaits
<1>4. a.calls = <<>>
  <2>1. a.calls \in Seq(CallRec) /\ Len(a.calls) = 0
    BY <1>1, <1>3 DEF Dequeued, Rest
  <2>. QED
    BY <2>1, EmptySeq
<1>5. Quiet(a.calls)
  <2>1. <<>> \in Seq(CallRec) /\ DOMAIN <<>> = {}
    OBVIOUS
  <2>. QED
    BY ONLY <1>4, <2>1 DEF Quiet
<1>6. /\ a.commit = c.commit /\ a.tool = c.tool /\ a.phase = "committing" /\ a.tool # "select" /\ k \in Nat /\ k > 0
      /\ a.regions \in Seq(Nat) /\ a.commit \in Commit /\ DOMAIN a = Fields
  <2>1. a.commit = c.commit /\ a.tool = c.tool
    BY <1>1 DEF Dequeued, SameArm
  <2>2. a.phase = "committing" /\ a.tool # "select" /\ k > 0
    BY ONLY <1>1, <1>3, <2>1 DEF PhaseOK
  <2>. QED
    BY ONLY <1>1, <2>1, <2>2 DEF ToolOK, Commit, LaneOK, LaneShape
<1>7. call.region \in Nat /\ call.answer \in {"ok", "failed", "refused"} /\ call.kind \in {"apply", "undo"}
  BY <1>2 DEF CallRec
<1>8. e = IF call.kind = "undo" \/ call.answer = "refused" THEN Rearm(a, k, reopened)
          ELSE IF call.answer = "failed" THEN Call(a, "undo", k, call.region, 0, FALSE)
          ELSE IF a.tool \in Multi THEN CommitStep(a, k + 1, reopened) ELSE OnToolChange(a)
  BY Zenon DEF AfterCall
<1>. HIDE DEF k, call
<1>9. k = c.commit.k
  BY <1>6 DEF k
<1>10. CASE call.kind = "undo" \/ call.answer = "refused"
  <2>1. e = Rearm(a, k, reopened) /\ reopened \in BOOLEAN
    BY <1>8, <1>10
  <2>2. LaneOK(e, {}) /\ PendingOK(e) /\ Rearmed(a, e, k) /\ RearmedLane(a, e, k, reopened)
    BY ONLY <1>1, <1>6, <2>1, RearmIs
  <2>3. Control(e)
    BY ONLY <1>1, <1>5, <1>6, <2>2, RearmedControl
  <2>4. Goes(c, a, e, call, reopened)
    BY ONLY <1>9, <1>10, <2>2 DEF Goes
  <2>. QED
    BY <1>1, <1>3, <1>4, <2>2, <2>3, <2>4 DEF Base, call
<1>11. CASE call.kind = "apply" /\ call.answer = "failed"
  <2>1. e = Call(a, "undo", k, call.region, 0, FALSE) /\ "undo" \in {"apply", "undo"}
    BY <1>8, <1>11
  <2>2. DOMAIN e = Fields /\ e.commit \in Commit /\ Called(a, e, "undo", k, call.region, 0, FALSE)
    BY ONLY <1>6, <2>1, CallIs
  <2>3. LaneOK(e, {}) /\ PendingOK(e)
    BY ONLY <1>1, <2>2, UntouchedOK DEF Called
  <2>4. Speaks(a, e, "undo", k, call.region, 0, FALSE)
    BY ONLY <1>6, <2>2 DEF Called, Speaks, Untouched
  <2>5. 0 \in Nat /\ FALSE \in BOOLEAN
    OBVIOUS
  <2>6. Control(e)
    BY ONLY <1>1, <1>5, <1>6, <1>7, <2>1, <2>2, <2>4, <2>5, SpeaksControl
  <2>7. Goes(c, a, e, call, reopened)
    BY ONLY <1>9, <1>11, <2>2 DEF Goes
  <2>. QED
    BY <1>1, <1>3, <1>4, <2>3, <2>6, <2>7 DEF Base, call
<1>12. CASE call.kind = "apply" /\ call.answer = "ok" /\ a.tool \in Multi
  <2>1. e = CommitStep(a, k + 1, reopened) /\ k + 1 \in Nat /\ k + 1 > 0 /\ reopened \in BOOLEAN
    BY <1>6, <1>8, <1>12
  <2>. DEFINE n == k + 1
  <2>. HIDE DEF n
  <2>2. e = CommitStep(a, n, reopened) /\ n \in Nat /\ n > 0 /\ reopened \in BOOLEAN
    BY <2>1 DEF n
  <2>3. LaneOK(e, {}) /\ PendingOK(e) /\ e.commit \in Commit /\ Stepped(a, e, n, reopened)
    BY ONLY <1>1, <1>6, <2>2, CommitStepIs
  <2>4. Control(e)
    BY ONLY <1>1, <1>5, <1>6, <1>12, <2>2, <2>3, SteppedControl
  <2>5. Goes(c, a, e, call, reopened)
    BY ONLY <1>6, <1>9, <1>12, <2>3 DEF Goes, n
  <2>. QED
    BY <1>1, <1>3, <1>4, <2>3, <2>4, <2>5 DEF Base, call
<1>13. CASE call.kind = "apply" /\ call.answer = "ok" /\ a.tool \notin Multi
  <2>1. e = OnToolChange(a)
    BY <1>8, <1>13
  <2>2. LaneOK(e, {}) /\ PendingOK(e) /\ Swept(a, e)
    BY ONLY <1>1, <2>1, SweepIs
  <2>3. a.calls \in Seq(CallRec) /\ a.arm \in 0 .. MaxArms /\ a.chosen \in Nat
    BY <1>1, <1>5 DEF ToolOK, Quiet
  <2>4. Control(e)
    BY ONLY <2>2, <2>3, SweptControl
  <2>5. Goes(c, a, e, call, reopened)
    BY ONLY <1>6, <1>13, <2>2 DEF Goes
  <2>. QED
    BY <1>1, <1>3, <1>4, <2>2, <2>4, <2>5 DEF Base, call
<1>. QED
  BY <1>7, <1>10, <1>11, <1>12, <1>13

(* -- Every step ----------------------------------------------------------- *)

(* The inductive invariant of the types.                                   *)
TypeInv == Base(ctl) /\ doc \in Doc /\ store \in Doc

(* What a step does to the controller: to the tool it is armed with,       *)
ToolStep(c, e) ==
  \/ e = c
  \/ \E t \in Tools : \E regions \in Subjects(t) : Starts(c, e, t, regions, e.basis)
  \/ c.phase \in {"waiting", "axisPick"} /\ Arms(c, e)
  \/ c.phase \in {"waiting", "axisPick"} /\ Turns(c, e, e.phase) /\ e.phase \in {"armed", "axisPick"}
  \/ Swept(c, e)
  \/ c.phase = "armed" /\ Unpicked(c, e)
  \/ c.phase = "armed" /\ Sets(c, e, e.value)

(* to the kind of a fillet,                                                *)
FlipStep(c, e) ==
  /\ c.tool = "fillet"
  /\ \/ c.phase = "armed" /\ Flipped(c, e)
     \/ "flip_mid_commit" \in Rare /\ c.commit.pc \in {"apply", "undo"} /\ Flipped(c, e)
     \/ /\ "flip_mid_commit" \in Rare /\ c.commit.pc = "barrier"
        /\ \E x : LaneOK(x, {}) /\ Flipped(c, x) /\ Rearmed(x, e, 1) /\ RearmedLane(x, e, 1, TRUE)

(* to its commit,                                                          *)
CommitStepTo(c, e) ==
  \/ c.phase = "armed" /\ c.tool \in Multi /\ AsksRecord(c, e)
  \/ c.phase = "armed" /\ c.tool \notin Multi /\ \E reopened \in Reopen : Stepped(c, e, 1, reopened)
  \/ c.commit.pc = "record" /\ (Stepped(c, e, 1, TRUE) \/ Backs(c, e))
  \/ c.commit.pc = "barrier" /\ \E reopened \in Reopen : BarrierEnds(c, e, c.commit.k, "timeout", reopened)
  \/ /\ c.calls # <<>> /\ Head(c.calls).live /\ Head(c.calls).answer # "none"
     /\ Len(c.calls) = 1 /\ c.commit.pc = Head(c.calls).kind
     /\ \E a : \E reopened \in Reopen :
          Dequeued(c, a) /\ LaneOK(a, {}) /\ a.calls = <<>> /\ Goes(c, a, e, Head(c.calls), reopened)

(* or to its lane and its calls.                                           *)
LaneStep(c, e) ==
  \/ \E out \in {"good", "bad", "stale"} : \E reopened \in Reopen : Answered(c, e, out, reopened)
  \/ \E i \in DOMAIN c.calls : \E out \in {"ok", "failed", "refused"} : \E d \in Doc : Replied(c, e, i, out, d)
  \/ c.calls # <<>> /\ ~Head(c.calls).live /\ Discards(c, e)

StepOf(c, e) == ToolStep(c, e) \/ FlipStep(c, e) \/ CommitStepTo(c, e) \/ LaneStep(c, e)

(* The same, whichever answer beginPreview gives.                          *)
LEMMA ReopenIs ==
    ASSUME NEW reopened \in Reopen
    PROVE  reopened \in BOOLEAN
  BY DEF Reopen

(* The records after an undo.                                              *)
LEMMA FrontIs ==
    ASSUME NEW S, NEW q \in Seq(S), q # <<>>
    PROVE  /\ Front(q) \in Seq(S) /\ Len(Front(q)) = Len(q) - 1 /\ Len(q) \in Nat /\ Len(q) > 0
           /\ DOMAIN Front(q) = 1 .. (Len(q) - 1) /\ \A i \in 1 .. (Len(q) - 1) : Front(q)[i] = q[i]
<1>1. Len(q) \in Nat /\ Len(q) > 0 /\ \A i \in 1 .. Len(q) : q[i] \in S
  BY EmptySeq, LenProperties, ElementOfSeq
<1>. DEFINE n == Len(q) - 1
<1>2. Front(q) = SubSeq(q, 1, n)
  BY DEF Front
<1>3. n \in Nat /\ n \in Int /\ 1 \in Int /\ \A i \in 1 .. n : q[i] \in S
  BY <1>1
<1>. HIDE DEF n
<1>4. /\ SubSeq(q, 1, n) \in Seq(S) /\ Len(SubSeq(q, 1, n)) = IF 1 <= n THEN n - 1 + 1 ELSE 0
      /\ \A i \in 1 .. n - 1 + 1 : SubSeq(q, 1, n)[i] = q[1 + i - 1]
  BY ONLY <1>3
<1>5. /\ Front(q) \in Seq(S) /\ Len(Front(q)) = IF 1 <= n THEN n - 1 + 1 ELSE 0
      /\ \A i \in 1 .. n - 1 + 1 : Front(q)[i] = q[1 + i - 1]
  BY ONLY <1>2, <1>4, Zenon
<1>6. Front(q) \in Seq(S) /\ Len(Front(q)) = n /\ \A i \in 1 .. n : Front(q)[i] = q[i]
  BY ONLY <1>3, <1>5
<1>. QED
  BY <1>1, <1>6, LenProperties DEF n

(* The initial state.                                                      *)
LEMMA TypesInit == Init => TypeInv
<1>. SUFFICES ASSUME Init PROVE TypeInv
  OBVIOUS
<1>0. 0 \in 0 .. MaxValue /\ 0 \in 0 .. MaxArms
  BY LaneBounds
<1>00. /\ DOMAIN <<>> = {} /\ Len(<<>>) = 0
  OBVIOUS
<1>1. LaneShape(ctl)
  <2>1. DOMAIN ctl = Fields
    BY DEF Init, Fields
  <2>2. ctl.sessions = <<>> /\ ctl.lane = <<>> /\ ctl.kernel = <<>>
    BY DEF Init
  <2>3. ctl.throttle \in Throttle /\ ctl.throttle.inFlight = 0 /\ ctl.throttle.pending = 0
    BY DEF Init, NoThrottle, Throttle
  <2>4. ctl.latch = FALSE /\ ctl.retried = FALSE /\ ctl.timer = FALSE /\ ctl.value = 0
    BY DEF Init
  <2>5. <<>> \in Seq(Session) /\ <<>> \in Seq(Ask)
    OBVIOUS
  <2>6. <<>> \in [DOMAIN <<>> -> Slot] /\ DOMAIN <<>> \subseteq Nat
    BY <1>00
  <2>7. IsFiniteSet({})
    BY FS_EmptySet
  <2>. QED
    BY ONLY <1>0, <1>00, <2>1, <2>2, <2>3, <2>4, <2>5, <2>6, <2>7 DEF LaneShape
<1>2. LaneAsks(ctl, {})
  <2>1. ctl.lane = <<>> /\ ctl.kernel = <<>>
    BY DEF Init
  <2>. QED
    BY ONLY <1>00, <2>1 DEF LaneAsks
<1>3. PendingOK(ctl)
  BY DEF Init, PendingOK
<1>4. ToolOK(ctl)
  <2>1. /\ ctl.tool = "select" /\ ctl.arm = 0 /\ ctl.chosen = 0 /\ ctl.regions = <<>> /\ ctl.commit = NoCommit
        /\ ctl.sessions = <<>>
    BY DEF Init
  <2>2. NoCommit \in Commit /\ <<>> \in Seq(Nat)
    BY DEF NoCommit, Commit
  <2>. QED
    BY ONLY <1>0, <1>00, <2>1, <2>2 DEF ToolOK
<1>5. PhaseOK(ctl)
  <2>1. ctl.phase = "idle" /\ ctl.tool = "select" /\ ctl.commit.pc = "none" /\ ctl.sessions = <<>>
    BY DEF Init, NoCommit
  <2>. QED
    BY ONLY <2>1 DEF PhaseOK
<1>6. CallsOK(ctl)
  <2>1. ctl.commit.pc = "none" /\ ctl.calls = <<>>
    BY DEF Init, NoCommit
  <2>2. <<>> \in Seq(CallRec)
    OBVIOUS
  <2>. QED
    BY ONLY <1>00, <2>1, <2>2 DEF CallsOK, Quiet
<1>7. doc \in Doc /\ store \in Doc
  <2>1. <<>> \in Seq(Record)
    OBVIOUS
  <2>. QED
    BY <2>1 DEF Init, Doc
<1>. QED
  BY <1>1, <1>2, <1>3, <1>4, <1>5, <1>6, <1>7 DEF TypeInv, Base, LaneOK, Control

(* What a tool that waits for something looks like.                        *)
LEMMA WaitingIs ==
    ASSUME NEW c, Base(c), c.phase \in {"waiting", "axisPick"}
    PROVE  /\ c.tool # "select" /\ c.commit.pc = "none" /\ c.sessions = <<>> /\ DOMAIN c = Fields
           /\ c.phase = "axisPick" => c.tool = "revolve"
  BY DEF Base, Control, PhaseOK, LaneOK, LaneShape

(* An arm is answered, refused or goes without a preview.                  *)
Waited(c, e) ==
  \/ Arms(c, e) \/ Swept(c, e)
  \/ c.tool \in Multi /\ Turns(c, e, e.phase) /\ e.phase \in {"armed", "axisPick"}

(* The steps of a tool that waits,                                         *)
LEMMA WaitingSteps ==
    ASSUME TypeInv, ArmAnswered \/ ArmRefused \/ ArmWithoutPreview \/ PickRevolveAxis
    PROVE  TypeInv' /\ ctl.phase \in {"waiting", "axisPick"} /\ Waited(ctl, ctl')
<1>1. Base(ctl) /\ ctl.phase \in {"waiting", "axisPick"} /\ UNCHANGED <<doc, store>>
  BY DEF TypeInv, ArmAnswered, ArmRefused, ArmWithoutPreview, PickRevolveAxis, Same
<1>2. /\ ctl.tool # "select" /\ ctl.commit.pc = "none" /\ ctl.sessions = <<>> /\ DOMAIN ctl = Fields
      /\ ctl.phase = "axisPick" => ctl.tool = "revolve"
  BY <1>1, WaitingIs
<1>3. ASSUME NEW a, a = [ctl EXCEPT !.phase = "armed"] \/ a = [ctl EXCEPT !.phase = "armed", !.prepared = store.rev],
             ctl' = OpenSessions(a, ctl.regions)
      PROVE  Base(ctl') /\ Waited(ctl, ctl')
  <2>1. DOMAIN a = Fields /\ a.phase = "armed"
    BY <1>2, <1>3 DEF Fields
  <2>2. /\ Untouched(ctl, a) /\ a.tool = ctl.tool /\ a.regions = ctl.regions /\ a.basis = ctl.basis
        /\ a.commit = ctl.commit /\ a.arm = ctl.arm /\ a.chosen = ctl.chosen /\ a.calls = ctl.calls
    <3>1. CASE a = [ctl EXCEPT !.phase = "armed"]
      BY ONLY <3>1 DEF Untouched, SameLane, SameFlags
    <3>2. CASE a = [ctl EXCEPT !.phase = "armed", !.prepared = store.rev]
      BY ONLY <3>2 DEF Untouched, SameLane, SameFlags
    <3>. QED
      BY <1>3, <3>1, <3>2
  <2>3. Base(ctl') /\ Arms(ctl, ctl')
    BY ONLY <1>1, <1>2, <1>3, <2>1, <2>2, ArmsIs
  <2>. QED
    BY ONLY <1>1, <2>3 DEF Waited
<1>4. ASSUME NEW phase \in {"armed", "axisPick"}, ctl.tool \in Multi, phase = "axisPick" => ctl.tool = "revolve",
             ctl' = [ctl EXCEPT !.phase = phase]
      PROVE  Base(ctl') /\ Waited(ctl, ctl')
  <2>1. Base(ctl') /\ Turns(ctl, ctl', phase)
    BY ONLY <1>1, <1>2, <1>4, TurnIs
  <2>2. ctl'.phase = phase
    BY ONLY <2>1 DEF Turns
  <2>. QED
    BY ONLY <1>1, <1>4, <2>1, <2>2 DEF Waited
<1>5. CASE ArmAnswered
  <2>. DEFINE a1 == [ctl EXCEPT !.phase = "armed"]
              a2 == [ctl EXCEPT !.phase = "armed", !.prepared = store.rev]
              v1 == OpenSessions(a1, ctl.regions)
              v2 == [ctl EXCEPT !.phase = "axisPick"]
              v3 == OpenSessions(a2, ctl.regions)
  <2>1. ctl' = CASE ctl.tool = "extrude" -> v1 [] ctl.tool = "revolve" -> v2 [] OTHER -> v3
    BY <1>5, Zenon DEF ArmAnswered
  <2>. HIDE DEF v1, v2, v3
  <2>2. ctl' = v1 \/ (ctl' = v2 /\ ctl.tool = "revolve") \/ ctl' = v3
    BY ONLY <2>1
  <2>3. CASE ctl' = v1
    <3>. HIDE DEF a1
    <3>1. a1 = [ctl EXCEPT !.phase = "armed"] /\ ctl' = OpenSessions(a1, ctl.regions)
      BY <2>3 DEF a1, v1
    <3>. QED
      BY <1>1, <1>3, <3>1 DEF TypeInv
  <2>4. CASE ctl' = v2 /\ ctl.tool = "revolve"
    BY <1>1, <1>4, <2>4 DEF TypeInv, v2, Multi
  <2>5. CASE ctl' = v3
    <3>. HIDE DEF a2
    <3>1. a2 = [ctl EXCEPT !.phase = "armed", !.prepared = store.rev] /\ ctl' = OpenSessions(a2, ctl.regions)
      BY <2>5 DEF a2, v3
    <3>. QED
      BY <1>1, <1>3, <3>1 DEF TypeInv
  <2>. QED
    BY <1>1, <2>2, <2>3, <2>4, <2>5 DEF TypeInv
<1>6. CASE ArmRefused
  <2>1. ctl' = OnToolChange(ctl)
    BY <1>6 DEF ArmRefused
  <2>2. Base(ctl') /\ Swept(ctl, ctl')
    BY ONLY <1>1, <2>1, LeaveIs
  <2>. QED
    BY <1>1, <2>2 DEF TypeInv, Waited
<1>7. CASE ArmWithoutPreview
  BY <1>1, <1>2, <1>4, <1>7 DEF ArmWithoutPreview, TypeInv, Multi
<1>8. CASE PickRevolveAxis
  <2>. DEFINE a1 == [ctl EXCEPT !.phase = "armed"]
  <2>. HIDE DEF a1
  <2>1. a1 = [ctl EXCEPT !.phase = "armed"] /\ ctl' = OpenSessions(a1, ctl.regions)
    BY <1>8 DEF a1, PickRevolveAxis
  <2>. QED
    BY <1>1, <1>3, <2>1 DEF TypeInv
<1>. QED
  BY <1>1, <1>5, <1>6, <1>7, <1>8

(* A tool is chosen.                                                       *)
LEMMA SetToolSteps ==
    ASSUME TypeInv, NEW t \in Tools, NEW regions \in Subjects(t), SetTool(t, regions)
    PROVE  TypeInv' /\ Starts(ctl, ctl', t, regions, Good(store.recs))
<1>. DEFINE basis == Good(store.recs)
            a == [OnToolChange(ctl) EXCEPT !.tool = t, !.value = 1, !.regions = regions, !.arm = @ + 1,
                                           !.chosen = Len(regions), !.basis = basis]
<1>1. ctl.arm < MaxArms /\ UNCHANGED <<doc, store>> /\ Base(ctl)
  BY DEF SetTool, TypeInv
<1>2. ctl' = IF t \in AtOnce THEN OpenSessions([a EXCEPT !.phase = "armed"], regions)
             ELSE [a EXCEPT !.phase = "waiting"]
  BY Zenon DEF SetTool, AtOnce
<1>. HIDE DEF basis
<1>3. Base(ctl') /\ Starts(ctl, ctl', t, regions, basis)
  <2>. DEFINE b == a
  <2>1. b = [OnToolChange(ctl) EXCEPT !.tool = t, !.value = 1, !.regions = regions, !.arm = @ + 1,
                                      !.chosen = Len(regions), !.basis = basis]
    OBVIOUS
  <2>2. ctl' = IF t \in AtOnce THEN OpenSessions([b EXCEPT !.phase = "armed"], regions)
               ELSE [b EXCEPT !.phase = "waiting"]
    BY <1>2
  <2>3. t \in Tools /\ regions \in Subjects(t)
    OBVIOUS
  <2>. HIDE DEF b
  <2>. QED
    BY ONLY <1>1, <2>1, <2>2, <2>3, SetToolIs
<1>. QED
  BY <1>1, <1>3 DEF TypeInv, basis

(* The user changes an armed tool, or leaves.                              *)
Adjusts(c, e) ==
  \/ c.phase = "armed" /\ (Sets(c, e, e.value) \/ (c.tool = "revolve" /\ Unpicked(c, e)))
  \/ Swept(c, e) \/ FlipStep(c, e)

(* The kind of a fillet is flipped.                                        *)
LEMMA FlipSteps ==
    ASSUME TypeInv, FlipKind
    PROVE  TypeInv' /\ FlipStep(ctl, ctl')
<1>1. Base(ctl) /\ UNCHANGED <<doc, store>>
  BY DEF TypeInv, FlipKind
<1>. DEFINE x == OpenSessions(ClosePreviewSessions(ctl), ctl.regions)
<1>2. /\ ctl.tool = "fillet"
      /\ \/ ctl.phase = "armed" /\ ctl' = x
         \/ "flip_mid_commit" \in Rare /\ ctl.commit.pc \in {"apply", "undo"} /\ ctl' = x
         \/ "flip_mid_commit" \in Rare /\ ctl.commit.pc = "barrier" /\ ctl' = Rearm(x, 1, TRUE)
  BY Zenon DEF FlipKind
<1>3. x = OpenSessions(ClosePreviewSessions(ctl), ctl.regions)
  OBVIOUS
<1>. HIDE DEF x
<1>4. ctl.phase = "committing" <=> ctl.commit.pc # "none"
  BY <1>1 DEF Base, Control, PhaseOK
<1>5. ctl.phase \in {"armed", "committing"}
  BY ONLY <1>2, <1>4
<1>6. IF ctl.commit.pc = "barrier" THEN ctl' = Rearm(x, 1, TRUE) ELSE ctl' = x
  BY ONLY <1>2, <1>4
<1>7. /\ Base(ctl')
      /\ IF ctl.commit.pc = "barrier"
           THEN LaneOK(x, {}) /\ Flipped(ctl, x) /\ Rearmed(x, ctl', 1) /\ RearmedLane(x, ctl', 1, TRUE)
           ELSE Flipped(ctl, ctl')
  BY ONLY <1>1, <1>2, <1>3, <1>5, <1>6, FlipKindIs
<1>8. FlipStep(ctl, ctl')
  BY ONLY <1>2, <1>4, <1>7 DEF FlipStep
<1>. QED
  BY <1>1, <1>7, <1>8 DEF TypeInv

(* of an armed one,                                                        *)
LEMMA ArmedSteps ==
    ASSUME TypeInv, ResetRevolveAxis \/ Leave \/ FlipKind \/ \E v \in 1 .. MaxValue : SetValue(v)
    PROVE  TypeInv' /\ Adjusts(ctl, ctl')
<1>1. Base(ctl) /\ UNCHANGED <<doc, store>>
  BY DEF TypeInv, ResetRevolveAxis, Leave, FlipKind, SetValue
<1>2. CASE ResetRevolveAxis
  <2>1. ctl.phase = "armed" /\ ctl.tool = "revolve" /\ ctl' = [ClosePreviewSessions(ctl) EXCEPT !.phase = "axisPick"]
    BY <1>2 DEF ResetRevolveAxis
  <2>2. Base(ctl') /\ Unpicked(ctl, ctl')
    BY ONLY <1>1, <2>1, UnpickIs
  <2>. QED
    BY <1>1, <2>1, <2>2 DEF TypeInv, Adjusts
<1>3. CASE Leave
  <2>1. ctl' = OnToolChange(ctl)
    BY <1>3 DEF Leave
  <2>2. Base(ctl') /\ Swept(ctl, ctl')
    BY ONLY <1>1, <2>1, LeaveIs
  <2>. QED
    BY <1>1, <2>2 DEF TypeInv, Adjusts
<1>4. CASE \E v \in 1 .. MaxValue : SetValue(v)
  <2>1. PICK v \in 1 .. MaxValue : SetValue(v)
    BY <1>4
  <2>2. ctl' = SendPreview([ctl EXCEPT !.value = v], FALSE) /\ ctl.phase = "armed"
    BY <2>1 DEF SetValue
  <2>3. Base(ctl') /\ Sets(ctl, ctl', v)
    BY <1>1, <2>2, SetIs
  <2>4. ctl'.value = v
    BY <2>3 DEF Sets
  <2>. QED
    BY <1>1, <2>2, <2>3, <2>4 DEF TypeInv, Adjusts
<1>5. CASE FlipKind
  <2>1. TypeInv' /\ FlipStep(ctl, ctl')
    BY <1>5, FlipSteps
  <2>. QED
    BY <2>1 DEF Adjusts
<1>. QED
  BY <1>2, <1>3, <1>4, <1>5

(* The commit starts, and goes on with what it has waited for.             *)
Proceeds(c, e) ==
  \/ c.phase = "armed" /\ c.tool \in Multi /\ AsksRecord(c, e)
  \/ c.phase = "armed" /\ c.tool \notin Multi /\ \E reopened \in Reopen : Stepped(c, e, 1, reopened)
  \/ c.commit.pc = "record" /\ (Stepped(c, e, 1, TRUE) \/ Backs(c, e))
  \/ c.commit.pc = "barrier" /\ \E reopened \in Reopen : BarrierEnds(c, e, c.commit.k, "timeout", reopened)
  \/ c.commit.pc = "loading" /\ Swept(c, e)

(* of its commit,                                                          *)
LEMMA CommitSteps ==
    ASSUME TypeInv, Confirm \/ RecordAnswered \/ BarrierTimeout \/ BodiesLoaded
    PROVE  TypeInv' /\ Proceeds(ctl, ctl')
<1>1. Base(ctl) /\ UNCHANGED <<doc, store>>
  BY DEF TypeInv, Confirm, RecordAnswered, BarrierTimeout, BodiesLoaded, Same
<1>2. CASE Confirm
  <2>1. ctl.phase = "armed"
    BY <1>2 DEF Confirm
  <2>2. PICK reopened \in Reopen :
          ctl' = IF ctl.tool \in Multi THEN [ctl EXCEPT !.phase = "committing", !.commit.pc = "record"]
                 ELSE CommitStep(ctl, 1, reopened)
    BY <1>2, Zenon DEF Confirm
  <2>3. reopened \in BOOLEAN
    BY ReopenIs
  <2>4. /\ Base(ctl')
        /\ IF ctl.tool \in Multi THEN AsksRecord(ctl, ctl') ELSE Stepped(ctl, ctl', 1, reopened)
    BY ONLY <1>1, <2>1, <2>2, <2>3, ConfirmIs
  <2>5. Proceeds(ctl, ctl')
    BY <2>1, <2>4 DEF Proceeds
  <2>. QED
    BY <1>1, <2>4, <2>5 DEF TypeInv
<1>3. CASE RecordAnswered
  <2>1. ctl.commit.pc = "record" /\ ctl' \in {CommitStep(ctl, 1, TRUE), Armed(ctl)}
    BY <1>3 DEF RecordAnswered
  <2>2. Base(ctl') /\ (Stepped(ctl, ctl', 1, TRUE) \/ Backs(ctl, ctl'))
    BY ONLY <1>1, <2>1, RecordIs
  <2>3. Proceeds(ctl, ctl')
    BY <2>1, <2>2 DEF Proceeds
  <2>. QED
    BY <1>1, <2>2, <2>3 DEF TypeInv
<1>4. CASE BarrierTimeout
  <2>1. ctl.commit.pc = "barrier"
    BY <1>4 DEF BarrierTimeout
  <2>2. PICK reopened \in Reopen : ctl' = Barrier(ctl, "timeout", reopened)
    BY <1>4 DEF BarrierTimeout
  <2>3. reopened \in BOOLEAN
    BY ReopenIs
  <2>4. Base(ctl') /\ BarrierEnds(ctl, ctl', ctl.commit.k, "timeout", reopened)
    BY ONLY <1>1, <2>1, <2>2, <2>3, TimeoutIs
  <2>5. Proceeds(ctl, ctl')
    BY <2>1, <2>4 DEF Proceeds
  <2>. QED
    BY <1>1, <2>4, <2>5 DEF TypeInv
<1>5. CASE BodiesLoaded
  <2>1. ctl' = OnToolChange(ctl) /\ ctl.commit.pc = "loading"
    BY <1>5 DEF BodiesLoaded
  <2>2. Base(ctl') /\ Swept(ctl, ctl')
    BY ONLY <1>1, <2>1, LeaveIs
  <2>. QED
    BY <1>1, <2>1, <2>2 DEF TypeInv, Proceeds
<1>. QED
  BY <1>2, <1>3, <1>4, <1>5

(* The records the backend has after a call, and the answer it gives.      *)
Handles(c, i, d, out, e) ==
  LET call == c.calls[i]
  IN /\ call.answer = "none" /\ \A j \in 1 .. (i - 1) : c.calls[j].answer # "none"
     /\ \/ /\ call.kind = "apply" /\ out \in {"ok", "failed"}
           /\ e = [rev |-> d.rev + 1,
                   recs |-> Append(d.recs, [arm |-> call.arm, region |-> call.region, ok |-> out = "ok"])]
        \/ out = "refused" /\ e = d /\ (call.kind = "apply" \/ (call.kind = "undo" /\ d.recs = <<>>))
        \/ /\ call.kind = "undo" /\ out = "ok" /\ d.recs # <<>>
           /\ e = [rev |-> d.rev + 1, recs |-> Front(d.recs)]

(* of the backend,                                                         *)
LEMMA HandleSteps ==
    ASSUME TypeInv, HandleCall
    PROVE  /\ TypeInv' /\ store' = store
           /\ \E i \in DOMAIN ctl.calls : \E out \in {"ok", "failed", "refused"} :
                Handles(ctl, i, doc, out, doc') /\ Replied(ctl, ctl', i, out, doc')
<1>1. Base(ctl) /\ UNCHANGED store /\ doc \in Doc /\ store \in Doc
  BY DEF TypeInv, HandleCall
<1>2. PICK i \in DOMAIN ctl.calls :
        LET call == ctl.calls[i]
            rec(ok) == [arm |-> call.arm, region |-> call.region, ok |-> ok]
            after(r) == [rev |-> doc.rev + 1, recs |-> Append(doc.recs, r)]
        IN /\ call.answer = "none" /\ \A j \in 1..(i - 1) : ctl.calls[j].answer # "none"
           /\ \/ call.kind = "apply" /\ Handled(i, "ok", after(rec(TRUE)))
              \/ call.kind = "apply" /\ Handled(i, "failed", after(rec(FALSE)))
              \/ call.kind = "apply" /\ Handled(i, "refused", doc)
              \/ call.kind = "undo" /\ doc.recs # <<>>
                   /\ Handled(i, "ok", [rev |-> doc.rev + 1, recs |-> Front(doc.recs)])
              \/ call.kind = "undo" /\ doc.recs = <<>> /\ Handled(i, "refused", doc)
  BY Zenon DEF HandleCall
<1>. DEFINE call == ctl.calls[i]
            good == [arm |-> call.arm, region |-> call.region, ok |-> TRUE]
            bad == [arm |-> call.arm, region |-> call.region, ok |-> FALSE]
            after(r) == [rev |-> doc.rev + 1, recs |-> Append(doc.recs, r)]
            back == [rev |-> doc.rev + 1, recs |-> Front(doc.recs)]
<1>4. /\ call.answer = "none" /\ \A j \in 1..(i - 1) : ctl.calls[j].answer # "none"
      /\ \/ call.kind = "apply" /\ Handled(i, "ok", after(good))
         \/ call.kind = "apply" /\ Handled(i, "failed", after(bad))
         \/ call.kind = "apply" /\ Handled(i, "refused", doc)
         \/ call.kind = "undo" /\ doc.recs # <<>> /\ Handled(i, "ok", back)
         \/ call.kind = "undo" /\ doc.recs = <<>> /\ Handled(i, "refused", doc)
  BY <1>2, Zenon
<1>5. call \in CallRec
  <2>1. ctl.calls \in Seq(CallRec)
    BY <1>1 DEF Base, Control, CallsOK, Awaits, Quiet
  <2>. QED
    BY <2>1, ElementOfSeq, LenProperties
<1>6. good \in Record /\ bad \in Record
  BY <1>5 DEF CallRec, Record
<1>7. doc.rev \in Nat /\ doc.recs \in Seq(Record)
  BY <1>1 DEF Doc
<1>8. ASSUME NEW r \in Record PROVE after(r) \in Doc
  <2>1. Append(doc.recs, r) \in Seq(Record)
    BY <1>7, AppendProperties
  <2>. QED
    BY <1>7, <2>1 DEF Doc
<1>9. doc.recs # <<>> => back \in Doc
  <2>1. doc.recs # <<>> => Front(doc.recs) \in Seq(Record)
    BY ONLY <1>7, FrontIs
  <2>. QED
    BY <1>7, <2>1 DEF Doc
<1>10. ASSUME NEW out \in {"ok", "failed", "refused"}, Handled(i, out, doc'), doc' \in Doc,
              Handles(ctl, i, doc, out, doc')
       PROVE  /\ TypeInv' /\ store' = store
              /\ \E i1 \in DOMAIN ctl.calls : \E out1 \in {"ok", "failed", "refused"} :
                   Handles(ctl, i1, doc, out1, doc') /\ Replied(ctl, ctl', i1, out1, doc')
  <2>1. ctl' = [ctl EXCEPT !.calls[i].answer = out, !.calls[i].doc = doc']
    BY <1>10 DEF Handled
  <2>2. i \in DOMAIN ctl.calls /\ out \in {"ok", "failed", "refused"}
    OBVIOUS
  <2>3. Base(ctl') /\ Replied(ctl, ctl', i, out, doc')
    BY ONLY <1>1, <1>10, <2>1, <2>2, ReplyIs
  <2>. QED
    BY <1>1, <1>10, <2>3 DEF TypeInv
<1>. HIDE DEF good, bad, after, back
<1>11. CASE call.kind = "apply" /\ Handled(i, "ok", after(good))
  <2>1. doc' = after(good) /\ doc' \in Doc
    BY <1>6, <1>8, <1>11 DEF Handled
  <2>2. Handles(ctl, i, doc, "ok", doc')
    BY <1>4, <1>11, <2>1 DEF Handles, after, good
  <2>. QED
    BY <1>10, <1>11, <2>1, <2>2
<1>12. CASE call.kind = "apply" /\ Handled(i, "failed", after(bad))
  <2>1. doc' = after(bad) /\ doc' \in Doc
    BY <1>6, <1>8, <1>12 DEF Handled
  <2>2. Handles(ctl, i, doc, "failed", doc')
    BY <1>4, <1>12, <2>1 DEF Handles, after, bad
  <2>. QED
    BY <1>10, <1>12, <2>1, <2>2
<1>13. CASE Handled(i, "refused", doc) /\ (call.kind = "apply" \/ (call.kind = "undo" /\ doc.recs = <<>>))
  <2>1. doc' = doc /\ doc' \in Doc
    BY <1>1, <1>13 DEF Handled
  <2>2. Handles(ctl, i, doc, "refused", doc')
    BY <1>4, <1>13, <2>1 DEF Handles
  <2>. QED
    BY <1>10, <1>13, <2>1, <2>2
<1>14. CASE call.kind = "undo" /\ doc.recs # <<>> /\ Handled(i, "ok", back)
  <2>1. doc' = back /\ doc' \in Doc
    BY <1>9, <1>14 DEF Handled
  <2>2. Handles(ctl, i, doc, "ok", doc')
    BY <1>4, <1>14, <2>1 DEF Handles, back
  <2>. QED
    BY <1>10, <1>14, <2>1, <2>2
<1>. QED
  BY <1>4, <1>11, <1>12, <1>13, <1>14

(* What a delivered call does to the store: only one that is awaited and   *)
(* was well is heard at once.                                              *)
Heard(c, s, e) ==
  e = IF Head(c.calls).live /\ Head(c.calls).answer = "ok" THEN Head(c.calls).doc ELSE s

Delivers(c, e) ==
  /\ Len(c.calls) = 1 /\ c.commit.pc = Head(c.calls).kind
  /\ \E a : \E reopened \in Reopen :
       Dequeued(c, a) /\ LaneOK(a, {}) /\ a.calls = <<>> /\ Goes(c, a, e, Head(c.calls), reopened)

(* and of the answers on their way back.                                   *)
LEMMA DeliverSteps ==
    ASSUME TypeInv, DeliverCall
    PROVE  /\ TypeInv' /\ doc' = doc /\ Heard(ctl, store, store')
           /\ ctl.calls # <<>> /\ Head(ctl.calls).answer # "none"
           /\ IF Head(ctl.calls).live THEN Delivers(ctl, ctl') ELSE Discards(ctl, ctl')
<1>. DEFINE call == Head(ctl.calls)
            a == [ctl EXCEPT !.calls = Tail(@)]
            blank == [i \in DOMAIN a.sessions |-> [a.sessions[i] EXCEPT !.shown = 0]]
<1>1. Base(ctl) /\ UNCHANGED doc /\ doc \in Doc /\ store \in Doc /\ ctl.calls # <<>> /\ call.answer # "none"
  BY DEF TypeInv, DeliverCall
<1>2. IF call.live
        THEN /\ \E reopened \in Reopen : ctl' = AfterCall(a, call, reopened)
             /\ store' = IF call.answer = "ok" THEN call.doc ELSE store
        ELSE /\ ctl' = IF call.kind = "apply" /\ call.tool \notin Multi
                         THEN [a EXCEPT !.sessions = blank] ELSE a
             /\ store' = store
  BY Zenon DEF DeliverCall
<1>3. call.doc \in Doc
  <2>1. ctl.calls \in Seq(CallRec)
    BY <1>1 DEF Base, Control, CallsOK, Awaits, Quiet
  <2>2. call \in CallRec
    BY <1>1, <2>1, TailIs
  <2>. QED
    BY <2>2 DEF CallRec
<1>4. store' \in Doc /\ Heard(ctl, store, store')
  BY <1>1, <1>2, <1>3 DEF Heard
<1>5. CASE call.live
  <2>1. PICK reopened \in Reopen : ctl' = AfterCall(a, call, reopened)
    BY <1>2, <1>5
  <2>2. reopened \in BOOLEAN
    BY ReopenIs
  <2>. DEFINE b == a
  <2>3. b = [ctl EXCEPT !.calls = Tail(@)] /\ ctl' = AfterCall(b, Head(ctl.calls), reopened)
    BY <2>1
  <2>. HIDE DEF b
  <2>4. /\ Base(ctl') /\ Dequeued(ctl, b) /\ b.calls = <<>> /\ Goes(ctl, b, ctl', Head(ctl.calls), reopened)
        /\ Len(ctl.calls) = 1 /\ ctl.commit.pc = Head(ctl.calls).kind /\ LaneOK(b, {})
    BY ONLY <1>1, <1>5, <2>2, <2>3, GoesIs
  <2>5. Delivers(ctl, ctl')
    BY <2>4 DEF Delivers
  <2>. QED
    BY <1>1, <1>4, <1>5, <2>4, <2>5 DEF TypeInv
<1>6. CASE ~call.live
  <2>. DEFINE b == a
  <2>. DEFINE p == [i \in DOMAIN b.sessions |-> [b.sessions[i] EXCEPT !.shown = 0]]
  <2>1. /\ b = [ctl EXCEPT !.calls = Tail(@)] /\ (ctl' = b \/ ctl' = [b EXCEPT !.sessions = p])
        /\ p = Cleared(b.sessions)
    BY <1>2, <1>6 DEF Cleared
  <2>. HIDE DEF b, p
  <2>2. Base(ctl') /\ Discards(ctl, ctl')
    BY ONLY <1>1, <1>6, <2>1, DropIs
  <2>. QED
    BY <1>1, <1>4, <1>6, <2>2 DEF TypeInv
<1>. QED
  BY <1>5, <1>6

(* An answer, the floor or the timer.                                      *)
LEMMA LaneSteps ==
    ASSUME TypeInv, FloorOpens \/ TimerFires \/ \E out \in {"good", "bad", "stale"} : Answer(out)
    PROVE  /\ TypeInv' /\ doc' = doc /\ store' = store
           /\ \E out \in {"good", "bad", "stale"} : \E reopened \in Reopen : Answered(ctl, ctl', out, reopened)
<1>1. Base(ctl) /\ UNCHANGED <<doc, store>> /\ doc \in Doc /\ store \in Doc
  BY DEF TypeInv, FloorOpens, TimerFires, Answer, Same
<1>2. CASE FloorOpens
  <2>1. ctl' = [ctl EXCEPT !.throttle.open = TRUE]
    BY <1>2 DEF FloorOpens
  <2>2. Base(ctl') /\ Paced(ctl, ctl')
    BY ONLY <1>1, <2>1, FloorIs
  <2>3. \E reopened \in Reopen : TRUE
    BY DEF Reopen
  <2>. QED
    BY <1>1, <2>2, <2>3 DEF TypeInv, Answered
<1>3. CASE TimerFires
  <2>. DEFINE c == IF ctl.sessions = <<>> THEN ctl ELSE MaybeSend(ctl)
              b == /\ ctl.sessions # <<>>
                   /\ \/ c.throttle.epoch # ctl.throttle.epoch
                      \/ c.throttle.pending # 0 /\ c.throttle.inFlight = 0
  <2>1. ctl' = [c EXCEPT !.timer = b]
    BY <1>3, Zenon DEF TimerFires
  <2>2. c = (IF ctl.sessions = <<>> THEN ctl ELSE MaybeSend(ctl)) /\ b \in BOOLEAN
    OBVIOUS
  <2>. HIDE DEF c, b
  <2>3. Base(ctl') /\ Paced(ctl, ctl')
    BY ONLY <1>1, <2>1, <2>2, TimerIs
  <2>4. \E reopened \in Reopen : TRUE
    BY DEF Reopen
  <2>. QED
    BY <1>1, <2>3, <2>4 DEF TypeInv, Answered
<1>4. CASE \E out \in {"good", "bad", "stale"} : Answer(out)
  <2>1. PICK out \in {"good", "bad", "stale"} : Answer(out)
    BY <1>4
  <2>. DEFINE a == [ctl EXCEPT !.kernel = Tail(@)]
              ask == Head(ctl.kernel)
              d == OnPreviewResult(a, ask, out)
  <2>2. PICK reopened \in Reopen :
          ctl' = IF Waits(ctl, ask) THEN Barrier(d, out, reopened) ELSE PopQueue(d, ask.sid)
    BY <2>1, Zenon DEF Answer
  <2>3. ctl.kernel # <<>>
    BY <2>1 DEF Answer
  <2>4. reopened \in BOOLEAN /\ out \in {"good", "bad", "stale"}
    BY ReopenIs
  <2>5. a = [ctl EXCEPT !.kernel = Tail(@)] /\ d = OnPreviewResult(a, ask, out) /\ ask = Head(ctl.kernel)
    OBVIOUS
  <2>. HIDE DEF d, a, ask
  <2>6. ctl' = IF Waits(ctl, Head(ctl.kernel)) THEN Barrier(d, out, reopened) ELSE PopQueue(d, Head(ctl.kernel).sid)
    BY ONLY <2>2, <2>5
  <2>7. Base(ctl') /\ Answered(ctl, ctl', out, reopened)
    BY ONLY <1>1, <2>3, <2>4, <2>5, <2>6, AnswerIs
  <2>. QED
    BY <1>1, <2>7 DEF TypeInv
<1>. QED
  BY <1>2, <1>3, <1>4

(* The document is edited, and the store hears of it.                      *)
LEMMA DocSteps ==
    ASSUME TypeInv, Edit \/ Hear
    PROVE  TypeInv' /\ ToolStep(ctl, ctl')
<1>1. Base(ctl) /\ doc \in Doc /\ store \in Doc
  BY DEF TypeInv
<1>2. CASE Edit
  <2>. DEFINE r == [arm |-> 0, region |-> 1, ok |-> TRUE]
              q == Append(doc.recs, r)
  <2>1. ctl' = ctl /\ store' = store /\ doc' = [rev |-> doc.rev + 1, recs |-> q]
    BY <1>2 DEF Edit
  <2>2. r \in Record
    BY DEF Record
  <2>. HIDE DEF r
  <2>3. q \in Seq(Record) /\ doc.rev \in Nat
    BY <1>1, <2>2, AppendProperties DEF Doc
  <2>. HIDE DEF q
  <2>4. doc' \in Doc
    BY <2>1, <2>3 DEF Doc
  <2>. QED
    BY <1>1, <2>1, <2>4 DEF TypeInv, ToolStep
<1>3. CASE Hear
  <2>1. doc' = doc /\ store' = doc /\ (ctl' = OnToolChange(ctl) \/ ctl' = ctl)
    BY <1>3 DEF Hear
  <2>2. CASE ctl' = OnToolChange(ctl)
    <3>1. Base(ctl') /\ Swept(ctl, ctl')
      BY ONLY <1>1, <2>2, LeaveIs
    <3>. QED
      BY <1>1, <2>1, <3>1 DEF TypeInv, ToolStep
  <2>3. CASE ctl' = ctl
    BY <1>1, <2>1, <2>3 DEF TypeInv, ToolStep
  <2>. QED
    BY <2>1, <2>2, <2>3
<1>. QED
  BY <1>2, <1>3

(* Every step keeps the types, and is one of those.                        *)
LEMMA TypesStep == TypeInv /\ [Next]_vars => TypeInv' /\ StepOf(ctl, ctl')
<1>. SUFFICES ASSUME TypeInv, [Next]_vars PROVE TypeInv' /\ StepOf(ctl, ctl')
  OBVIOUS
<1>1. CASE UNCHANGED vars
  <2>1. ctl' = ctl /\ doc' = doc /\ store' = store
    BY <1>1 DEF vars
  <2>. QED
    BY <2>1 DEF TypeInv, StepOf, ToolStep
<1>2. CASE \E t \in Tools : \E regions \in Subjects(t) : SetTool(t, regions)
  <2>1. PICK t \in Tools : \E regions \in Subjects(t) : SetTool(t, regions)
    BY <1>2
  <2>2. PICK regions \in Subjects(t) : SetTool(t, regions)
    BY <2>1
  <2>3. TypeInv' /\ Starts(ctl, ctl', t, regions, Good(store.recs))
    BY <2>2, SetToolSteps
  <2>4. ctl'.basis = Good(store.recs)
    BY ONLY <2>3 DEF Starts
  <2>5. Starts(ctl, ctl', t, regions, ctl'.basis)
    BY ONLY <2>3, <2>4
  <2>. QED
    BY <2>3, <2>5 DEF StepOf, ToolStep
<1>3. CASE ArmAnswered \/ ArmRefused \/ ArmWithoutPreview \/ PickRevolveAxis
  BY <1>3, WaitingSteps DEF StepOf, ToolStep, Waited
<1>4. CASE ResetRevolveAxis \/ Leave \/ FlipKind \/ \E v \in 1 .. MaxValue : SetValue(v)
  BY <1>4, ArmedSteps DEF StepOf, ToolStep, Adjusts
<1>5. CASE Confirm \/ RecordAnswered \/ BarrierTimeout \/ BodiesLoaded
  BY <1>5, CommitSteps DEF StepOf, ToolStep, CommitStepTo, Proceeds
<1>6. CASE HandleCall
  <2>1. PICK i \in DOMAIN ctl.calls : \E out \in {"ok", "failed", "refused"} :
          Handles(ctl, i, doc, out, doc') /\ Replied(ctl, ctl', i, out, doc')
    BY <1>6, HandleSteps
  <2>2. TypeInv'
    BY <1>6, HandleSteps
  <2>3. doc' \in Doc
    BY <2>2 DEF TypeInv
  <2>4. LaneStep(ctl, ctl')
    BY <2>1, <2>3 DEF LaneStep
  <2>. QED
    BY <2>2, <2>4 DEF StepOf
<1>7. CASE DeliverCall
  BY <1>7, DeliverSteps DEF StepOf, CommitStepTo, Delivers, LaneStep
<1>8. CASE Edit \/ Hear
  BY <1>8, DocSteps DEF StepOf
<1>9. CASE FloorOpens \/ TimerFires \/ \E out \in {"good", "bad", "stale"} : Answer(out)
  BY <1>9, LaneSteps DEF StepOf, LaneStep
<1>. QED
  BY <1>1, <1>2, <1>3, <1>4, <1>5, <1>6, <1>7, <1>8, <1>9 DEF Next

(* One question, or none, of a session.                                    *)
LEMMA OneAsk ==
    ASSUME NEW c, LaneOK(c, {}), NEW s \in DOMAIN c.lane
    PROVE  Cardinality({j \in DOMAIN c.kernel : c.kernel[j].sid = s}) = IF c.lane[s].busy THEN 1 ELSE 0
<1>. DEFINE J == {j \in DOMAIN c.kernel : c.kernel[j].sid = s}
<1>1. /\ \A j \in DOMAIN c.kernel : c.lane[c.kernel[j].sid].busy
      /\ \A i, j \in DOMAIN c.kernel : c.kernel[i].sid = c.kernel[j].sid => i = j
      /\ c.lane[s].busy => \E j \in DOMAIN c.kernel : c.kernel[j].sid = s
  BY DEF LaneOK, LaneAsks
<1>2. CASE c.lane[s].busy
  <2>1. PICK j \in DOMAIN c.kernel : c.kernel[j].sid = s
    BY <1>1, <1>2
  <2>2. J = {j}
    BY <1>1, <2>1
  <2>3. Cardinality({j}) = 1
    BY FS_Singleton
  <2>. QED
    BY <1>2, <2>2, <2>3
<1>3. CASE ~c.lane[s].busy
  <2>1. J = {}
    BY <1>1, <1>3
  <2>2. Cardinality({}) = 0
    BY FS_EmptySet
  <2>. QED
    BY <1>3, <2>1, <2>2
<1>. QED
  BY <1>2, <1>3

(* As many ids as sessions.                                                *)
LEMMA ManySids ==
    ASSUME NEW q \in Seq(Session), Distinct(q)
    PROVE  Cardinality(SidsOf(q)) = Len(q)
<1>1. Len(q) \in Nat /\ DOMAIN q = 1 .. Len(q)
  BY LenProperties
<1>. DEFINE f == [i \in DOMAIN q |-> q[i].sid]
<1>2. f \in [DOMAIN q -> SidsOf(q)] /\ \A i \in DOMAIN q : f[i] = q[i].sid
  BY DEF SidsOf
<1>. HIDE DEF f
<1>3. f \in Surjection(DOMAIN q, SidsOf(q))
  BY <1>2 DEF Surjection, SidsOf
<1>4. f \in Injection(DOMAIN q, SidsOf(q))
  <2>1. \A i, j \in DOMAIN q : f[i] = f[j] => i = j
    BY <1>2 DEF Distinct
  <2>. QED
    BY ONLY <1>2, <2>1 DEF Injection, IsInjective
<1>5. ExistsBijection(DOMAIN q, SidsOf(q))
  BY <1>3, <1>4 DEF ExistsBijection, Bijection
<1>6. IsFiniteSet(DOMAIN q) /\ Cardinality(DOMAIN q) = Len(q)
  <2>1. 1 \in Int /\ Len(q) \in Int
    BY <1>1
  <2>2. IsFiniteSet(1 .. Len(q)) /\ Cardinality(1 .. Len(q)) = IF 1 > Len(q) THEN 0 ELSE Len(q) - 1 + 1
    BY <2>1, FS_Interval
  <2>. QED
    BY <1>1, <2>2
<1>. QED
  BY <1>5, <1>6, FS_Bijection

(* What the types say is what the run checks.                              *)
LEMMA TypesHold == TypeInv => LaneTypeOK
<1>. SUFFICES ASSUME TypeInv PROVE LaneTypeOK
  OBVIOUS
<1>1. LaneOK(ctl, {}) /\ ToolOK(ctl) /\ PhaseOK(ctl)
  BY DEF TypeInv, Base, Control
<1>2. /\ ctl.throttle.inFlight \in {0, ctl.throttle.epoch} /\ ctl.throttle.pending \in 0..MaxValue
      /\ ctl.sessions \in Seq(Session) /\ Distinct(ctl.sessions)
  BY <1>1 DEF LaneOK, LaneShape, Distinct
<1>3. ctl.tool \in Tools \cup {"select"} /\ ctl.arm \in 0 .. MaxArms /\ ctl.commit.pc \in
        {"none", "record", "barrier", "apply", "undo", "loading"}
  BY <1>1 DEF ToolOK, Commit
<1>4. ctl.phase \in {"idle", "waiting", "axisPick", "armed", "committing"} /\ (ctl.phase = "committing") = Committing
  BY <1>1 DEF PhaseOK, Committing
<1>5. \A s \in DOMAIN ctl.lane :
        Cardinality({j \in DOMAIN ctl.kernel : ctl.kernel[j].sid = s}) = IF ctl.lane[s].busy THEN 1 ELSE 0
  BY <1>1, OneAsk
<1>6. Cardinality(Sids) = Len(ctl.sessions)
  <2>1. Sids = SidsOf(ctl.sessions)
    BY DEF Sids, SidsOf
  <2>. QED
    BY <1>2, <2>1, ManySids
<1>. QED
  BY <1>2, <1>3, <1>4, <1>5, <1>6 DEF LaneTypeOK

(* The types hold in every state.                                          *)
LEMMA TypesAlways == Spec => []TypeInv
  BY TypesInit, TypesStep, PTL DEF Spec

(* The shape of the controller holds of every tool under every             *)
(* circumstance: at most one question per session at the kernel, one       *)
(* commit at a time.                                                       *)
THEOREM LaneTypes == Spec => []LaneTypeOK
  BY TypesAlways, TypesHold, PTL

(* -- The latch ------------------------------------------------------------ *)

(* Where no session failed the latch is down, and what keeps both keeps it *)
(* right.                                                                  *)
LEMMA LatchBlank ==
    ASSUME NEW c, Blank(c.sessions), c.latch = FALSE
    PROVE  LatchOK(c)
  BY DEF Blank, LatchOK, Failing

(* Without sessions none fails.                                            *)
LEMMA LatchEmpty ==
    ASSUME NEW c, c.sessions = <<>>, c.latch = FALSE
    PROVE  LatchOK(c)
<1>1. DOMAIN <<>> = {}
  OBVIOUS
<1>. QED
  BY <1>1 DEF LatchOK, Failing

(* The same failures have the same latch.                                  *)
LEMMA LatchSame ==
    ASSUME NEW c, NEW e, LatchOK(c), e.latch = c.latch, DOMAIN e.sessions = DOMAIN c.sessions,
           \A i \in DOMAIN c.sessions : e.sessions[i].failed = c.sessions[i].failed
    PROVE  LatchOK(e)
  BY DEF LatchOK, Failing

(* So has a lane nobody touched.                                           *)
LEMMA LatchUntouched ==
    ASSUME NEW c, NEW e, LatchOK(c), e.latch = c.latch, e.sessions = c.sessions
    PROVE  LatchOK(e)
  BY DEF LatchOK, Failing

(* A re-arm does, if the session is opened once more.                      *)
LEMMA LatchRearmed ==
    ASSUME NEW c, NEW e, NEW k, LatchOK(c), RearmedLane(c, e, k, TRUE)
    PROVE  LatchOK(e)
<1>1. \/ Reopened(c, e) \/ Untouched(c, e) \/ (e.sessions = <<>> /\ e.latch = FALSE) \/ Retried(c, e, k) \/ Kept(c, e)
  BY DEF RearmedLane
<1>2. CASE Reopened(c, e)
  BY <1>2, LatchBlank DEF Reopened
<1>3. CASE Untouched(c, e)
  BY <1>3, LatchUntouched DEF Untouched, SameFlags
<1>4. CASE e.sessions = <<>> /\ e.latch = FALSE
  BY <1>4, LatchEmpty
<1>5. CASE Retried(c, e, k)
  BY <1>5, LatchBlank DEF Retried
<1>6. CASE Kept(c, e)
  BY <1>6, LatchSame DEF Kept, SameFlags, SameSessions
<1>. QED
  BY <1>1, <1>2, <1>3, <1>4, <1>5, <1>6

(* A step of the commit loop keeps the latch true,                         *)
LEMMA LatchStepped ==
    ASSUME NEW c, NEW e, NEW k, LatchOK(c), Stepped(c, e, k, TRUE)
    PROVE  LatchOK(e)
<1>1. Loads(c, e) \/ Barred(c, e, k) \/ RearmedLane(c, e, k, TRUE) \/ Applied(c, e, k)
  BY DEF Stepped
<1>2. CASE RearmedLane(c, e, k, TRUE)
  BY <1>2, LatchRearmed
<1>3. CASE Loads(c, e) \/ Barred(c, e, k) \/ Applied(c, e, k)
  BY <1>3, LatchUntouched DEF Loads, Barred, Applied, Untouched, SameFlags
<1>. QED
  BY <1>1, <1>2, <1>3

(* and so does the end of a barrier.                                       *)
LEMMA LatchBarrier ==
    ASSUME NEW c, NEW e, NEW k, NEW out, LatchOK(c), BarrierEnds(c, e, k, out, TRUE)
    PROVE  LatchOK(e)
<1>1. ASSUME NEW d, Ended(c, d, {c.sessions[k].sid}) PROVE LatchOK(d)
  BY <1>1, LatchUntouched DEF Ended, SameFlags
<1>2. ASSUME NEW d, LatchOK(d), NEW kind, NEW r, NEW v, NEW b, Called(d, e, kind, k, r, v, b) PROVE LatchOK(e)
  BY <1>2, LatchUntouched DEF Called, Untouched, SameFlags
<1>3. CASE \E d : Ended(c, d, {c.sessions[k].sid}) /\ RearmedLane(d, e, k, TRUE)
  BY <1>1, <1>3, LatchRearmed
<1>4. CASE \E d : /\ Ended(c, d, {c.sessions[k].sid})
                  /\ Called(d, e, "apply", k, c.sessions[k].region, c.lane[c.sessions[k].sid].value, out = "good")
  BY <1>1, <1>2, <1>4
<1>5. CASE Called(c, e, "undo", k, c.sessions[k].region, 0, FALSE)
  BY <1>2, <1>5
<1>. QED
  BY <1>3, <1>4, <1>5 DEF BarrierEnds

(* Every step does.                                                        *)
LEMMA LatchStep ==
    ASSUME "profile_gone" \notin Rare, NEW c, NEW e, LatchOK(c), StepOf(c, e)
    PROVE  LatchOK(e)
<1>1. Reopen = {TRUE}
  BY DEF Reopen
<1>2. CASE ToolStep(c, e)
  <2>1. CASE \E t \in Tools : \E regions \in Subjects(t) : Starts(c, e, t, regions, e.basis)
    BY <2>1, LatchBlank DEF Starts
  <2>2. CASE Arms(c, e)
    BY <2>2, LatchBlank DEF Arms, Reopened
  <2>3. CASE Swept(c, e) \/ Unpicked(c, e)
    BY <2>3, LatchEmpty DEF Swept, Unpicked
  <2>4. CASE Turns(c, e, e.phase) \/ Sets(c, e, e.value) \/ e = c
    BY <2>4, LatchUntouched DEF Turns, Sets, Untouched, SameFlags
  <2>. QED
    BY <1>2, <2>1, <2>2, <2>3, <2>4 DEF ToolStep
<1>3. CASE FlipStep(c, e)
  <2>1. ASSUME NEW x, Flipped(c, x) PROVE LatchOK(x)
    BY <2>1, LatchBlank DEF Flipped
  <2>. QED
    BY <1>3, <2>1, LatchRearmed DEF FlipStep
<1>4. CASE CommitStepTo(c, e)
  <2>1. CASE AsksRecord(c, e) \/ Backs(c, e)
    BY <2>1, LatchUntouched DEF AsksRecord, Backs, Untouched, SameFlags
  <2>2. CASE \E reopened \in Reopen : Stepped(c, e, 1, reopened)
    BY <1>1, <2>2, LatchStepped
  <2>3. CASE Stepped(c, e, 1, TRUE)
    BY <2>3, LatchStepped
  <2>4. CASE \E reopened \in Reopen : BarrierEnds(c, e, c.commit.k, "timeout", reopened)
    <3>1. BarrierEnds(c, e, c.commit.k, "timeout", TRUE)
      BY <1>1, <2>4
    <3>. QED
      BY ONLY <3>1, LatchOK(c), LatchBarrier
  <2>5. CASE \E a : \E reopened \in Reopen : Dequeued(c, a) /\ Goes(c, a, e, Head(c.calls), reopened)
    <3>1. PICK a : Dequeued(c, a) /\ Goes(c, a, e, Head(c.calls), TRUE)
      BY <1>1, <2>5
    <3>2. LatchOK(a)
      BY <3>1, LatchUntouched DEF Dequeued, Untouched, SameFlags
    <3>3. CASE RearmedLane(a, e, c.commit.k, TRUE)
      BY <3>2, <3>3, LatchRearmed
    <3>4. CASE Called(a, e, "undo", c.commit.k, Head(c.calls).region, 0, FALSE)
      BY <3>2, <3>4, LatchUntouched DEF Called, Untouched, SameFlags
    <3>5. CASE Stepped(a, e, c.commit.k + 1, TRUE)
      BY <3>2, <3>5, LatchStepped
    <3>6. CASE Swept(a, e)
      BY <3>6, LatchEmpty DEF Swept
    <3>. QED
      BY <3>1, <3>3, <3>4, <3>5, <3>6 DEF Goes
  <2>. QED
    BY <1>4, <2>1, <2>2, <2>3, <2>4, <2>5 DEF CommitStepTo
<1>5. CASE LaneStep(c, e)
  <2>1. CASE \E out \in {"good", "bad", "stale"} : \E reopened \in Reopen : Answered(c, e, out, reopened)
    <3>1. PICK out \in {"good", "bad", "stale"} : Answered(c, e, out, TRUE)
      BY <1>1, <2>1
    <3>2. CASE Paced(c, e)
      BY <3>2 DEF Paced
    <3>3. CASE \E d : Paced(c, d) /\ BarrierEnds(d, e, c.commit.k, out, TRUE)
      BY <3>3, LatchBarrier DEF Paced
    <3>. QED
      BY <3>1, <3>2, <3>3 DEF Answered
  <2>2. CASE \E i \in DOMAIN c.calls : \E out \in {"ok", "failed", "refused"} : \E d \in Doc : Replied(c, e, i, out, d)
    BY <2>2, LatchUntouched DEF Replied, Untouched, SameFlags
  <2>3. CASE Discards(c, e)
    BY <2>3, LatchSame DEF Discards, SameFlags, SameSessions
  <2>. QED
    BY <1>5, <2>1, <2>2, <2>3 DEF LaneStep
<1>. QED
  BY <1>2, <1>3, <1>4, <1>5 DEF StepOf

(* However a commit failed and was retried, the latch on the confirm is up *)
(* exactly while a session's newest answer is a refusal; unless a profile  *)
(* is gone, where the failed sessions start over and the latch stays up.   *)
THEOREM LatchTruth == "profile_gone" \notin Rare => (Spec => []LatchIsFailure)
<1>. SUFFICES ASSUME "profile_gone" \notin Rare PROVE Spec => []LatchIsFailure
  OBVIOUS
<1>. DEFINE Inv == TypeInv /\ LatchOK(ctl)
<1>1. Init => Inv
  <2>1. Init => LatchOK(ctl)
    <3>1. Init => ctl.sessions = <<>> /\ ctl.latch = FALSE
      BY DEF Init
    <3>. QED
      BY <3>1, LatchEmpty
  <2>. QED
    BY <2>1, TypesInit
<1>2. Inv /\ [Next]_vars => Inv'
  BY TypesStep, LatchStep
<1>3. Inv => LatchIsFailure
  BY DEF LatchOK, LatchIsFailure
<1>. QED
  BY <1>1, <1>2, <1>3, PTL DEF Spec

(* -- The lane and the tool's sessions ------------------------------------ *)

(* The sessions from the m-th on are in the lane, and nothing else is,     *)
(* unless a rare circumstance lets one leak.                               *)
Owning == "flip_mid_commit" \notin Rare /\ "profile_gone" \notin Rare
Reached(c, m) == \A i \in DOMAIN c.sessions : i >= m => c.sessions[i].sid \in DOMAIN c.lane
OwnedFrom(c, m) == \A s \in DOMAIN c.lane : \E i \in DOMAIN c.sessions : i >= m /\ c.sessions[i].sid = s
Fit(c, m) == Reached(c, m) /\ (Owning => OwnedFrom(c, m))

(* Which sessions those are.                                               *)
Fits(c) ==
  c.tool \notin Multi \/ "profile_gone" \notin Rare =>
    /\ c.commit.pc \in {"none", "record"} => Fit(c, 1)
    /\ c.commit.pc = "barrier" => Fit(c, c.commit.k)
    /\ c.commit.pc \in {"apply", "undo"} =>
         Fit(c, c.commit.k + 1) /\ (c.tool = "extrude" => c.commit.k \in DOMAIN c.sessions)
    /\ c.commit.pc = "loading" /\ Owning => OwnedFrom(c, 1)

(* The lane keeps the same sessions.                                       *)
LEMMA FitSame ==
    ASSUME NEW c, NEW e, NEW m, Fit(c, m), SameSessions(c.sessions, e.sessions), DOMAIN e.lane = DOMAIN c.lane
    PROVE  Fit(e, m)
<1>1. DOMAIN e.sessions = DOMAIN c.sessions /\ \A i \in DOMAIN c.sessions : e.sessions[i].sid = c.sessions[i].sid
  BY DEF SameSessions
<1>2. Reached(e, m)
  BY <1>1 DEF Fit, Reached
<1>3. Owning => OwnedFrom(e, m)
  BY <1>1 DEF Fit, OwnedFrom
<1>. QED
  BY <1>2, <1>3 DEF Fit

(* No other session comes before a later one.                              *)
LEMMA FitLater ==
    ASSUME NEW c, c.sessions \in Seq(Session), NEW k \in Nat, k > Len(c.sessions), Fit(c, k)
    PROVE  Fit(c, k + 1) /\ (Owning => DOMAIN c.lane = {})
<1>1. Len(c.sessions) \in Nat /\ DOMAIN c.sessions = 1 .. Len(c.sessions)
  BY LenProperties
<1>2. \A i \in DOMAIN c.sessions : i \in Nat /\ ~(i >= k) /\ ~(i >= k + 1)
  BY <1>1
<1>3. Owning => DOMAIN c.lane = {}
  BY <1>2 DEF Fit, OwnedFrom
<1>4. Reached(c, k + 1)
  BY <1>2 DEF Reached
<1>5. Owning => OwnedFrom(c, k + 1)
  BY <1>3 DEF OwnedFrom
<1>. QED
  BY <1>3, <1>4, <1>5 DEF Fit

(* The sessions opened are all there is.                                   *)
LEMMA FitOpened ==
    ASSUME NEW c, NEW e, Reopened(c, e), e.sessions \in Seq(Session), Owning => DOMAIN c.lane = {}
    PROVE  Fit(e, 1)
<1>1. DOMAIN e.lane = DOMAIN c.lane \cup SidsOf(e.sessions)
  BY DEF Reopened
<1>2. \A i \in DOMAIN e.sessions : i >= 1
  BY LenProperties
<1>3. Reached(e, 1)
  BY <1>1 DEF Reached, SidsOf
<1>4. Owning => OwnedFrom(e, 1)
  BY <1>1, <1>2 DEF OwnedFrom, SidsOf
<1>. QED
  BY <1>3, <1>4 DEF Fit

(* With no session left, nothing is in the lane.                           *)
LEMMA FitEmpty ==
    ASSUME NEW e, e.sessions = <<>>, Owning => DOMAIN e.lane = {}, NEW m
    PROVE  Fit(e, m)
<1>1. DOMAIN <<>> = {}
  OBVIOUS
<1>. QED
  BY <1>1 DEF Fit, Reached, OwnedFrom

(* Counting on from the k-th of L, and back.                               *)
LEMMA CountBack ==
    ASSUME NEW L \in Nat, NEW k \in Nat, k > 0, k <= L
    PROVE  /\ \A i \in 1 .. (L - k + 1) : i # 1 => i + k - 1 \in 1 .. L /\ i + k - 1 >= k + 1
           /\ \A j \in 1 .. L : j >= k + 1 => /\ j - k + 1 \in 1 .. (L - k + 1) /\ j - k + 1 # 1
                                              /\ (j - k + 1) + k - 1 = j
           /\ 1 \in 1 .. (L - k + 1) /\ \A i \in 1 .. (L - k + 1) : i >= 1
  OBVIOUS

(* A region's session opened once more stands before those left.           *)
LEMMA FitRetried ==
    ASSUME NEW c, c.sessions \in Seq(Session), NEW k \in Nat, k > 0, k <= Len(c.sessions), Fit(c, k + 1),
           NEW e, Retried(c, e, k)
    PROVE  Fit(e, 1)
<1>. DEFINE L == Len(c.sessions)
            D == 1 .. (L - k + 1)
            on(i) == i + k - 1
            back(j) == j - k + 1
            K == k + 1
<1>1. L \in Nat /\ DOMAIN c.sessions = 1 .. L
  BY LenProperties
<1>2. /\ \A i \in D : i # 1 => on(i) \in DOMAIN c.sessions /\ on(i) >= K
      /\ \A j \in DOMAIN c.sessions : j >= K => back(j) \in D /\ back(j) # 1 /\ on(back(j)) = j
      /\ 1 \in D /\ \A i \in D : i >= 1
  BY <1>1, CountBack
<1>3. /\ DOMAIN e.sessions = D /\ DOMAIN e.lane = DOMAIN c.lane \cup {e.sessions[1].sid}
      /\ \A i \in D \ {1} : e.sessions[i].sid = c.sessions[on(i)].sid
  BY DEF Retried
<1>4. Fit(c, K)
  OBVIOUS
<1>. HIDE DEF on, back, D, L, K
<1>5. Reached(e, 1)
  <2>1. ASSUME NEW i \in D PROVE e.sessions[i].sid \in DOMAIN e.lane
    <3>1. CASE i = 1
      BY <1>3, <3>1
    <3>2. CASE i # 1
      <4>1. on(i) \in DOMAIN c.sessions /\ on(i) >= K
        BY <1>2, <3>2
      <4>2. c.sessions[on(i)].sid \in DOMAIN c.lane
        BY <1>4, <4>1 DEF Fit, Reached
      <4>. QED
        BY <1>3, <3>2, <4>2
    <3>. QED
      BY <3>1, <3>2
  <2>. QED
    BY <1>3, <2>1 DEF Reached
<1>6. Owning => OwnedFrom(e, 1)
  <2>1. ASSUME Owning, NEW s \in DOMAIN e.lane PROVE \E i \in D : i >= 1 /\ e.sessions[i].sid = s
    <3>1. CASE s \in DOMAIN c.lane
      <4>1. PICK j \in DOMAIN c.sessions : j >= K /\ c.sessions[j].sid = s
        BY <1>4, <2>1, <3>1 DEF Fit, OwnedFrom
      <4>2. back(j) \in D /\ back(j) # 1 /\ on(back(j)) = j
        BY <1>2, <4>1
      <4>3. e.sessions[back(j)].sid = s
        BY <1>3, <4>1, <4>2
      <4>. QED
        BY <1>2, <4>2, <4>3
    <3>2. CASE s = e.sessions[1].sid
      BY <1>2, <3>2
    <3>. QED
      BY <1>3, <2>1, <3>1, <3>2
  <2>. QED
    BY <1>3, <2>1 DEF OwnedFrom
<1>. QED
  BY <1>5, <1>6 DEF Fit

(* A re-arm leaves the tool with the sessions it lists.                    *)
LEMMA FitRearmed ==
    ASSUME NEW c, c.sessions \in Seq(Session), NEW k \in Nat, k > 0, Fit(c, k + 1),
           c.tool \notin Multi => DOMAIN c.sessions \subseteq {1},
           c.tool = "extrude" => k \in DOMAIN c.sessions,
           NEW reopened, reopened = TRUE \/ c.tool \notin Multi,
           NEW e, e.sessions \in Seq(Session), RearmedLane(c, e, k, reopened)
    PROVE  Fit(e, 1)
<1>1. Len(c.sessions) \in Nat /\ DOMAIN c.sessions = 1 .. Len(c.sessions)
  BY LenProperties
<1>2. ASSUME \A i \in DOMAIN c.sessions : ~(i >= k + 1) PROVE Owning => DOMAIN c.lane = {}
  BY <1>2 DEF Fit, OwnedFrom
<1>3. CASE c.tool \notin Multi
  <2>1. \A i \in DOMAIN c.sessions : ~(i >= k + 1)
    BY <1>3
  <2>2. Owning => DOMAIN c.lane = {}
    BY <1>2, <2>1
  <2>3. Reopened(c, e) \/ (SameLane(c, e) /\ e.sessions = <<>>)
    BY <1>3 DEF RearmedLane, Multi
  <2>4. CASE Reopened(c, e)
    BY <2>2, <2>4, FitOpened
  <2>5. CASE SameLane(c, e) /\ e.sessions = <<>>
    <3>1. Owning => DOMAIN e.lane = {}
      BY <2>2, <2>5 DEF SameLane
    <3>. QED
      BY <2>5, <3>1, FitEmpty
  <2>. QED
    BY <2>3, <2>4, <2>5
<1>4. CASE c.tool \in Multi
  <2>1. /\ c.tool = "extrude" => k <= Len(c.sessions) /\ c.sessions # <<>>
        /\ reopened = TRUE
    <3>1. DOMAIN <<>> = {}
      OBVIOUS
    <3>. QED
      BY <1>1, <1>4, <3>1
  <2>2. \/ c.sessions = <<>> /\ Untouched(c, e)
        \/ k > Len(c.sessions) /\ e.sessions = <<>> /\ DOMAIN e.lane = DOMAIN c.lane
        \/ k <= Len(c.sessions) /\ Retried(c, e, k)
    BY <1>4, <2>1 DEF RearmedLane
  <2>3. CASE c.sessions = <<>> /\ Untouched(c, e)
    <3>1. \A i \in DOMAIN c.sessions : ~(i >= k + 1)
      BY <2>3
    <3>2. e.sessions = <<>> /\ (Owning => DOMAIN e.lane = {})
      BY <1>2, <2>3, <3>1 DEF Untouched, SameLane
    <3>. QED
      BY <3>2, FitEmpty
  <2>4. CASE k > Len(c.sessions) /\ e.sessions = <<>> /\ DOMAIN e.lane = DOMAIN c.lane
    <3>1. \A i \in DOMAIN c.sessions : ~(i >= k + 1)
      BY <1>1, <2>4
    <3>2. Owning => DOMAIN e.lane = {}
      BY <1>2, <2>4, <3>1
    <3>. QED
      BY <2>4, <3>2, FitEmpty
  <2>5. CASE k <= Len(c.sessions) /\ Retried(c, e, k)
    BY <2>5, FitRetried
  <2>. QED
    BY <2>2, <2>3, <2>4, <2>5
<1>. QED
  BY <1>3, <1>4

(* The commit goes on from the k-th session.                               *)
LEMMA FitStepped ==
    ASSUME NEW c, LaneOK(c, {}), ToolOK(c), NEW k \in Nat, k > 0, Fit(c, k), k = 1 \/ c.tool \in Multi,
           NEW reopened, reopened = TRUE \/ c.tool \notin Multi,
           NEW e, LaneOK(e, {}), Stepped(c, e, k, reopened)
    PROVE  Fits(e)
<1>1. /\ c.sessions \in Seq(Session) /\ e.sessions \in Seq(Session) /\ Len(c.sessions) \in Nat
      /\ DOMAIN c.sessions = 1 .. Len(c.sessions) /\ (c.tool \notin Multi => DOMAIN c.sessions \subseteq {1})
  BY LenProperties DEF LaneOK, LaneShape, ToolOK
<1>2. CASE Loads(c, e)
  <2>1. e.commit.pc = "loading" /\ Untouched(c, e)
    BY <1>2 DEF Loads
  <2>2. Owning => OwnedFrom(c, 1)
    <3>1. \A i \in DOMAIN c.sessions : i >= 1
      BY <1>1
    <3>. QED
      BY <3>1 DEF Fit, OwnedFrom
  <2>3. Owning => OwnedFrom(e, 1)
    BY <2>1, <2>2 DEF Untouched, SameLane, OwnedFrom
  <2>. QED
    BY <2>1, <2>3 DEF Fits
<1>3. CASE Barred(c, e, k)
  <2>1. /\ e.commit.pc = "barrier" /\ e.commit.k = k /\ e.sessions = c.sessions /\ DOMAIN e.lane = DOMAIN c.lane
    BY <1>3 DEF Barred
  <2>2. Fit(e, k)
    BY <2>1, FitSame DEF SameSessions
  <2>. QED
    BY <2>1, <2>2 DEF Fits
<1>4. CASE k > Len(c.sessions) /\ c.tool \in Strict /\ Rearmed(c, e, k) /\ RearmedLane(c, e, k, reopened)
  <2>1. Fit(c, k + 1) /\ c.tool # "extrude"
    BY <1>1, <1>4, FitLater DEF Strict
  <2>2. Fit(e, 1)
    BY ONLY <1>1, <1>4, <2>1, FitRearmed, k \in Nat, k > 0, reopened = TRUE \/ c.tool \notin Multi
  <2>3. e.commit.pc = "none"
    BY <1>4 DEF Rearmed, NoCommit
  <2>. QED
    BY <2>2, <2>3 DEF Fits
<1>5. CASE k <= Total(c) /\ Applied(c, e, k)
  <2>1. k > Len(c.sessions) /\ Untouched(c, e) /\ e.commit.pc = "apply" /\ e.commit.k = k /\ e.tool = c.tool
    BY <1>5 DEF Applied, SameArm
  <2>2. Fit(c, k + 1)
    BY <1>1, <2>1, FitLater
  <2>3. c.tool # "extrude"
    BY <1>1, <1>5, <2>1 DEF Total
  <2>4. SameSessions(c.sessions, e.sessions) /\ DOMAIN e.lane = DOMAIN c.lane
    BY <2>1 DEF Untouched, SameLane, SameSessions
  <2>5. Fit(e, k + 1)
    BY <2>2, <2>4, FitSame
  <2>. QED
    BY <2>1, <2>3, <2>5 DEF Fits
<1>. QED
  BY <1>2, <1>3, <1>4, <1>5 DEF Stepped

(* The barrier of the k-th session ends.                                   *)
LEMMA FitBarrier ==
    ASSUME NEW c, LaneShape(c), ToolOK(c), NEW k \in Nat, k > 0, Fit(c, k), k \in DOMAIN c.sessions, NEW out,
           NEW reopened, reopened = TRUE \/ c.tool \notin Multi,
           NEW e, LaneOK(e, {}), BarrierEnds(c, e, k, out, reopened)
    PROVE  Fits(e)
<1>. DEFINE sid == c.sessions[k].sid
<1>1. /\ c.sessions \in Seq(Session) /\ e.sessions \in Seq(Session) /\ Distinct(c.sessions)
      /\ \A i \in DOMAIN c.sessions : i \in Nat
  BY LenProperties DEF LaneOK, LaneShape, Distinct
<1>2. \A i \in Nat : i >= k + 1 <=> i >= k /\ i # k
  OBVIOUS
<1>3. ASSUME NEW d, d.sessions = c.sessions, DOMAIN d.lane = DOMAIN c.lane \ {sid}
      PROVE  Fit(d, k + 1)
  <2>1. Reached(d, k + 1)
    BY <1>1, <1>2, <1>3 DEF Fit, Reached, Distinct
  <2>2. Owning => OwnedFrom(d, k + 1)
    BY <1>1, <1>2, <1>3 DEF Fit, OwnedFrom
  <2>. QED
    BY <2>1, <2>2 DEF Fit
<1>4. ASSUME NEW d, Fit(d, k + 1), d.sessions = c.sessions, NEW kind \in {"apply", "undo"}, NEW r, NEW v, NEW b,
             Called(d, e, kind, k, r, v, b)
      PROVE  Fits(e)
  <2>1. /\ e.commit.pc = kind /\ e.commit.k = k /\ SameSessions(d.sessions, e.sessions) /\ e.sessions = c.sessions
        /\ DOMAIN e.lane = DOMAIN d.lane
    BY <1>4 DEF Called, Untouched, SameLane, SameSessions
  <2>2. Fit(e, k + 1)
    BY <1>4, <2>1, FitSame
  <2>. QED
    BY <1>4, <2>1, <2>2 DEF Fits
<1>5. ASSUME NEW d, Ended(c, d, {sid}) PROVE Fit(d, k + 1) /\ d.sessions = c.sessions /\ d.tool = c.tool
  <2>1. d.sessions = c.sessions /\ DOMAIN d.lane = DOMAIN c.lane \ {sid} /\ d.tool = c.tool
    BY <1>5 DEF Ended, SameTool
  <2>. QED
    BY <1>3, <2>1
<1>6. CASE \E d : Ended(c, d, {sid}) /\ Rearmed(d, e, k) /\ RearmedLane(d, e, k, reopened)
  <2>1. PICK d : Ended(c, d, {sid}) /\ Rearmed(d, e, k) /\ RearmedLane(d, e, k, reopened)
    BY <1>6
  <2>2. Fit(d, k + 1) /\ d.sessions = c.sessions /\ d.tool = c.tool
    BY <1>5, <2>1
  <2>3. /\ d.sessions \in Seq(Session) /\ (d.tool \notin Multi => DOMAIN d.sessions \subseteq {1})
        /\ (d.tool = "extrude" => k \in DOMAIN d.sessions) /\ (reopened = TRUE \/ d.tool \notin Multi)
        /\ k \in Nat /\ k > 0
    BY <1>1, <2>2 DEF ToolOK
  <2>4. Fit(e, 1)
    BY ONLY <1>1, <2>1, <2>2, <2>3, FitRearmed
  <2>5. e.commit.pc = "none"
    BY <2>1 DEF Rearmed, NoCommit
  <2>. QED
    BY <2>4, <2>5 DEF Fits
<1>7. CASE \E d : Ended(c, d, {sid}) /\ Called(d, e, "apply", k, c.sessions[k].region, c.lane[sid].value, out = "good")
  <2>1. PICK d : Ended(c, d, {sid}) /\ Called(d, e, "apply", k, c.sessions[k].region, c.lane[sid].value, out = "good")
    BY <1>7
  <2>. QED
    BY <1>4, <1>5, <2>1
<1>8. CASE sid \notin DOMAIN c.lane /\ Called(c, e, "undo", k, c.sessions[k].region, 0, FALSE)
  <2>1. DOMAIN c.lane = DOMAIN c.lane \ {sid}
    BY <1>8
  <2>2. Fit(c, k + 1)
    BY <1>3, <2>1
  <2>. QED
    BY <1>4, <1>8, <2>2
<1>. QED
  BY <1>6, <1>7, <1>8 DEF BarrierEnds

(* At any time the lane holds sessions of the tool only.                   *)
LEMMA FitOwned ==
    ASSUME NEW c, Base(c), Fits(c), Owning
    PROVE  DOMAIN c.lane \subseteq SidsOf(c.sessions)
<1>1. "profile_gone" \notin Rare /\ c.commit \in Commit
  BY DEF Owning, Base, Control, ToolOK
<1>2. \E m : OwnedFrom(c, m)
  BY <1>1 DEF Fits, Fit, Commit
<1>. QED
  BY <1>2 DEF OwnedFrom, SidsOf

(* Sessions that take the place of the tool's.                             *)
LEMMA FitFresh ==
    ASSUME NEW c, Base(c), Fits(c), NEW e, LaneOK(e, {}),
           DOMAIN e.lane = (DOMAIN c.lane \ SidsOf(c.sessions)) \cup SidsOf(e.sessions)
    PROVE  Fit(e, 1) /\ \A m : Reached(e, m)
<1>1. \A i \in DOMAIN e.sessions : i >= 1
  BY LenProperties DEF LaneOK, LaneShape
<1>2. \A m : Reached(e, m)
  BY DEF Reached, SidsOf
<1>3. Owning => OwnedFrom(e, 1)
  BY <1>1, FitOwned DEF OwnedFrom, SidsOf
<1>. QED
  BY <1>2, <1>3 DEF Fit

(* The tool is armed, swept or has its value set.                          *)
LEMMA FitTool ==
    ASSUME NEW c, Base(c), Fits(c), NEW e, Base(e), ToolStep(c, e)
    PROVE  Fits(e)
<1>. DEFINE P == c.tool \notin Multi \/ "profile_gone" \notin Rare
<1>0. LaneOK(e, {}) /\ (c.phase = "committing" <=> c.commit.pc # "none")
  BY DEF Base, Control, PhaseOK
<1>1. CASE e = c
  BY <1>1
<1>2. CASE \E t \in Tools : \E regions \in Subjects(t) : Starts(c, e, t, regions, e.basis)
  <2>1. /\ DOMAIN e.lane = (DOMAIN c.lane \ SidsOf(c.sessions)) \cup SidsOf(e.sessions)
        /\ e.commit.pc = "none"
    BY <1>2 DEF Starts, NoCommit
  <2>2. Fit(e, 1)
    BY <1>0, <2>1, FitFresh
  <2>. QED
    BY <2>1, <2>2 DEF Fits
<1>3. CASE c.phase \in {"waiting", "axisPick"} /\ Arms(c, e)
  <2>1. c.sessions = <<>> /\ c.commit.pc = "none"
    BY <1>3, WaitingIs
  <2>2. Reopened(c, e) /\ e.commit = c.commit /\ e.sessions \in Seq(Session)
    BY <1>0, <1>3 DEF Arms, LaneOK, LaneShape
  <2>3. Owning => DOMAIN c.lane = {}
    <3>1. DOMAIN <<>> = {}
      OBVIOUS
    <3>. QED
      BY <2>1, <3>1, FitOwned DEF SidsOf
  <2>4. Fit(e, 1)
    BY <2>2, <2>3, FitOpened
  <2>. QED
    BY <2>1, <2>2, <2>4 DEF Fits
<1>4. CASE Turns(c, e, e.phase)
  <2>1. e.commit = c.commit /\ e.tool = c.tool /\ SameSessions(c.sessions, e.sessions) /\ DOMAIN e.lane = DOMAIN c.lane
        /\ e.sessions = c.sessions
    BY <1>4 DEF Turns, Untouched, SameLane, SameSessions
  <2>2. \A m : (Fit(c, m) => Fit(e, m)) /\ (OwnedFrom(c, m) => OwnedFrom(e, m))
    BY <2>1, FitSame DEF OwnedFrom
  <2>. QED
    BY <2>1, <2>2 DEF Fits
<1>5. CASE Swept(c, e) \/ Unpicked(c, e)
  <2>1. e.sessions = <<>> /\ DOMAIN e.lane = DOMAIN c.lane \ SidsOf(c.sessions)
    BY <1>5 DEF Swept, Unpicked
  <2>2. Owning => DOMAIN e.lane = {}
    BY <2>1, FitOwned
  <2>3. \A m : Fit(e, m) /\ (Owning => OwnedFrom(e, m))
    BY <2>1, <2>2, FitEmpty DEF OwnedFrom
  <2>4. CASE Swept(c, e)
    <3>1. e.commit.pc = "none"
      BY <2>4 DEF Swept, NoCommit
    <3>. QED
      BY <2>3, <3>1 DEF Fits
  <2>5. CASE Unpicked(c, e)
    <3>1. e.commit.pc = "none"
      <4>1. e.phase = "axisPick" /\ (e.phase = "committing" <=> e.commit.pc # "none")
        BY <2>5 DEF Unpicked, Base, Control, PhaseOK
      <4>. QED
        BY <4>1
    <3>. QED
      BY <2>3, <3>1 DEF Fits
  <2>. QED
    BY <1>5, <2>4, <2>5
<1>6. CASE Sets(c, e, e.value)
  <2>1. e.commit = c.commit /\ e.tool = c.tool /\ SameSessions(c.sessions, e.sessions) /\ DOMAIN e.lane = DOMAIN c.lane
        /\ e.sessions = c.sessions
    BY <1>6 DEF Sets, SameSessions
  <2>2. \A m : (Fit(c, m) => Fit(e, m)) /\ (OwnedFrom(c, m) => OwnedFrom(e, m))
    BY <2>1, FitSame DEF OwnedFrom
  <2>. QED
    BY <2>1, <2>2 DEF Fits
<1>. QED
  BY <1>1, <1>2, <1>3, <1>4, <1>5, <1>6 DEF ToolStep

(* The kind of a fillet changes: in a commit, the sessions may leak.       *)
LEMMA FitFlip ==
    ASSUME NEW c, Base(c), Fits(c), NEW e, Base(e), FlipStep(c, e)
    PROVE  Fits(e)
<1>0. LaneOK(e, {}) /\ (c.phase = "committing" <=> c.commit.pc # "none") /\ c.tool = "fillet" /\ ToolOK(c)
  BY DEF Base, Control, PhaseOK, FlipStep
<1>1. ASSUME NEW x, LaneOK(x, {}), Flipped(c, x)
      PROVE  Fit(x, 1) /\ (\A m : Reached(x, m)) /\ x.tool = c.tool /\ x.commit = c.commit
  <2>1. DOMAIN x.lane = (DOMAIN c.lane \ SidsOf(c.sessions)) \cup SidsOf(x.sessions) /\ SameTool(c, x)
    BY <1>1 DEF Flipped
  <2>. QED
    BY <1>1, <2>1, FitFresh DEF SameTool
<1>2. CASE c.phase = "armed" /\ Flipped(c, e)
  BY <1>0, <1>1, <1>2 DEF Fits
<1>3. CASE "flip_mid_commit" \in Rare /\ c.commit.pc \in {"apply", "undo"} /\ Flipped(c, e)
  <2>1. ~Owning /\ \A m : Reached(e, m)
    BY <1>0, <1>1, <1>3 DEF Owning
  <2>2. \A m : Fit(e, m)
    BY <2>1 DEF Fit
  <2>. QED
    BY <1>0, <1>1, <1>3, <2>2 DEF Fits
<1>4. CASE "flip_mid_commit" \in Rare
           /\ \E x : LaneOK(x, {}) /\ Flipped(c, x) /\ Rearmed(x, e, 1) /\ RearmedLane(x, e, 1, TRUE)
  <2>1. PICK x : LaneOK(x, {}) /\ Flipped(c, x) /\ Rearmed(x, e, 1) /\ RearmedLane(x, e, 1, TRUE)
    BY <1>4
  <2>2. ~Owning /\ (\A m : Reached(x, m)) /\ x.tool = "fillet"
    BY <1>0, <1>1, <1>4, <2>1 DEF Owning
  <2>3. Fit(x, 1 + 1)
    BY <2>2 DEF Fit
  <2>4. DOMAIN x.sessions \subseteq {1}
    <3>1. c.regions = <<1>> /\ DOMAIN x.sessions = DOMAIN c.regions
      BY <1>0, <2>1 DEF Flipped, ToolOK, Multi
    <3>. QED
      BY <3>1
  <2>5. x.sessions \in Seq(Session) /\ e.sessions \in Seq(Session) /\ x.tool \notin Multi /\ x.tool # "extrude"
    BY <1>0, <2>1, <2>2 DEF LaneOK, LaneShape, Multi
  <2>6. 1 \in Nat /\ 1 > 0
    OBVIOUS
  <2>7. Fit(e, 1)
    BY ONLY <2>1, <2>3, <2>4, <2>5, <2>6, FitRearmed
  <2>8. e.commit.pc = "none"
    BY <2>1 DEF Rearmed, NoCommit
  <2>. QED
    BY <2>7, <2>8 DEF Fits
<1>. QED
  BY <1>2, <1>3, <1>4 DEF FlipStep

(* The commit goes on.                                                     *)
LEMMA FitCommit ==
    ASSUME NEW c, Base(c), Fits(c), NEW e, Base(e), CommitStepTo(c, e),
           c.tool \notin Multi \/ "profile_gone" \notin Rare
    PROVE  Fits(e)
<1>0. /\ LaneOK(e, {}) /\ LaneOK(c, {}) /\ (c.phase = "committing" <=> c.commit.pc # "none") /\ ToolOK(c)
      /\ LaneShape(c) /\ c.commit.k \in Nat /\ (c.commit.pc \in {"barrier", "apply", "undo"} => c.commit.k > 0)
      /\ (c.commit.pc = "barrier" => c.commit.k \in DOMAIN c.sessions) /\ c.sessions \in Seq(Session)
      /\ e.sessions \in Seq(Session) /\ (c.commit.pc = "record" => c.tool \in Multi)
      /\ (c.tool \notin Multi => DOMAIN c.sessions \subseteq {1})
  BY DEF Base, Control, PhaseOK, ToolOK, LaneOK, LaneShape, Commit
<1>1. \A reopened \in Reopen : reopened = TRUE \/ c.tool \notin Multi
  BY DEF Reopen
<1>2. CASE (c.phase = "armed" /\ AsksRecord(c, e)) \/ (c.commit.pc = "record" /\ Backs(c, e))
  <2>1. c.commit.pc \in {"none", "record"} /\ e.commit.pc \in {"none", "record"} /\ Untouched(c, e)
    BY <1>0, <1>2 DEF AsksRecord, Backs, NoCommit
  <2>2. Fit(c, 1)
    BY <2>1 DEF Fits
  <2>3. Fit(e, 1)
    BY <2>1, <2>2, FitSame DEF Untouched, SameLane, SameSessions
  <2>. QED
    BY <2>1, <2>3 DEF Fits
<1>3. ASSUME c.phase = "armed" \/ c.commit.pc = "record", c.phase = "armed" => c.tool \notin Multi,
             NEW reopened, reopened = TRUE \/ c.tool \notin Multi, Stepped(c, e, 1, reopened)
      PROVE  Fits(e)
  <2>1. Fit(c, 1)
    BY <1>0, <1>3 DEF Fits
  <2>2. 1 \in Nat /\ 1 > 0 /\ (1 = 1 \/ c.tool \in Multi)
    OBVIOUS
  <2>. QED
    BY ONLY <1>0, <1>3, <2>1, <2>2, FitStepped
<1>4. CASE c.commit.pc = "barrier" /\ \E reopened \in Reopen : BarrierEnds(c, e, c.commit.k, "timeout", reopened)
  <2>1. PICK reopened \in Reopen : BarrierEnds(c, e, c.commit.k, "timeout", reopened)
    BY <1>4
  <2>2. Fit(c, c.commit.k) /\ (reopened = TRUE \/ c.tool \notin Multi)
    BY <1>1, <1>4 DEF Fits
  <2>. QED
    BY ONLY <1>0, <1>4, <2>1, <2>2, FitBarrier
<1>5. CASE /\ c.calls # <<>> /\ c.commit.pc \in {"apply", "undo"}
           /\ \E a : \E reopened \in Reopen :
                Dequeued(c, a) /\ LaneOK(a, {}) /\ Goes(c, a, e, Head(c.calls), reopened)
  <2>1. PICK a : \E reopened \in Reopen :
                   Dequeued(c, a) /\ LaneOK(a, {}) /\ Goes(c, a, e, Head(c.calls), reopened)
    BY <1>5
  <2>2. PICK reopened \in Reopen : Goes(c, a, e, Head(c.calls), reopened)
    BY <2>1
  <2>. DEFINE k == c.commit.k
  <2>3. /\ k \in Nat /\ k > 0 /\ Fit(c, k + 1) /\ (c.tool = "extrude" => k \in DOMAIN c.sessions)
        /\ (reopened = TRUE \/ c.tool \notin Multi)
    BY <1>0, <1>1, <1>5 DEF Fits
  <2>4. /\ a.tool = c.tool /\ a.sessions = c.sessions /\ a.lane = c.lane /\ a.regions = c.regions /\ a.commit = c.commit
        /\ a.arm = c.arm /\ a.chosen = c.chosen /\ LaneOK(a, {})
    BY <2>1 DEF Dequeued, SameArm, Untouched, SameLane
  <2>5. Fit(a, k + 1) /\ ToolOK(a)
    BY <1>0, <2>3, <2>4, FitSame DEF SameSessions, ToolOK
  <2>. HIDE DEF k
  <2>6. CASE Rearmed(a, e, k) /\ RearmedLane(a, e, k, reopened)
    <3>1. /\ a.sessions \in Seq(Session) /\ (a.tool \notin Multi => DOMAIN a.sessions \subseteq {1})
          /\ (a.tool = "extrude" => k \in DOMAIN a.sessions) /\ (reopened = TRUE \/ a.tool \notin Multi)
      BY <1>0, <2>3, <2>4
    <3>2. Fit(e, 1)
      BY ONLY <1>0, <2>3, <2>5, <2>6, <3>1, FitRearmed
    <3>3. e.commit.pc = "none"
      BY <2>6 DEF Rearmed, NoCommit
    <3>. QED
      BY <3>2, <3>3 DEF Fits
  <2>7. CASE Called(a, e, "undo", k, Head(c.calls).region, 0, FALSE)
    <3>1. /\ e.commit.pc = "undo" /\ e.commit.k = k /\ e.tool = c.tool /\ e.sessions = c.sessions
          /\ SameSessions(a.sessions, e.sessions) /\ DOMAIN e.lane = DOMAIN a.lane
      BY <2>4, <2>7 DEF Called, SameArm, Untouched, SameLane, SameSessions
    <3>2. Fit(e, k + 1)
      BY <2>5, <3>1, FitSame
    <3>. QED
      BY <2>3, <3>1, <3>2 DEF Fits
  <2>8. CASE c.tool \in Multi /\ Stepped(a, e, k + 1, reopened)
    <3>1. k + 1 \in Nat /\ k + 1 > 0 /\ a.tool \in Multi /\ (reopened = TRUE \/ a.tool \notin Multi)
      BY <2>3, <2>4, <2>8
    <3>. DEFINE n == k + 1
    <3>2. n \in Nat /\ n > 0 /\ (n = 1 \/ a.tool \in Multi) /\ Fit(a, n) /\ Stepped(a, e, n, reopened)
      BY <2>5, <2>8, <3>1
    <3>. HIDE DEF n
    <3>. QED
      BY ONLY <1>0, <2>4, <2>5, <3>1, <3>2, FitStepped
  <2>9. CASE Swept(a, e)
    <3>1. /\ e.sessions = <<>> /\ DOMAIN e.lane = DOMAIN c.lane \ SidsOf(c.sessions) /\ e.commit.pc = "none"
      BY <2>4, <2>9 DEF Swept, NoCommit
    <3>2. Fit(e, 1)
      BY <3>1, FitOwned, FitEmpty
    <3>. QED
      BY <3>1, <3>2 DEF Fits
  <2>10. /\ c.commit.k = k
         /\ \/ Rearmed(a, e, k) /\ RearmedLane(a, e, k, reopened)
            \/ Called(a, e, "undo", k, Head(c.calls).region, 0, FALSE)
            \/ c.tool \in Multi /\ Stepped(a, e, k + 1, reopened)
            \/ Swept(a, e)
    BY <2>2 DEF Goes, k
  <2>. QED
    BY <2>6, <2>7, <2>8, <2>9, <2>10
<1>6. CASE c.phase = "armed" /\ c.tool \notin Multi /\ \E reopened \in Reopen : Stepped(c, e, 1, reopened)
  BY <1>1, <1>3, <1>6
<1>7. CASE c.commit.pc = "record" /\ Stepped(c, e, 1, TRUE)
  <2>1. c.phase = "armed" => c.tool \notin Multi
    BY <1>0, <1>7
  <2>. QED
    BY <1>3, <1>7, <2>1
<1>8. (Head(c.calls).live /\ c.commit.pc = Head(c.calls).kind) /\ c.calls # <<>> => c.commit.pc \in {"apply", "undo"}
  <2>1. c.calls \in Seq(CallRec)
    BY DEF Base, Control, CallsOK, Awaits, Quiet
  <2>2. c.calls # <<>> => Head(c.calls) \in CallRec
    BY <2>1, TailIs
  <2>. QED
    BY <2>2 DEF CallRec
<1>. QED
  BY <1>2, <1>4, <1>5, <1>6, <1>7, <1>8 DEF CommitStepTo

(* An answer, a call handled or dropped.                                   *)
LEMMA FitLane ==
    ASSUME NEW c, Base(c), Fits(c), NEW e, Base(e), LaneStep(c, e), c.tool \notin Multi \/ "profile_gone" \notin Rare
    PROVE  Fits(e)
<1>1. \A reopened \in Reopen : reopened = TRUE \/ c.tool \notin Multi
  BY DEF Reopen
<1>2. ASSUME NEW d, d.commit = c.commit, d.tool = c.tool, SameSessions(c.sessions, d.sessions),
             DOMAIN d.lane = DOMAIN c.lane
      PROVE  Fits(d)
  <2>1. /\ \A m : (Fit(c, m) => Fit(d, m)) /\ (OwnedFrom(c, m) => OwnedFrom(d, m))
        /\ DOMAIN d.sessions = DOMAIN c.sessions
    BY <1>2, FitSame DEF OwnedFrom, SameSessions
  <2>. QED
    BY <1>2, <2>1 DEF Fits
<1>3. ASSUME NEW d, Paced(c, d) PROVE Fits(d) /\ d.tool = c.tool /\ d.commit = c.commit /\ SameTool(c, d)
             /\ DOMAIN d.sessions = DOMAIN c.sessions
  BY <1>2, <1>3 DEF Paced, Moves, SameTool, SameSessions
<1>4. CASE \E out \in {"good", "bad", "stale"} : \E reopened \in Reopen : Answered(c, e, out, reopened)
  <2>1. PICK out \in {"good", "bad", "stale"} : \E reopened \in Reopen : Answered(c, e, out, reopened)
    BY <1>4
  <2>2. PICK reopened \in Reopen : Answered(c, e, out, reopened)
    BY <2>1
  <2>3. CASE Paced(c, e)
    BY <1>3, <2>3
  <2>4. CASE /\ c.commit.pc = "barrier"
             /\ \E d : Paced(c, d) /\ LaneShape(d) /\ BarrierEnds(d, e, c.commit.k, out, reopened)
    <3>1. PICK d : Paced(c, d) /\ LaneShape(d) /\ BarrierEnds(d, e, c.commit.k, out, reopened)
      BY <2>4
    <3>. DEFINE k == c.commit.k
    <3>2. /\ LaneOK(e, {}) /\ ToolOK(c) /\ k \in Nat /\ k > 0 /\ k \in DOMAIN c.sessions
      BY <2>4 DEF Base, Control, PhaseOK, ToolOK, Commit
    <3>3. Fits(d) /\ d.tool = c.tool /\ d.commit = c.commit /\ SameTool(c, d) /\ DOMAIN d.sessions = DOMAIN c.sessions
      BY <1>3, <3>1
    <3>4. Fit(d, k) /\ k \in DOMAIN d.sessions /\ ToolOK(d)
      BY <2>4, <3>2, <3>3 DEF Fits, ToolOK, SameTool
    <3>5. reopened = TRUE \/ d.tool \notin Multi
      BY <1>1, <3>3
    <3>6. BarrierEnds(d, e, k, out, reopened) /\ LaneShape(d)
      BY <3>1
    <3>. HIDE DEF k
    <3>. QED
      BY ONLY <3>2, <3>4, <3>5, <3>6, FitBarrier
  <2>. QED
    BY <2>2, <2>3, <2>4 DEF Answered
<1>5. CASE \E i \in DOMAIN c.calls : \E out \in {"ok", "failed", "refused"} : \E d \in Doc : Replied(c, e, i, out, d)
  <2>1. PICK i \in DOMAIN c.calls : \E out \in {"ok", "failed", "refused"} : \E d \in Doc : Replied(c, e, i, out, d)
    BY <1>5
  <2>2. e.commit = c.commit /\ e.tool = c.tool /\ e.sessions = c.sessions /\ e.lane = c.lane
    BY <2>1 DEF Replied, SameArm, Untouched, SameLane
  <2>. QED
    BY <1>2, <2>2 DEF SameSessions
<1>6. CASE Discards(c, e)
  BY <1>2, <1>6 DEF Discards, SameArm, SameLane
<1>. QED
  BY <1>4, <1>5, <1>6 DEF LaneStep

(* Every step.                                                             *)
LEMMA StepTool ==
    ASSUME NEW c, NEW e, CommitStepTo(c, e) \/ LaneStep(c, e)
    PROVE  e.tool = c.tool \/ Swept(c, e) \/ e.tool = "select"
<1>1. ASSUME NEW a, NEW k, NEW reopened, Stepped(a, e, k, reopened) PROVE e.tool = a.tool
  BY <1>1 DEF Stepped, Loads, Barred, Rearmed, Applied, SameArm
<1>2. ASSUME NEW d, NEW k, NEW out, NEW reopened, BarrierEnds(d, e, k, out, reopened) PROVE e.tool = d.tool
  BY <1>2 DEF BarrierEnds, Ended, SameTool, Rearmed, Called, SameArm
<1>3. ASSUME NEW a, NEW reopened, Dequeued(c, a), Goes(c, a, e, Head(c.calls), reopened)
      PROVE  e.tool = c.tool \/ e.tool = "select"
  BY <1>1, <1>3 DEF Goes, Dequeued, Rearmed, Called, SameArm, Swept
<1>4. CASE CommitStepTo(c, e)
  BY <1>1, <1>2, <1>3, <1>4 DEF CommitStepTo, AsksRecord, Backs, SameArm
<1>5. CASE LaneStep(c, e)
  <2>1. CASE \E out \in {"good", "bad", "stale"} : \E reopened \in Reopen : Answered(c, e, out, reopened)
    BY <1>2, <2>1 DEF Answered, Paced, Moves, SameTool
  <2>. QED
    BY <1>5, <2>1 DEF LaneStep, Replied, Discards, SameArm
<1>. QED
  BY <1>4, <1>5

(* Every step keeps the lane fit.                                          *)
LEMMA FitStep ==
    ASSUME NEW c, Base(c), Fits(c), NEW e, Base(e), StepOf(c, e)
    PROVE  Fits(e)
<1>1. CASE ToolStep(c, e)
  BY <1>1, FitTool
<1>2. CASE FlipStep(c, e)
  BY <1>2, FitFlip
<1>3. CASE CommitStepTo(c, e) \/ LaneStep(c, e)
  <2>1. CASE c.tool \notin Multi \/ "profile_gone" \notin Rare
    BY <1>3, <2>1, FitCommit, FitLane
  <2>2. CASE ~(c.tool \notin Multi \/ "profile_gone" \notin Rare)
    <3>1. e.tool = c.tool \/ e.tool = "select"
      BY <1>3, StepTool DEF Swept
    <3>2. ~Owning
      BY <2>2 DEF Owning
    <3>3. CASE e.tool = c.tool
      BY <2>2, <3>3 DEF Fits
    <3>4. CASE e.tool = "select"
      <4>1. e.sessions = <<>> /\ e.commit.pc = "none"
        BY <3>4 DEF Base, Control, PhaseOK
      <4>2. Fit(e, 1)
        BY <3>2, <4>1, FitEmpty
      <4>. QED
        BY <4>1, <4>2 DEF Fits
    <3>. QED
      BY <3>1, <3>3, <3>4
  <2>. QED
    BY <2>1, <2>2
<1>. QED
  BY <1>1, <1>2, <1>3 DEF StepOf

FitInv == TypeInv /\ Fits(ctl)

(* The lane is fit in every state.                                         *)
LEMMA FitAlways == Spec => []FitInv
<1>1. Init => FitInv
  <2>. SUFFICES ASSUME Init PROVE FitInv
    OBVIOUS
  <2>1. ctl.sessions = <<>> /\ ctl.lane = <<>> /\ ctl.commit.pc = "none"
    BY DEF Init, NoCommit
  <2>2. DOMAIN ctl.lane = {}
    BY <2>1
  <2>3. Fit(ctl, 1)
    BY <2>1, <2>2, FitEmpty
  <2>. QED
    BY <2>1, <2>3, TypesInit DEF FitInv, Fits
<1>2. FitInv /\ [Next]_vars => FitInv'
  <2>. SUFFICES ASSUME FitInv, [Next]_vars PROVE FitInv'
    OBVIOUS
  <2>1. TypeInv /\ TypeInv' /\ StepOf(ctl, ctl') /\ Fits(ctl)
    BY TypesStep DEF FitInv
  <2>2. Base(ctl) /\ Base(ctl')
    BY <2>1 DEF TypeInv
  <2>3. Fits(ctl')
    BY ONLY <2>1, <2>2, FitStep
  <2>. QED
    BY <2>1, <2>3 DEF FitInv
<1>. QED
  BY <1>1, <1>2, PTL DEF Spec

(* No lane session outlives its tool, and an armed tool reaches every      *)
(* session it lists: after any refusal, timeout, retry or leave; a flip of *)
(* the kind in mid-commit leaks one, and a region's session that           *)
(* beginPreview refuses is listed without being open.                      *)
THEOREM LaneOwned == "flip_mid_commit" \notin Rare /\ "profile_gone" \notin Rare => (Spec => []LaneIsOwned)
<1>. SUFFICES ASSUME Owning PROVE Spec => []LaneIsOwned
  BY DEF Owning
<1>1. FitInv => LaneIsOwned
  <2>. SUFFICES ASSUME FitInv PROVE LaneIsOwned
    OBVIOUS
  <2>1. Base(ctl) /\ Fits(ctl) /\ Sids = SidsOf(ctl.sessions)
    BY DEF FitInv, TypeInv, Sids, SidsOf
  <2>2. DOMAIN ctl.lane \subseteq Sids
    BY <2>1, FitOwned
  <2>3. ASSUME ctl.phase = "armed" PROVE Sids \subseteq DOMAIN ctl.lane
    <3>1. ctl.commit.pc = "none"
      BY <2>1, <2>3 DEF Base, Control, PhaseOK
    <3>2. Reached(ctl, 1) /\ ctl.sessions \in Seq(Session)
      BY <2>1, <3>1 DEF Fits, Fit, Owning, Base, LaneOK, LaneShape
    <3>3. \A i \in DOMAIN ctl.sessions : i >= 1
      BY <3>2, LenProperties
    <3>. QED
      BY <2>1, <3>2, <3>3 DEF Reached, SidsOf
  <2>. QED
    BY <2>2, <2>3 DEF LaneIsOwned
<1>. QED
  BY <1>1, FitAlways, PTL

(* A commit that is under way awaits exactly one thing that comes: the     *)
(* barrier of a session that is open, with its timeout, or the answer of   *)
(* the one call nobody superseded.                                         *)
THEOREM CommitAwaited == "profile_gone" \notin Rare => (Spec => []CommitIsAwaited)
<1>. SUFFICES ASSUME "profile_gone" \notin Rare PROVE Spec => []CommitIsAwaited
  OBVIOUS
<1>1. FitInv => CommitIsAwaited
  <2>. SUFFICES ASSUME FitInv PROVE CommitIsAwaited
    OBVIOUS
  <2>. DEFINE n == Len(ctl.calls)
  <2>1. Base(ctl) /\ Fits(ctl) /\ CallsOK(ctl) /\ PhaseOK(ctl)
    BY DEF FitInv, TypeInv, Base, Control
  <2>2. n \in Nat /\ DOMAIN ctl.calls = 1 .. n
    <3>1. ctl.calls \in Seq(CallRec)
      BY <2>1 DEF CallsOK, Awaits, Quiet
    <3>. QED
      BY <3>1, LenProperties
  <2>3. CASE ctl.commit.pc \in {"apply", "undo"}
    <3>1. Awaits(ctl.calls, ctl)
      BY <2>1, <2>3 DEF CallsOK
    <3>2. n > 0
      <4>1. ctl.calls \in Seq(CallRec) /\ ctl.calls # <<>>
        BY <3>1 DEF Awaits
      <4>. QED
        BY <2>2, <4>1, EmptySeq
    <3>3. {i \in 1 .. n : ctl.calls[i].live} = {n}
      BY <2>2, <3>1, <3>2 DEF Awaits
    <3>4. ctl.calls[n].kind = ctl.commit.pc /\ ctl.calls[n].arm = ctl.arm
      BY <3>1 DEF Awaits
    <3>. QED
      BY <2>3, <3>2, <3>3, <3>4 DEF CommitIsAwaited
  <2>4. CASE ctl.commit.pc \notin {"apply", "undo"}
    <3>1. {i \in 1 .. n : ctl.calls[i].live} = {}
      BY <2>1, <2>2, <2>4 DEF CallsOK, Quiet
    <3>2. ASSUME ctl.commit.pc = "barrier"
          PROVE  ctl.commit.k \in DOMAIN ctl.sessions /\ ctl.sessions[ctl.commit.k].sid \in DOMAIN ctl.lane
      <4>1. ctl.commit.k \in DOMAIN ctl.sessions /\ Reached(ctl, ctl.commit.k) /\ ctl.commit.k \in Nat
        BY <2>1, <3>2 DEF PhaseOK, Fits, Fit, Base, Control, ToolOK, Commit
      <4>2. ctl.commit.k >= ctl.commit.k
        BY <4>1
      <4>. QED
        BY <4>1, <4>2 DEF Reached
    <3>. QED
      BY <2>4, <3>1, <3>2 DEF CommitIsAwaited
  <2>. QED
    BY <2>3, <2>4
<1>. QED
  BY <1>1, FitAlways, PTL

(* -- What is applied ------------------------------------------------------ *)

(* A call to apply is approved where it must be, and has the value the     *)
(* user sees for as long as somebody waits for it.                         *)
Approved(call, v) ==
  call.kind = "apply" => (call.tool \in Strict => call.approved) /\ (call.live => call.value = v)
Approves(q, v) == \A i \in DOMAIN q : Approved(q[i], v)
Ready(c, k) == c.sessions[k].sid \in DOMAIN c.lane => c.lane[c.sessions[k].sid].value = c.value
Shows(c) == Approves(c.calls, c.value) /\ (c.commit.pc = "barrier" => Ready(c, c.commit.k))

(* One more call that is approved.                                         *)
LEMMA ApprovesAppend ==
    ASSUME NEW q \in Seq(CallRec), NEW v, Approves(q, v), NEW call, Approved(call, v)
    PROVE  Approves(Append(q, call), v)
<1>. DEFINE p == Append(q, call)
<1>1. /\ DOMAIN p = 1 .. (Len(q) + 1) /\ DOMAIN q = 1 .. Len(q) /\ Len(q) \in Nat
      /\ \A i \in 1 .. Len(q) : p[i] = q[i]
      /\ p[Len(q) + 1] = call
  BY LenProperties
<1>. HIDE DEF p
<1>2. ASSUME NEW i \in DOMAIN p PROVE Approved(p[i], v)
  <2>1. i \in 1 .. Len(q) \/ i = Len(q) + 1
    BY <1>1
  <2>2. CASE i \in 1 .. Len(q)
    BY <1>1, <2>2 DEF Approves
  <2>3. CASE i = Len(q) + 1
    BY <1>1, <2>3
  <2>. QED
    BY <2>1, <2>2, <2>3
<1>3. Approves(p, v)
  BY <1>2 DEF Approves
<1>. QED
  BY <1>3 DEF p

(* Nobody waits for a superseded call.                                     *)
LEMMA ApprovesHushed ==
    ASSUME NEW q \in Seq(CallRec), NEW v, Approves(q, v), NEW w,
           NEW p, p = Hushed(q)
    PROVE  Approves(p, w)
<1>1. /\ Quiet(p) /\ DOMAIN p = DOMAIN q
      /\ \A i \in DOMAIN q : p[i].kind = q[i].kind /\ p[i].tool = q[i].tool /\ p[i].approved = q[i].approved
  BY HushedIs
<1>2. ASSUME NEW i \in DOMAIN q PROVE Approved(p[i], w)
  BY ONLY <1>1, Approves(q, v), i \in DOMAIN q DEF Approves, Approved, Quiet
<1>. QED
  BY <1>1, <1>2 DEF Approves

(* The commit makes a call, steps to a region, or leaves a barrier.        *)
LEMMA ShowsCalled ==
    ASSUME NEW c, c.calls \in Seq(CallRec), Approves(c.calls, c.value),
           NEW e, NEW kind, kind # "barrier", NEW k, NEW r, NEW v, NEW b,
           e.value = c.value, e.commit.pc = kind, e.calls = Append(c.calls, CallOf(c, kind, r, v, b)),
           kind = "apply" => (c.tool \in Strict => b) /\ v = c.value
    PROVE  Shows(e)
<1>1. Approved(CallOf(c, kind, r, v, b), c.value)
  BY DEF CallOf, Approved
<1>2. Approves(e.calls, e.value)
  BY <1>1, ApprovesAppend
<1>. QED
  BY <1>2 DEF Shows

(* A step of the commit loop applies the value on screen, unapproved only  *)
(* where it may,                                                           *)
LEMMA ShowsStepped ==
    ASSUME NEW c, c.calls \in Seq(CallRec), Approves(c.calls, c.value), NEW k, NEW reopened,
           NEW e, Stepped(c, e, k, reopened)
    PROVE  Shows(e)
<1>1. CASE Loads(c, e)
  <2>1. e.calls = c.calls /\ e.value = c.value /\ e.commit.pc = "loading"
    BY <1>1 DEF Loads, SameArm
  <2>. QED
    BY <2>1 DEF Shows
<1>2. CASE Barred(c, e, k)
  <2>1. /\ e.calls = c.calls /\ e.value = c.value /\ e.commit.k = k /\ e.sessions = c.sessions
        /\ DOMAIN e.lane = DOMAIN c.lane
        /\ c.sessions[k].sid \in DOMAIN c.lane => e.lane[c.sessions[k].sid].value = c.value
    BY <1>2 DEF Barred, SameArm
  <2>2. Ready(e, k)
    BY <2>1 DEF Ready
  <2>. QED
    BY <2>1, <2>2 DEF Shows
<1>3. CASE Rearmed(c, e, k)
  <2>1. e.calls = c.calls /\ e.value = c.value /\ e.commit.pc = "none"
    BY <1>3 DEF Rearmed, SameArm, NoCommit
  <2>. QED
    BY <2>1 DEF Shows
<1>4. CASE Applied(c, e, k)
  <2>1. /\ e.value = c.value /\ e.commit.pc = "apply" /\ c.tool \notin Strict
        /\ e.calls = Append(c.calls, CallOf(c, "apply", c.regions[k], c.value, FALSE))
    BY <1>4 DEF Applied, SameArm
  <2>. QED
    BY <2>1, ShowsCalled
<1>. QED
  BY <1>1, <1>2, <1>3, <1>4 DEF Stepped

(* and so does the end of a barrier.                                       *)
LEMMA ShowsBarrier ==
    ASSUME NEW c, c.calls \in Seq(CallRec), Approves(c.calls, c.value), NEW k, Ready(c, k), NEW out, NEW reopened,
           NEW e, BarrierEnds(c, e, k, out, reopened)
    PROVE  Shows(e)
<1>1. ASSUME NEW d, Ended(c, d, {c.sessions[k].sid})
      PROVE  d.calls = c.calls /\ d.value = c.value /\ d.tool = c.tool
  BY <1>1 DEF Ended, SameTool
<1>2. CASE \E d : Ended(c, d, {c.sessions[k].sid}) /\ Rearmed(d, e, k)
  <2>1. e.calls = c.calls /\ e.value = c.value /\ e.commit.pc = "none"
    BY <1>1, <1>2 DEF Rearmed, SameArm, NoCommit
  <2>. QED
    BY <2>1 DEF Shows
<1>3. CASE /\ c.sessions[k].sid \in DOMAIN c.lane /\ (c.tool \in Strict => out = "good")
           /\ \E d : /\ Ended(c, d, {c.sessions[k].sid})
                     /\ Called(d, e, "apply", k, c.sessions[k].region, c.lane[c.sessions[k].sid].value, out = "good")
  <2>. DEFINE v == c.lane[c.sessions[k].sid].value
              b == out = "good"
  <2>1. PICK d : Ended(c, d, {c.sessions[k].sid}) /\ Called(d, e, "apply", k, c.sessions[k].region, v, b)
    BY <1>3
  <2>2. v = c.value /\ (c.tool \in Strict => b)
    BY <1>3 DEF Ready
  <2>. HIDE DEF v, b
  <2>3. d.calls = c.calls /\ d.value = c.value /\ d.tool = c.tool
    BY <1>1, <2>1
  <2>4. /\ e.value = d.value /\ e.commit.pc = "apply"
        /\ e.calls = Append(d.calls, CallOf(d, "apply", c.sessions[k].region, v, b))
    BY <2>1 DEF Called, SameArm
  <2>5. d.calls \in Seq(CallRec) /\ Approves(d.calls, d.value)
    BY <2>3
  <2>6. (d.tool \in Strict => b) /\ v = d.value
    BY <2>2, <2>3
  <2>. QED
    BY ONLY <2>4, <2>5, <2>6, ShowsCalled
<1>4. CASE Called(c, e, "undo", k, c.sessions[k].region, 0, FALSE)
  <2>1. /\ e.value = c.value /\ e.commit.pc = "undo"
        /\ e.calls = Append(c.calls, CallOf(c, "undo", c.sessions[k].region, 0, FALSE))
    BY <1>4 DEF Called, SameArm
  <2>. QED
    BY <2>1, ShowsCalled
<1>. QED
  BY <1>2, <1>3, <1>4 DEF BarrierEnds

(* The lane moves on under the same value.                                 *)
LEMMA ShowsMoved ==
    ASSUME NEW c, Base(c), Shows(c), NEW d, Moves(c, d)
    PROVE  Shows(d)
<1>1. d.calls = c.calls /\ d.value = c.value /\ d.commit = c.commit
  BY DEF Moves, SameTool
<1>2. ASSUME c.commit.pc = "barrier" PROVE Ready(d, c.commit.k)
  <2>1. c.commit.k \in DOMAIN c.sessions /\ Ready(c, c.commit.k)
    BY <1>2 DEF Base, Control, PhaseOK, Shows
  <2>2. /\ d.sessions[c.commit.k].sid = c.sessions[c.commit.k].sid /\ DOMAIN d.lane = DOMAIN c.lane
        /\ \A s \in DOMAIN c.lane : d.lane[s].value \in {c.lane[s].value, c.value}
    BY <2>1 DEF Moves, SameSessions
  <2>. QED
    BY <1>1, <2>1, <2>2 DEF Ready
<1>. QED
  BY <1>1, <1>2 DEF Shows

(* Every step.                                                             *)
LEMMA ShowsStep ==
    ASSUME NEW c, Base(c), Shows(c), NEW e, Base(e), StepOf(c, e)
    PROVE  Shows(e)
<1>0. /\ c.calls \in Seq(CallRec) /\ Approves(c.calls, c.value)
      /\ (c.phase = "committing" <=> c.commit.pc # "none") /\ (e.phase = "committing" <=> e.commit.pc # "none")
  BY DEF Base, Control, CallsOK, Awaits, Quiet, PhaseOK, Shows
<1>1. ASSUME e.calls = c.calls, e.value = c.value, e.commit.pc # "barrier" PROVE Shows(e)
  BY <1>0, <1>1 DEF Shows
<1>2. CASE ToolStep(c, e)
  <2>1. CASE e = c
    BY <2>1
  <2>2. CASE (\E t \in Tools : \E regions \in Subjects(t) : Starts(c, e, t, regions, e.basis)) \/ Swept(c, e)
    <3>1. /\ e.calls = Hushed(c.calls)
          /\ e.commit.pc = "none"
      BY <2>2 DEF Starts, Swept, NoCommit
    <3>2. Approves(e.calls, e.value)
      BY <1>0, <3>1, ApprovesHushed
    <3>. QED
      BY <3>1, <3>2 DEF Shows
  <2>3. CASE c.phase \in {"waiting", "axisPick"} /\ (Arms(c, e) \/ Turns(c, e, e.phase))
    <3>1. e.calls = c.calls /\ e.value = c.value /\ e.commit = c.commit /\ c.commit.pc = "none"
      BY <1>0, <2>3 DEF Arms, Turns
    <3>. QED
      BY <1>1, <3>1
  <2>4. CASE c.phase = "armed" /\ Unpicked(c, e)
    <3>1. e.calls = c.calls /\ e.value = c.value /\ e.commit = c.commit /\ c.commit.pc = "none"
      BY <1>0, <2>4 DEF Unpicked
    <3>. QED
      BY <1>1, <3>1
  <2>5. CASE c.phase = "armed" /\ Sets(c, e, e.value)
    <3>1. e.calls = c.calls /\ e.commit = c.commit /\ c.commit.pc = "none"
      BY <1>0, <2>5 DEF Sets
    <3>2. Quiet(c.calls)
      BY <3>1 DEF Base, Control, CallsOK
    <3>3. Approves(e.calls, e.value)
      BY <1>0, <3>1, <3>2 DEF Approves, Approved, Quiet
    <3>. QED
      BY <3>1, <3>3 DEF Shows
  <2>. QED
    BY <1>2, <2>1, <2>2, <2>3, <2>4, <2>5 DEF ToolStep
<1>3. CASE FlipStep(c, e)
  <2>1. CASE (c.phase = "armed" \/ c.commit.pc \in {"apply", "undo"}) /\ Flipped(c, e)
    <3>1. e.calls = c.calls /\ e.value = c.value /\ e.commit = c.commit
      BY <2>1 DEF Flipped, SameTool
    <3>. QED
      BY <1>0, <1>1, <2>1, <3>1
  <2>2. CASE \E x : Flipped(c, x) /\ Rearmed(x, e, 1)
    <3>1. e.calls = c.calls /\ e.value = c.value /\ e.commit.pc = "none"
      BY <2>2 DEF Flipped, SameTool, Rearmed, SameArm, NoCommit
    <3>. QED
      BY <1>1, <3>1
  <2>. QED
    BY <1>3, <2>1, <2>2 DEF FlipStep
<1>4. CASE CommitStepTo(c, e)
  <2>1. CASE AsksRecord(c, e) \/ Backs(c, e)
    <3>1. e.calls = c.calls /\ e.value = c.value /\ e.commit.pc # "barrier"
      BY <2>1 DEF AsksRecord, Backs, SameArm, NoCommit
    <3>. QED
      BY <1>1, <3>1
  <2>2. CASE \E reopened : Stepped(c, e, 1, reopened)
    BY <1>0, <2>2, ShowsStepped
  <2>3. CASE c.commit.pc = "barrier" /\ \E reopened \in Reopen : BarrierEnds(c, e, c.commit.k, "timeout", reopened)
    <3>1. Ready(c, c.commit.k)
      BY <2>3 DEF Shows
    <3>2. PICK reopened \in Reopen : BarrierEnds(c, e, c.commit.k, "timeout", reopened)
      BY <2>3
    <3>. QED
      BY ONLY <1>0, <3>1, <3>2, ShowsBarrier
  <2>4. CASE \E a : \E reopened \in Reopen : Dequeued(c, a) /\ a.calls = <<>> /\ Goes(c, a, e, Head(c.calls), reopened)
    <3>1. PICK a : \E reopened \in Reopen : Dequeued(c, a) /\ a.calls = <<>> /\ Goes(c, a, e, Head(c.calls), reopened)
      BY <2>4
    <3>2. PICK reopened \in Reopen : Goes(c, a, e, Head(c.calls), reopened)
      BY <3>1
    <3>3. a.calls \in Seq(CallRec) /\ Approves(a.calls, a.value) /\ a.value = c.value
      <4>1. DOMAIN <<>> = {}
        OBVIOUS
      <4>. QED
        BY <3>1, <4>1 DEF Dequeued, SameArm, Approves
    <3>4. CASE Rearmed(a, e, c.commit.k)
      <4>1. e.calls = a.calls /\ e.value = a.value /\ e.commit.pc = "none"
        BY <3>4 DEF Rearmed, SameArm, NoCommit
      <4>. QED
        BY <3>3, <4>1 DEF Shows
    <3>5. CASE Called(a, e, "undo", c.commit.k, Head(c.calls).region, 0, FALSE)
      <4>1. /\ e.value = a.value /\ e.commit.pc = "undo"
            /\ e.calls = Append(a.calls, CallOf(a, "undo", Head(c.calls).region, 0, FALSE))
        BY <3>5 DEF Called, SameArm
      <4>. QED
        BY <3>3, <4>1, ShowsCalled
    <3>6. CASE Stepped(a, e, c.commit.k + 1, reopened)
      BY <3>3, <3>6, ShowsStepped
    <3>7. CASE Swept(a, e)
      <4>1. e.calls = Hushed(a.calls) /\ e.commit.pc = "none"
        BY <3>7 DEF Swept, NoCommit
      <4>2. Approves(e.calls, e.value)
        BY <3>3, <4>1, ApprovesHushed
      <4>. QED
        BY <4>1, <4>2 DEF Shows
    <3>. QED
      BY <3>2, <3>4, <3>5, <3>6, <3>7 DEF Goes
  <2>. QED
    BY <1>4, <2>1, <2>2, <2>3, <2>4 DEF CommitStepTo
<1>5. CASE LaneStep(c, e)
  <2>1. CASE \E out \in {"good", "bad", "stale"} : \E reopened \in Reopen : Answered(c, e, out, reopened)
    <3>1. PICK out \in {"good", "bad", "stale"} : \E reopened \in Reopen : Answered(c, e, out, reopened)
      BY <2>1
    <3>2. PICK reopened \in Reopen : Answered(c, e, out, reopened)
      BY <3>1
    <3>3. CASE Paced(c, e)
      BY <3>3, ShowsMoved DEF Paced
    <3>4. CASE c.commit.pc = "barrier" /\ \E d : Paced(c, d) /\ BarrierEnds(d, e, c.commit.k, out, reopened)
      <4>1. PICK d : Paced(c, d) /\ BarrierEnds(d, e, c.commit.k, out, reopened)
        BY <3>4
      <4>2. Shows(d) /\ d.calls = c.calls /\ d.commit = c.commit
        BY <4>1, ShowsMoved DEF Paced, Moves, SameTool
      <4>3. d.calls \in Seq(CallRec) /\ Approves(d.calls, d.value) /\ Ready(d, c.commit.k)
        BY <1>0, <3>4, <4>2 DEF Shows
      <4>. QED
        BY ONLY <4>1, <4>3, ShowsBarrier
    <3>. QED
      BY <3>2, <3>3, <3>4 DEF Answered
  <2>2. CASE \E i \in DOMAIN c.calls : \E out \in {"ok", "failed", "refused"} : \E d \in Doc : Replied(c, e, i, out, d)
    <3>1. PICK i \in DOMAIN c.calls : \E out \in {"ok", "failed", "refused"} : \E d \in Doc : Replied(c, e, i, out, d)
      BY <2>2
    <3>2. PICK out \in {"ok", "failed", "refused"}, d \in Doc : Replied(c, e, i, out, d)
      BY <3>1
    <3>3. /\ e.value = c.value /\ e.commit = c.commit /\ e.sessions = c.sessions /\ e.lane = c.lane
          /\ DOMAIN e.calls = DOMAIN c.calls /\ \A j \in DOMAIN c.calls \ {i} : e.calls[j] = c.calls[j]
          /\ e.calls[i] = [c.calls[i] EXCEPT !.answer = out, !.doc = d]
      BY <3>2 DEF Replied, SameArm, Untouched, SameLane
    <3>4. Approved(e.calls[i], c.value)
      <4>. DEFINE r == c.calls[i]
                  s == e.calls[i]
      <4>1. Approved(r, c.value) /\ s = [r EXCEPT !.answer = out, !.doc = d]
        BY <1>0, <3>3 DEF Approves
      <4>. HIDE DEF r, s
      <4>2. s.kind = r.kind /\ s.tool = r.tool /\ s.approved = r.approved /\ s.live = r.live /\ s.value = r.value
        BY ONLY <4>1
      <4>3. Approved(s, c.value)
        BY ONLY <4>1, <4>2 DEF Approved
      <4>. QED
        BY <4>3 DEF s
    <3>5. Approves(e.calls, e.value)
      BY <1>0, <3>3, <3>4 DEF Approves
    <3>. QED
      BY <3>3, <3>5 DEF Shows, Ready
  <2>3. CASE c.calls # <<>> /\ Discards(c, e)
    <3>1. /\ e.value = c.value /\ e.commit = c.commit /\ e.lane = c.lane /\ Rest(e.calls, c.calls)
          /\ e.calls \in Seq(CallRec) /\ SameSessions(c.sessions, e.sessions)
      BY <2>3 DEF Discards, SameArm, SameLane
    <3>2. Approves(e.calls, e.value)
      BY <1>0, <3>1 DEF Approves, Rest
    <3>3. ASSUME c.commit.pc = "barrier" PROVE Ready(e, c.commit.k)
      <4>1. Ready(c, c.commit.k) /\ c.commit.k \in DOMAIN c.sessions
        BY <3>3 DEF Shows, Base, Control, PhaseOK
      <4>. QED
        BY <3>1, <4>1 DEF Ready, SameSessions
    <3>. QED
      BY <3>1, <3>2, <3>3 DEF Shows
  <2>. QED
    BY <1>5, <2>1, <2>2, <2>3 DEF LaneStep
<1>. QED
  BY <1>2, <1>3, <1>4, <1>5 DEF StepOf

(* A strict operation is only applied with the value the kernel has        *)
(* approved, and every operation with the value on screen: whatever ran    *)
(* out, was flipped, edited or left under the commit.                      *)
THEOREM CommitsShown == Spec => []CommitsWhatIsShown
<1>. DEFINE Inv == TypeInv /\ Shows(ctl)
<1>1. Init => Inv
  <2>. SUFFICES ASSUME Init PROVE Inv
    OBVIOUS
  <2>1. ctl.calls = <<>> /\ ctl.commit.pc = "none"
    BY DEF Init, NoCommit
  <2>2. DOMAIN <<>> = {}
    OBVIOUS
  <2>. QED
    BY <2>1, <2>2, TypesInit DEF Shows, Approves
<1>2. Inv /\ [Next]_vars => Inv'
  <2>. SUFFICES ASSUME Inv, [Next]_vars PROVE Inv'
    OBVIOUS
  <2>1. TypeInv' /\ StepOf(ctl, ctl')
    BY TypesStep
  <2>2. Base(ctl) /\ Base(ctl') /\ Shows(ctl)
    BY <2>1 DEF TypeInv
  <2>3. Shows(ctl')
    BY ONLY <2>1, <2>2, ShowsStep
  <2>. QED
    BY <2>1, <2>3
<1>3. Inv => CommitsWhatIsShown
  BY DEF Shows, Approves, Approved, CommitsWhatIsShown
<1>. QED
  BY <1>1, <1>2, <1>3, PTL DEF Spec

(* -- The picks ------------------------------------------------------------ *)

(* While a bound tool's commit waits for its call, the document is the one *)
(* of the picks, or that with one record more that an undo takes off.      *)
Under(call, basis, d, s) ==
  /\ call.kind = "apply" /\ call.answer \in {"none", "refused"} => d = s /\ Good(d.recs) = basis
  /\ (call.kind = "apply" /\ call.answer = "failed") \/ (call.kind = "undo" /\ call.answer = "none") =>
       d.recs # <<>> /\ Good(Front(d.recs)) = basis
  /\ call.kind = "undo" => call.answer \in {"none", "ok"} /\ (call.answer = "ok" => Good(call.doc.recs) = basis)

(* The picks of a bound tool are of the model it is armed over.            *)
Picked(c, d, s) ==
  /\ c.phase = "waiting" => c.tool \notin AtOnce
  /\ c.tool \in Bound =>
       /\ c.phase = "armed" => c.basis = Good(s.recs)
       /\ c.commit.pc = "barrier" => c.calls = <<>> /\ d = s /\ c.basis = Good(s.recs)
       /\ c.commit.pc \in {"apply", "undo"} => Len(c.calls) = 1 /\ Under(c.calls[1], c.basis, d, s)

(* The picks stay what they were where tool, phase and commit do,          *)
LEMMA PickedKept ==
    ASSUME NEW c, NEW d, NEW s, Picked(c, d, s), NEW e, e.tool = c.tool, e.phase = c.phase, e.basis = c.basis,
           e.commit = c.commit, e.calls = c.calls
    PROVE  Picked(e, d, s)
  BY DEF Picked

(* do not matter to a tool that is not bound,                              *)
LEMMA PickedUnbound ==
    ASSUME NEW e, e.tool \notin Bound, e.phase = "waiting" => e.tool \notin AtOnce, NEW d, NEW s
    PROVE  Picked(e, d, s)
  BY DEF Picked

(* and are of the store of an armed one.                                   *)
LEMMA PickedArmed ==
    ASSUME NEW e, e.phase = "armed", e.commit.pc = "none", NEW d, NEW s, e.tool \in Bound => e.basis = Good(s.recs)
    PROVE  Picked(e, d, s)
  BY DEF Picked

(* One call, and nothing before it.                                        *)
LEMMA OneCall ==
    ASSUME NEW call
    PROVE  Len(Append(<<>>, call)) = 1 /\ Append(<<>>, call)[1] = call
  OBVIOUS

(* The first call of a commit.                                             *)
LEMMA PickedCalled ==
    ASSUME NEW c, c.calls = <<>>, NEW kind \in {"apply", "undo"}, NEW r, NEW v, NEW b, NEW d, NEW s,
           IF kind = "apply" THEN d = s /\ Good(d.recs) = c.basis ELSE d.recs # <<>> /\ Good(Front(d.recs)) = c.basis,
           NEW e, e.phase # "waiting", e.phase # "armed", e.basis = c.basis, e.commit.pc = kind,
           e.calls = Append(c.calls, CallOf(c, kind, r, v, b))
    PROVE  Picked(e, d, s)
<1>. DEFINE call == CallOf(c, kind, r, v, b)
<1>1. call.kind = kind /\ call.answer = "none"
  BY DEF CallOf
<1>. HIDE DEF call
<1>2. Len(e.calls) = 1 /\ e.calls[1] = call
  BY OneCall DEF call
<1>3. Under(call, e.basis, d, s)
  BY <1>1 DEF Under
<1>. QED
  BY <1>2, <1>3 DEF Picked

(* A commit of a bound tool starts over the model of its picks.            *)
LEMMA PickedStepped ==
    ASSUME NEW c, c.phase # "waiting", NEW d, NEW s, NEW k,
           c.tool \in Bound => c.calls = <<>> /\ d = s /\ c.basis = Good(s.recs) /\ k = 1,
           NEW reopened, NEW e, Stepped(c, e, k, reopened)
    PROVE  Picked(e, d, s)
<1>1. CASE c.tool \notin Bound
  <2>1. e.tool = c.tool /\ e.phase # "waiting"
    BY DEF Stepped, Loads, Barred, Rearmed, Applied, SameArm
  <2>. QED
    BY <1>1, <2>1, PickedUnbound
<1>2. CASE c.tool \in Bound
  <2>1. ~(k > Total(c))
    BY <1>2 DEF Total, Bound, Strict
  <2>2. CASE Barred(c, e, k)
    <3>1. e.calls = c.calls /\ e.basis = c.basis /\ e.commit.pc = "barrier" /\ e.phase = "committing"
      BY <2>2 DEF Barred, SameArm
    <3>. QED
      BY <1>2, <3>1 DEF Picked
  <2>3. CASE Rearmed(c, e, k)
    <3>1. e.phase = "armed" /\ e.commit.pc = "none" /\ e.basis = c.basis
      BY <2>3 DEF Rearmed, SameArm, NoCommit
    <3>. QED
      BY <1>2, <3>1, PickedArmed
  <2>4. CASE Applied(c, e, k)
    <3>1. /\ e.basis = c.basis /\ e.commit.pc = "apply" /\ e.phase = "committing"
          /\ e.calls = Append(c.calls, CallOf(c, "apply", c.regions[k], c.value, FALSE))
      BY <2>4 DEF Applied, SameArm
    <3>2. "apply" \in {"apply", "undo"} /\ c.calls = <<>> /\ d = s /\ Good(d.recs) = c.basis
      BY <1>2
    <3>. QED
      BY ONLY <3>1, <3>2, PickedCalled
  <2>. QED
    BY <2>1, <2>2, <2>3, <2>4 DEF Stepped
<1>. QED
  BY <1>1, <1>2

(* A barrier ends over that model.                                         *)
LEMMA PickedBarrier ==
    ASSUME NEW c, c.phase = "committing", NEW d, NEW s, NEW k,
           c.tool \in Bound => /\ c.calls = <<>> /\ d = s /\ c.basis = Good(s.recs)
                               /\ c.sessions[k].sid \in DOMAIN c.lane,
           NEW out, NEW reopened, NEW e, BarrierEnds(c, e, k, out, reopened)
    PROVE  Picked(e, d, s)
<1>1. ASSUME NEW x, Ended(c, x, {c.sessions[k].sid})
      PROVE  x.tool = c.tool /\ x.basis = c.basis /\ x.calls = c.calls /\ x.phase = c.phase
  BY <1>1 DEF Ended, SameTool
<1>2. CASE \E x : Ended(c, x, {c.sessions[k].sid}) /\ Rearmed(x, e, k)
  <2>1. e.tool = c.tool /\ e.basis = c.basis /\ e.phase = "armed" /\ e.commit.pc = "none"
    BY <1>1, <1>2 DEF Rearmed, SameArm, NoCommit
  <2>. QED
    BY <2>1, PickedArmed
<1>3. CASE \E x : /\ Ended(c, x, {c.sessions[k].sid})
                  /\ Called(x, e, "apply", k, c.sessions[k].region, c.lane[c.sessions[k].sid].value, out = "good")
  <2>. DEFINE v == c.lane[c.sessions[k].sid].value
              b == out = "good"
              r == c.sessions[k].region
  <2>1. PICK x : Ended(c, x, {c.sessions[k].sid}) /\ Called(x, e, "apply", k, r, v, b)
    BY <1>3
  <2>. HIDE DEF v, b, r
  <2>2. /\ e.tool = x.tool /\ e.basis = x.basis /\ e.commit.pc = "apply" /\ e.phase = x.phase
        /\ e.calls = Append(x.calls, CallOf(x, "apply", r, v, b))
    BY <2>1 DEF Called, SameArm
  <2>3. x.tool = c.tool /\ x.basis = c.basis /\ x.calls = c.calls /\ x.phase = "committing"
    BY <1>1, <2>1
  <2>4. CASE c.tool \in Bound
    <3>1. "apply" \in {"apply", "undo"} /\ x.calls = <<>> /\ d = s /\ Good(d.recs) = x.basis
      BY <2>3, <2>4
    <3>. QED
      BY ONLY <2>2, <2>3, <3>1, PickedCalled
  <2>5. CASE c.tool \notin Bound
    BY <2>2, <2>3, <2>5, PickedUnbound
  <2>. QED
    BY <2>4, <2>5
<1>4. CASE c.sessions[k].sid \notin DOMAIN c.lane /\ Called(c, e, "undo", k, c.sessions[k].region, 0, FALSE)
  <2>1. c.tool \notin Bound /\ e.tool = c.tool /\ e.phase = "committing"
    BY <1>4 DEF Called, SameArm
  <2>. QED
    BY <2>1, PickedUnbound
<1>. QED
  BY <1>2, <1>3, <1>4 DEF BarrierEnds

(* The answer of the call comes to a document heard with it.               *)
LEMMA PickedGoes ==
    ASSUME NEW c, Base(c), NEW d, NEW s, Picked(c, d, s), c.calls # <<>>, NEW call, call = Head(c.calls),
           call.live, call.answer # "none", Len(c.calls) = 1, c.commit.pc = call.kind,
           NEW a, Dequeued(c, a), a.calls = <<>>, NEW reopened, NEW t, Heard(c, s, t),
           NEW e, Goes(c, a, e, call, reopened)
    PROVE  Picked(e, d, t)
<1>1. /\ call = c.calls[1] /\ call \in CallRec /\ c.commit.pc \in {"apply", "undo"} /\ c.phase = "committing"
      /\ t = IF call.answer = "ok" THEN call.doc ELSE s
  <2>1. c.calls \in Seq(CallRec)
    BY DEF Base, Control, CallsOK, Awaits, Quiet
  <2>2. call = c.calls[1] /\ call \in CallRec
    BY <2>1, TailIs
  <2>. QED
    BY <2>2 DEF CallRec, Base, Control, PhaseOK, Heard
<1>2. a.tool = c.tool /\ a.basis = c.basis /\ a.phase = "committing"
  BY <1>1 DEF Dequeued, SameArm
<1>3. CASE c.tool \notin Bound
  <2>1. (e.tool = c.tool \/ e.tool = "select") /\ e.phase # "waiting"
    BY <1>2 DEF Goes, Rearmed, Called, Swept, Stepped, Loads, Barred, Applied, SameArm
  <2>. QED
    BY <1>3, <2>1, PickedUnbound DEF Bound, Strict
<1>4. CASE c.tool \in Bound
  <2>1. Under(call, c.basis, d, s) /\ c.tool \notin Multi
    BY <1>1, <1>4 DEF Picked, Bound, Strict, Multi
  <2>2. CASE (call.kind = "undo" \/ call.answer = "refused") /\ Rearmed(a, e, c.commit.k)
    <3>1. e.phase = "armed" /\ e.commit.pc = "none" /\ e.basis = c.basis
      BY <1>2, <2>2 DEF Rearmed, SameArm, NoCommit
    <3>2. c.basis = Good(t.recs)
      BY <1>1, <2>1, <2>2 DEF Under
    <3>. QED
      BY <3>1, <3>2, PickedArmed
  <2>3. CASE call.kind = "apply" /\ call.answer = "failed" /\ Called(a, e, "undo", c.commit.k, call.region, 0, FALSE)
    <3>1. /\ e.basis = a.basis /\ e.commit.pc = "undo" /\ e.phase = "committing"
          /\ e.calls = Append(a.calls, CallOf(a, "undo", call.region, 0, FALSE))
      BY <1>2, <2>3 DEF Called, SameArm
    <3>2. /\ "undo" \in {"apply", "undo"} /\ a.calls = <<>>
          /\ IF "undo" = "apply" THEN d = t /\ Good(d.recs) = a.basis
             ELSE d.recs # <<>> /\ Good(Front(d.recs)) = a.basis
      BY <1>2, <2>1, <2>3 DEF Under
    <3>. QED
      BY ONLY <3>1, <3>2, PickedCalled
  <2>4. CASE Swept(a, e)
    <3>1. e.tool = "select" /\ e.phase = "idle"
      BY <2>4 DEF Swept
    <3>. QED
      BY <3>1, PickedUnbound DEF Bound, Strict
  <2>. QED
    BY <2>1, <2>2, <2>3, <2>4 DEF Goes
<1>. QED
  BY <1>3, <1>4

(* A bound tool's barrier waits for a session the lane has.                *)
LEMMA FitReaches ==
    ASSUME NEW c, Base(c), Fits(c), c.tool \in Bound, c.commit.pc = "barrier"
    PROVE  c.sessions[c.commit.k].sid \in DOMAIN c.lane
<1>1. c.tool \notin Multi
  BY DEF Bound, Strict, Multi
<1>2. c.commit.k \in DOMAIN c.sessions /\ c.commit.k \in Nat
  BY DEF Base, Control, PhaseOK, ToolOK, Commit
<1>3. Reached(c, c.commit.k)
  BY <1>1 DEF Fits, Fit
<1>. QED
  BY <1>2, <1>3 DEF Reached

(* A tool that starts is of the model its picks were read from.            *)
LEMMA PickedStarts ==
    ASSUME NEW c, NEW d, NEW s, NEW t, NEW regions, NEW e, Starts(c, e, t, regions, Good(s.recs))
    PROVE  Picked(e, d, s)
<1>1. CASE t \in AtOnce
  <2>1. e.phase = "armed" /\ e.commit.pc = "none" /\ e.basis = Good(s.recs)
    BY <1>1 DEF Starts, NoCommit
  <2>. QED
    BY <2>1, PickedArmed
<1>2. CASE t \notin AtOnce
  <2>1. e.phase = "waiting" /\ e.commit.pc = "none" /\ e.tool \notin AtOnce
    BY <1>2 DEF Starts, NoCommit
  <2>. QED
    BY <2>1 DEF Picked
<1>. QED
  BY <1>1, <1>2

(* A tool that is left.                                                    *)
LEMMA PickedSwept ==
    ASSUME NEW c, NEW e, Swept(c, e), NEW d, NEW s
    PROVE  Picked(e, d, s)
<1>1. e.tool = "select" /\ e.phase = "idle"
  BY DEF Swept
<1>. QED
  BY <1>1, PickedUnbound DEF Bound, Strict

(* An arm is answered in time.                                             *)
LEMMA PickedWaited ==
    ASSUME NEW c, Base(c), c.phase \in {"waiting", "axisPick"}, NEW d, NEW s, Picked(c, d, s),
           NEW e, Waited(c, e), c.tool \in Strict => c.basis = Good(s.recs) \/ Swept(c, e)
    PROVE  Picked(e, d, s)
<1>1. c.commit.pc = "none" /\ (c.phase = "axisPick" => c.tool = "revolve")
  BY DEF Base, Control, PhaseOK
<1>2. c.tool \in Bound => c.tool \in Strict
  BY <1>1 DEF Picked, Bound, Strict, AtOnce
<1>3. CASE Arms(c, e) /\ ~Swept(c, e)
  <2>1. e.phase = "armed" /\ e.commit.pc = "none" /\ e.basis = c.basis /\ e.tool = c.tool
    BY <1>1, <1>3 DEF Arms
  <2>. QED
    BY <1>2, <1>3, <2>1, PickedArmed
<1>4. CASE c.tool \in Multi /\ Turns(c, e, e.phase) /\ e.phase \in {"armed", "axisPick"}
  <2>1. e.tool \notin Bound /\ e.phase # "waiting"
    BY <1>4 DEF Turns, Multi, Bound, Strict
  <2>. QED
    BY <2>1, PickedUnbound
<1>. QED
  BY <1>3, <1>4, PickedSwept DEF Waited

(* An armed tool is changed, or left; one in mid-commit is flipped.        *)
LEMMA PickedAdjusts ==
    ASSUME NEW c, Base(c), NEW d, NEW s, Picked(c, d, s), NEW e, Adjusts(c, e)
    PROVE  Picked(e, d, s)
<1>1. CASE Sets(c, e, e.value)
  BY <1>1, PickedKept DEF Sets
<1>2. CASE c.tool = "revolve" /\ Unpicked(c, e)
  <2>1. e.tool \notin Bound /\ e.phase # "waiting"
    BY <1>2 DEF Unpicked, Bound, Strict
  <2>. QED
    BY <2>1, PickedUnbound
<1>3. CASE Flipped(c, e)
  BY <1>3, PickedKept DEF Flipped, SameTool
<1>4. CASE c.tool = "fillet" /\ c.commit.pc = "barrier" /\ \E x : Flipped(c, x) /\ Rearmed(x, e, 1)
  <2>1. e.phase = "armed" /\ e.commit.pc = "none" /\ e.basis = c.basis
    BY <1>4 DEF Flipped, SameTool, Rearmed, SameArm, NoCommit
  <2>2. c.basis = Good(s.recs)
    BY <1>4 DEF Picked, Bound, Strict
  <2>. QED
    BY <2>1, <2>2, PickedArmed
<1>. QED
  BY <1>1, <1>2, <1>3, <1>4, PickedSwept DEF Adjusts, FlipStep

(* A commit starts where nothing is on its way, and goes on.               *)
LEMMA PickedProceeds ==
    ASSUME NEW c, Base(c), Fits(c), NEW d, NEW s, Picked(c, d, s), NEW e, Proceeds(c, e),
           c.tool \in Bound /\ c.phase = "armed" => c.calls = <<>> /\ d = s
    PROVE  Picked(e, d, s)
<1>1. c.commit.pc \in {"record", "loading"} => c.tool \notin Bound
  BY DEF Base, Control, PhaseOK, Multi, Bound, Strict
<1>2. CASE c.tool \in Multi /\ AsksRecord(c, e)
  <2>1. e.tool \notin Bound /\ e.phase # "waiting"
    BY <1>2 DEF AsksRecord, SameArm, Multi, Bound, Strict
  <2>. QED
    BY <2>1, PickedUnbound
<1>3. CASE c.phase = "armed" /\ \E reopened \in Reopen : Stepped(c, e, 1, reopened)
  <2>1. c.tool \in Bound => c.calls = <<>> /\ d = s /\ c.basis = Good(s.recs) /\ 1 = 1
    BY <1>3 DEF Picked
  <2>2. c.phase # "waiting"
    BY <1>3
  <2>3. PICK reopened \in Reopen : Stepped(c, e, 1, reopened)
    BY <1>3
  <2>. QED
    BY ONLY <2>1, <2>2, <2>3, PickedStepped
<1>4. CASE c.commit.pc = "record" /\ Stepped(c, e, 1, TRUE)
  <2>1. c.phase # "waiting" /\ c.tool \notin Bound
    BY <1>1, <1>4 DEF Base, Control, PhaseOK
  <2>2. Stepped(c, e, 1, TRUE)
    BY <1>4
  <2>. QED
    BY ONLY <2>1, <2>2, PickedStepped
<1>5. CASE c.commit.pc = "record" /\ Backs(c, e)
  <2>1. e.tool \notin Bound /\ e.phase # "waiting"
    BY <1>1, <1>5 DEF Backs, SameArm
  <2>. QED
    BY <2>1, PickedUnbound
<1>6. CASE c.commit.pc = "barrier" /\ \E reopened \in Reopen : BarrierEnds(c, e, c.commit.k, "timeout", reopened)
  <2>1. c.tool \in Bound => /\ c.calls = <<>> /\ d = s /\ c.basis = Good(s.recs)
                            /\ c.sessions[c.commit.k].sid \in DOMAIN c.lane
    BY <1>6, FitReaches DEF Picked
  <2>2. c.phase = "committing"
    BY <1>6 DEF Base, Control, PhaseOK
  <2>3. PICK reopened \in Reopen : BarrierEnds(c, e, c.commit.k, "timeout", reopened)
    BY <1>6
  <2>. QED
    BY ONLY <2>1, <2>2, <2>3, PickedBarrier
<1>. QED
  BY <1>2, <1>3, <1>4, <1>5, <1>6, PickedSwept DEF Proceeds

(* The lane asks and is answered.                                          *)
LEMMA PickedAnswered ==
    ASSUME NEW c, Base(c), Fits(c), NEW d, NEW s, Picked(c, d, s),
           NEW out, NEW reopened, NEW e, Answered(c, e, out, reopened)
    PROVE  Picked(e, d, s)
<1>1. CASE Paced(c, e)
  BY <1>1, PickedKept DEF Paced, Moves, SameTool
<1>2. CASE c.commit.pc = "barrier" /\ \E x : Paced(c, x) /\ BarrierEnds(x, e, c.commit.k, out, reopened)
  <2>1. PICK x : Paced(c, x) /\ BarrierEnds(x, e, c.commit.k, out, reopened)
    BY <1>2
  <2>2. SameTool(c, x) /\ SameSessions(c.sessions, x.sessions) /\ DOMAIN x.lane = DOMAIN c.lane
    BY <2>1 DEF Paced, Moves
  <2>3. x.phase = "committing" /\ c.commit.k \in DOMAIN c.sessions
    BY <1>2, <2>2 DEF Base, Control, PhaseOK, SameTool
  <2>4. x.sessions[c.commit.k].sid = c.sessions[c.commit.k].sid
    BY <2>2, <2>3 DEF SameSessions
  <2>5. x.tool \in Bound => /\ x.calls = <<>> /\ d = s /\ x.basis = Good(s.recs)
                            /\ x.sessions[c.commit.k].sid \in DOMAIN x.lane
    BY <1>2, <2>2, <2>4, FitReaches DEF Picked, SameTool
  <2>6. BarrierEnds(x, e, c.commit.k, out, reopened)
    BY <2>1
  <2>. QED
    BY ONLY <2>3, <2>5, <2>6, PickedBarrier
<1>. QED
  BY <1>1, <1>2 DEF Answered

(* An undo takes off what was appended.                                    *)
LEMMA FrontBack ==
    ASSUME NEW S, NEW q \in Seq(S), NEW r \in S
    PROVE  Append(q, r) # <<>> /\ Front(Append(q, r)) = q
<1>. DEFINE p == Append(q, r)
<1>1. p \in Seq(S) /\ Len(p) = Len(q) + 1 /\ Len(q) \in Nat /\ \A i \in 1 .. Len(q) : p[i] = q[i]
  BY AppendProperties, LenProperties
<1>. HIDE DEF p
<1>2. p # <<>>
  BY <1>1, EmptySeq
<1>3. Front(p) \in Seq(S) /\ Len(Front(p)) = Len(p) - 1 /\ \A i \in 1 .. (Len(p) - 1) : Front(p)[i] = p[i]
  BY ONLY <1>1, <1>2, FrontIs
<1>4. Len(Front(p)) = Len(q) /\ \A i \in 1 .. Len(Front(p)) : Front(p)[i] = q[i]
  BY ONLY <1>1, <1>3
<1>5. q \in Seq(S)
  OBVIOUS
<1>6. Front(p) = q
  BY ONLY <1>3, <1>4, <1>5, SeqEqual
<1>. QED
  BY <1>2, <1>6 DEF p

(* The backend handles the call a bound tool's commit waits for.           *)
LEMMA UnderHandled ==
    ASSUME NEW c, NEW call \in CallRec, call = c.calls[1], NEW d \in Doc, NEW s, Under(call, c.basis, d, s),
           NEW out \in {"ok", "failed", "refused"}, NEW t, Handles(c, 1, d, out, t),
           NEW n, n = [call EXCEPT !.answer = out, !.doc = t]
    PROVE  Under(n, c.basis, t, s)
<1>1. n.kind = call.kind /\ n.answer = out /\ n.doc = t
  BY DEF CallRec
<1>2. call.answer = "none" /\ call.kind \in {"apply", "undo"} /\ d.recs \in Seq(Record)
  BY DEF Handles, CallRec, Doc
<1>3. CASE /\ call.kind = "apply" /\ out \in {"ok", "failed"}
           /\ t = [rev |-> d.rev + 1,
                   recs |-> Append(d.recs, [arm |-> call.arm, region |-> call.region, ok |-> out = "ok"])]
  <2>. DEFINE r == [arm |-> call.arm, region |-> call.region, ok |-> out = "ok"]
  <2>1. r \in Record /\ t.recs = Append(d.recs, r)
    BY <1>3 DEF CallRec, Record
  <2>. HIDE DEF r
  <2>2. t.recs # <<>> /\ Front(t.recs) = d.recs
    BY ONLY <1>2, <2>1, FrontBack
  <2>3. Good(d.recs) = c.basis
    BY <1>2, <1>3 DEF Under
  <2>. QED
    BY ONLY <1>1, <1>3, <2>2, <2>3 DEF Under
<1>4. CASE out = "refused" /\ t = d /\ call.kind = "apply"
  BY <1>1, <1>2, <1>4 DEF Under
<1>5. CASE call.kind = "undo" /\ d.recs = <<>>
  BY <1>2, <1>5 DEF Under
<1>6. CASE call.kind = "undo" /\ out = "ok" /\ t = [rev |-> d.rev + 1, recs |-> Front(d.recs)]
  <2>1. Good(Front(d.recs)) = c.basis
    BY <1>2, <1>6 DEF Under
  <2>2. Good(n.doc.recs) = c.basis
    BY <1>1, <1>6, <2>1
  <2>. QED
    BY ONLY <1>1, <1>6, <2>2 DEF Under
<1>. QED
  BY <1>3, <1>4, <1>5, <1>6 DEF Handles

(* The backend handles a call.                                             *)
LEMMA PickedHandled ==
    ASSUME NEW c, Base(c), NEW d \in Doc, NEW s, Picked(c, d, s), NEW i \in DOMAIN c.calls,
           NEW out \in {"ok", "failed", "refused"}, NEW t, Handles(c, i, d, out, t), NEW e, Base(e),
           Replied(c, e, i, out, t)
    PROVE  Picked(e, t, s)
<1>1. e.tool = c.tool /\ e.phase = c.phase /\ e.basis = c.basis /\ e.commit = c.commit
  BY DEF Replied, SameArm
<1>2. c.calls \in Seq(CallRec) /\ e.calls \in Seq(CallRec) /\ DOMAIN e.calls = DOMAIN c.calls
  BY DEF Base, Control, CallsOK, Awaits, Quiet, Replied
<1>3. Len(e.calls) = Len(c.calls) /\ DOMAIN c.calls = 1 .. Len(c.calls)
  BY <1>2
<1>4. c.calls # <<>>
  BY <1>2, EmptySeq
<1>5. ASSUME c.tool \in Bound, c.commit.pc \in {"apply", "undo"}
      PROVE  Len(e.calls) = 1 /\ Under(e.calls[1], c.basis, t, s)
  <2>1. Len(c.calls) = 1 /\ Under(c.calls[1], c.basis, d, s)
    BY <1>5 DEF Picked
  <2>2. i = 1
    BY <1>3, <2>1
  <2>3. c.calls[1] \in CallRec
    BY <1>2, <1>3, <2>1, ElementOfSeq
  <2>4. e.calls[1] = [c.calls[1] EXCEPT !.answer = out, !.doc = t] /\ Handles(c, 1, d, out, t)
    BY <2>2 DEF Replied
  <2>. DEFINE call == c.calls[1]
              n == e.calls[1]
  <2>5. /\ call \in CallRec /\ call = c.calls[1] /\ Under(call, c.basis, d, s)
        /\ n = [call EXCEPT !.answer = out, !.doc = t] /\ Handles(c, 1, d, out, t)
        /\ d \in Doc /\ out \in {"ok", "failed", "refused"}
    BY <2>1, <2>3, <2>4
  <2>. HIDE DEF call, n
  <2>6. Under(n, c.basis, t, s)
    BY ONLY <2>5, UnderHandled
  <2>. QED
    BY <1>3, <2>1, <2>6 DEF n
<1>6. c.tool \in Bound => c.commit.pc # "barrier"
  BY <1>4 DEF Picked
<1>. QED
  BY <1>1, <1>5, <1>6 DEF Picked

(* An answer nobody waits for is dropped.                                  *)
LEMMA PickedDropped ==
    ASSUME NEW c, Base(c), c.calls # <<>>, ~Head(c.calls).live, NEW d, NEW s, Picked(c, d, s),
           NEW e, Discards(c, e)
    PROVE  Picked(e, d, s)
<1>1. e.tool = c.tool /\ e.phase = c.phase /\ e.basis = c.basis /\ e.commit = c.commit
  BY DEF Discards, SameArm
<1>2. c.tool \in Bound => c.commit.pc # "barrier"
  BY DEF Picked
<1>3. ASSUME c.tool \in Bound, c.commit.pc \in {"apply", "undo"} PROVE FALSE
  <2>1. Len(c.calls) = 1 /\ c.calls \in Seq(CallRec) /\ \A i \in DOMAIN c.calls : c.calls[i].live <=> i = Len(c.calls)
    BY <1>3 DEF Picked, Base, Control, CallsOK, Awaits
  <2>2. Head(c.calls) = c.calls[1] /\ 1 \in DOMAIN c.calls
    BY <2>1, TailIs
  <2>. QED
    BY <2>1, <2>2
<1>. QED
  BY <1>1, <1>2, <1>3 DEF Picked

(* An awaited answer is heard.                                             *)
LEMMA PickedDelivers ==
    ASSUME NEW c, Base(c), NEW d, NEW s, Picked(c, d, s), c.calls # <<>>, Head(c.calls).live,
           Head(c.calls).answer # "none", NEW t, Heard(c, s, t), NEW e, Delivers(c, e)
    PROVE  Picked(e, d, t)
<1>1. PICK a : \E reopened \in Reopen :
                 Dequeued(c, a) /\ LaneOK(a, {}) /\ a.calls = <<>> /\ Goes(c, a, e, Head(c.calls), reopened)
  BY DEF Delivers
<1>2. PICK reopened \in Reopen : Goes(c, a, e, Head(c.calls), reopened)
  BY <1>1
<1>. DEFINE call == Head(c.calls)
<1>3. /\ call = Head(c.calls) /\ call.live /\ call.answer # "none" /\ Len(c.calls) = 1 /\ c.commit.pc = call.kind
      /\ Dequeued(c, a) /\ a.calls = <<>> /\ Goes(c, a, e, call, reopened)
      /\ Base(c) /\ Picked(c, d, s) /\ c.calls # <<>> /\ Heard(c, s, t)
  BY <1>1, <1>2 DEF Delivers
<1>. HIDE DEF call
<1>. QED
  BY ONLY <1>3, PickedGoes

(* The document is edited or heard of.                                     *)
LEMMA PickedDoc ==
    ASSUME TypeInv, Picked(ctl, doc, store), Edit \/ Hear, "edit_mid_commit" \notin Rare
    PROVE  Picked(ctl, doc, store)'
<1>1. Base(ctl) /\ doc.rev \in Nat
  BY DEF TypeInv, Doc
<1>2. CASE Edit
  <2>1. ctl' = ctl /\ store' = store /\ ctl.commit.pc = "none"
    BY <1>2 DEF Edit, Committing
  <2>. QED
    BY <2>1 DEF Picked
<1>3. CASE Hear /\ ctl' = OnToolChange(ctl)
  <2>1. Swept(ctl, ctl')
    BY <1>1, <1>3, LeaveIs
  <2>. QED
    BY <2>1, PickedSwept
<1>4. CASE Hear /\ ctl' = ctl /\ ~(ctl.phase = "armed" /\ ctl.tool \in Bound)
  <2>1. doc' = doc /\ store' = doc /\ doc # store
    BY <1>1, <1>4 DEF Hear
  <2>2. ASSUME Under(ctl.calls[1], ctl.basis, doc, store) PROVE Under(ctl.calls[1], ctl.basis, doc, doc)
    BY <2>2 DEF Under
  <2>3. Picked(ctl, doc, doc)
    BY <1>4, <2>1, <2>2 DEF Picked
  <2>. QED
    BY <1>4, <2>1, <2>3
<1>. QED
  BY <1>2, <1>3, <1>4 DEF Hear

(* Every step.                                                             *)
LEMMA PickedStep ==
    ASSUME FitInv, Picked(ctl, doc, store), [Next]_vars, "edit_mid_commit" \notin Rare, "late_prepare" \notin Rare
    PROVE  Picked(ctl, doc, store)'
<1>0. TypeInv /\ Base(ctl) /\ Fits(ctl) /\ doc \in Doc /\ store \in Doc /\ TypeInv' /\ Base(ctl')
  BY TypesStep DEF FitInv, TypeInv
<1>1. CASE UNCHANGED vars
  BY <1>1 DEF vars, Picked
<1>2. CASE \E t \in Tools : \E regions \in Subjects(t) : SetTool(t, regions)
  <2>1. PICK t \in Tools : \E regions \in Subjects(t) : SetTool(t, regions)
    BY <1>2
  <2>2. PICK regions \in Subjects(t) : SetTool(t, regions)
    BY <2>1
  <2>3. Starts(ctl, ctl', t, regions, Good(store.recs))
    BY <1>0, <2>2, SetToolSteps
  <2>4. Picked(ctl', doc', store)
    BY ONLY <2>3, PickedStarts
  <2>5. store' = store
    BY <2>2 DEF SetTool
  <2>. QED
    BY <2>4, <2>5
<1>3. CASE ArmAnswered \/ ArmRefused \/ ArmWithoutPreview \/ PickRevolveAxis
  <2>1. ctl.phase \in {"waiting", "axisPick"} /\ Waited(ctl, ctl')
    BY <1>0, <1>3, WaitingSteps
  <2>2. doc' = doc /\ store' = store
    BY <1>3 DEF ArmAnswered, ArmRefused, ArmWithoutPreview, PickRevolveAxis, Same
  <2>3. CASE ArmAnswered
    <3>1. ctl.tool \in Strict => ctl.basis = Good(store.recs) \/ Swept(ctl, ctl')
      BY <2>3 DEF ArmAnswered
    <3>2. Picked(ctl', doc, store)
      BY ONLY <1>0, Picked(ctl, doc, store), <2>1, <3>1, PickedWaited
    <3>. QED
      BY <2>2, <3>2
  <2>4. CASE ArmRefused
    <3>1. ctl' = OnToolChange(ctl)
      BY <2>4 DEF ArmRefused
    <3>2. Swept(ctl, ctl')
      BY ONLY <1>0, <3>1, LeaveIs
    <3>. QED
      BY <3>2, PickedSwept
  <2>5. CASE ArmWithoutPreview \/ PickRevolveAxis
    <3>1. ctl.tool \notin Strict
      BY <1>0, <2>5, WaitingIs DEF ArmWithoutPreview, PickRevolveAxis, Strict
    <3>2. Picked(ctl', doc, store)
      BY ONLY <1>0, Picked(ctl, doc, store), <2>1, <3>1, PickedWaited
    <3>. QED
      BY <2>2, <3>2
  <2>. QED
    BY <1>3, <2>3, <2>4, <2>5
<1>4. CASE ResetRevolveAxis \/ Leave \/ FlipKind \/ \E v \in 1 .. MaxValue : SetValue(v)
  <2>1. doc' = doc /\ store' = store /\ Adjusts(ctl, ctl')
    BY <1>0, <1>4, ArmedSteps DEF ResetRevolveAxis, Leave, FlipKind, SetValue
  <2>2. Picked(ctl', doc, store)
    BY ONLY <1>0, Picked(ctl, doc, store), <2>1, PickedAdjusts
  <2>. QED
    BY <2>1, <2>2
<1>5. CASE Confirm \/ RecordAnswered \/ BarrierTimeout \/ BodiesLoaded
  <2>1. doc' = doc /\ store' = store /\ Proceeds(ctl, ctl')
    BY <1>0, <1>5, CommitSteps DEF Confirm, RecordAnswered, BarrierTimeout, BodiesLoaded, Same
  <2>2. ctl.phase = "armed" => ctl.commit.pc = "none"
    BY <1>0 DEF Base, Control, PhaseOK
  <2>3. ctl.tool \in Bound /\ ctl.phase = "armed" => ctl.calls = <<>> /\ doc = store
    BY <1>5, <2>2 DEF Confirm, Undisturbed, RecordAnswered, BarrierTimeout, BodiesLoaded
  <2>4. Picked(ctl', doc, store)
    BY ONLY <1>0, Picked(ctl, doc, store), <2>1, <2>3, PickedProceeds
  <2>. QED
    BY <2>1, <2>4
<1>6. CASE HandleCall
  <2>1. store' = store /\ \E i \in DOMAIN ctl.calls : \E out \in {"ok", "failed", "refused"} :
          Handles(ctl, i, doc, out, doc') /\ Replied(ctl, ctl', i, out, doc')
    BY <1>0, <1>6, HandleSteps
  <2>2. PICK i \in DOMAIN ctl.calls : \E out \in {"ok", "failed", "refused"} :
          Handles(ctl, i, doc, out, doc') /\ Replied(ctl, ctl', i, out, doc')
    BY <2>1
  <2>3. PICK out \in {"ok", "failed", "refused"} :
          Handles(ctl, i, doc, out, doc') /\ Replied(ctl, ctl', i, out, doc')
    BY <2>2
  <2>4. Picked(ctl', doc', store)
    BY ONLY <1>0, Picked(ctl, doc, store), i \in DOMAIN ctl.calls, out \in {"ok", "failed", "refused"},
            <2>3, PickedHandled
  <2>. QED
    BY <2>1, <2>4
<1>7. CASE DeliverCall
  <2>1. /\ doc' = doc /\ Heard(ctl, store, store') /\ ctl.calls # <<>> /\ Head(ctl.calls).answer # "none"
        /\ IF Head(ctl.calls).live THEN Delivers(ctl, ctl') ELSE Discards(ctl, ctl')
    BY <1>0, <1>7, DeliverSteps
  <2>2. CASE Head(ctl.calls).live
    <3>1. Picked(ctl', doc, store')
      BY ONLY <1>0, Picked(ctl, doc, store), <2>1, <2>2, PickedDelivers
    <3>. QED
      BY <2>1, <3>1
  <2>3. CASE ~Head(ctl.calls).live
    <3>1. Picked(ctl', doc, store)
      BY ONLY <1>0, Picked(ctl, doc, store), <2>1, <2>3, PickedDropped
    <3>2. store' = store
      BY <2>1, <2>3 DEF Heard
    <3>. QED
      BY <2>1, <3>1, <3>2
  <2>. QED
    BY <2>2, <2>3
<1>8. CASE Edit \/ Hear
  BY <1>0, <1>8, PickedDoc
<1>9. CASE FloorOpens \/ TimerFires \/ \E out \in {"good", "bad", "stale"} : Answer(out)
  <2>1. doc' = doc /\ store' = store /\ \E out \in {"good", "bad", "stale"} : \E reopened \in Reopen :
          Answered(ctl, ctl', out, reopened)
    BY <1>0, <1>9, LaneSteps
  <2>2. PICK out \in {"good", "bad", "stale"} : \E reopened \in Reopen : Answered(ctl, ctl', out, reopened)
    BY <2>1
  <2>3. PICK reopened \in Reopen : Answered(ctl, ctl', out, reopened)
    BY <2>2
  <2>4. Picked(ctl', doc, store)
    BY ONLY <1>0, Picked(ctl, doc, store), <2>3, PickedAnswered
  <2>. QED
    BY <2>1, <2>4
<1>. QED
  BY <1>1, <1>2, <1>3, <1>4, <1>5, <1>6, <1>7, <1>8, <1>9 DEF Next

(* A tool bound to topology is armed only over the model its picks were    *)
(* made on: through failed commits, rollbacks and flips, unless another's  *)
(* edit or a late preparation comes between.                               *)
THEOREM PicksCurrent ==
    "edit_mid_commit" \notin Rare /\ "late_prepare" \notin Rare => (Spec => []PicksAreCurrent)
<1>. SUFFICES ASSUME "edit_mid_commit" \notin Rare, "late_prepare" \notin Rare PROVE Spec => []PicksAreCurrent
  OBVIOUS
<1>. DEFINE Inv == FitInv /\ Picked(ctl, doc, store)
<1>1. Init => Picked(ctl, doc, store)
  <2>. SUFFICES ASSUME Init PROVE Picked(ctl, doc, store)
    OBVIOUS
  <2>1. ctl.tool = "select" /\ ctl.phase = "idle"
    BY DEF Init
  <2>. QED
    BY <2>1, PickedUnbound DEF Bound, Strict
<1>2. FitInv /\ Picked(ctl, doc, store) /\ [Next]_vars => Picked(ctl, doc, store)'
  BY PickedStep
<1>3. Picked(ctl, doc, store) => PicksAreCurrent
  BY DEF Picked, PicksAreCurrent
<1>. QED
  BY <1>1, <1>2, <1>3, FitAlways, PTL DEF Spec

=============================================================================
