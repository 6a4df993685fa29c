------------------------ MODULE SketchSessionProofs ------------------------
(***************************************************************************)
(* The steps of a sketch always follow each other; a sketch that is closed *)
(* is closed in the runtime too, and its record holds it.                  *)
(*                                                                         *)
(* The undo stack of the document is shared by all sketches, by their      *)
(* timeline records and by everything else, and a session squashes the     *)
(* steps it made into one.  What is to be shown is that the steps of one   *)
(* sketch still form a chain: each begins where the one before ended.      *)
(* The invariant has to say besides what an open session relies on: its    *)
(* mark is a place of the stack, and as long as nothing was evicted since  *)
(* it was entered, the steps below the mark leave the sketch as the        *)
(* session found it, so that one net step can replace those above.         *)
(*                                                                         *)
(* The proof goes through the operations of the runtime one by one, for    *)
(* any runtime in order, and then through the actions, which combine them  *)
(* with the frontend's own state.  Of the frontend it needs that answers   *)
(* come for the sketch they were asked for, and, for the caps, that a      *)
(* snapshot taken off a stack still has its place there when the edit      *)
(* fails.                                                                  *)
(*                                                                         *)
(* The second half sums up controller, store and answers under way as the  *)
(* phase of one session, and shows that every step of the program is a     *)
(* step from phase to phase.  What the runtime holds in each phase is then *)
(* shown of a session's life alone, without the frontend.                  *)
(***************************************************************************)
EXTENDS SketchSession, SequenceTheorems, TLAPS

-----------------------------------------------------------------------------
(* Sequences of whatever there is.                                         *)

(* A sequence, of anything.                                                *)
IsSeq(q) == \E T : q \in Seq(T)

(* Its places.                                                             *)
LEMMA SeqIs ==
    ASSUME NEW q, IsSeq(q)
    PROVE  /\ Len(q) \in Nat /\ DOMAIN q = 1 .. Len(q)
           /\ q = <<>> <=> Len(q) = 0
  BY LenProperties, EmptySeq DEF IsSeq

(* The empty one.                                                          *)
LEMMA NoSeq == IsSeq(<<>>) /\ Len(<<>>) = 0
<1>1. <<>> \in Seq({})
  BY EmptySeq
<1>. QED
  BY <1>1, EmptySeq DEF IsSeq

(* One more at the end.                                                    *)
LEMMA AppendSeq ==
    ASSUME NEW q, IsSeq(q), NEW e
    PROVE  /\ IsSeq(Append(q, e)) /\ Len(Append(q, e)) = Len(q) + 1
           /\ Append(q, e)[Len(q) + 1] = e
           /\ \A i \in 1 .. Len(q) : Append(q, e)[i] = q[i]
<1>1. PICK T : q \in Seq(T)
  BY DEF IsSeq
<1>2. q \in Seq(T \cup {e}) /\ e \in T \cup {e}
  BY <1>1, SeqMonotonic
<1>. QED
  BY <1>2, AppendProperties DEF IsSeq

(* The first ones.                                                         *)
LEMMA CutSeq ==
    ASSUME NEW q, IsSeq(q), NEW k \in 0 .. Len(q)
    PROVE  /\ IsSeq(SubSeq(q, 1, k)) /\ Len(SubSeq(q, 1, k)) = k
           /\ \A i \in 1 .. k : SubSeq(q, 1, k)[i] = q[i]
<1>. DEFINE r == SubSeq(q, 1, k)
<1>1. PICK T : q \in Seq(T)
  BY DEF IsSeq
<1>2. Len(q) \in Nat /\ k \in Int /\ \A i \in 1 .. k : q[i] \in T
  BY <1>1, LenProperties, ElementOfSeq
<1>3. /\ r \in Seq(T) /\ Len(r) = IF 1 <= k THEN k - 1 + 1 ELSE 0
      /\ \A i \in 1 .. k - 1 + 1 : r[i] = q[1 + i - 1]
  BY <1>2, SubSeqProperties
<1>4. Len(r) = k
  BY <1>2, <1>3
<1>5. \A i \in 1 .. k : i \in 1 .. k - 1 + 1 /\ 1 + i - 1 = i
  BY <1>2
<1>. QED
  BY <1>3, <1>4, <1>5 DEF IsSeq

(* All but the first.                                                      *)
LEMMA TailSeq ==
    ASSUME NEW q, IsSeq(q), q # <<>>
    PROVE  /\ IsSeq(Tail(q)) /\ Len(Tail(q)) = Len(q) - 1
           /\ \A i \in 1 .. Len(q) - 1 : Tail(q)[i] = q[i + 1]
<1>1. PICK T : q \in Seq(T)
  BY DEF IsSeq
<1>. QED
  BY <1>1, HeadTailProperties DEF IsSeq

(* A function on the first places.                                         *)
LEMMA FunctionSeq ==
    ASSUME NEW q, NEW n \in Nat, DOMAIN q = 1 .. n, q = [i \in 1 .. n |-> q[i]]
    PROVE  IsSeq(q) /\ Len(q) = n
<1>. DEFINE T == {q[i] : i \in 1 .. n}
<1>1. q \in [1 .. n -> T]
  OBVIOUS
<1>2. q \in Seq(T)
  BY <1>1, SeqDef
<1>3. Len(q) \in Nat /\ DOMAIN q = 1 .. Len(q)
  BY <1>2, LenProperties
<1>4. Len(q) = n
  BY <1>3
<1>. QED
  BY <1>2, <1>4 DEF IsSeq

-----------------------------------------------------------------------------
(* Histories.  In each lemma "line" is a history of "n" steps, "steps" the *)
(* places in it of one sketch's own.                                       *)

(* What an undo leaves.                                                    *)
LEMMA LinksBack ==
    ASSUME NEW line, NEW n \in Nat, NEW steps \in SUBSET (1 .. n), NEW done \in 1 .. n, NEW now, NEW was,
           Links(line, steps, done, now), was = IF done \in steps THEN line[done].prior ELSE now
    PROVE  Links(line, steps, done - 1, was)
  BY DEF Links

(* What a redo leaves.                                                     *)
LEMMA LinksForth ==
    ASSUME NEW line, NEW n \in Nat, NEW steps \in SUBSET (1 .. n), NEW done \in 0 .. n - 1, NEW now, NEW new,
           Links(line, steps, done, now), new = IF done + 1 \in steps THEN line[done + 1].after ELSE now
    PROVE  Links(line, steps, done + 1, new)
  BY DEF Links

(* The first step is forgotten.                                            *)
LEMMA LinksDrop ==
    ASSUME NEW line, NEW n \in Nat, NEW steps \in SUBSET (1 .. n), NEW done \in 1 .. n, NEW now,
           Links(line, steps, done, now),
           NEW rest, NEW left \in SUBSET (1 .. n - 1),
           \A i \in 1 .. n - 1 : rest[i] = line[i + 1] /\ (i \in left <=> i + 1 \in steps)
    PROVE  Links(rest, left, done - 1, now)
<1>1. ASSUME NEW i \in left, NEW j \in left, i < j, \A k \in left : ~(i < k /\ k < j)
      PROVE  rest[i].after = rest[j].prior
  <2>1. i + 1 \in steps /\ j + 1 \in steps /\ i + 1 < j + 1
    BY <1>1
  <2>2. ASSUME NEW k \in steps, i + 1 < k, k < j + 1 PROVE FALSE
    <3>1. k - 1 \in 1 .. n - 1 /\ k - 1 + 1 = k /\ i < k - 1 /\ k - 1 < j
      BY <1>1, <2>2
    <3>. QED
      BY <1>1, <2>2, <3>1
  <2>3. line[i + 1].after = line[j + 1].prior
    BY <2>1, <2>2 DEF Links
  <2>. QED
    BY <1>1, <2>3
<1>2. ASSUME NEW i \in left, i <= done - 1, \A k \in left : ~(i < k /\ k < done - 1 + 1)
      PROVE  rest[i].after = now
  <2>1. i + 1 \in steps /\ i + 1 <= done /\ i + 1 < done + 1
    BY <1>2
  <2>2. ASSUME NEW k \in steps, i + 1 < k, k < done + 1 PROVE FALSE
    <3>1. k - 1 \in 1 .. n - 1 /\ k - 1 + 1 = k /\ i < k - 1 /\ k - 1 < done - 1 + 1
      BY <1>2, <2>2
    <3>. QED
      BY <1>2, <2>2, <3>1
  <2>3. line[i + 1].after = now
    BY <2>1, <2>2 DEF Links
  <2>. QED
    BY <1>2, <2>3
<1>3. ASSUME NEW j \in left, done - 1 < j, \A k \in left : ~(done - 1 < k /\ k < j)
      PROVE  rest[j].prior = now
  <2>1. j + 1 \in steps /\ done < j + 1
    BY <1>3
  <2>2. ASSUME NEW k \in steps, done < k, k < j + 1 PROVE FALSE
    <3>1. k - 1 \in 1 .. n - 1 /\ k - 1 + 1 = k /\ done - 1 < k - 1 /\ k - 1 < j
      BY <1>3, <2>2
    <3>. QED
      BY <1>3, <2>2, <3>1
  <2>3. line[j + 1].prior = now
    BY <2>1, <2>2 DEF Links
  <2>. QED
    BY <1>3, <2>3
<1>. QED
  BY <1>1, <1>2, <1>3 DEF Links

(* What is left of a history whose later steps are taken out, if what it   *)
(* is cut to is what was there.                                            *)
LEMMA LinksCut ==
    ASSUME NEW line, NEW n \in Nat, NEW steps \in SUBSET (1 .. n), NEW done \in 0 .. n, NEW now,
           Links(line, steps, done, now), NEW m \in 0 .. done, NEW was,
           \A i \in steps : i <= m /\ (\A k \in steps : ~(i < k /\ k < m + 1)) => line[i].after = was,
           NEW rest, NEW left \in SUBSET (1 .. m),
           \A i \in 1 .. m : rest[i] = line[i] /\ (i \in left <=> i \in steps)
    PROVE  Links(rest, left, m, was)
<1>1. ASSUME NEW i \in left, NEW j \in left, i < j, \A k \in left : ~(i < k /\ k < j)
      PROVE  rest[i].after = rest[j].prior
  <2>1. i \in steps /\ j \in steps /\ \A k \in steps : ~(i < k /\ k < j)
    BY <1>1
  <2>2. line[i].after = line[j].prior
    BY <1>1, <2>1 DEF Links
  <2>. QED
    BY <1>1, <2>2
<1>2. ASSUME NEW i \in left, i <= m, \A k \in left : ~(i < k /\ k < m + 1)
      PROVE  rest[i].after = was
  <2>1. i \in steps /\ \A k \in steps : ~(i < k /\ k < m + 1)
    BY <1>2
  <2>. QED
    BY <1>2, <2>1
<1>3. \A j \in left : ~(m < j)
  OBVIOUS
<1>. QED
  BY <1>1, <1>2, <1>3 DEF Links

(* A new step takes the place of what was undone.                          *)
LEMMA LinksGrow ==
    ASSUME NEW line, NEW n \in Nat, NEW steps \in SUBSET (1 .. n), NEW done \in 0 .. n, NEW now, NEW new,
           NEW more, NEW left \in SUBSET (1 .. done + 1),
           \A i \in 1 .. done : more[i] = line[i] /\ (i \in left <=> i \in steps),
           Links(line, steps, done, now),
           IF done + 1 \in left THEN more[done + 1].prior = now /\ more[done + 1].after = new ELSE new = now
    PROVE  Links(more, left, done + 1, new)
<1>1. ASSUME NEW i \in left, NEW j \in left, i < j, \A k \in left : ~(i < k /\ k < j)
      PROVE  more[i].after = more[j].prior
  <2>1. i \in 1 .. done /\ i \in steps /\ \A k \in steps : ~(i < k /\ k < j)
    BY <1>1
  <2>2. CASE j = done + 1
    <3>1. line[i].after = now
      BY <1>1, <2>1, <2>2 DEF Links
    <3>. QED
      BY <1>1, <2>1, <2>2, <3>1
  <2>3. CASE j # done + 1
    <3>1. j \in 1 .. done /\ j \in steps
      BY <2>3
    <3>2. line[i].after = line[j].prior
      BY <1>1, <2>1, <3>1 DEF Links
    <3>. QED
      BY <2>1, <3>1, <3>2
  <2>. QED
    BY <2>2, <2>3
<1>2. ASSUME NEW i \in left, i <= done + 1, \A k \in left : ~(i < k /\ k < done + 1 + 1)
      PROVE  more[i].after = new
  <2>1. CASE i = done + 1
    BY <2>1
  <2>2. CASE i # done + 1
    <3>1. i \in 1 .. done /\ i \in steps /\ done + 1 \notin left /\ \A k \in steps : ~(i < k /\ k < done + 1)
      BY <1>2, <2>2
    <3>2. line[i].after = now
      BY <3>1 DEF Links
    <3>. QED
      BY <3>1, <3>2
  <2>. QED
    BY <2>1, <2>2
<1>3. \A j \in left : ~(done + 1 < j)
  OBVIOUS
<1>. QED
  BY <1>1, <1>2, <1>3 DEF Links

-----------------------------------------------------------------------------
(* The history of two stacks: what is done, then what was undone, the last *)
(* undone first.                                                           *)

(* The places of the history, of what is done and of what is undone.       *)
LEMMA LineIs ==
    ASSUME NEW u, IsSeq(u), NEW r, IsSeq(r)
    PROVE  /\ DOMAIN Line(u, r) = 1 .. Len(u) + Len(r)
           /\ \A i \in 1 .. Len(u) : Line(u, r)[i] = u[i]
           /\ \A i \in 1 .. Len(r) : Line(u, r)[Len(u) + Len(r) + 1 - i] = r[i]
<1>1. PICK T, S : u \in Seq(T) /\ r \in Seq(S)
  BY DEF IsSeq
<1>. DEFINE n == Len(u)  m == Len(r)  back == Reverse(r)  line == Line(u, r)
<1>2. /\ n \in Nat /\ m \in Nat /\ \A i \in 1 .. m : r[i] \in S
  BY <1>1, LenProperties, ElementOfSeq
<1>3. back = [i \in 1 .. m |-> r[(m - i) + 1]]
  BY DEF Reverse
<1>4. back \in [1 .. m -> S]
  BY <1>2, <1>3
<1>5. back \in Seq(S)
  BY <1>2, <1>4, SeqDef
<1>6. Len(back) = m
  <2>1. Len(back) \in Nat /\ DOMAIN back = 1 .. Len(back)
    BY <1>5, LenProperties
  <2>2. DOMAIN back = 1 .. m
    BY <1>4
  <2>. HIDE DEF back
  <2>. QED
    BY <1>2, <2>1, <2>2
<1>7. u \in Seq(T \cup S) /\ back \in Seq(T \cup S)
  BY <1>1, <1>5, SeqMonotonic
<1>8. \A i \in 1 .. m : back[i] = r[m + 1 - i]
  BY <1>2, <1>3
<1>0. line = u \o back
  BY DEF Line
<1>. HIDE DEF back, line
<1>9. /\ line \in Seq(T \cup S) /\ Len(line) = n + m
      /\ \A i \in 1 .. n + m : line[i] = IF i <= n THEN u[i] ELSE back[i - n]
  <2>1. /\ u \o back \in Seq(T \cup S) /\ Len(u \o back) = Len(u) + Len(back)
        /\ \A i \in 1 .. Len(u) + Len(back) :
             (u \o back)[i] = IF i <= Len(u) THEN u[i] ELSE back[i - Len(u)]
    BY <1>7, ConcatProperties
  <2>. QED
    BY <1>0, <1>6, <2>1
<1>10. DOMAIN line = 1 .. n + m
  BY <1>9, LenProperties
<1>11. \A i \in 1 .. n : line[i] = u[i]
  BY <1>2, <1>9
<1>12. ASSUME NEW i \in 1 .. m PROVE line[n + m + 1 - i] = r[i]
  <2>1. n + m + 1 - i \in 1 .. n + m /\ ~(n + m + 1 - i <= n) /\ n + m + 1 - i - n = m + 1 - i
    BY <1>2
  <2>2. m + 1 - i \in 1 .. m /\ m + 1 - (m + 1 - i) = i
    BY <1>2
  <2>. DEFINE j == n + m + 1 - i
  <2>3. j \in 1 .. n + m /\ ~(j <= n) /\ j - n = m + 1 - i
    BY <2>1
  <2>. HIDE DEF j
  <2>4. line[j] = back[m + 1 - i]
    BY <1>9, <2>3
  <2>. QED
    BY <1>8, <2>2, <2>4 DEF j
<1>. QED
  BY <1>10, <1>11, <1>12 DEF line

(* A step of a sketch, or of its record.                                   *)
Of(e, s, records) == e.s = s /\ (e.kind = "record") = records

(* The steps of one sketch are the places where there is one.              *)
LEMMA StepsIs ==
    ASSUME NEW line, NEW n, DOMAIN line = 1 .. n, NEW s, NEW records
    PROVE  /\ Steps(line, s, records) \in SUBSET (1 .. n)
           /\ \A i \in 1 .. n : i \in Steps(line, s, records) <=> Of(line[i], s, records)
  BY DEF Steps, Of

(* The chain of one sketch's contents, or of its record.                   *)
Chained(u, r, s, records, now) == Links(Line(u, r), Steps(Line(u, r), s, records), Len(u), now)

(* A new step that begins where its sketch was.                            *)
LEMMA ChainedPush ==
    ASSUME NEW u, IsSeq(u), NEW r, IsSeq(r), NEW e, NEW s, NEW records, NEW now, NEW new,
           Chained(u, r, s, records, now),
           IF Of(e, s, records) THEN e.prior = now /\ e.after = new ELSE new = now
    PROVE  Chained(Append(u, e), <<>>, s, records, new)
<1>. DEFINE n == Len(u)  m == Len(r)  line == Line(u, r)  steps == Steps(line, s, records)
            v == Append(u, e)  more == Line(v, <<>>)  left == Steps(more, s, records)
<1>1. n \in Nat /\ m \in Nat
  BY SeqIs
<1>2. IsSeq(v) /\ Len(v) = n + 1 /\ v[n + 1] = e /\ \A i \in 1 .. n : v[i] = u[i]
  BY AppendSeq
<1>3. DOMAIN line = 1 .. n + m /\ \A i \in 1 .. n : line[i] = u[i]
  BY LineIs
<1>4. DOMAIN more = 1 .. n + 1 /\ \A i \in 1 .. n + 1 : more[i] = v[i]
  <2>. HIDE DEF v
  <2>0. IsSeq(v) /\ IsSeq(<<>>)
    BY <1>2, NoSeq
  <2>1. DOMAIN more = 1 .. Len(v) + Len(<<>>) /\ \A i \in 1 .. Len(v) : more[i] = v[i]
    BY ONLY <2>0, LineIs
  <2>. HIDE DEF more, n
  <2>. QED
    BY <1>1, <1>2, <2>1, NoSeq
<1>5. steps \in SUBSET (1 .. n + m) /\ \A i \in 1 .. n + m : i \in steps <=> Of(line[i], s, records)
  BY <1>3, StepsIs
<1>6. left \in SUBSET (1 .. n + 1) /\ \A i \in 1 .. n + 1 : i \in left <=> Of(more[i], s, records)
  BY <1>4, StepsIs
<1>7. Links(line, steps, n, now)
  BY DEF Chained
<1>. HIDE DEF n, m, line, steps, v, more, left
<1>8. \A i \in 1 .. n : more[i] = line[i] /\ (i \in left <=> i \in steps)
  BY <1>1, <1>2, <1>3, <1>4, <1>5, <1>6
<1>9. IF n + 1 \in left THEN more[n + 1].prior = now /\ more[n + 1].after = new ELSE new = now
  BY <1>1, <1>2, <1>4, <1>6
<1>10. n + m \in Nat /\ n \in 0 .. n + m
  BY <1>1
<1>11. Links(more, left, n + 1, new)
  BY <1>5, <1>6, <1>7, <1>8, <1>9, <1>10, LinksGrow
<1>. QED
  BY <1>2, <1>11 DEF Chained, n, v, more, left

(* The oldest step is forgotten.                                           *)
LEMMA ChainedEvict ==
    ASSUME NEW u, IsSeq(u), u # <<>>, NEW r, IsSeq(r), NEW s, NEW records, NEW now, Chained(u, r, s, records, now)
    PROVE  Chained(Tail(u), r, s, records, now)
<1>. DEFINE n == Len(u)  m == Len(r)  line == Line(u, r)  steps == Steps(line, s, records)
            v == Tail(u)  rest == Line(v, r)  left == Steps(rest, s, records)
<1>1. n \in Nat /\ n # 0 /\ m \in Nat
  BY SeqIs
<1>2. IsSeq(v) /\ Len(v) = n - 1 /\ \A i \in 1 .. n - 1 : v[i] = u[i + 1]
  BY TailSeq
<1>3. /\ DOMAIN line = 1 .. n + m
      /\ \A i \in 1 .. n : line[i] = u[i]
      /\ \A i \in 1 .. m : line[n + m + 1 - i] = r[i]
  BY LineIs
<1>4. /\ DOMAIN rest = 1 .. Len(v) + m
      /\ \A i \in 1 .. Len(v) : rest[i] = v[i]
      /\ \A i \in 1 .. m : rest[Len(v) + m + 1 - i] = r[i]
  <2>. HIDE DEF v
  <2>1. IsSeq(v) /\ IsSeq(r)
    BY <1>2
  <2>. QED
    BY ONLY <2>1, LineIs
<1>5. steps \in SUBSET (1 .. n + m) /\ \A i \in 1 .. n + m : i \in steps <=> Of(line[i], s, records)
  BY <1>3, StepsIs
<1>7. Links(line, steps, n, now)
  BY DEF Chained
<1>. HIDE DEF n, line, v, rest, m, steps
<1>6. DOMAIN rest = 1 .. (n + m) - 1
  BY <1>1, <1>2, <1>4
<1>8. left \in SUBSET (1 .. (n + m) - 1) /\ \A i \in 1 .. (n + m) - 1 : i \in left <=> Of(rest[i], s, records)
  BY <1>6, StepsIs
<1>. HIDE DEF left
<1>9. ASSUME NEW i \in 1 .. (n + m) - 1 PROVE rest[i] = line[i + 1]
  <2>1. CASE i <= n - 1
    <3>1. i \in 1 .. n - 1 /\ i \in 1 .. Len(v) /\ i + 1 \in 1 .. n
      BY <1>1, <1>2, <2>1
    <3>. QED
      BY <1>2, <1>3, <1>4, <3>1
  <2>2. CASE i >= n
    <3>. DEFINE k == n + m - i
    <3>1. k \in 1 .. m /\ n + m + 1 - k = i + 1 /\ n - 1 + m + 1 - k = i
      BY <1>1, <2>2
    <3>. HIDE DEF k
    <3>2. rest[n - 1 + m + 1 - k] = r[k] /\ line[n + m + 1 - k] = r[k]
      BY <1>2, <1>3, <1>4, <3>1
    <3>. QED
      BY <3>1, <3>2
  <2>. QED
    BY <1>1, <2>1, <2>2
<1>10. \A i \in 1 .. (n + m) - 1 : rest[i] = line[i + 1] /\ (i \in left <=> i + 1 \in steps)
  <2>1. \A i \in 1 .. (n + m) - 1 : i + 1 \in 1 .. n + m
    BY <1>1
  <2>. QED
    BY <1>5, <1>8, <1>9, <2>1
<1>11. n + m \in Nat /\ n \in 1 .. n + m
  BY <1>1
<1>12. Links(rest, left, n - 1, now)
  <2>. DEFINE all == n + m
  <2>2. all \in Nat /\ n \in 1 .. all
    BY <1>11
  <2>3. steps \in SUBSET (1 .. all)
    BY <1>5
  <2>4. left \in SUBSET (1 .. all - 1)
    BY <1>8
  <2>5. \A i \in 1 .. all - 1 : rest[i] = line[i + 1] /\ (i \in left <=> i + 1 \in steps)
    BY <1>10
  <2>. HIDE DEF all
  <2>. QED
    BY ONLY <1>7, <2>2, <2>3, <2>4, <2>5, LinksDrop
<1>. QED
  BY <1>2, <1>12 DEF Chained, n, v, rest, left

(* The last step is undone.                                                *)
LEMMA ChainedUndo ==
    ASSUME NEW u, IsSeq(u), u # <<>>, NEW r, IsSeq(r), NEW s, NEW records, NEW now, NEW was,
           Chained(u, r, s, records, now),
           was = IF Of(u[Len(u)], s, records) THEN u[Len(u)].prior ELSE now
    PROVE  Chained(Front1(u), Append(r, u[Len(u)]), s, records, was)
<1>. DEFINE n == Len(u)  m == Len(r)  line == Line(u, r)  steps == Steps(line, s, records)
            v == Front1(u)  q == Append(r, u[n])  back == Line(v, q)  left == Steps(back, s, records)
<1>1. n \in Nat /\ n # 0 /\ m \in Nat
  BY SeqIs
<1>2. n - 1 \in 0 .. n
  BY <1>1
<1>3. IsSeq(v) /\ Len(v) = n - 1 /\ \A i \in 1 .. n - 1 : v[i] = u[i]
  BY <1>2, CutSeq DEF Front1
<1>4. IsSeq(q) /\ Len(q) = m + 1 /\ q[m + 1] = u[n] /\ \A i \in 1 .. m : q[i] = r[i]
  BY AppendSeq
<1>5. /\ DOMAIN line = 1 .. n + m
      /\ \A i \in 1 .. n : line[i] = u[i]
      /\ \A i \in 1 .. m : line[n + m + 1 - i] = r[i]
  BY LineIs
<1>6. /\ DOMAIN back = 1 .. Len(v) + Len(q)
      /\ \A i \in 1 .. Len(v) : back[i] = v[i]
      /\ \A i \in 1 .. Len(q) : back[Len(v) + Len(q) + 1 - i] = q[i]
  <2>. HIDE DEF v, q
  <2>1. IsSeq(v) /\ IsSeq(q)
    BY <1>3, <1>4
  <2>. QED
    BY ONLY <2>1, LineIs
<1>7. Links(line, steps, n, now)
  BY DEF Chained
<1>8. was = IF Of(line[n], s, records) THEN line[n].prior ELSE now
  <2>. HIDE DEF line, n
  <2>1. line[n] = u[n]
    BY <1>1, <1>5
  <2>. QED
    BY <2>1 DEF n
<1>. HIDE DEF n, line, v, q, back, m
<1>9. DOMAIN back = 1 .. n + m
  BY <1>1, <1>3, <1>4, <1>6
<1>10. ASSUME NEW i \in 1 .. n + m PROVE back[i] = line[i]
  <2>1. CASE i <= n - 1
    BY <1>1, <1>3, <1>5, <1>6, <2>1
  <2>2. CASE i >= n
    <3>. DEFINE k == n + m + 1 - i
    <3>1. /\ k \in 1 .. m + 1 /\ n + m + 1 - k = i /\ n - 1 + (m + 1) + 1 - k = i
          /\ (k = m + 1 => i = n) /\ (k # m + 1 => k \in 1 .. m)
      BY <1>1, <2>2
    <3>. HIDE DEF k
    <3>2. back[n - 1 + (m + 1) + 1 - k] = q[k]
      BY <1>3, <1>4, <1>6, <3>1
    <3>3. CASE k = m + 1
      BY <1>1, <1>4, <1>5, <3>1, <3>2, <3>3
    <3>4. CASE k # m + 1
      BY <1>4, <1>5, <3>1, <3>2, <3>4
    <3>. QED
      BY <3>3, <3>4
  <2>. QED
    BY <1>1, <2>1, <2>2
<1>11. steps \in SUBSET (1 .. n + m) /\ \A i \in 1 .. n + m : i \in steps <=> Of(line[i], s, records)
  BY <1>5, StepsIs
<1>12. left \in SUBSET (1 .. n + m) /\ \A i \in 1 .. n + m : i \in left <=> Of(back[i], s, records)
  BY <1>9, StepsIs
<1>. HIDE DEF steps, left
<1>13. left = steps
  <2>1. \A i \in 1 .. n + m : i \in left <=> i \in steps
    BY <1>10, <1>11, <1>12
  <2>. QED
    BY <1>11, <1>12, <2>1
<1>14. was = IF n \in steps THEN line[n].prior ELSE now
  <2>1. n \in 1 .. n + m
    BY <1>1
  <2>. QED
    BY <1>8, <1>11, <2>1
<1>15. Links(line, steps, n - 1, was)
  <2>1. n + m \in Nat /\ n \in 1 .. n + m
    BY <1>1
  <2>. QED
    BY <1>7, <1>11, <1>14, <2>1, LinksBack
<1>16. Links(back, left, n - 1, was)
  <2>1. \A i \in steps : back[i] = line[i]
    BY <1>10, <1>11
  <2>. QED
    BY <1>13, <1>15, <2>1 DEF Links
<1>. QED
  BY <1>3, <1>16 DEF Chained, n, v, q, back, left

(* The last step undone is done again.                                     *)
LEMMA ChainedRedo ==
    ASSUME NEW u, IsSeq(u), NEW r, IsSeq(r), r # <<>>, NEW s, NEW records, NEW now, NEW new,
           Chained(u, r, s, records, now),
           new = IF Of(r[Len(r)], s, records) THEN r[Len(r)].after ELSE now
    PROVE  Chained(Append(u, r[Len(r)]), Front1(r), s, records, new)
<1>. DEFINE n == Len(u)  m == Len(r)  line == Line(u, r)  steps == Steps(line, s, records)
            v == Append(u, r[m])  q == Front1(r)  forth == Line(v, q)  left == Steps(forth, s, records)
<1>1. n \in Nat /\ m # 0 /\ m \in Nat
  BY SeqIs
<1>2. m - 1 \in 0 .. m
  BY <1>1
<1>3. IsSeq(q) /\ Len(q) = m - 1 /\ \A i \in 1 .. m - 1 : q[i] = r[i]
  BY <1>2, CutSeq DEF Front1
<1>4. IsSeq(v) /\ Len(v) = n + 1 /\ v[n + 1] = r[m] /\ \A i \in 1 .. n : v[i] = u[i]
  BY AppendSeq
<1>5. /\ DOMAIN line = 1 .. n + m
      /\ \A i \in 1 .. n : line[i] = u[i]
      /\ \A i \in 1 .. m : line[n + m + 1 - i] = r[i]
  BY LineIs
<1>6. /\ DOMAIN forth = 1 .. Len(v) + Len(q)
      /\ \A i \in 1 .. Len(v) : forth[i] = v[i]
      /\ \A i \in 1 .. Len(q) : forth[Len(v) + Len(q) + 1 - i] = q[i]
  <2>. HIDE DEF v, q
  <2>1. IsSeq(v) /\ IsSeq(q)
    BY <1>3, <1>4
  <2>. QED
    BY ONLY <2>1, LineIs
<1>7. Links(line, steps, n, now)
  BY DEF Chained
<1>8. line[n + 1] = r[m] /\ new = IF Of(line[n + 1], s, records) THEN line[n + 1].after ELSE now
  <2>. HIDE DEF line, n, m
  <2>1. line[n + m + 1 - m] = r[m] /\ n + m + 1 - m = n + 1
    BY <1>1, <1>5
  <2>. QED
    BY <2>1 DEF m
<1>. HIDE DEF n, line, v, q, forth, m
<1>9. DOMAIN forth = 1 .. n + m
  BY <1>1, <1>3, <1>4, <1>6
<1>10. ASSUME NEW i \in 1 .. n + m PROVE forth[i] = line[i]
  <2>1. CASE i <= n
    BY <1>1, <1>4, <1>5, <1>6, <2>1
  <2>2. CASE i = n + 1
    BY <1>1, <1>4, <1>6, <1>8, <2>2
  <2>3. CASE i >= n + 2
    <3>. DEFINE k == n + m + 1 - i
    <3>1. k \in 1 .. m - 1 /\ k \in 1 .. m /\ n + m + 1 - k = i /\ n + 1 + (m - 1) + 1 - k = i
      BY <1>1, <2>3
    <3>. HIDE DEF k
    <3>2. forth[n + 1 + (m - 1) + 1 - k] = q[k] /\ line[n + m + 1 - k] = r[k] /\ q[k] = r[k]
      BY <1>3, <1>4, <1>5, <1>6, <3>1
    <3>. QED
      BY <3>1, <3>2
  <2>. QED
    BY <1>1, <2>1, <2>2, <2>3
<1>11. steps \in SUBSET (1 .. n + m) /\ \A i \in 1 .. n + m : i \in steps <=> Of(line[i], s, records)
  BY <1>5, StepsIs
<1>12. left \in SUBSET (1 .. n + m) /\ \A i \in 1 .. n + m : i \in left <=> Of(forth[i], s, records)
  BY <1>9, StepsIs
<1>. HIDE DEF steps, left
<1>13. left = steps
  <2>1. \A i \in 1 .. n + m : i \in left <=> i \in steps
    BY <1>10, <1>11, <1>12
  <2>. QED
    BY <1>11, <1>12, <2>1
<1>14. new = IF n + 1 \in steps THEN line[n + 1].after ELSE now
  <2>1. n + 1 \in 1 .. n + m
    BY <1>1
  <2>. QED
    BY <1>8, <1>11, <2>1
<1>15. Links(line, steps, n + 1, new)
  <2>1. n + m \in Nat /\ n \in 0 .. n + m - 1
    BY <1>1
  <2>. QED
    BY <1>7, <1>11, <1>14, <2>1, LinksForth
<1>16. Links(forth, left, n + 1, new)
  <2>1. \A i \in steps : forth[i] = line[i]
    BY <1>10, <1>11
  <2>. QED
    BY <1>13, <1>15, <2>1 DEF Links
<1>. QED
  BY <1>4, <1>16 DEF Chained, m, v, q, forth, left

(* The steps past the first "mark" are taken out, and what was undone.     *)
LEMMA ChainedCut ==
    ASSUME NEW u, IsSeq(u), NEW r, IsSeq(r), NEW mark \in 0 .. Len(u), NEW s, NEW records, NEW now, NEW was,
           Chained(u, r, s, records, now),
           \A i \in 1 .. mark :
             Of(u[i], s, records) /\ (\A k \in 1 .. mark : i < k => ~Of(u[k], s, records)) => u[i].after = was
    PROVE  Chained(SubSeq(u, 1, mark), <<>>, s, records, was)
<1>. DEFINE n == Len(u)  m == Len(r)  line == Line(u, r)  steps == Steps(line, s, records)
            v == SubSeq(u, 1, mark)  rest == Line(v, <<>>)  left == Steps(rest, s, records)
<1>1. n \in Nat /\ m \in Nat /\ mark \in Nat /\ mark <= n
  BY SeqIs
<1>2. IsSeq(v) /\ Len(v) = mark /\ \A i \in 1 .. mark : v[i] = u[i]
  BY CutSeq
<1>3. DOMAIN line = 1 .. n + m /\ \A i \in 1 .. n : line[i] = u[i]
  BY LineIs
<1>4. DOMAIN rest = 1 .. mark /\ \A i \in 1 .. mark : rest[i] = v[i]
  <2>. HIDE DEF v
  <2>0. IsSeq(v) /\ IsSeq(<<>>)
    BY <1>2, NoSeq
  <2>1. DOMAIN rest = 1 .. Len(v) + Len(<<>>) /\ \A i \in 1 .. Len(v) : rest[i] = v[i]
    BY ONLY <2>0, LineIs
  <2>. HIDE DEF rest
  <2>. QED
    BY <1>1, <1>2, <2>1, NoSeq
<1>5. steps \in SUBSET (1 .. n + m) /\ \A i \in 1 .. n + m : i \in steps <=> Of(line[i], s, records)
  BY <1>3, StepsIs
<1>6. left \in SUBSET (1 .. mark) /\ \A i \in 1 .. mark : i \in left <=> Of(rest[i], s, records)
  BY <1>4, StepsIs
<1>7. Links(line, steps, n, now)
  BY DEF Chained
<1>. HIDE DEF n, m, line, steps, v, rest, left
<1>8. \A i \in 1 .. mark : i \in 1 .. n /\ i \in 1 .. n + m
  BY <1>1
<1>9. \A i \in 1 .. mark : /\ rest[i] = line[i] /\ line[i] = u[i]
                           /\ i \in left <=> i \in steps
                           /\ i \in steps <=> Of(u[i], s, records)
  BY <1>2, <1>3, <1>4, <1>5, <1>6, <1>8
<1>10. \A i \in steps : i <= mark /\ (\A k \in steps : ~(i < k /\ k < mark + 1)) => line[i].after = was
  <2>1. SUFFICES ASSUME NEW i \in steps, i <= mark, \A k \in steps : ~(i < k /\ k < mark + 1)
                 PROVE  line[i].after = was
    OBVIOUS
  <2>2. i \in 1 .. mark
    BY <1>1, <1>5, <2>1
  <2>3. ASSUME NEW k \in 1 .. mark, i < k PROVE ~Of(u[k], s, records)
    BY <1>1, <1>9, <2>1, <2>3
  <2>. QED
    BY <1>9, <2>2, <2>3
<1>11. n + m \in Nat /\ n \in 0 .. n + m /\ mark \in 0 .. n
  BY <1>1
<1>12. Links(rest, left, mark, was)
  <2>1. /\ n + m \in Nat /\ steps \in SUBSET (1 .. n + m) /\ n \in 0 .. n + m /\ mark \in 0 .. n
        /\ left \in SUBSET (1 .. mark)
    BY <1>5, <1>6, <1>11
  <2>2. \A i \in 1 .. mark : rest[i] = line[i] /\ (i \in left <=> i \in steps)
    BY <1>9
  <2>. QED
    BY ONLY <1>7, <1>10, <2>1, <2>2, LinksCut
<1>. QED
  BY <1>2, <1>12 DEF Chained, v, rest, left

-----------------------------------------------------------------------------
(* The runtime.                                                            *)

(* A step is of no sketch, of a sketch's record, or of its contents.       *)
StepKind(e) ==
    \/ e.kind = "model" /\ e.s = None
    \/ e.kind = "record" /\ e.s \in Sketches
    \/ /\ e.kind \in {"edit", "drag", "net"} /\ e.s \in Sketches
       /\ \E v, w : e.prior = <<v>> /\ e.after = <<w>>

(* A stack is of steps.                                                    *)
StackKind(q) == IsSeq(q) /\ \A i \in 1 .. Len(q) : StepKind(q[i])

(* The runtime keeps its parts: a stack within its cap, one drag at most.  *)
BeKind(b) ==
    /\ DOMAIN b = {"doc", "undo", "redo", "evicted", "record", "slot", "gesture"}
    /\ DOMAIN b.doc = Sketches /\ DOMAIN b.record = Sketches
    /\ StackKind(b.undo) /\ StackKind(b.redo) /\ b.evicted \in Nat /\ Len(b.undo) <= UndoCap
    /\ b.gesture = <<>> \/ \E g : b.gesture = <<g>> /\ g.s \in Sketches

(* What is there of a sketch, or of its record.                            *)
Now(b, s, records) == IF records THEN b.record[s] ELSE <<b.doc[s]>>

(* Every sketch's steps follow each other.                                 *)
Chain(b) == \A s \in Sketches, records \in BOOLEAN : Chained(b.undo, b.redo, s, records, Now(b, s, records))

(* The first "mark" steps leave a sketch, or its record, at v.             *)
Reached(q, mark, s, records, v) ==
    \A i \in 1 .. mark : Of(q[i], s, records) /\ (\A k \in 1 .. mark : i < k => ~Of(q[k], s, records)) =>
      q[i].after = v

(* A session's mark is within the stack; while nothing was evicted since,  *)
(* the steps below it leave the sketch as the session found it.            *)
SlotIs(slot, u, evicted) ==
    slot = <<>> \/ \E x :
      /\ slot = <<x>> /\ x.s \in Sketches /\ x.mark \in 0 .. Len(u) /\ x.evicted \in 0 .. evicted
      /\ x.evicted = evicted => Reached(u, x.mark, x.s, FALSE, <<x.prior>>)

(* What every operation of the runtime keeps.                              *)
BeOK(b) == BeKind(b) /\ Chain(b) /\ SlotIs(b.slot, b.undo, b.evicted)

(* A session keeps its mark while the steps below it stay.                 *)
LEMMA SlotStays ==
    ASSUME NEW slot, NEW u, NEW evicted, SlotIs(slot, u, evicted),
           NEW v, \A i \in 1 .. Len(u) : v[i] = u[i], Len(u) \in Nat, Len(v) \in Nat, Len(u) <= Len(v)
    PROVE  SlotIs(slot, v, evicted)
<1>1. CASE slot = <<>>
  BY <1>1 DEF SlotIs
<1>2. CASE slot # <<>>
  <2>1. PICK x : /\ slot = <<x>> /\ x.s \in Sketches /\ x.mark \in 0 .. Len(u) /\ x.evicted \in 0 .. evicted
                 /\ x.evicted = evicted => Reached(u, x.mark, x.s, FALSE, <<x.prior>>)
    BY <1>2 DEF SlotIs
  <2>2. x.mark \in 0 .. Len(v) /\ \A i \in 1 .. x.mark : v[i] = u[i]
    BY <2>1
  <2>3. Reached(u, x.mark, x.s, FALSE, <<x.prior>>) => Reached(v, x.mark, x.s, FALSE, <<x.prior>>)
    BY <2>2 DEF Reached
  <2>. QED
    BY <2>1, <2>2, <2>3 DEF SlotIs
<1>. QED
  BY <1>1, <1>2

(* An eviction puts it out of use.                                         *)
LEMMA SlotLost ==
    ASSUME NEW slot, NEW u, NEW evicted \in Nat, SlotIs(slot, u, evicted),
           NEW v, Len(u) \in Nat, Len(v) \in Nat, Len(u) <= Len(v)
    PROVE  SlotIs(slot, v, evicted + 1)
<1>1. CASE slot = <<>>
  BY <1>1 DEF SlotIs
<1>2. CASE slot # <<>>
  <2>1. PICK x : slot = <<x>> /\ x.s \in Sketches /\ x.mark \in 0 .. Len(u) /\ x.evicted \in 0 .. evicted
    BY <1>2 DEF SlotIs
  <2>2. x.mark \in 0 .. Len(v) /\ x.evicted \in 0 .. evicted + 1 /\ x.evicted # evicted + 1
    BY <2>1
  <2>. QED
    BY <2>1, <2>2 DEF SlotIs
<1>. QED
  BY <1>1, <1>2

(* A stack with a new step, its oldest forgotten past the cap.             *)
LEMMA StackGrows ==
    ASSUME NEW u, StackKind(u), Len(u) <= UndoCap, NEW e, StepKind(e),
           NEW v, v = (IF Len(Append(u, e)) > UndoCap THEN Tail(Append(u, e)) ELSE Append(u, e))
    PROVE  /\ StackKind(v) /\ Len(v) <= UndoCap /\ Len(v) \in Nat /\ Len(u) \in Nat /\ Len(u) <= Len(v)
           /\ ~(Len(Append(u, e)) > UndoCap) => \A i \in 1 .. Len(u) : v[i] = u[i]
<1>. DEFINE n == Len(u)  w == Append(u, e)
<1>1. n \in Nat /\ UndoCap \in Nat /\ n <= UndoCap /\ IsSeq(u) /\ \A i \in 1 .. n : StepKind(u[i])
  BY SketchBounds, SeqIs DEF StackKind
<1>2. IsSeq(w) /\ Len(w) = n + 1 /\ w[n + 1] = e /\ \A i \in 1 .. n : w[i] = u[i]
  BY <1>1, AppendSeq
<1>. HIDE DEF n, w
<1>3. \A i \in 1 .. n + 1 : StepKind(w[i])
  BY <1>1, <1>2
<1>4. CASE Len(w) > UndoCap
  <2>1. v = Tail(w)
    BY <1>4 DEF w
  <2>2. w # <<>>
    BY <1>1, <1>2, NoSeq
  <2>3. IsSeq(v) /\ Len(v) = Len(w) - 1 /\ \A i \in 1 .. Len(w) - 1 : v[i] = w[i + 1]
    BY <1>2, <2>1, <2>2, TailSeq
  <2>4. Len(v) = n /\ Len(w) - 1 = n
    BY <1>1, <1>2, <2>3
  <2>5. \A i \in 1 .. n : StepKind(v[i])
    BY <1>1, <1>3, <2>3, <2>4
  <2>6. StackKind(v)
    BY <2>3, <2>4, <2>5 DEF StackKind
  <2>7. Len(v) <= UndoCap /\ Len(v) \in Nat /\ n <= Len(v)
    BY <1>1, <2>4
  <2>. QED
    BY <1>1, <1>4, <2>6, <2>7 DEF n, w
<1>5. CASE ~(Len(w) > UndoCap)
  <2>1. v = w
    BY <1>5 DEF w
  <2>2. StackKind(v)
    BY <1>2, <1>3, <2>1 DEF StackKind
  <2>3. Len(v) = n + 1 /\ n + 1 <= UndoCap /\ n <= n + 1 /\ n + 1 \in Nat
    BY <1>1, <1>2, <1>5, <2>1
  <2>. QED
    BY <1>1, <1>2, <2>1, <2>2, <2>3 DEF n
<1>. QED
  BY <1>4, <1>5

(* What may be put on the stack: it begins where its sketch was, and its   *)
(* sketch is where it ends.                                                *)
Pushable(b, e) ==
    /\ BeKind(b) /\ SlotIs(b.slot, b.undo, b.evicted) /\ StepKind(e)
    /\ \A s \in Sketches, records \in BOOLEAN :
         IF Of(e, s, records)
         THEN Chained(b.undo, b.redo, s, records, e.prior) /\ Now(b, s, records) = e.after
         ELSE Chained(b.undo, b.redo, s, records, Now(b, s, records))

(* A step that is put on the stack.                                        *)
LEMMA PushOK ==
    ASSUME NEW b, NEW e, Pushable(b, e), NEW c, c = PushCommitted(b, e)
    PROVE  /\ BeOK(c) /\ c.doc = b.doc /\ c.record = b.record /\ c.slot = b.slot /\ c.gesture = b.gesture
<1>. DEFINE u == b.undo  w == Append(u, e)
            v == IF Len(w) > UndoCap THEN Tail(w) ELSE w
<1>1. /\ DOMAIN b = {"doc", "undo", "redo", "evicted", "record", "slot", "gesture"}
      /\ BeKind(b) /\ SlotIs(b.slot, u, b.evicted) /\ StepKind(e)
  BY DEF Pushable, BeKind
<1>2. /\ c.undo = v /\ c.redo = <<>>
      /\ c.evicted = b.evicted + (IF Len(w) > UndoCap THEN 1 ELSE 0)
      /\ c.doc = b.doc /\ c.record = b.record /\ c.slot = b.slot /\ c.gesture = b.gesture
      /\ DOMAIN c = DOMAIN b
  BY <1>1 DEF PushCommitted
<1>3. StackKind(u) /\ StackKind(b.redo) /\ Len(u) <= UndoCap /\ b.evicted \in Nat
  BY <1>1 DEF BeKind
<1>. HIDE DEF u
<1>4. /\ StackKind(v) /\ Len(v) <= UndoCap /\ Len(v) \in Nat /\ Len(u) \in Nat /\ Len(u) <= Len(v)
      /\ ~(Len(w) > UndoCap) => \A i \in 1 .. Len(u) : v[i] = u[i]
  BY <1>1, <1>3, StackGrows
<1>5. StackKind(<<>>)
  BY NoSeq DEF StackKind
<1>6. c.evicted \in Nat
  BY <1>2, <1>3
<1>7. BeKind(c)
  <2>. HIDE DEF v
  <2>. QED
    BY <1>1, <1>2, <1>4, <1>5, <1>6 DEF BeKind
<1>8. SlotIs(c.slot, c.undo, c.evicted)
  <2>1. CASE Len(w) > UndoCap
    <3>1. c.evicted = b.evicted + 1
      BY <1>2, <1>3, <2>1
    <3>. HIDE DEF v, w
    <3>2. SlotIs(b.slot, v, b.evicted + 1)
      BY <1>1, <1>3, <1>4, SlotLost
    <3>. QED
      BY <1>2, <3>1, <3>2
  <2>2. CASE ~(Len(w) > UndoCap)
    <3>1. c.evicted = b.evicted
      BY <1>2, <1>3, <2>2
    <3>. HIDE DEF v, w
    <3>2. SlotIs(b.slot, v, b.evicted)
      BY <1>1, <1>4, <2>2, SlotStays
    <3>. QED
      BY <1>2, <3>1, <3>2
  <2>. QED
    BY <2>1, <2>2
<1>9. ASSUME NEW s \in Sketches, NEW records \in BOOLEAN
      PROVE  Chained(c.undo, c.redo, s, records, Now(c, s, records))
  <2>1. IF Of(e, s, records)
        THEN Chained(u, b.redo, s, records, e.prior) /\ Now(b, s, records) = e.after
        ELSE Chained(u, b.redo, s, records, Now(b, s, records))
    BY DEF Pushable, u
  <2>2. Now(c, s, records) = Now(b, s, records)
    BY <1>2 DEF Now
  <2>3. IsSeq(u) /\ IsSeq(b.redo)
    BY <1>3 DEF StackKind
  <2>. HIDE DEF v, w
  <2>4. Chained(w, <<>>, s, records, Now(c, s, records))
    <3>. DEFINE now == IF Of(e, s, records) THEN e.prior ELSE Now(b, s, records)
    <3>1. /\ Chained(u, b.redo, s, records, now)
          /\ IF Of(e, s, records) THEN e.prior = now /\ e.after = Now(c, s, records) ELSE Now(c, s, records) = now
      BY <2>1, <2>2
    <3>. HIDE DEF now
    <3>2. Chained(Append(u, e), <<>>, s, records, Now(c, s, records))
      BY ONLY <2>3, <3>1, ChainedPush
    <3>. QED
      BY <3>2 DEF w
  <2>5. IsSeq(w) /\ w # <<>>
    <3>1. IsSeq(w) /\ Len(w) = Len(u) + 1
      BY <2>3, AppendSeq DEF w
    <3>. QED
      BY <1>4, <3>1, NoSeq
  <2>7. IsSeq(<<>>)
    BY NoSeq
  <2>6. Chained(Tail(w), <<>>, s, records, Now(c, s, records))
    BY ONLY <2>4, <2>5, <2>7, ChainedEvict
  <2>. QED
    BY <1>2, <2>4, <2>6 DEF v
<1>. QED
  BY <1>2, <1>7, <1>8, <1>9 DEF BeOK, Chain

(* The contents of a sketch are replaced, in one step.                     *)
LEMMA EditOK ==
    ASSUME NEW b, BeOK(b), NEW s \in Sketches, NEW kind \in {"edit", "drag"}, NEW after
    PROVE  BeOK(SketchEdit(b, s, kind, after))
<1>. DEFINE b1 == [b EXCEPT !.doc[s] = after]
            e == [kind |-> kind, s |-> s, prior |-> <<b.doc[s]>>, after |-> <<after>>]
<1>0. BeKind(b) /\ Chain(b) /\ SlotIs(b.slot, b.undo, b.evicted)
  BY DEF BeOK
<1>1. DOMAIN b = {"doc", "undo", "redo", "evicted", "record", "slot", "gesture"} /\ DOMAIN b.doc = Sketches
  BY <1>0 DEF BeKind
<1>2. /\ DOMAIN b1 = DOMAIN b /\ DOMAIN b1.doc = Sketches /\ b1.undo = b.undo /\ b1.redo = b.redo /\ b1.slot = b.slot
      /\ b1.evicted = b.evicted /\ b1.gesture = b.gesture /\ b1.record = b.record
      /\ b1.doc[s] = after /\ \A t \in Sketches : t # s => b1.doc[t] = b.doc[t]
  BY <1>1
<1>3. e.kind = kind /\ e.s = s /\ e.prior = <<b.doc[s]>> /\ e.after = <<after>>
  OBVIOUS
<1>4. SketchEdit(b, s, kind, after) = PushCommitted(b1, e)
  BY DEF SketchEdit
<1>. HIDE DEF b1, e
<1>5. BeKind(b1)
  BY <1>0, <1>2 DEF BeKind
<1>6. StepKind(e)
  <2>1. \E v, w : e.prior = <<v>> /\ e.after = <<w>>
    BY <1>3
  <2>. QED
    BY <1>3, <2>1 DEF StepKind
<1>7. ASSUME NEW t \in Sketches, NEW records \in BOOLEAN
      PROVE  IF Of(e, t, records)
             THEN Chained(b1.undo, b1.redo, t, records, e.prior) /\ Now(b1, t, records) = e.after
             ELSE Chained(b1.undo, b1.redo, t, records, Now(b1, t, records))
  <2>1. Chained(b1.undo, b1.redo, t, records, Now(b, t, records))
    BY <1>0, <1>2 DEF Chain
  <2>2. CASE t = s /\ records = FALSE
    <3>1. Now(b, t, records) = e.prior /\ Now(b1, t, records) = e.after
      BY <1>2, <1>3, <2>2 DEF Now
    <3>2. Of(e, t, records)
      BY <1>3, <2>2 DEF Of
    <3>. QED
      BY <2>1, <3>1, <3>2
  <2>3. CASE ~(t = s /\ records = FALSE)
    <3>1. ~Of(e, t, records)
      BY <1>3, <2>3 DEF Of
    <3>2. Now(b1, t, records) = Now(b, t, records)
      BY <1>2, <2>3 DEF Now
    <3>. QED
      BY <2>1, <3>1, <3>2
  <2>. QED
    BY <2>2, <2>3
<1>8. Pushable(b1, e)
  BY <1>0, <1>2, <1>5, <1>6, <1>7 DEF Pushable
<1>. QED
  BY <1>4, <1>8, PushOK

(* The record of a sketch is brought up to date.                           *)
LEMMA UpsertOK ==
    ASSUME NEW b, BeOK(b), NEW s \in Sketches
    PROVE  BeOK(UpsertSketchRecord(b, s))
<1>. DEFINE b1 == [b EXCEPT !.record[s] = <<b.doc[s]>>]
            e == [kind |-> "record", s |-> s, prior |-> b.record[s], after |-> <<b.doc[s]>>]
<1>0. BeKind(b) /\ Chain(b) /\ SlotIs(b.slot, b.undo, b.evicted)
  BY DEF BeOK
<1>1. DOMAIN b = {"doc", "undo", "redo", "evicted", "record", "slot", "gesture"} /\ DOMAIN b.record = Sketches
  BY <1>0 DEF BeKind
<1>2. /\ DOMAIN b1 = DOMAIN b /\ DOMAIN b1.record = Sketches /\ b1.undo = b.undo /\ b1.redo = b.redo /\ b1.slot = b.slot
      /\ b1.evicted = b.evicted /\ b1.gesture = b.gesture /\ b1.doc = b.doc
      /\ b1.record[s] = <<b.doc[s]>> /\ \A t \in Sketches : t # s => b1.record[t] = b.record[t]
  BY <1>1
<1>3. e.kind = "record" /\ e.s = s /\ e.prior = b.record[s] /\ e.after = <<b.doc[s]>>
  OBVIOUS
<1>4. UpsertSketchRecord(b, s) \in {b, PushCommitted(b1, e)}
  BY DEF UpsertSketchRecord
<1>. HIDE DEF b1, e
<1>5. BeKind(b1)
  BY <1>0, <1>2 DEF BeKind
<1>6. StepKind(e)
  BY <1>3 DEF StepKind
<1>7. ASSUME NEW t \in Sketches, NEW records \in BOOLEAN
      PROVE  IF Of(e, t, records)
             THEN Chained(b1.undo, b1.redo, t, records, e.prior) /\ Now(b1, t, records) = e.after
             ELSE Chained(b1.undo, b1.redo, t, records, Now(b1, t, records))
  <2>1. Chained(b1.undo, b1.redo, t, records, Now(b, t, records))
    BY <1>0, <1>2 DEF Chain
  <2>2. CASE t = s /\ records = TRUE
    <3>1. Now(b, t, records) = e.prior /\ Now(b1, t, records) = e.after
      BY <1>2, <1>3, <2>2 DEF Now
    <3>2. Of(e, t, records)
      BY <1>3, <2>2 DEF Of
    <3>. QED
      BY <2>1, <3>1, <3>2
  <2>3. CASE ~(t = s /\ records = TRUE)
    <3>1. ~Of(e, t, records)
      BY <1>3, <2>3 DEF Of
    <3>2. Now(b1, t, records) = Now(b, t, records)
      BY <1>2, <2>3 DEF Now
    <3>. QED
      BY <2>1, <3>1, <3>2
  <2>. QED
    BY <2>2, <2>3
<1>8. Pushable(b1, e)
  BY <1>0, <1>2, <1>5, <1>6, <1>7 DEF Pushable
<1>9. BeOK(PushCommitted(b1, e))
  BY <1>8, PushOK
<1>. QED
  BY <1>4, <1>9

(* An edit outside every sketch.                                           *)
LEMMA ModelOK ==
    ASSUME NEW b, BeOK(b), NEW e, e.kind = "model", e.s = None
    PROVE  BeOK(PushCommitted(b, e))
<1>0. BeKind(b) /\ Chain(b) /\ SlotIs(b.slot, b.undo, b.evicted) /\ StepKind(e)
  BY DEF BeOK, StepKind
<1>1. ASSUME NEW t \in Sketches, NEW records \in BOOLEAN
      PROVE  ~Of(e, t, records) /\ Chained(b.undo, b.redo, t, records, Now(b, t, records))
  <2>1. t # None
    BY SketchNames DEF None
  <2>. QED
    BY <1>0, <2>1 DEF Of, Chain
<1>2. Pushable(b, e)
  BY <1>0, <1>1 DEF Pushable
<1>. QED
  BY <1>2, PushOK

(* All that is done leaves a sketch as it is.                              *)
LEMMA ReachedNow ==
    ASSUME NEW u, IsSeq(u), NEW r, IsSeq(r), NEW s, NEW records, NEW now, Chained(u, r, s, records, now)
    PROVE  Reached(u, Len(u), s, records, now)
<1>. DEFINE n == Len(u)  m == Len(r)  line == Line(u, r)  steps == Steps(line, s, records)
<1>1. n \in Nat /\ m \in Nat
  BY SeqIs
<1>2. DOMAIN line = 1 .. n + m /\ \A i \in 1 .. n : line[i] = u[i]
  BY LineIs
<1>3. steps \in SUBSET (1 .. n + m) /\ \A i \in 1 .. n + m : i \in steps <=> Of(line[i], s, records)
  BY <1>2, StepsIs
<1>4. Links(line, steps, n, now)
  BY DEF Chained
<1>. HIDE DEF n, m, line, steps
<1>5. ASSUME NEW i \in 1 .. n, Of(u[i], s, records), \A k \in 1 .. n : i < k => ~Of(u[k], s, records)
      PROVE  u[i].after = now
  <2>0. i \in 1 .. n + m /\ line[i] = u[i]
    BY <1>1, <1>2, <1>5
  <2>1. i \in steps /\ i <= n /\ i < n + 1
    BY <1>1, <1>3, <1>5, <2>0
  <2>2. ASSUME NEW k \in steps, i < k, k < n + 1 PROVE FALSE
    <3>1. k \in 1 .. n /\ k \in 1 .. n + m
      BY <1>1, <1>3, <2>1, <2>2
    <3>2. Of(u[k], s, records)
      BY <1>2, <1>3, <3>1
    <3>. QED
      BY <1>5, <2>2, <3>1, <3>2
  <2>3. line[i].after = now
    BY <1>4, <2>1, <2>2 DEF Links
  <2>. QED
    BY <1>2, <2>3
<1>. QED
  BY <1>5 DEF Reached, n

(* A session is opened, or found open.                                     *)
LEMMA EnterOK ==
    ASSUME NEW b, BeOK(b), NEW s \in Sketches
    PROVE  BeOK(EnterSketch(b, s))
<1>. DEFINE x == [s |-> s, prior |-> b.doc[s], mark |-> Len(b.undo), evicted |-> b.evicted]
            c == [b EXCEPT !.slot = <<x>>]
<1>0. BeKind(b) /\ Chain(b) /\ SlotIs(b.slot, b.undo, b.evicted)
  BY DEF BeOK
<1>1. /\ DOMAIN b = {"doc", "undo", "redo", "evicted", "record", "slot", "gesture"}
      /\ b.evicted \in Nat /\ IsSeq(b.undo) /\ IsSeq(b.redo)
  BY <1>0 DEF BeKind, StackKind
<1>2. EnterSketch(b, s) \in {b, c}
  BY DEF EnterSketch
<1>3. /\ DOMAIN c = DOMAIN b /\ c.undo = b.undo /\ c.redo = b.redo /\ c.evicted = b.evicted /\ c.gesture = b.gesture
      /\ c.doc = b.doc /\ c.record = b.record /\ c.slot = <<x>>
  BY <1>1
<1>4. x.s = s /\ x.prior = b.doc[s] /\ x.mark = Len(b.undo) /\ x.evicted = b.evicted
  OBVIOUS
<1>. HIDE DEF x, c
<1>5. BeKind(c) /\ Chain(c)
  BY <1>0, <1>3 DEF BeKind, Chain, Now
<1>6. Chained(b.undo, b.redo, s, FALSE, <<x.prior>>)
  BY <1>0, <1>4 DEF Chain, Now
<1>7. Reached(b.undo, x.mark, s, FALSE, <<x.prior>>)
  BY <1>1, <1>4, <1>6, ReachedNow
<1>8. x.mark \in 0 .. Len(b.undo) /\ x.evicted \in 0 .. b.evicted
  <2>1. \A k \in Nat : k \in 0 .. k
    OBVIOUS
  <2>2. Len(b.undo) \in Nat
    BY <1>1, SeqIs
  <2>. QED
    BY <1>1, <1>4, <2>1, <2>2
<1>9. SlotIs(c.slot, c.undo, c.evicted)
  BY <1>3, <1>4, <1>7, <1>8 DEF SlotIs
<1>. QED
  BY <1>0, <1>2, <1>5, <1>9 DEF BeOK

(* The last ones.                                                          *)
LEMMA SliceSeq ==
    ASSUME NEW q, IsSeq(q), NEW k \in 0 .. Len(q)
    PROVE  /\ IsSeq(SubSeq(q, k + 1, Len(q))) /\ Len(SubSeq(q, k + 1, Len(q))) = Len(q) - k
           /\ \A i \in 1 .. Len(q) - k : SubSeq(q, k + 1, Len(q))[i] = q[k + i]
<1>1. PICK T : q \in Seq(T)
  BY DEF IsSeq
<1>. DEFINE n == Len(q)  r == SubSeq(q, k + 1, n)
<1>2. n \in Nat /\ n \in Int /\ k \in Nat /\ k + 1 \in Int /\ k <= n /\ \A i \in 1 .. n : q[i] \in T
  BY <1>1, LenProperties, ElementOfSeq
<1>. HIDE DEF n
<1>3. \A i \in k + 1 .. n : q[i] \in T
  BY <1>2
<1>4. /\ r \in Seq(T) /\ Len(r) = IF k + 1 <= n THEN n - (k + 1) + 1 ELSE 0
      /\ \A i \in 1 .. n - (k + 1) + 1 : r[i] = q[k + 1 + i - 1]
  BY <1>2, <1>3, SubSeqProperties
<1>. HIDE DEF r
<1>5. Len(r) = n - k
  BY <1>2, <1>4
<1>6. \A i \in 1 .. n - k : i \in 1 .. n - (k + 1) + 1 /\ k + 1 + i - 1 = k + i
  BY <1>2
<1>7. \A i \in 1 .. n - k : r[i] = q[k + i]
  BY <1>4, <1>6
<1>. QED
  BY <1>4, <1>5, <1>7 DEF IsSeq, r, n

(* A session is closed, its steps becoming one where they are its own.     *)
LEMMA SquashOK ==
    ASSUME NEW b, BeOK(b), NEW s \in Sketches
    PROVE  /\ BeOK(SquashSession(b, s))
           /\ SquashSession(b, s).gesture = b.gesture
<1>0. BeKind(b) /\ Chain(b) /\ SlotIs(b.slot, b.undo, b.evicted)
  BY DEF BeOK
<1>1. CASE ~Top(b.slot, LAMBDA x : x.s = s)
  BY <1>1 DEF SquashSession
<1>2. CASE Top(b.slot, LAMBDA x : x.s = s)
  <2>1. b.slot # <<>> /\ Last(b.slot).s = s
    BY <1>2 DEF Top
  <2>2. PICK x : /\ b.slot = <<x>> /\ x.s \in Sketches /\ x.mark \in 0 .. Len(b.undo) /\ x.evicted \in 0 .. b.evicted
                 /\ x.evicted = b.evicted => Reached(b.undo, x.mark, x.s, FALSE, <<x.prior>>)
    BY <1>0, <2>1 DEF SlotIs
  <2>3. Head(b.slot) = x /\ x.s = s
    <3>1. Last(<<x>>) = x /\ Head(<<x>>) = x
      BY DEF Last
    <3>. QED
      BY <2>1, <2>2, <3>1
  <2>. DEFINE u == b.undo  mark == x.mark
              bare == [b EXCEPT !.slot = <<>>]
              steps == SubSeq(u, mark + 1, Len(u))
              v == SubSeq(u, 1, mark)
              cut == [bare EXCEPT !.undo = SubSeq(@, 1, x.mark), !.redo = <<>>]
              net == [kind |-> "net", s |-> s, prior |-> <<x.prior>>, after |-> <<b.doc[s]>>]
              stop == \/ steps = <<>> \/ x.evicted # b.evicted
                      \/ \E i \in DOMAIN steps : steps[i].s # s \/ steps[i].kind \notin {"edit", "drag", "net"}
  <2>4. SquashSession(b, s) = IF stop THEN bare ELSE IF x.prior = b.doc[s] THEN cut ELSE PushCommitted(cut, net)
    <3>. DEFINE was == Head(b.slot)
                taken == SubSeq(b.undo, was.mark + 1, Len(b.undo))
                kept == [[b EXCEPT !.slot = <<>>] EXCEPT !.undo = SubSeq(@, 1, was.mark), !.redo = <<>>]
    <3>1. SquashSession(b, s) =
            IF \/ taken = <<>> \/ was.evicted # b.evicted
               \/ \E i \in DOMAIN taken : taken[i].s # s \/ taken[i].kind \notin {"edit", "drag", "net"}
            THEN [b EXCEPT !.slot = <<>>]
            ELSE IF was.prior = b.doc[s] THEN kept
            ELSE PushCommitted(kept, [kind |-> "net", s |-> s, prior |-> <<was.prior>>, after |-> <<b.doc[s]>>])
      BY <1>2 DEF SquashSession
    <3>2. was = x /\ taken = steps /\ kept = cut
      BY <2>3
    <3>. HIDE DEF was, taken, kept, steps, bare, cut
    <3>. QED
      BY <3>1, <3>2 DEF bare
  <2>5. /\ DOMAIN b = {"doc", "undo", "redo", "evicted", "record", "slot", "gesture"}
        /\ StackKind(u) /\ StackKind(b.redo) /\ Len(u) <= UndoCap /\ UndoCap \in Nat /\ b.evicted \in Nat
    BY <1>0, SketchBounds DEF BeKind
  <2>6. /\ DOMAIN bare = DOMAIN b /\ bare.undo = u /\ bare.redo = b.redo /\ bare.evicted = b.evicted
        /\ bare.gesture = b.gesture /\ bare.doc = b.doc /\ bare.record = b.record /\ bare.slot = <<>>
    BY <2>5
  <2>. HIDE DEF bare
  <2>7. /\ DOMAIN cut = DOMAIN b /\ cut.undo = v /\ cut.redo = <<>> /\ cut.evicted = b.evicted
        /\ cut.gesture = b.gesture /\ cut.doc = b.doc /\ cut.record = b.record /\ cut.slot = <<>>
    BY <2>5, <2>6
  <2>8. net.kind = "net" /\ net.s = s /\ net.prior = <<x.prior>> /\ net.after = <<b.doc[s]>>
    OBVIOUS
  <2>. HIDE DEF cut, net, stop
  <2>9. CASE stop
    <3>1. BeKind(bare) /\ Chain(bare) /\ SlotIs(bare.slot, bare.undo, bare.evicted)
      BY <1>0, <2>6 DEF BeKind, Chain, Now, SlotIs
    <3>. QED
      BY <2>4, <2>6, <2>9, <3>1 DEF BeOK
  <2>10. CASE ~stop
    <3>1. /\ x.evicted = b.evicted
          /\ \A i \in DOMAIN steps : steps[i].s = s /\ steps[i].kind \in {"edit", "drag", "net"}
      BY <2>10 DEF stop
    <3>2. IsSeq(u) /\ IsSeq(b.redo) /\ mark \in 0 .. Len(u) /\ \A i \in 1 .. Len(u) : StepKind(u[i])
      BY <2>2, <2>5 DEF StackKind
    <3>3. Len(u) \in Nat /\ DOMAIN steps = 1 .. Len(u) - mark /\ \A i \in 1 .. Len(u) - mark : steps[i] = u[mark + i]
      BY <3>2, SliceSeq, SeqIs
    <3>4. IsSeq(v) /\ Len(v) = mark /\ \A i \in 1 .. mark : v[i] = u[i]
      BY <3>2, CutSeq
    <3>5. Reached(u, mark, s, FALSE, <<x.prior>>)
      BY <2>2, <2>3, <3>1
    <3>. HIDE DEF u, v, steps, mark
    <3>6. BeKind(cut)
      <4>1. StackKind(v)
        BY <3>2, <3>3, <3>4 DEF StackKind
      <4>2. Len(v) <= UndoCap
        BY <2>5, <3>2, <3>3, <3>4
      <4>3. StackKind(<<>>)
        BY NoSeq DEF StackKind
      <4>. QED
        BY <1>0, <2>5, <2>7, <4>1, <4>2, <4>3 DEF BeKind
    <3>7. ASSUME NEW t \in Sketches, NEW records \in BOOLEAN
          PROVE  Chained(v, <<>>, t, records, IF t = s /\ ~records THEN <<x.prior>> ELSE Now(b, t, records))
      <4>. DEFINE was == IF t = s /\ ~records THEN <<x.prior>> ELSE Now(b, t, records)
      <4>1. Chained(u, b.redo, t, records, Now(b, t, records))
        BY <1>0 DEF Chain, u
      <4>2. Reached(u, mark, t, records, was)
        <5>1. CASE t = s /\ ~records
          BY <3>5, <5>1
        <5>2. CASE ~(t = s /\ ~records)
          <6>1. Reached(u, Len(u), t, records, Now(b, t, records))
            BY <3>2, <4>1, ReachedNow
          <6>2. ASSUME NEW k \in 1 .. Len(u), mark < k PROVE ~Of(u[k], t, records)
            <7>1. k - mark \in 1 .. Len(u) - mark /\ mark + (k - mark) = k
              BY <3>2, <3>3, <6>2
            <7>2. u[k].s = s /\ u[k].kind # "record"
              BY <3>1, <3>3, <7>1
            <7>. QED
              BY <5>2, <7>2 DEF Of
          <6>3. \A i \in 1 .. mark : i \in 1 .. Len(u)
            BY <3>2, <3>3
          <6>4. ASSUME NEW i \in 1 .. mark, Of(u[i], t, records), \A k \in 1 .. mark : i < k => ~Of(u[k], t, records)
                PROVE  u[i].after = Now(b, t, records)
            <7>1. ASSUME NEW k \in 1 .. Len(u), i < k PROVE ~Of(u[k], t, records)
              <8>1. CASE mark < k
                BY <6>2, <8>1
              <8>2. CASE ~(mark < k)
                <9>1. k \in 1 .. mark
                  BY <3>2, <3>3, <8>2
                <9>. QED
                  BY <6>4, <7>1, <9>1
              <8>. QED
                BY <8>1, <8>2
            <7>. QED
              BY <6>1, <6>3, <6>4, <7>1 DEF Reached
          <6>. QED
            BY <5>2, <6>4 DEF Reached
        <5>. QED
          BY <5>1, <5>2
      <4>. HIDE DEF was
      <4>3. \A i \in 1 .. mark :
              Of(u[i], t, records) /\ (\A k \in 1 .. mark : i < k => ~Of(u[k], t, records)) => u[i].after = was
        BY <4>2 DEF Reached
      <4>4. Chained(SubSeq(u, 1, mark), <<>>, t, records, was)
        BY ONLY <3>2, <4>1, <4>3, ChainedCut
      <4>. QED
        BY <4>4 DEF v, was
    <3>8. CASE x.prior = b.doc[s]
      <4>1. Chain(cut)
        <5>1. ASSUME NEW t \in Sketches, NEW records \in BOOLEAN
              PROVE  Now(cut, t, records) = IF t = s /\ ~records THEN <<x.prior>> ELSE Now(b, t, records)
          BY <2>7, <3>8 DEF Now
        <5>. QED
          BY <2>7, <3>7, <5>1 DEF Chain
      <4>2. SlotIs(cut.slot, cut.undo, cut.evicted)
        BY <2>7 DEF SlotIs
      <4>. QED
        BY <2>4, <2>7, <2>10, <3>6, <3>8, <4>1, <4>2 DEF BeOK
    <3>9. CASE x.prior # b.doc[s]
      <4>1. StepKind(net)
        <5>1. \E w, z : net.prior = <<w>> /\ net.after = <<z>>
          BY <2>8
        <5>. QED
          BY <2>8, <5>1 DEF StepKind
      <4>2. ASSUME NEW t \in Sketches, NEW records \in BOOLEAN
            PROVE  IF Of(net, t, records)
                   THEN Chained(cut.undo, cut.redo, t, records, net.prior) /\ Now(cut, t, records) = net.after
                   ELSE Chained(cut.undo, cut.redo, t, records, Now(cut, t, records))
        <5>1. Now(cut, t, records) = Now(b, t, records)
          BY <2>7 DEF Now
        <5>2. Of(net, t, records) <=> t = s /\ ~records
          BY <2>8 DEF Of
        <5>3. t = s /\ ~records => Now(b, t, records) = net.after
          BY <2>8 DEF Now
        <5>. QED
          BY <2>7, <2>8, <3>7, <5>1, <5>2, <5>3
      <4>3. SlotIs(cut.slot, cut.undo, cut.evicted)
        BY <2>7 DEF SlotIs
      <4>4. Pushable(cut, net)
        BY <3>6, <4>1, <4>2, <4>3 DEF Pushable
      <4>5. BeOK(PushCommitted(cut, net)) /\ PushCommitted(cut, net).gesture = cut.gesture
        BY <4>4, PushOK
      <4>. QED
        BY <2>4, <2>7, <2>10, <3>9, <4>5
    <3>. QED
      BY <3>8, <3>9
  <2>. QED
    BY <2>9, <2>10
<1>. QED
  BY <1>1, <1>2

(* A gesture is opened or dropped.                                         *)
LEMMA GestureOK ==
    ASSUME NEW b, BeOK(b), NEW q, q = <<>> \/ \E g : q = <<g>> /\ g.s \in Sketches
    PROVE  LET c == [b EXCEPT !.gesture = q]
           IN /\ BeOK(c) /\ c.undo = b.undo /\ c.redo = b.redo /\ c.doc = b.doc /\ c.record = b.record
              /\ c.slot = b.slot /\ c.evicted = b.evicted /\ c.gesture = q
<1>. DEFINE c == [b EXCEPT !.gesture = q]
<1>0. BeKind(b) /\ Chain(b) /\ SlotIs(b.slot, b.undo, b.evicted)
  BY DEF BeOK
<1>1. /\ DOMAIN c = DOMAIN b /\ c.undo = b.undo /\ c.redo = b.redo /\ c.doc = b.doc /\ c.record = b.record
      /\ c.slot = b.slot /\ c.evicted = b.evicted /\ c.gesture = q
  BY <1>0 DEF BeKind
<1>. HIDE DEF c
<1>2. BeKind(c)
  BY <1>0, <1>1 DEF BeKind
<1>3. Chain(c)
  BY <1>0, <1>1 DEF Chain, Now
<1>4. SlotIs(c.slot, c.undo, c.evicted)
  BY <1>0, <1>1
<1>5. BeOK(c)
  BY <1>2, <1>3, <1>4 DEF BeOK
<1>. QED
  BY <1>1, <1>5 DEF c

(* A session is cancelled.                                                 *)
LEMMA CancelOK ==
    ASSUME NEW b, BeOK(b), NEW s \in Sketches
    PROVE  BeOK(CancelSketch(b, s))
<1>. DEFINE c == [b EXCEPT !.gesture = <<>>]
<1>1. BeOK(c)
  BY GestureOK
<1>. HIDE DEF c
<1>2. BeOK(SquashSession(c, s))
  BY <1>1, SquashOK
<1>. QED
  BY <1>2 DEF CancelSketch, c

(* A session is finished.                                                  *)
LEMMA FinishOK ==
    ASSUME NEW b, BeOK(b), NEW s \in Sketches
    PROVE  BeOK(FinishSketch(b, s))
<1>. DEFINE q == IF Top(b.gesture, LAMBDA g : g.s = s) THEN <<>> ELSE b.gesture
            c == [b EXCEPT !.gesture = q]
<1>1. q = <<>> \/ \E g : q = <<g>> /\ g.s \in Sketches
  BY DEF BeOK, BeKind
<1>2. FinishSketch(b, s) = UpsertSketchRecord(SquashSession(c, s), s)
  BY DEF FinishSketch
<1>. HIDE DEF q
<1>3. BeOK(c)
  BY <1>1, GestureOK
<1>. HIDE DEF c
<1>4. BeOK(SquashSession(c, s))
  BY <1>3, SquashOK
<1>5. BeOK(UpsertSketchRecord(SquashSession(c, s), s))
  BY <1>4, UpsertOK
<1>. QED
  BY <1>2, <1>5

(* A drag begins.                                                          *)
LEMMA BeginOK ==
    ASSUME NEW b, BeOK(b), NEW s \in Sketches, NEW u
    PROVE  BeOK(BeginGesture(b, s, u))
<1>. DEFINE g == [s |-> s, u |-> u, before |-> b.doc[s]]
<1>1. \E h : <<g>> = <<h>> /\ h.s \in Sketches
  <2>1. g.s \in Sketches
    OBVIOUS
  <2>. QED
    BY <2>1
<1>. HIDE DEF g
<1>2. BeOK([b EXCEPT !.gesture = <<g>>])
  BY <1>1, GestureOK
<1>. QED
  BY <1>2 DEF BeginGesture, g

(* A drag ends: one more edit.                                             *)
LEMMA EndOK ==
    ASSUME NEW b, BeOK(b), NEW to
    PROVE  BeOK(EndGesture(b, to))
<1>1. CASE b.gesture = <<>>
  BY <1>1 DEF EndGesture
<1>2. CASE b.gesture # <<>>
  <2>1. PICK g : b.gesture = <<g>> /\ g.s \in Sketches
    BY <1>2 DEF BeOK, BeKind
  <2>. DEFINE c == [b EXCEPT !.gesture = <<>>]  h == Head(b.gesture)
              moved == [h.before EXCEPT !.ents = [u \in DOMAIN @ |->
                          IF u = h.u THEN [@[u] EXCEPT !.at = to] ELSE @[u]]]
  <2>2. h = g
    BY <2>1
  <2>3. EndGesture(b, to) = SketchEdit(c, h.s, "drag", moved)
    BY <1>2 DEF EndGesture
  <2>4. BeOK(c)
    BY GestureOK
  <2>. HIDE DEF c, h, moved
  <2>5. BeOK(SketchEdit(c, g.s, "drag", moved))
    BY <2>1, <2>4, EditOK
  <2>. QED
    BY <2>2, <2>3, <2>5
<1>. QED
  BY <1>1, <1>2

(* An undo or a redo gives its sketch back the value of one end of a step. *)
LEMMA RestoredIs ==
    ASSUME NEW b, BeKind(b), NEW e, StepKind(e), NEW value,
           e.kind \in {"edit", "drag", "net"} => \E v : value = <<v>>
    PROVE  LET c == Restored(b, e, value)
           IN /\ DOMAIN c = {"doc", "undo", "redo", "evicted", "record", "slot", "gesture"}
              /\ DOMAIN c.doc = Sketches /\ DOMAIN c.record = Sketches
              /\ c.undo = b.undo /\ c.redo = b.redo /\ c.slot = b.slot /\ c.evicted = b.evicted
              /\ c.gesture = b.gesture
              /\ \A s \in Sketches, records \in BOOLEAN :
                   Now(c, s, records) = IF Of(e, s, records) THEN value ELSE Now(b, s, records)
<1>. DEFINE c == Restored(b, e, value)
<1>1. /\ DOMAIN b = {"doc", "undo", "redo", "evicted", "record", "slot", "gesture"}
      /\ DOMAIN b.doc = Sketches /\ DOMAIN b.record = Sketches
  BY DEF BeKind
<1>2. CASE e.kind = "model" /\ e.s = None
  <2>1. c = b
    BY <1>2 DEF Restored
  <2>2. ASSUME NEW s \in Sketches, NEW records \in BOOLEAN PROVE ~Of(e, s, records)
    <3>1. s # None
      BY SketchNames DEF None
    <3>. QED
      BY <1>2, <3>1 DEF Of
  <2>. QED
    BY <1>1, <2>1, <2>2
<1>3. CASE e.kind = "record" /\ e.s \in Sketches
  <2>1. c = [b EXCEPT !.record[e.s] = value]
    BY <1>3 DEF Restored
  <2>2. /\ DOMAIN c = DOMAIN b /\ DOMAIN c.record = Sketches /\ c.doc = b.doc
        /\ c.undo = b.undo /\ c.redo = b.redo /\ c.slot = b.slot /\ c.evicted = b.evicted /\ c.gesture = b.gesture
        /\ c.record[e.s] = value /\ \A s \in Sketches : s # e.s => c.record[s] = b.record[s]
    BY <1>1, <1>3, <2>1
  <2>. HIDE DEF c
  <2>3. ASSUME NEW s \in Sketches, NEW records \in BOOLEAN
        PROVE  Now(c, s, records) = IF Of(e, s, records) THEN value ELSE Now(b, s, records)
    <3>1. Of(e, s, records) <=> s = e.s /\ records
      BY <1>3 DEF Of
    <3>. QED
      BY <2>2, <3>1 DEF Now
  <2>. QED
    BY <1>1, <2>2, <2>3 DEF c
<1>4. CASE e.kind \in {"edit", "drag", "net"} /\ e.s \in Sketches
  <2>1. c = [b EXCEPT !.doc[e.s] = Head(value)]
    BY <1>4 DEF Restored
  <2>2. PICK v : value = <<v>>
    BY <1>4
  <2>3. Head(value) = v
    BY <2>2
  <2>4. /\ DOMAIN c = DOMAIN b /\ DOMAIN c.doc = Sketches /\ c.record = b.record
        /\ c.undo = b.undo /\ c.redo = b.redo /\ c.slot = b.slot /\ c.evicted = b.evicted /\ c.gesture = b.gesture
        /\ c.doc[e.s] = v /\ \A s \in Sketches : s # e.s => c.doc[s] = b.doc[s]
    BY <1>1, <1>4, <2>1, <2>3
  <2>. HIDE DEF c
  <2>5. ASSUME NEW s \in Sketches, NEW records \in BOOLEAN
        PROVE  Now(c, s, records) = IF Of(e, s, records) THEN value ELSE Now(b, s, records)
    <3>1. Of(e, s, records) <=> s = e.s /\ ~records
      BY <1>4 DEF Of
    <3>. QED
      BY <2>2, <2>4, <3>1 DEF Now
  <2>. QED
    BY <1>1, <2>4, <2>5 DEF c
<1>. QED
  BY <1>2, <1>3, <1>4 DEF StepKind

(* What an undo or a redo leaves of the session, before it is dropped if   *)
(* the stack is now below its mark.                                        *)
SlotWas(slot, u, evicted) ==
    slot = <<>> \/ \E x :
      /\ slot = <<x>> /\ x.s \in Sketches /\ x.mark \in Nat /\ x.evicted \in 0 .. evicted
      /\ x.evicted = evicted /\ x.mark <= Len(u) => Reached(u, x.mark, x.s, FALSE, <<x.prior>>)

(* A session that lost steps below its mark is dropped.                    *)
LEMMA DropOK ==
    ASSUME NEW b, BeKind(b), Chain(b), SlotWas(b.slot, b.undo, b.evicted)
    PROVE  BeOK(DropStaleSession(b)) /\ DropStaleSession(b).gesture = b.gesture
<1>. DEFINE c == [b EXCEPT !.slot = <<>>]
<1>1. /\ DOMAIN c = DOMAIN b /\ c.undo = b.undo /\ c.redo = b.redo /\ c.doc = b.doc /\ c.record = b.record
      /\ c.slot = <<>> /\ c.evicted = b.evicted /\ c.gesture = b.gesture
  BY DEF BeKind
<1>2. Len(b.undo) \in Nat
  BY SeqIs DEF BeKind, StackKind
<1>3. CASE Top(b.slot, LAMBDA x : x.mark > Len(b.undo))
  <2>1. DropStaleSession(b) = c
    BY <1>3 DEF DropStaleSession
  <2>. HIDE DEF c
  <2>2. BeKind(c) /\ Chain(c) /\ SlotIs(c.slot, c.undo, c.evicted)
    BY <1>1 DEF BeKind, Chain, Now, SlotIs
  <2>. QED
    BY <1>1, <2>1, <2>2 DEF BeOK
<1>4. CASE ~Top(b.slot, LAMBDA x : x.mark > Len(b.undo))
  <2>1. DropStaleSession(b) = b
    BY <1>4 DEF DropStaleSession
  <2>2. CASE b.slot = <<>>
    <3>1. SlotIs(b.slot, b.undo, b.evicted)
      BY <2>2 DEF SlotIs
    <3>. QED
      BY <2>1, <3>1 DEF BeOK
  <2>3. CASE b.slot # <<>>
    <3>1. PICK x : /\ b.slot = <<x>> /\ x.s \in Sketches /\ x.mark \in Nat /\ x.evicted \in 0 .. b.evicted
                   /\ x.evicted = b.evicted /\ x.mark <= Len(b.undo) => Reached(b.undo, x.mark, x.s, FALSE, <<x.prior>>)
      BY <2>3 DEF SlotWas
    <3>2. Last(b.slot) = x
      <4>1. Last(<<x>>) = x
        BY DEF Last
      <4>. QED
        BY <3>1, <4>1
    <3>3. ~(x.mark > Len(b.undo))
      BY <1>4, <2>3, <3>2 DEF Top
    <3>4. x.mark \in 0 .. Len(b.undo) /\ x.mark <= Len(b.undo)
      BY <1>2, <3>1, <3>3
    <3>5. SlotIs(b.slot, b.undo, b.evicted)
      BY <3>1, <3>4 DEF SlotIs
    <3>. QED
      BY <2>1, <3>5 DEF BeOK
  <2>. QED
    BY <2>2, <2>3
<1>. QED
  BY <1>3, <1>4

(* A stack without its last step, or with one more.                        *)
LEMMA StackMoves ==
    ASSUME NEW u, StackKind(u), u # <<>>, NEW r, StackKind(r)
    PROVE  /\ Last(u) = u[Len(u)] /\ StepKind(Last(u)) /\ Len(u) \in Nat
           /\ StackKind(Front1(u)) /\ StackKind(Append(r, Last(u)))
           /\ Len(Front1(u)) = Len(u) - 1 /\ Len(Front1(u)) \in Nat /\ Len(Front1(u)) <= Len(u)
           /\ \A i \in 1 .. Len(u) - 1 : Front1(u)[i] = u[i]
<1>. DEFINE n == Len(u)  m == Len(r)  e == Last(u)  v == Front1(u)  q == Append(r, e)
<1>1. /\ IsSeq(u) /\ IsSeq(r) /\ n \in Nat /\ n # 0 /\ m \in Nat
      /\ \A i \in 1 .. n : StepKind(u[i])
      /\ \A i \in 1 .. m : StepKind(r[i])
  BY SeqIs DEF StackKind
<1>2. e = u[n]
  BY DEF Last
<1>. HIDE DEF e
<1>3. StepKind(e)
  <2>1. n \in 1 .. n
    BY <1>1
  <2>. QED
    BY <1>1, <1>2, <2>1
<1>4. n - 1 \in 0 .. n
  BY <1>1
<1>5. IsSeq(v) /\ Len(v) = n - 1 /\ \A i \in 1 .. n - 1 : v[i] = u[i]
  BY <1>1, <1>4, CutSeq DEF Front1
<1>6. IsSeq(q) /\ Len(q) = m + 1 /\ q[m + 1] = e /\ \A i \in 1 .. m : q[i] = r[i]
  BY <1>1, AppendSeq
<1>. HIDE DEF n, m, v, q
<1>7. StackKind(v)
  BY <1>1, <1>5 DEF StackKind
<1>8. StackKind(q)
  BY <1>1, <1>3, <1>6 DEF StackKind
<1>9. n - 1 \in Nat /\ n - 1 <= n
  BY <1>1
<1>. QED
  BY <1>1, <1>2, <1>3, <1>5, <1>7, <1>8, <1>9 DEF e, v, q, n

(* Undo.                                                                   *)
LEMMA UndoOK ==
    ASSUME NEW b, BeOK(b)
    PROVE  BeOK(Undo(b))
<1>1. CASE b.gesture # <<>> \/ b.undo = <<>>
  BY <1>1 DEF Undo
<1>2. CASE ~(b.gesture # <<>> \/ b.undo = <<>>)
  <2>. DEFINE u == b.undo  e == Last(u)  a == Restored(b, e, e.prior)
              c == [a EXCEPT !.undo = Front1(@), !.redo = Append(@, e)]
  <2>1. Undo(b) = DropStaleSession(c)
    BY <1>2 DEF Undo
  <2>2. BeKind(b) /\ Chain(b) /\ SlotIs(b.slot, u, b.evicted)
    BY DEF BeOK
  <2>3. /\ StackKind(u) /\ StackKind(b.redo) /\ u # <<>> /\ Len(u) <= UndoCap /\ UndoCap \in Nat
        /\ b.evicted \in Nat
    BY <1>2, <2>2, SketchBounds DEF BeKind
  <2>. HIDE DEF u
  <2>4. /\ e = u[Len(u)] /\ StepKind(e) /\ Len(u) \in Nat
        /\ StackKind(Front1(u)) /\ StackKind(Append(b.redo, e))
        /\ Len(Front1(u)) = Len(u) - 1 /\ Len(Front1(u)) \in Nat /\ Len(Front1(u)) <= Len(u)
        /\ \A i \in 1 .. Len(u) - 1 : Front1(u)[i] = u[i]
    BY <2>3, StackMoves
  <2>. HIDE DEF e
  <2>5. e.kind \in {"edit", "drag", "net"} => \E v : e.prior = <<v>>
    BY <2>4 DEF StepKind
  <2>6. /\ DOMAIN a = {"doc", "undo", "redo", "evicted", "record", "slot", "gesture"}
        /\ DOMAIN a.doc = Sketches /\ DOMAIN a.record = Sketches
        /\ a.undo = u /\ a.redo = b.redo /\ a.slot = b.slot /\ a.evicted = b.evicted /\ a.gesture = b.gesture
        /\ \A s \in Sketches, records \in BOOLEAN :
             Now(a, s, records) = IF Of(e, s, records) THEN e.prior ELSE Now(b, s, records)
    <3>. DEFINE value == e.prior
    <3>1. e.kind \in {"edit", "drag", "net"} => \E z : value = <<z>>
      BY <2>5
    <3>. HIDE DEF value
    <3>. DEFINE d == Restored(b, e, value)
    <3>2. /\ DOMAIN d = {"doc", "undo", "redo", "evicted", "record", "slot", "gesture"}
          /\ DOMAIN d.doc = Sketches /\ DOMAIN d.record = Sketches
          /\ d.undo = b.undo /\ d.redo = b.redo /\ d.slot = b.slot /\ d.evicted = b.evicted
          /\ d.gesture = b.gesture
          /\ \A s \in Sketches, records \in BOOLEAN :
               Now(d, s, records) = IF Of(e, s, records) THEN value ELSE Now(b, s, records)
      BY ONLY <2>2, <2>4, <3>1, RestoredIs
    <3>3. a = d
      BY DEF value
    <3>. HIDE DEF a, d
    <3>. QED
      BY <3>2, <3>3 DEF u, value
  <2>. HIDE DEF a
  <2>7. /\ DOMAIN c = DOMAIN a /\ c.undo = Front1(u) /\ c.redo = Append(b.redo, e) /\ c.slot = b.slot
        /\ c.evicted = b.evicted /\ c.gesture = b.gesture /\ c.doc = a.doc /\ c.record = a.record
    BY <2>6
  <2>. HIDE DEF c
  <2>8. BeKind(c)
    <3>1. Len(Front1(u)) <= UndoCap
      BY <2>3, <2>4
    <3>2. c.gesture = <<>> \/ \E g : c.gesture = <<g>> /\ g.s \in Sketches
      BY <2>2, <2>7 DEF BeKind
    <3>. QED
      BY <2>3, <2>4, <2>6, <2>7, <3>1, <3>2 DEF BeKind
  <2>9. ASSUME NEW s \in Sketches, NEW records \in BOOLEAN
        PROVE  Chained(c.undo, c.redo, s, records, Now(c, s, records))
    <3>1. Now(c, s, records) = IF Of(u[Len(u)], s, records) THEN u[Len(u)].prior ELSE Now(b, s, records)
      <4>1. Now(c, s, records) = Now(a, s, records)
        BY <2>7 DEF Now
      <4>. QED
        BY <2>4, <2>6, <4>1
    <3>2. Chained(u, b.redo, s, records, Now(b, s, records))
      BY <2>2 DEF Chain, u
    <3>3. IsSeq(u) /\ u # <<>> /\ IsSeq(b.redo)
      BY <2>3 DEF StackKind
    <3>4. Chained(Front1(u), Append(b.redo, u[Len(u)]), s, records, Now(c, s, records))
      BY ONLY <3>1, <3>2, <3>3, ChainedUndo
    <3>. QED
      BY <2>4, <2>7, <3>4
  <2>10. SlotWas(c.slot, c.undo, c.evicted)
    <3>1. CASE b.slot = <<>>
      BY <2>7, <3>1 DEF SlotWas
    <3>2. CASE b.slot # <<>>
      <4>1. PICK x : /\ b.slot = <<x>> /\ x.s \in Sketches /\ x.mark \in 0 .. Len(u) /\ x.evicted \in 0 .. b.evicted
                     /\ x.evicted = b.evicted => Reached(u, x.mark, x.s, FALSE, <<x.prior>>)
        BY <2>2, <3>2 DEF SlotIs
      <4>2. ASSUME x.evicted = b.evicted, x.mark <= Len(Front1(u))
            PROVE  Reached(Front1(u), x.mark, x.s, FALSE, <<x.prior>>)
        <5>1. \A i \in 1 .. x.mark : Front1(u)[i] = u[i]
          <6>1. \A i \in 1 .. x.mark : i \in 1 .. Len(u) - 1
            BY <2>4, <4>1, <4>2
          <6>. QED
            BY <2>4, <6>1
        <5>. QED
          BY <4>1, <4>2, <5>1 DEF Reached
      <4>3. x.mark \in Nat
        BY <4>1
      <4>. QED
        BY <2>7, <4>1, <4>2, <4>3 DEF SlotWas
    <3>. QED
      BY <3>1, <3>2
  <2>11. BeOK(DropStaleSession(c))
    BY <2>8, <2>9, <2>10, DropOK DEF Chain
  <2>. QED
    BY <2>1, <2>11
<1>. QED
  BY <1>1, <1>2

(* Redo.                                                                   *)
LEMMA RedoOK ==
    ASSUME NEW b, BeOK(b)
    PROVE  BeOK(Redo(b))
<1>1. CASE b.gesture # <<>> \/ b.redo = <<>>
  BY <1>1 DEF Redo
<1>2. CASE ~(b.gesture # <<>> \/ b.redo = <<>>)
  <2>. DEFINE r == b.redo  e == Last(r)  a == Restored(b, e, e.after)  u == b.undo  w == Append(u, e)
              full == Len(w) > UndoCap
              v == IF full THEN Tail(w) ELSE w
              c == [a EXCEPT !.redo = Front1(@), !.undo = v, !.evicted = @ + (IF full THEN 1 ELSE 0)]
  <2>1. Redo(b) = DropStaleSession(c)
    BY <1>2 DEF Redo
  <2>2. BeKind(b) /\ Chain(b) /\ SlotIs(b.slot, u, b.evicted)
    BY DEF BeOK
  <2>3. StackKind(u) /\ StackKind(r) /\ r # <<>> /\ Len(u) <= UndoCap /\ UndoCap \in Nat /\ b.evicted \in Nat
    BY <1>2, <2>2, SketchBounds DEF BeKind
  <2>. HIDE DEF r, u
  <2>4. e = r[Len(r)] /\ StepKind(e) /\ StackKind(Front1(r))
    BY <2>3, StackMoves
  <2>. HIDE DEF e
  <2>5. e.kind \in {"edit", "drag", "net"} => \E z : e.after = <<z>>
    BY <2>4 DEF StepKind
  <2>6. /\ DOMAIN a = {"doc", "undo", "redo", "evicted", "record", "slot", "gesture"}
        /\ DOMAIN a.doc = Sketches /\ DOMAIN a.record = Sketches
        /\ a.undo = u /\ a.redo = r /\ a.slot = b.slot /\ a.evicted = b.evicted /\ a.gesture = b.gesture
        /\ \A s \in Sketches, records \in BOOLEAN :
             Now(a, s, records) = IF Of(e, s, records) THEN e.after ELSE Now(b, s, records)
    <3>. DEFINE value == e.after
    <3>1. e.kind \in {"edit", "drag", "net"} => \E z : value = <<z>>
      BY <2>5
    <3>. HIDE DEF value
    <3>. DEFINE d == Restored(b, e, value)
    <3>2. /\ DOMAIN d = {"doc", "undo", "redo", "evicted", "record", "slot", "gesture"}
          /\ DOMAIN d.doc = Sketches /\ DOMAIN d.record = Sketches
          /\ d.undo = b.undo /\ d.redo = b.redo /\ d.slot = b.slot /\ d.evicted = b.evicted
          /\ d.gesture = b.gesture
          /\ \A s \in Sketches, records \in BOOLEAN :
               Now(d, s, records) = IF Of(e, s, records) THEN value ELSE Now(b, s, records)
      BY ONLY <2>2, <2>4, <3>1, RestoredIs
    <3>3. a = d
      BY DEF value
    <3>. HIDE DEF a, d
    <3>. QED
      BY <3>2, <3>3 DEF u, r, value
  <2>. HIDE DEF a
  <2>7. /\ DOMAIN c = DOMAIN a /\ c.undo = v /\ c.redo = Front1(r) /\ c.slot = b.slot
        /\ c.evicted = b.evicted + (IF full THEN 1 ELSE 0) /\ c.gesture = b.gesture
        /\ c.doc = a.doc /\ c.record = a.record
    BY <2>6
  <2>. HIDE DEF c
  <2>8. /\ StackKind(v) /\ Len(v) <= UndoCap /\ Len(v) \in Nat /\ Len(u) \in Nat /\ Len(u) <= Len(v)
        /\ ~full => \A i \in 1 .. Len(u) : v[i] = u[i]
    <3>. DEFINE last == Append(u, e)  next == IF Len(last) > UndoCap THEN Tail(last) ELSE last
    <3>1. /\ StackKind(next) /\ Len(next) <= UndoCap /\ Len(next) \in Nat /\ Len(u) \in Nat /\ Len(u) <= Len(next)
          /\ ~(Len(last) > UndoCap) => \A i \in 1 .. Len(u) : next[i] = u[i]
      BY ONLY <2>3, <2>4, StackGrows
    <3>. QED
      BY ONLY <3>1
  <2>9. /\ full => c.evicted = b.evicted + 1
        /\ ~full => c.evicted = b.evicted
        /\ c.evicted \in Nat
    BY <2>3, <2>7
  <2>. HIDE DEF v, full
  <2>10. BeKind(c)
    <3>1. c.gesture = <<>> \/ \E g : c.gesture = <<g>> /\ g.s \in Sketches
      BY <2>2, <2>7 DEF BeKind
    <3>. QED
      BY <2>4, <2>6, <2>7, <2>8, <2>9, <3>1 DEF BeKind
  <2>11. ASSUME NEW s \in Sketches, NEW records \in BOOLEAN
         PROVE  Chained(c.undo, c.redo, s, records, Now(c, s, records))
    <3>1. Now(c, s, records) = IF Of(r[Len(r)], s, records) THEN r[Len(r)].after ELSE Now(b, s, records)
      <4>1. Now(c, s, records) = Now(a, s, records)
        BY <2>7 DEF Now
      <4>. QED
        BY <2>4, <2>6, <4>1
    <3>2. Chained(u, r, s, records, Now(b, s, records))
      BY <2>2 DEF Chain, u, r
    <3>3. IsSeq(u) /\ r # <<>> /\ IsSeq(r)
      BY <2>3 DEF StackKind
    <3>4. Chained(Append(u, r[Len(r)]), Front1(r), s, records, Now(c, s, records))
      BY ONLY <3>1, <3>2, <3>3, ChainedRedo
    <3>5. Chained(w, Front1(r), s, records, Now(c, s, records))
      BY <2>4, <3>4
    <3>6. IsSeq(w) /\ w # <<>> /\ IsSeq(Front1(r))
      <4>1. IsSeq(w) /\ Len(w) = Len(u) + 1
        BY <3>3, AppendSeq
      <4>2. Len(w) # Len(<<>>)
        BY <2>8, <4>1, NoSeq
      <4>3. IsSeq(Front1(r))
        BY <2>4 DEF StackKind
      <4>. HIDE DEF w
      <4>. QED
        BY <4>1, <4>2, <4>3
    <3>. HIDE DEF w
    <3>7. Chained(Tail(w), Front1(r), s, records, Now(c, s, records))
      BY ONLY <3>5, <3>6, ChainedEvict
    <3>. QED
      BY <2>7, <3>5, <3>7 DEF v
  <2>12. SlotIs(c.slot, c.undo, c.evicted)
    <3>1. CASE full
      <4>1. SlotIs(b.slot, v, b.evicted + 1)
        BY <2>2, <2>3, <2>8, SlotLost
      <4>. QED
        BY <2>7, <2>9, <3>1, <4>1
    <3>2. CASE ~full
      <4>1. SlotIs(b.slot, v, b.evicted)
        BY <2>2, <2>8, <3>2, SlotStays
      <4>. QED
        BY <2>7, <2>9, <3>2, <4>1
    <3>. QED
      BY <3>1, <3>2
  <2>13. SlotWas(c.slot, c.undo, c.evicted)
    <3>1. Len(c.undo) \in Nat
      BY <2>7, <2>8
    <3>2. CASE c.slot = <<>>
      BY <3>2 DEF SlotWas
    <3>3. CASE c.slot # <<>>
      <4>1. PICK x : /\ c.slot = <<x>> /\ x.s \in Sketches /\ x.mark \in 0 .. Len(c.undo)
                     /\ x.evicted \in 0 .. c.evicted
                     /\ x.evicted = c.evicted => Reached(c.undo, x.mark, x.s, FALSE, <<x.prior>>)
        BY <2>12, <3>3 DEF SlotIs
      <4>2. x.mark \in Nat
        BY <3>1, <4>1
      <4>. QED
        BY <4>1, <4>2 DEF SlotWas
    <3>. QED
      BY <3>2, <3>3
  <2>14. BeOK(DropStaleSession(c))
    BY <2>10, <2>11, <2>13, DropOK DEF Chain
  <2>. QED
    BY <2>1, <2>14
<1>. QED
  BY <1>1, <1>2

-----------------------------------------------------------------------------
(* The frontend.                                                           *)

(* A sketch, or none.                                                      *)
Names == Sketches \cup {None}

(* The controller keeps its parts.                                         *)
LaneIs(l) ==
    /\ DOMAIN l = {"mode", "target", "pending", "closing"} /\ l.mode \in {"model", "sketch"}
    /\ l.target \in Names /\ l.pending \in Names /\ l.closing \in Names

(* The store's stacks stay within their cap.                               *)
StoreIs(st) ==
    /\ DOMAIN st = {"s", "c", "undo", "redo", "last"} /\ st.s \in Names
    /\ IsSeq(st.undo) /\ IsSeq(st.redo) /\ Len(st.undo) <= UndoCap /\ Len(st.redo) <= UndoCap

(* A turn is an edit of one sketch, sent once or twice.                    *)
TurnIs(t) ==
    \/ t = NoTurn
    \/ /\ DOMAIN t = {"v", "s", "fresh", "phase", "before", "want", "alt", "draft"}
       /\ t.s \in Sketches /\ t.phase \in {"try", "again"}

(* A snapshot an undo or a redo took off its stack still has room there.   *)
RoomIs(t, st) ==
    t # NoTurn /\ t.fresh =>
      /\ t.v.kind = "undo" => Len(st.undo) < UndoCap
      /\ t.v.kind = "redo" => Len(st.redo) < UndoCap

(* A drag is of an entity of the contents it began with.                   *)
DragIs(d) ==
    /\ DOMAIN d = {"phase", "e", "base", "up"} /\ d.phase \in {"no", "starting", "dragging"}
    /\ d # NoDrag => d.e \in DOMAIN d.base

(* An answer names the sketches it is about.                               *)
AnswerKind(a) ==
    /\ {"kind"} \subseteq DOMAIN a
    /\ \/ a.kind \in {"upsert", "ended"}
       \/ a.kind = "begun" /\ {"live"} \subseteq DOMAIN a
       \/ a.kind = "enter" /\ a.s \in Sketches
       \/ a.kind = "cancel" /\ a.s \in Sketches /\ a.then \in Names
       \/ a.kind = "finish" /\ a.then \in Names

(* The answer that a drag still waits for.                                 *)
Begun(a) == a.kind = "begun" /\ a.live

(* The answers under way: at most one is of an upsert, and only while a    *)
(* turn waits for it; at most one is of a gesture the drag still waits for. *)
Mail(q, t, d) ==
    /\ IsSeq(q) /\ \A i \in 1 .. Len(q) : AnswerKind(q[i])
    /\ \A i \in 1 .. Len(q) : q[i].kind = "upsert" => t # NoTurn
    /\ \A i, j \in 1 .. Len(q) : q[i].kind = "upsert" /\ q[j].kind = "upsert" => i = j
    /\ \A i \in 1 .. Len(q) : Begun(q[i]) => d.phase = "starting"
    /\ \A i, j \in 1 .. Len(q) : Begun(q[i]) /\ Begun(q[j]) => i = j

(* The first answer is heard.                                              *)
LEMMA MailTail ==
    ASSUME NEW q, NEW t, NEW d, Mail(q, t, d), q # <<>>,
           NEW t2, NEW d2, Head(q).kind # "upsert" /\ t # NoTurn => t2 # NoTurn,
           ~Begun(Head(q)) /\ d.phase = "starting" => d2.phase = "starting"
    PROVE  /\ AnswerKind(Head(q)) /\ Mail(Tail(q), t2, d2)
           /\ Head(q).kind = "upsert" => t # NoTurn
           /\ Begun(Head(q)) => d.phase = "starting"
<1>. DEFINE n == Len(q)  r == Tail(q)  h == Head(q)
<1>1. IsSeq(q) /\ n \in Nat /\ n # 0
  BY SeqIs DEF Mail
<1>2. h = q[1]
  OBVIOUS
<1>3. IsSeq(r) /\ Len(r) = n - 1 /\ \A i \in 1 .. n - 1 : r[i] = q[i + 1]
  BY <1>1, TailSeq
<1>4. /\ \A i \in 1 .. n : AnswerKind(q[i])
      /\ \A i \in 1 .. n : q[i].kind = "upsert" => t # NoTurn
      /\ \A i, j \in 1 .. n : q[i].kind = "upsert" /\ q[j].kind = "upsert" => i = j
      /\ \A i \in 1 .. n : Begun(q[i]) => d.phase = "starting"
      /\ \A i, j \in 1 .. n : Begun(q[i]) /\ Begun(q[j]) => i = j
  BY DEF Mail
<1>5. 1 \in 1 .. n /\ \A i \in 1 .. n - 1 : i + 1 \in 1 .. n /\ i + 1 # 1
  BY <1>1
<1>. HIDE DEF n, r, h
<1>6. /\ \A i \in 1 .. n - 1 : AnswerKind(r[i])
      /\ \A i \in 1 .. n - 1 : r[i].kind = "upsert" => t # NoTurn /\ h.kind # "upsert"
      /\ \A i \in 1 .. n - 1 : Begun(r[i]) => d.phase = "starting" /\ ~Begun(h)
  BY <1>2, <1>3, <1>4, <1>5
<1>7. \A i, j \in 1 .. n - 1 : r[i].kind = "upsert" /\ r[j].kind = "upsert" => i = j
  <2>1. SUFFICES ASSUME NEW i \in 1 .. n - 1, NEW j \in 1 .. n - 1, r[i].kind = "upsert", r[j].kind = "upsert"
                 PROVE  i = j
    OBVIOUS
  <2>2. i + 1 = j + 1
    BY <1>3, <1>4, <1>5, <2>1
  <2>. QED
    BY <2>2
<1>8. \A i, j \in 1 .. n - 1 : Begun(r[i]) /\ Begun(r[j]) => i = j
  <2>1. SUFFICES ASSUME NEW i \in 1 .. n - 1, NEW j \in 1 .. n - 1, Begun(r[i]), Begun(r[j])
                 PROVE  i = j
    OBVIOUS
  <2>2. i + 1 = j + 1
    BY <1>3, <1>4, <1>5, <2>1
  <2>. QED
    BY <2>2
<1>9. /\ h.kind # "upsert" /\ t # NoTurn => t2 # NoTurn
      /\ ~Begun(h) /\ d.phase = "starting" => d2.phase = "starting"
  BY DEF h
<1>10. Mail(r, t2, d2)
  BY <1>3, <1>6, <1>7, <1>8, <1>9 DEF Mail
<1>. QED
  BY <1>2, <1>4, <1>5, <1>10 DEF h, r

(* One more answer will come.                                              *)
LEMMA MailAppend ==
    ASSUME NEW q, NEW t, NEW d, Mail(q, t, d), NEW a, AnswerKind(a),
           a.kind = "upsert" => t = NoTurn, Begun(a) => d.phase # "starting",
           NEW t2, t # NoTurn \/ a.kind = "upsert" => t2 # NoTurn,
           NEW d2, d.phase = "starting" \/ Begun(a) => d2.phase = "starting"
    PROVE  Mail(Append(q, a), t2, d2)
<1>. DEFINE n == Len(q)  r == Append(q, a)
<1>1. IsSeq(q) /\ n \in Nat
  BY SeqIs DEF Mail
<1>2. IsSeq(r) /\ Len(r) = n + 1 /\ r[n + 1] = a /\ \A i \in 1 .. n : r[i] = q[i]
  BY <1>1, AppendSeq
<1>3. /\ \A i \in 1 .. n : AnswerKind(q[i])
      /\ \A i \in 1 .. n : q[i].kind = "upsert" => t # NoTurn
      /\ \A i, j \in 1 .. n : q[i].kind = "upsert" /\ q[j].kind = "upsert" => i = j
      /\ \A i \in 1 .. n : Begun(q[i]) => d.phase = "starting"
      /\ \A i, j \in 1 .. n : Begun(q[i]) /\ Begun(q[j]) => i = j
  BY DEF Mail
<1>4. \A i \in 1 .. n + 1 : i = n + 1 \/ i \in 1 .. n
  BY <1>1
<1>. HIDE DEF n, r
<1>5. \A i \in 1 .. n + 1 : AnswerKind(r[i])
  BY <1>2, <1>3, <1>4
<1>6. \A i \in 1 .. n + 1 : r[i].kind = "upsert" => t2 # NoTurn
  BY <1>2, <1>3, <1>4
<1>7. \A i, j \in 1 .. n + 1 : r[i].kind = "upsert" /\ r[j].kind = "upsert" => i = j
  BY <1>2, <1>3, <1>4
<1>8. \A i \in 1 .. n + 1 : Begun(r[i]) => d2.phase = "starting"
  BY <1>2, <1>3, <1>4
<1>9. \A i, j \in 1 .. n + 1 : Begun(r[i]) /\ Begun(r[j]) => i = j
  BY <1>2, <1>3, <1>4
<1>10. Mail(r, t2, d2)
  BY <1>2, <1>5, <1>6, <1>7, <1>8, <1>9 DEF Mail
<1>. QED
  BY <1>10 DEF r

(* What was captured earlier is dropped when it comes back.                *)
LEMMA MailSuperseded ==
    ASSUME NEW q, NEW t, NEW d, Mail(q, t, d)
    PROVE  Mail(Superseded(q), t, d)
<1>. DEFINE n == Len(q)  r == Superseded(q)
<1>1. IsSeq(q) /\ n \in Nat /\ DOMAIN q = 1 .. n
  BY SeqIs DEF Mail
<1>2. /\ \A i \in 1 .. n : AnswerKind(q[i])
      /\ \A i \in 1 .. n : q[i].kind = "upsert" => t # NoTurn
      /\ \A i, j \in 1 .. n : q[i].kind = "upsert" /\ q[j].kind = "upsert" => i = j
      /\ \A i \in 1 .. n : Begun(q[i]) => d.phase = "starting"
      /\ \A i, j \in 1 .. n : Begun(q[i]) /\ Begun(q[j]) => i = j
  BY DEF Mail
<1>. HIDE DEF n
<1>3. /\ r = [i \in 1 .. n |-> IF q[i].kind = "ended" THEN [q[i] EXCEPT !.fresh = FALSE] ELSE q[i]]
      /\ \A i \in 1 .. n : r[i] = IF q[i].kind = "ended" THEN [q[i] EXCEPT !.fresh = FALSE] ELSE q[i]
  BY <1>1 DEF Superseded
<1>. HIDE DEF r
<1>4. IsSeq(r) /\ Len(r) = n
  <2>1. DOMAIN r = 1 .. n /\ r = [i \in 1 .. n |-> r[i]]
    BY <1>3
  <2>. QED
    BY <1>1, <2>1, FunctionSeq
<1>5. ASSUME NEW i \in 1 .. n
      PROVE  /\ AnswerKind(r[i]) /\ r[i].kind = q[i].kind
             /\ Begun(r[i]) <=> Begun(q[i])
  <2>1. CASE q[i].kind = "ended"
    <3>1. r[i] = [q[i] EXCEPT !.fresh = FALSE] /\ {"kind"} \subseteq DOMAIN q[i]
      BY <1>2, <1>3, <2>1 DEF AnswerKind
    <3>2. r[i].kind = q[i].kind /\ {"kind"} \subseteq DOMAIN r[i]
      BY <3>1
    <3>. QED
      BY <2>1, <3>2 DEF AnswerKind, Begun
  <2>2. CASE q[i].kind # "ended"
    BY <1>2, <1>3, <2>2
  <2>. QED
    BY <2>1, <2>2
<1>6. Mail(r, t, d)
  BY <1>2, <1>4, <1>5 DEF Mail
<1>. QED
  BY <1>6 DEF r

(* Nobody waits any more for the gesture to begin.                         *)
LEMMA MailForgotten ==
    ASSUME NEW q, NEW t, NEW d, Mail(q, t, d), NEW d2
    PROVE  Mail(Forgotten(q), t, d2)
<1>. DEFINE n == Len(q)  r == Forgotten(q)
<1>1. IsSeq(q) /\ n \in Nat /\ DOMAIN q = 1 .. n
  BY SeqIs DEF Mail
<1>2. /\ \A i \in 1 .. n : AnswerKind(q[i])
      /\ \A i \in 1 .. n : q[i].kind = "upsert" => t # NoTurn
      /\ \A i, j \in 1 .. n : q[i].kind = "upsert" /\ q[j].kind = "upsert" => i = j
  BY DEF Mail
<1>. HIDE DEF n
<1>3. /\ r = [i \in 1 .. n |-> IF q[i].kind = "begun" THEN [q[i] EXCEPT !.live = FALSE] ELSE q[i]]
      /\ \A i \in 1 .. n : r[i] = IF q[i].kind = "begun" THEN [q[i] EXCEPT !.live = FALSE] ELSE q[i]
  BY <1>1 DEF Forgotten
<1>. HIDE DEF r
<1>4. IsSeq(r) /\ Len(r) = n
  <2>1. DOMAIN r = 1 .. n /\ r = [i \in 1 .. n |-> r[i]]
    BY <1>3
  <2>. QED
    BY <1>1, <2>1, FunctionSeq
<1>5. ASSUME NEW i \in 1 .. n
      PROVE  AnswerKind(r[i]) /\ r[i].kind = q[i].kind /\ ~Begun(r[i])
  <2>1. CASE q[i].kind = "begun"
    <3>1. r[i] = [q[i] EXCEPT !.live = FALSE] /\ {"kind"} \subseteq DOMAIN q[i] /\ {"live"} \subseteq DOMAIN q[i]
      BY <1>2, <1>3, <2>1 DEF AnswerKind
    <3>2. r[i].kind = q[i].kind /\ r[i].live = FALSE /\ {"kind"} \subseteq DOMAIN r[i] /\ {"live"} \subseteq DOMAIN r[i]
      BY <3>1
    <3>. QED
      BY <2>1, <3>2 DEF AnswerKind, Begun
  <2>2. CASE q[i].kind # "begun"
    BY <1>2, <1>3, <2>2 DEF Begun
  <2>. QED
    BY <2>1, <2>2
<1>6. Mail(r, t, d2)
  BY <1>2, <1>4, <1>5 DEF Mail
<1>. QED
  BY <1>6 DEF r

(* A stack of snapshots stays within its cap.                              *)
LEMMA CappedSeq ==
    ASSUME NEW q, IsSeq(q), Len(q) <= UndoCap, NEW e
    PROVE  IsSeq(Capped(Append(q, e))) /\ Len(Capped(Append(q, e))) <= UndoCap
<1>. DEFINE n == Len(q)  w == Append(q, e)
<1>1. n \in Nat /\ UndoCap \in Nat
  BY SketchBounds, SeqIs
<1>2. IsSeq(w) /\ Len(w) = n + 1
  BY AppendSeq
<1>3. n <= UndoCap
  OBVIOUS
<1>. HIDE DEF n, w
<1>4. CASE Len(w) > UndoCap
  <2>1. w # <<>>
    BY <1>1, <1>2, NoSeq
  <2>2. IsSeq(Tail(w)) /\ Len(Tail(w)) = Len(w) - 1
    BY <1>2, <2>1, TailSeq
  <2>3. Len(Tail(w)) <= UndoCap
    BY <1>1, <1>2, <1>3, <2>2
  <2>. QED
    BY <1>4, <2>2, <2>3 DEF Capped, w
<1>5. CASE ~(Len(w) > UndoCap)
  <2>1. Len(w) <= UndoCap
    BY <1>1, <1>2, <1>5
  <2>. QED
    BY <1>2, <1>5, <2>1 DEF Capped, w
<1>. QED
  BY <1>4, <1>5

(* A stack of snapshots without its last.                                  *)
LEMMA FrontSeq ==
    ASSUME NEW q, IsSeq(q)
    PROVE  /\ IsSeq(Front1(q)) /\ Len(Front1(q)) \in Nat /\ Len(q) \in Nat /\ Len(Front1(q)) <= Len(q)
           /\ q # <<>> => Len(Front1(q)) < Len(q)
<1>. DEFINE n == Len(q)  v == Front1(q)
<1>1. n \in Nat /\ (q = <<>> <=> n = 0)
  BY SeqIs
<1>2. CASE q = <<>>
  <2>1. q \in Seq({}) /\ Len(q) = 0
    BY <1>2, EmptySeq
  <2>2. v = SubSeq(q, 1, 0 - 1)
    BY <2>1 DEF Front1
  <2>3. 1 \in Int /\ 0 - 1 \in Int /\ \A i \in 1 .. 0 - 1 : q[i] \in {}
    OBVIOUS
  <2>4. v \in Seq({}) /\ Len(v) = IF 1 <= 0 - 1 THEN 0 - 1 - 1 + 1 ELSE 0
    BY <2>2, <2>3, SubSeqProperties
  <2>5. Len(v) = 0
    BY <2>4
  <2>. HIDE DEF v
  <2>6. IsSeq(v) /\ Len(v) \in Nat /\ Len(q) \in Nat /\ Len(v) <= Len(q)
    BY <2>1, <2>4, <2>5 DEF IsSeq
  <2>. QED
    BY <1>2, <2>6 DEF v
<1>3. CASE q # <<>>
  <2>1. n - 1 \in 0 .. n
    BY <1>1, <1>3
  <2>2. IsSeq(v) /\ Len(v) = n - 1
    BY <2>1, CutSeq DEF Front1
  <2>. HIDE DEF v, n
  <2>3. Len(v) \in Nat /\ n \in Nat /\ Len(v) <= n /\ Len(v) < n
    BY <1>1, <2>1, <2>2
  <2>. QED
    BY <2>2, <2>3 DEF v, n
<1>. QED
  BY <1>2, <1>3

(* An undo takes its snapshot off the stack.                               *)
LEMMA PopUndoOK ==
    ASSUME NEW st, StoreIs(st), st.undo # <<>>
    PROVE  StoreIs(PopUndo(st)) /\ PopUndo(st).s = st.s /\ Len(PopUndo(st).undo) < UndoCap
<1>. DEFINE r == PopUndo(st)  u == st.undo  d == st.redo
<1>1. /\ DOMAIN st = {"s", "c", "undo", "redo", "last"} /\ st.s \in Names
      /\ IsSeq(u) /\ IsSeq(d) /\ Len(u) <= UndoCap /\ Len(d) <= UndoCap /\ u # <<>>
  BY DEF StoreIs
<1>2. DOMAIN r = DOMAIN st /\ r.s = st.s /\ r.undo = Front1(u) /\ r.redo = Capped(Append(d, st.c))
  BY <1>1 DEF PopUndo
<1>. HIDE DEF r, u, d
<1>3. IsSeq(Front1(u)) /\ Len(Front1(u)) \in Nat /\ Len(u) \in Nat /\ Len(Front1(u)) < Len(u)
  BY <1>1, FrontSeq
<1>4. Len(Front1(u)) <= UndoCap /\ Len(Front1(u)) < UndoCap
  BY <1>1, <1>3, SketchBounds
<1>5. IsSeq(Capped(Append(d, st.c))) /\ Len(Capped(Append(d, st.c))) <= UndoCap
  BY <1>1, CappedSeq
<1>6. StoreIs(r)
  BY <1>1, <1>2, <1>3, <1>4, <1>5 DEF StoreIs
<1>. QED
  BY <1>2, <1>4, <1>6 DEF r

(* A redo takes its snapshot off the other.                                *)
LEMMA PopRedoOK ==
    ASSUME NEW st, StoreIs(st), st.redo # <<>>
    PROVE  StoreIs(PopRedo(st)) /\ PopRedo(st).s = st.s /\ Len(PopRedo(st).redo) < UndoCap
<1>. DEFINE r == PopRedo(st)  u == st.undo  d == st.redo
<1>1. /\ DOMAIN st = {"s", "c", "undo", "redo", "last"} /\ st.s \in Names
      /\ IsSeq(u) /\ IsSeq(d) /\ Len(u) <= UndoCap /\ Len(d) <= UndoCap /\ d # <<>>
  BY DEF StoreIs
<1>2. DOMAIN r = DOMAIN st /\ r.s = st.s /\ r.redo = Front1(d) /\ r.undo = Capped(Append(u, st.c))
  BY <1>1 DEF PopRedo
<1>. HIDE DEF r, u, d
<1>3. IsSeq(Front1(d)) /\ Len(Front1(d)) \in Nat /\ Len(d) \in Nat /\ Len(Front1(d)) < Len(d)
  BY <1>1, FrontSeq
<1>4. Len(Front1(d)) <= UndoCap /\ Len(Front1(d)) < UndoCap
  BY <1>1, <1>3, SketchBounds
<1>5. IsSeq(Capped(Append(u, st.c))) /\ Len(Capped(Append(u, st.c))) <= UndoCap
  BY <1>1, CappedSeq
<1>6. StoreIs(r)
  BY <1>1, <1>2, <1>3, <1>4, <1>5 DEF StoreIs
<1>. QED
  BY <1>2, <1>4, <1>6 DEF r

(* A confirmed edit's snapshot.                                            *)
LEMMA PushedOK ==
    ASSUME NEW st, StoreIs(st), NEW before, NEW last
    PROVE  StoreIs(Pushed(st, before, last)) /\ Pushed(st, before, last).s = st.s
<1>. DEFINE w == Capped(Append(st.undo, before))
            r == [st EXCEPT !.undo = Capped(Append(@, before)), !.redo = <<>>, !.last = last]
<1>1. /\ DOMAIN st = {"s", "c", "undo", "redo", "last"} /\ st.s \in Names /\ IsSeq(st.undo) /\ Len(st.undo) <= UndoCap
  BY DEF StoreIs
<1>2. DOMAIN r = DOMAIN st /\ r.s = st.s /\ r.undo = w /\ r.redo = <<>>
  BY <1>1
<1>3. IsSeq(w) /\ Len(w) <= UndoCap
  BY <1>1, CappedSeq
<1>4. Pushed(st, before, last) \in {st, r}
  BY DEF Pushed
<1>. HIDE DEF w, r
<1>5. StoreIs(r)
  BY <1>1, <1>2, <1>3, NoSeq, SketchBounds DEF StoreIs
<1>. QED
  BY <1>2, <1>4, <1>5

(* A failed undo or redo puts its snapshot back, where there is room.      *)
LEMMA UnpoppedOK ==
    ASSUME NEW st, StoreIs(st), NEW t, RoomIs(t, st), t # NoTurn, t.fresh
    PROVE  StoreIs(Unpopped(st, t))
<1>1. /\ DOMAIN st = {"s", "c", "undo", "redo", "last"} /\ st.s \in Names
      /\ IsSeq(st.undo) /\ IsSeq(st.redo) /\ Len(st.undo) <= UndoCap /\ Len(st.redo) <= UndoCap
      /\ UndoCap \in Nat
  BY SketchBounds DEF StoreIs
<1>. DEFINE u == st.undo  d == st.redo
<1>2. Len(u) \in Nat /\ Len(d) \in Nat
  BY <1>1, SeqIs
<1>3. CASE t.v.kind = "undo"
  <2>. DEFINE r == [st EXCEPT !.redo = Front1(@), !.undo = Append(@, t.want)]
  <2>1. Unpopped(st, t) = r
    BY <1>3 DEF Unpopped
  <2>2. DOMAIN r = DOMAIN st /\ r.s = st.s /\ r.undo = Append(u, t.want) /\ r.redo = Front1(d)
    BY <1>1
  <2>. HIDE DEF r
  <2>3. Len(u) < UndoCap
    BY <1>3 DEF RoomIs
  <2>4. IsSeq(Append(u, t.want)) /\ Len(Append(u, t.want)) = Len(u) + 1
    BY <1>1, AppendSeq
  <2>5. IsSeq(Front1(d)) /\ Len(Front1(d)) \in Nat /\ Len(Front1(d)) <= Len(d)
    BY <1>1, FrontSeq
  <2>6. Len(d) <= UndoCap
    BY <1>1
  <2>. HIDE DEF u, d
  <2>7. Len(Append(u, t.want)) <= UndoCap /\ Len(Front1(d)) <= UndoCap
    BY <1>1, <1>2, <2>3, <2>4, <2>5, <2>6
  <2>. QED
    BY <1>1, <2>1, <2>2, <2>4, <2>5, <2>7 DEF StoreIs
<1>4. CASE t.v.kind = "redo"
  <2>. DEFINE r == [st EXCEPT !.undo = Front1(@), !.redo = Append(@, t.want)]
  <2>1. Unpopped(st, t) = r
    BY <1>4 DEF Unpopped
  <2>2. DOMAIN r = DOMAIN st /\ r.s = st.s /\ r.redo = Append(d, t.want) /\ r.undo = Front1(u)
    BY <1>1
  <2>. HIDE DEF r
  <2>3. Len(d) < UndoCap
    BY <1>4 DEF RoomIs
  <2>4. IsSeq(Append(d, t.want)) /\ Len(Append(d, t.want)) = Len(d) + 1
    BY <1>1, AppendSeq
  <2>5. IsSeq(Front1(u)) /\ Len(Front1(u)) \in Nat /\ Len(Front1(u)) <= Len(u)
    BY <1>1, FrontSeq
  <2>6. Len(u) <= UndoCap
    BY <1>1
  <2>. HIDE DEF u, d
  <2>7. Len(Append(d, t.want)) <= UndoCap /\ Len(Front1(u)) <= UndoCap
    BY <1>1, <1>2, <2>3, <2>4, <2>5, <2>6
  <2>. QED
    BY <1>1, <2>1, <2>2, <2>4, <2>5, <2>7 DEF StoreIs
<1>5. CASE t.v.kind # "undo" /\ t.v.kind # "redo"
  BY <1>5 DEF Unpopped
<1>. QED
  BY <1>3, <1>4, <1>5

(* New contents on screen.                                                 *)
LEMMA ShownOK ==
    ASSUME NEW st, StoreIs(st), NEW c
    PROVE  StoreIs([st EXCEPT !.c = c])
<1>. DEFINE r == [st EXCEPT !.c = c]
<1>1. DOMAIN r = DOMAIN st /\ r.s = st.s /\ r.undo = st.undo /\ r.redo = st.redo
  BY DEF StoreIs
<1>. HIDE DEF r
<1>2. StoreIs(r)
  BY <1>1 DEF StoreIs
<1>. QED
  BY <1>2 DEF r

(* A confirmed edit is shown.                                              *)
LEMMA PublishedOK ==
    ASSUME NEW st, StoreIs(st), NEW t
    PROVE  StoreIs(Published(st, t))
<1>1. CASE t.v.kind \in {"undo", "redo"}
  <2>1. StoreIs([st EXCEPT !.c = t.want])
    BY ShownOK
  <2>. QED
    BY <1>1, <2>1 DEF Published
<1>2. CASE t.v.kind = "dim" /\ t.phase = "again"
  BY <1>2 DEF Published
<1>3. CASE ~(t.v.kind \in {"undo", "redo"}) /\ ~(t.v.kind = "dim" /\ t.phase = "again")
  <2>. DEFINE last == IF t.v.kind = "value" THEN t.v.on ELSE 0
              p == Pushed(st, t.before, last)
              c == IF t.phase = "again" THEN t.alt ELSE t.want
  <2>1. Published(st, t) = [p EXCEPT !.c = c]
    BY <1>3 DEF Published
  <2>2. StoreIs(p)
    BY PushedOK
  <2>. HIDE DEF p, c
  <2>3. StoreIs([p EXCEPT !.c = c])
    BY <2>2, ShownOK
  <2>. QED
    BY <2>1, <2>3
<1>. QED
  BY <1>1, <1>2, <1>3

(* A turn whose session is gone.                                           *)
LEMMA StaleOK ==
    ASSUME NEW t, TurnIs(t), NEW st
    PROVE  /\ TurnIs(Stale(t)) /\ RoomIs(Stale(t), st)
           /\ Stale(t) # NoTurn <=> t # NoTurn
           /\ Stale(t) # NoTurn => Stale(t).fresh = FALSE
<1>1. CASE t = NoTurn
  BY <1>1 DEF Stale, TurnIs, RoomIs
<1>2. CASE t # NoTurn
  <2>1. /\ DOMAIN t = {"v", "s", "fresh", "phase", "before", "want", "alt", "draft"}
        /\ t.s \in Sketches /\ t.phase \in {"try", "again"}
    BY <1>2 DEF TurnIs
  <2>. DEFINE r == [t EXCEPT !.fresh = FALSE]
  <2>2. Stale(t) = r
    BY <1>2 DEF Stale
  <2>3. DOMAIN r = DOMAIN t /\ r.fresh = FALSE /\ r.s = t.s /\ r.phase = t.phase
    BY <2>1
  <2>. HIDE DEF r
  <2>4. r # NoTurn
    <3>1. "s" \notin DOMAIN NoTurn /\ "s" \in DOMAIN r
      BY <2>1, <2>3 DEF NoTurn
    <3>. QED
      BY <3>1
  <2>5. TurnIs(r) /\ RoomIs(r, st)
    BY <2>1, <2>3 DEF TurnIs, RoomIs
  <2>. QED
    BY <1>2, <2>2, <2>3, <2>4, <2>5
<1>. QED
  BY <1>1, <1>2

(* The closed session.                                                     *)
LEMMA ClosedOK == StoreIs(Closed)
<1>. DEFINE st == Closed
<1>1. DOMAIN st = {"s", "c", "undo", "redo", "last"} /\ st.s = None /\ st.undo = <<>> /\ st.redo = <<>>
  BY DEF Closed
<1>. HIDE DEF st
<1>2. StoreIs(st)
  BY <1>1, NoSeq, SketchBounds DEF StoreIs, Names
<1>. QED
  BY <1>2 DEF st

-----------------------------------------------------------------------------
(* The inductive invariant, and each action in turn.                       *)

(* The runtime is in order, the frontend keeps its parts, and the answers  *)
(* under way are those that somebody waits for.                            *)
SketchInv ==
    /\ BeOK(be) /\ LaneIs(lane) /\ StoreIs(store) /\ TurnIs(turn) /\ RoomIs(turn, store) /\ DragIs(drag)
    /\ Mail(answers, turn, drag)
    /\ IsSeq(queue) /\ Len(queue) <= MaxQueue

(* The contents of a turn are sent.                                        *)
LEMMA SendUpsertOK ==
    ASSUME BeOK(be), NEW t, t # NoTurn, TurnIs(t), NEW m, NEW w, NEW n, NEW as, NEW d,
           Mail(as, NoTurn, d), SendUpsert(t, m, w, n, as)
    PROVE  /\ BeOK(be') /\ TurnIs(turn') /\ turn' # NoTurn /\ turn'.v = t.v
           /\ turn'.s = t.s /\ Mail(answers', turn', d)
<1>. DEFINE draft == Marshalled(m, w, n)
            after == Applied(be.doc[t.s], m, w, draft)
            edited == SketchEdit(be, t.s, "edit", after)
            next == [t EXCEPT !.draft = draft]
<1>1. /\ DOMAIN t = {"v", "s", "fresh", "phase", "before", "want", "alt", "draft"}
      /\ t.s \in Sketches /\ t.phase \in {"try", "again"}
  BY DEF TurnIs
<1>2. PICK out \in Outcomes(t.phase) :
        /\ be' = IF out = "refused" \/ after = be.doc[t.s] THEN be ELSE edited
        /\ answers' = Append(as, [kind |-> "upsert", ok |-> out = "ok", conflict |-> Conflicts(after)])
        /\ turn' = next
  BY DEF SendUpsert
<1>3. DOMAIN next = DOMAIN t /\ next.s = t.s /\ next.phase = t.phase /\ next.v = t.v
  BY <1>1
<1>. DEFINE a == [kind |-> "upsert", ok |-> out = "ok", conflict |-> Conflicts(after)]
<1>4. AnswerKind(a) /\ a.kind = "upsert" /\ ~Begun(a)
  BY DEF AnswerKind, Begun
<1>. HIDE DEF draft, after, a, next
<1>5. BeOK(edited)
  BY <1>1, EditOK
<1>. HIDE DEF edited
<1>6. BeOK(be')
  BY <1>2, <1>5
<1>7. next # NoTurn
  <2>1. "s" \notin DOMAIN NoTurn /\ "s" \in DOMAIN next
    BY <1>1, <1>3 DEF NoTurn
  <2>. QED
    BY <2>1
<1>8. TurnIs(next)
  BY <1>1, <1>3 DEF TurnIs
<1>9. Mail(Append(as, a), next, d)
  BY <1>4, <1>7, MailAppend
<1>. QED
  BY <1>2, <1>3, <1>6, <1>7, <1>8, <1>9 DEF a

(* A sketch is entered.                                                    *)
LEMMA SendEnterOK ==
    ASSUME BeOK(be), NEW s \in Sketches, NEW as, NEW t, NEW d, Mail(as, t, d), SendEnter(s, as)
    PROVE  BeOK(be') /\ Mail(answers', t, d)
<1>1. PICK ok \in BOOLEAN :
        /\ be' = IF ok THEN EnterSketch(be, s) ELSE be
        /\ answers' = Append(as, [kind |-> "enter", s |-> s, ok |-> ok, c |-> be.doc[s]])
  BY DEF SendEnter
<1>. DEFINE a == [kind |-> "enter", s |-> s, ok |-> ok, c |-> be.doc[s]]
<1>2. AnswerKind(a) /\ a.kind # "upsert" /\ ~Begun(a)
  BY DEF AnswerKind, Begun
<1>. HIDE DEF a
<1>4. Mail(Append(as, a), t, d)
  BY <1>2, MailAppend
<1>5. BeOK(EnterSketch(be, s))
  BY EnterOK
<1>. QED
  BY <1>1, <1>4, <1>5 DEF a

(* The session and all that came from it are dropped.                      *)
LEMMA TearDownOK ==
    ASSUME TurnIs(turn), NEW as, NEW d, Mail(as, turn, d), TearDown(as)
    PROVE  /\ StoreIs(store') /\ TurnIs(turn') /\ RoomIs(turn', store') /\ DragIs(drag')
           /\ Mail(answers', turn', drag')
<1>1. drag' = NoDrag /\ store' = Closed /\ turn' = Stale(turn) /\ answers' = Superseded(Forgotten(as))
  BY DEF TearDown
<1>2. TurnIs(turn') /\ RoomIs(turn', store') /\ (turn' # NoTurn <=> turn # NoTurn)
  BY <1>1, StaleOK
<1>3. Mail(Forgotten(as), turn, drag')
  BY MailForgotten
<1>4. Mail(Superseded(Forgotten(as)), turn, drag')
  BY <1>3, MailSuperseded
<1>5. Mail(Superseded(Forgotten(as)), turn', drag')
  BY <1>2, <1>4 DEF Mail
<1>6. DragIs(drag')
  BY <1>1 DEF DragIs, NoDrag
<1>. QED
  BY <1>1, <1>2, <1>5, <1>6, ClosedOK

(* A drag is over; the runtime is told.                                    *)
LEMMA FinishDragOK ==
    ASSUME BeOK(be), NEW as, NEW t, NEW d, Mail(as, t, d), d.phase # "starting",
           NEW to, NEW restore, FinishDrag(as, to, restore)
    PROVE  BeOK(be') /\ DragIs(drag') /\ Mail(answers', t, drag')
<1>. DEFINE a == [kind |-> "ended", ok |-> be.gesture # <<>>, fresh |-> TRUE, e |-> drag.e,
                  base |-> drag.base, before |-> store.c, to |-> to, restore |-> restore]
<1>1. be' = EndGesture(be, to) /\ answers' = Append(as, a) /\ drag' = NoDrag
  BY DEF FinishDrag
<1>2. AnswerKind(a) /\ a.kind # "upsert" /\ ~Begun(a)
  BY DEF AnswerKind, Begun
<1>. HIDE DEF a
<1>3. Mail(Append(as, a), t, drag')
  BY <1>2, MailAppend
<1>4. DragIs(drag')
  BY <1>1 DEF DragIs, NoDrag
<1>. QED
  BY <1>1, <1>3, <1>4, EndOK

(* The user asks for an edit.                                              *)
LEMMA ClickOK ==
    ASSUME SketchInv, NEW v, Click(v)
    PROVE  SketchInv'
<1>1. /\ Len(queue) < MaxQueue /\ queue' = Append(queue, v)
      /\ lane' = lane /\ store' = store /\ turn' = turn /\ drag' = drag /\ answers' = answers /\ be' = be
  BY DEF Click
<1>2. IsSeq(queue) /\ Len(queue) \in Nat /\ MaxQueue \in Nat
  BY SeqIs, SketchBounds DEF SketchInv
<1>3. IsSeq(queue') /\ Len(queue') = Len(queue) + 1
  BY <1>1, <1>2, AppendSeq
<1>4. Len(queue') <= MaxQueue
  BY <1>1, <1>2, <1>3
<1>. QED
  BY <1>1, <1>3, <1>4 DEF SketchInv

(* The next edit reads the session, and sends what it asks for.            *)
LEMMA StartTurnOK ==
    ASSUME SketchInv, StartTurn
    PROVE  SketchInv'
<1>. DEFINE v == Head(queue)  want == Wanted(v, store, ids)
            opened == [v |-> v, s |-> store.s, fresh |-> TRUE, phase |-> "try", before |-> store.c,
                       want |-> want, alt |-> Fallback(v, store, want, ids), draft |-> NoMap]
<1>1. /\ Due /\ queue' = Tail(queue) /\ lane' = lane /\ drag' = drag
      /\ IF store.s = None \/ ~Applies(v, store)
         THEN UNCHANGED <<store, turn, answers, be, ids>>
         ELSE /\ store' = CASE v.kind = "undo" -> PopUndo(store)
                            [] v.kind = "redo" -> PopRedo(store)
                            [] OTHER -> store
              /\ SendUpsert(opened, maps[store.s], want, ids + 3, answers)
  BY DEF StartTurn
<1>2. turn = NoTurn /\ queue # <<>> /\ IsSeq(queue) /\ Len(queue) \in Nat /\ MaxQueue \in Nat /\ Len(queue) <= MaxQueue
  BY <1>1, SeqIs, SketchBounds DEF Due, SketchInv
<1>3. IsSeq(queue') /\ Len(queue') = Len(queue) - 1
  BY <1>1, <1>2, TailSeq
<1>4. Len(queue') <= MaxQueue
  BY <1>2, <1>3
<1>5. CASE store.s = None \/ ~Applies(v, store)
  BY <1>1, <1>3, <1>4, <1>5 DEF SketchInv
<1>6. CASE ~(store.s = None \/ ~Applies(v, store))
  <2>1. /\ DOMAIN opened = {"v", "s", "fresh", "phase", "before", "want", "alt", "draft"}
        /\ opened.s = store.s /\ opened.phase = "try" /\ opened.v = v
    OBVIOUS
  <2>2. StoreIs(store) /\ BeOK(be) /\ Mail(answers, NoTurn, drag) /\ store.s \in Sketches
    BY <1>2, <1>6 DEF SketchInv, StoreIs, Names
  <2>3. SendUpsert(opened, maps[store.s], want, ids + 3, answers)
    BY <1>1, <1>6
  <2>4. store' = CASE v.kind = "undo" -> PopUndo(store)
                   [] v.kind = "redo" -> PopRedo(store)
                   [] OTHER -> store
    BY <1>1, <1>6
  <2>5. (v.kind = "undo" => store.undo # <<>>) /\ (v.kind = "redo" => store.redo # <<>>)
    BY <1>6 DEF Applies
  <2>. HIDE DEF opened, v, want
  <2>6. opened # NoTurn
    <3>1. "s" \notin DOMAIN NoTurn /\ "s" \in DOMAIN opened
      BY <2>1 DEF NoTurn
    <3>. QED
      BY <3>1
  <2>7. TurnIs(opened)
    BY <2>1, <2>2 DEF TurnIs
  <2>9. /\ BeOK(be') /\ TurnIs(turn') /\ turn' # NoTurn /\ turn'.v = opened.v
        /\ Mail(answers', turn', drag)
    BY <2>2, <2>3, <2>6, <2>7, SendUpsertOK
  <2>10. StoreIs(store') /\ RoomIs(turn', store')
    <3>1. CASE v.kind = "undo"
      <4>1. store' = PopUndo(store)
        BY <2>4, <3>1
      <4>2. StoreIs(store') /\ Len(store'.undo) < UndoCap
        BY <2>2, <2>5, <3>1, <4>1, PopUndoOK
      <4>. QED
        BY <2>1, <2>9, <3>1, <4>2 DEF RoomIs
    <3>2. CASE v.kind = "redo"
      <4>1. store' = PopRedo(store)
        BY <2>4, <3>2
      <4>2. StoreIs(store') /\ Len(store'.redo) < UndoCap
        BY <2>2, <2>5, <3>2, <4>1, PopRedoOK
      <4>. QED
        BY <2>1, <2>9, <3>2, <4>2 DEF RoomIs
    <3>3. CASE v.kind # "undo" /\ v.kind # "redo"
      <4>1. store' = store
        BY <2>4, <3>3
      <4>. QED
        BY <2>1, <2>2, <2>9, <3>3, <4>1 DEF RoomIs
    <3>. QED
      BY <3>1, <3>2, <3>3
  <2>11. LaneIs(lane') /\ DragIs(drag') /\ Mail(answers', turn', drag')
    BY <1>1, <2>9 DEF SketchInv
  <2>. QED
    BY <1>3, <1>4, <2>9, <2>10, <2>11 DEF SketchInv
<1>. QED
  BY <1>5, <1>6

(* The answer of the edit whose turn it is.                                *)
LEMMA TurnAnsweredOK ==
    ASSUME SketchInv, TurnAnswered
    PROVE  SketchInv'
<1>. DEFINE a == Head(answers)  rest == Tail(answers)  again == [turn EXCEPT !.phase = "again"]
<1>1. /\ answers # <<>> /\ a.kind = "upsert" /\ lane' = lane /\ queue' = queue /\ drag' = drag
      /\ IF turn.fresh /\ Retried(turn, a)
         THEN /\ SendUpsert(again, turn.draft, turn.alt, ids, rest)
              /\ UNCHANGED store
         ELSE /\ store' = IF ~turn.fresh THEN store
                          ELSE IF a.ok THEN Published(store, turn) ELSE Unpopped(store, turn)
              /\ answers' = IF turn.fresh /\ a.ok THEN Superseded(rest) ELSE rest
              /\ turn' = NoTurn
              /\ be' = be
  BY DEF TurnAnswered, Heard
<1>2. /\ BeOK(be) /\ StoreIs(store) /\ TurnIs(turn) /\ RoomIs(turn, store)
      /\ LaneIs(lane') /\ DragIs(drag') /\ IsSeq(queue') /\ Len(queue') <= MaxQueue
      /\ Mail(answers, turn, drag)
  BY <1>1 DEF SketchInv
<1>3. Mail(rest, NoTurn, drag) /\ turn # NoTurn
  BY <1>1, <1>2, MailTail
<1>4. CASE turn.fresh /\ Retried(turn, a)
  <2>1. /\ DOMAIN turn = {"v", "s", "fresh", "phase", "before", "want", "alt", "draft"}
        /\ turn.s \in Sketches
    BY <1>2, <1>3 DEF TurnIs
  <2>2. DOMAIN again = DOMAIN turn /\ again.s = turn.s /\ again.phase = "again" /\ again.v = turn.v
    BY <2>1
  <2>3. SendUpsert(again, turn.draft, turn.alt, ids, rest) /\ store' = store
    BY <1>1, <1>4
  <2>. HIDE DEF again, rest, a
  <2>4. again # NoTurn
    <3>1. "s" \notin DOMAIN NoTurn /\ "s" \in DOMAIN again
      BY <2>1, <2>2 DEF NoTurn
    <3>. QED
      BY <3>1
  <2>5. TurnIs(again)
    BY <2>1, <2>2 DEF TurnIs
  <2>6. /\ BeOK(be') /\ TurnIs(turn') /\ turn' # NoTurn /\ turn'.v = again.v
        /\ Mail(answers', turn', drag)
    BY <1>2, <1>3, <2>3, <2>4, <2>5, SendUpsertOK
  <2>7. RoomIs(turn', store')
    BY <1>2, <1>3, <1>4, <2>2, <2>3, <2>6 DEF RoomIs
  <2>8. StoreIs(store') /\ Mail(answers', turn', drag')
    BY <1>1, <1>2, <2>3, <2>6
  <2>. QED
    BY ONLY <1>2, <2>6, <2>7, <2>8 DEF SketchInv
<1>5. CASE ~(turn.fresh /\ Retried(turn, a))
  <2>1. /\ store' = IF ~turn.fresh THEN store ELSE IF a.ok THEN Published(store, turn) ELSE Unpopped(store, turn)
        /\ answers' = IF turn.fresh /\ a.ok THEN Superseded(rest) ELSE rest
        /\ turn' = NoTurn /\ be' = be /\ drag' = drag
    BY <1>1, <1>5
  <2>. HIDE DEF again, rest, a
  <2>2. StoreIs(store')
    <3>1. CASE ~turn.fresh
      BY <1>2, <2>1, <3>1
    <3>2. CASE turn.fresh
      <4>1. StoreIs(Published(store, turn))
        BY <1>2, PublishedOK
      <4>2. StoreIs(Unpopped(store, turn))
        BY <1>2, <1>3, <3>2, UnpoppedOK
      <4>. QED
        BY <2>1, <3>2, <4>1, <4>2
    <3>. QED
      BY <3>1, <3>2
  <2>3. Mail(answers', turn', drag')
    <3>1. Mail(Superseded(rest), NoTurn, drag)
      BY <1>3, MailSuperseded
    <3>. QED
      BY <1>3, <2>1, <3>1
  <2>4. TurnIs(turn') /\ RoomIs(turn', store') /\ BeOK(be')
    BY <1>2, <2>1 DEF TurnIs, RoomIs
  <2>. QED
    BY ONLY <1>2, <2>2, <2>3, <2>4 DEF SketchInv
<1>. QED
  BY <1>4, <1>5

(* A drag passes the threshold.                                            *)
LEMMA BeginSelectDragOK ==
    ASSUME SketchInv, NEW e \in DOMAIN store.c.ents, BeginSelectDrag(e)
    PROVE  SketchInv'
<1>. DEFINE a == [kind |-> "begun", live |-> TRUE]
            d == [phase |-> "starting", e |-> e, base |-> store.c.ents, up |-> <<>>]
<1>1. /\ store.s # None /\ drag = NoDrag /\ drag' = d
      /\ be' = BeginGesture(be, store.s, maps[store.s].ents[e].u) /\ answers' = Append(answers, a)
      /\ lane' = lane /\ store' = store /\ queue' = queue /\ turn' = turn
  BY DEF BeginSelectDrag
<1>2. store.s \in Sketches
  BY <1>1 DEF SketchInv, StoreIs, Names
<1>3. BeOK(be')
  BY <1>1, <1>2, BeginOK DEF SketchInv
<1>4. DOMAIN d = {"phase", "e", "base", "up"} /\ d.phase = "starting" /\ d.e \in DOMAIN d.base
  OBVIOUS
<1>5. AnswerKind(a) /\ a.kind # "upsert"
  BY DEF AnswerKind
<1>. HIDE DEF a, d
<1>6. DragIs(drag')
  BY <1>1, <1>4 DEF DragIs
<1>7. drag.phase # "starting" /\ Mail(answers, turn, drag)
  BY <1>1 DEF NoDrag, SketchInv
<1>8. Mail(Append(answers, a), turn, d)
  BY <1>4, <1>5, <1>7, MailAppend
<1>9. Mail(answers', turn', drag')
  BY <1>1, <1>8
<1>. QED
  BY <1>1, <1>3, <1>6, <1>9 DEF SketchInv

(* The gesture is open.                                                    *)
LEMMA DragBegunOK ==
    ASSUME SketchInv, DragBegun
    PROVE  SketchInv'
<1>. DEFINE a == Head(answers)  rest == Tail(answers)  went == [drag EXCEPT !.phase = "dragging"]
<1>1. /\ answers # <<>> /\ a.kind = "begun"
      /\ lane' = lane /\ store' = store /\ queue' = queue /\ turn' = turn
      /\ IF ~a.live
         THEN /\ be' = IF be.gesture = <<>> THEN be
                       ELSE EndGesture(be, Head(be.gesture).before.ents[Head(be.gesture).u].at)
              /\ answers' = rest /\ drag' = drag
         ELSE IF drag.up # <<>>
         THEN FinishDrag(rest, Head(drag.up).to, Head(drag.up).restore)
         ELSE drag' = went /\ answers' = rest /\ be' = be
  BY DEF DragBegun, Heard
<1>2. /\ BeOK(be) /\ DragIs(drag) /\ StoreIs(store) /\ TurnIs(turn) /\ RoomIs(turn, store)
      /\ LaneIs(lane) /\ IsSeq(queue) /\ Len(queue) <= MaxQueue
      /\ Mail(answers, turn, drag)
  BY DEF SketchInv
<1>3. CASE ~a.live
  <2>1. Mail(rest, turn, drag)
    BY <1>1, <1>2, MailTail
  <2>2. BeOK(be')
    <3>. DEFINE at == Head(be.gesture).before.ents[Head(be.gesture).u].at
    <3>1. be' \in {be, EndGesture(be, at)}
      BY <1>1, <1>3
    <3>. HIDE DEF at
    <3>2. BeOK(EndGesture(be, at))
      BY <1>2, EndOK
    <3>. QED
      BY <1>2, <3>1, <3>2
  <2>3. answers' = rest /\ drag' = drag
    BY <1>1, <1>3
  <2>. QED
    BY <1>1, <1>2, <2>1, <2>2, <2>3 DEF SketchInv
<1>4. CASE a.live
  <2>1. Begun(a)
    BY <1>1, <1>4 DEF Begun
  <2>2. NoDrag.phase # "starting"
    BY DEF NoDrag
  <2>3. Mail(rest, turn, NoDrag) /\ drag.phase = "starting"
    BY <1>1, <1>2, <2>1, MailTail
  <2>4. CASE drag.up # <<>>
    <3>. DEFINE to == Head(drag.up).to  restore == Head(drag.up).restore
    <3>1. FinishDrag(rest, to, restore)
      BY <1>1, <1>4, <2>4
    <3>. HIDE DEF rest, a, to, restore
    <3>2. BeOK(be') /\ DragIs(drag') /\ Mail(answers', turn, drag')
      BY <1>2, <2>2, <2>3, <3>1, FinishDragOK
    <3>. QED
      BY <1>1, <1>2, <3>2 DEF SketchInv
  <2>5. CASE ~(drag.up # <<>>)
    <3>1. drag' = went /\ answers' = rest /\ be' = be
      BY <1>1, <1>4, <2>5
    <3>2. drag # NoDrag
      BY <2>2, <2>3
    <3>3. DOMAIN went = DOMAIN drag /\ went.phase = "dragging" /\ went.e = drag.e /\ went.base = drag.base
      BY <1>2 DEF DragIs
    <3>. HIDE DEF went
    <3>4. DragIs(drag')
      BY <1>2, <3>1, <3>2, <3>3 DEF DragIs
    <3>5. Mail(rest, turn, drag')
      BY <2>2, <2>3 DEF Mail
    <3>. QED
      BY <1>1, <1>2, <3>1, <3>4, <3>5 DEF SketchInv
  <2>. QED
    BY <2>4, <2>5
<1>. QED
  BY <1>3, <1>4

(* The pointer is let go.                                                  *)
LEMMA PointerUpOK ==
    ASSUME SketchInv, NEW to, NEW restore, PointerUp(to, restore)
    PROVE  SketchInv'
<1>. DEFINE held == [drag EXCEPT !.up = <<[to |-> to, restore |-> restore]>>]
<1>1. /\ drag # NoDrag /\ lane' = lane /\ store' = store /\ queue' = queue /\ turn' = turn
      /\ IF drag.phase = "dragging" THEN FinishDrag(answers, to, restore)
         ELSE drag' = held /\ be' = be /\ answers' = answers
  BY DEF PointerUp
<1>2. /\ BeOK(be) /\ DragIs(drag) /\ StoreIs(store) /\ TurnIs(turn) /\ RoomIs(turn, store)
      /\ LaneIs(lane) /\ IsSeq(queue) /\ Len(queue) <= MaxQueue
      /\ Mail(answers, turn, drag)
  BY DEF SketchInv
<1>3. CASE drag.phase = "dragging"
  <2>1. FinishDrag(answers, to, restore) /\ drag.phase # "starting"
    BY <1>1, <1>3
  <2>2. BeOK(be') /\ DragIs(drag') /\ Mail(answers', turn, drag')
    BY <1>2, <2>1, FinishDragOK
  <2>. QED
    BY <1>1, <1>2, <2>2 DEF SketchInv
<1>4. CASE drag.phase # "dragging"
  <2>1. drag' = held /\ be' = be /\ answers' = answers
    BY <1>1, <1>4
  <2>2. DOMAIN held = DOMAIN drag /\ held.phase = drag.phase /\ held.e = drag.e /\ held.base = drag.base
    BY <1>2 DEF DragIs
  <2>. HIDE DEF held
  <2>3. DragIs(drag')
    BY <1>1, <1>2, <2>1, <2>2 DEF DragIs
  <2>4. Mail(answers, turn, drag')
    BY <1>2, <2>1, <2>2 DEF Mail
  <2>. QED
    BY <1>1, <1>2, <2>1, <2>3, <2>4 DEF SketchInv
<1>. QED
  BY <1>3, <1>4

(* The answer of a drag that is over.                                      *)
LEMMA DragEndedOK ==
    ASSUME SketchInv, DragEnded
    PROVE  SketchInv'
<1>. DEFINE a == Head(answers)  rest == Tail(answers)
            moved == [f \in DOMAIN a.base |->
              IF f = a.e /\ a.ok /\ ~a.restore THEN [a.base[f] EXCEPT !.at = a.to] ELSE a.base[f]]
            kept == IF a.restore THEN store ELSE Pushed(store, a.before, 0)
            c == [kept.c EXCEPT !.ents = moved]
            shown == [kept EXCEPT !.c = c]
<1>1. /\ answers # <<>> /\ a.kind = "ended" /\ lane' = lane /\ queue' = queue /\ drag' = drag /\ be' = be
      /\ IF ~a.fresh \/ store.s = None
         THEN answers' = rest /\ store' = store /\ turn' = turn
         ELSE /\ store' = [kept EXCEPT !.c.ents = moved]
              /\ answers' = Superseded(rest)
              /\ turn' = Stale(turn)
  BY DEF DragEnded, Heard
<1>2. /\ BeOK(be) /\ DragIs(drag) /\ StoreIs(store) /\ TurnIs(turn) /\ RoomIs(turn, store)
      /\ LaneIs(lane) /\ IsSeq(queue) /\ Len(queue) <= MaxQueue
      /\ Mail(answers, turn, drag)
  BY DEF SketchInv
<1>3. ~Begun(a) /\ a.kind # "upsert"
  BY <1>1 DEF Begun
<1>4. Mail(rest, turn, drag)
  BY <1>1, <1>2, <1>3, MailTail
<1>5. CASE ~a.fresh \/ store.s = None
  <2>1. answers' = rest /\ store' = store /\ turn' = turn
    BY <1>1, <1>5
  <2>. HIDE DEF a, rest
  <2>. QED
    BY <1>1, <1>2, <1>4, <2>1 DEF SketchInv
<1>6. CASE ~(~a.fresh \/ store.s = None)
  <2>1. store' = [kept EXCEPT !.c.ents = moved] /\ answers' = Superseded(rest) /\ turn' = Stale(turn)
    BY <1>1, <1>6
  <2>2. [kept EXCEPT !.c.ents = moved] = shown
    OBVIOUS
  <2>3. StoreIs(kept)
    BY <1>2, PushedOK
  <2>. HIDE DEF kept, c
  <2>4. StoreIs(shown)
    BY <2>3, ShownOK
  <2>. HIDE DEF a, rest, moved, shown
  <2>5. TurnIs(turn') /\ RoomIs(turn', store') /\ (turn' # NoTurn <=> turn # NoTurn)
    BY <1>2, <2>1, StaleOK
  <2>6. Mail(Superseded(rest), turn, drag)
    BY <1>4, MailSuperseded
  <2>7. Mail(answers', turn', drag')
    BY <1>1, <2>1, <2>5, <2>6 DEF Mail
  <2>. QED
    BY <1>1, <1>2, <2>1, <2>2, <2>4, <2>5, <2>7 DEF SketchInv
<1>. QED
  BY <1>5, <1>6

(* Another tool is picked.                                                 *)
LEMMA SwitchToolOK ==
    ASSUME SketchInv, SwitchTool
    PROVE  SketchInv'
<1>1. /\ drag' = NoDrag /\ answers' = Forgotten(answers)
      /\ lane' = lane /\ store' = store /\ queue' = queue /\ turn' = turn /\ be' = be
  BY DEF SwitchTool
<1>2. Mail(Forgotten(answers), turn, drag')
  BY MailForgotten DEF SketchInv
<1>3. DragIs(drag')
  BY <1>1 DEF DragIs, NoDrag
<1>. QED
  BY <1>1, <1>2, <1>3 DEF SketchInv

(* A sketch is asked for.                                                  *)
LEMMA EnterActOK ==
    ASSUME SketchInv, NEW s \in Sketches, Enter(s)
    PROVE  SketchInv'
<1>. DEFINE first == [lane EXCEPT !.mode = "sketch", !.target = s]
            later == [lane EXCEPT !.mode = "sketch", !.pending = s]
<1>1. /\ store' = store /\ queue' = queue /\ turn' = turn /\ drag' = drag
      /\ IF lane.target = None THEN lane' = first /\ SendEnter(s, answers)
         ELSE lane' = later /\ be' = be /\ answers' = answers
  BY DEF Enter
<1>2. LaneIs(first) /\ LaneIs(later)
  <2>1. LaneIs(lane) /\ s \in Names
    BY DEF SketchInv, Names
  <2>2. /\ DOMAIN first = DOMAIN lane /\ first.mode = "sketch" /\ first.target = s
        /\ first.pending = lane.pending /\ first.closing = lane.closing
    BY <2>1 DEF LaneIs
  <2>3. /\ DOMAIN later = DOMAIN lane /\ later.mode = "sketch" /\ later.pending = s
        /\ later.target = lane.target /\ later.closing = lane.closing
    BY <2>1 DEF LaneIs
  <2>. HIDE DEF first, later
  <2>. QED
    BY <2>1, <2>2, <2>3 DEF LaneIs
<1>. HIDE DEF first, later
<1>3. BeOK(be) /\ Mail(answers, turn, drag)
  BY DEF SketchInv
<1>4. SendEnter(s, answers) => BeOK(be') /\ Mail(answers', turn, drag)
  BY <1>3, SendEnterOK
<1>5. LaneIs(lane') /\ BeOK(be') /\ Mail(answers', turn', drag')
  BY <1>1, <1>2, <1>3, <1>4
<1>. QED
  BY <1>1, <1>5 DEF SketchInv

(* The answer of an entry.                                                 *)
LEMMA EnteredOK ==
    ASSUME SketchInv, Entered
    PROVE  SketchInv'
<1>. DEFINE a == Head(answers)  tail == Tail(answers)  rest == Superseded(Forgotten(tail))
            on == a.ok /\ lane.mode = "sketch"
            next == IF on /\ lane.pending \notin {None, a.s} THEN lane.pending ELSE None
            after == [mode |-> IF on THEN "sketch" ELSE "model", target |-> next, pending |-> None,
                      closing |-> IF next = None THEN None ELSE a.s]
            shown == [Closed EXCEPT !.s = a.s, !.c = a.c]
            cancel == [kind |-> "cancel", s |-> a.s, finish |-> FALSE, then |-> None]
<1>1. /\ answers # <<>> /\ a.kind = "enter" /\ queue' = queue /\ drag' = drag /\ lane' = after
      /\ store' = IF on /\ next = None THEN shown ELSE store
      /\ turn' = IF on THEN Stale(turn) ELSE turn
      /\ IF a.ok /\ ~on
         THEN be' = CancelSketch(be, a.s) /\ answers' = Append(tail, cancel)
         ELSE answers' = (IF on THEN rest ELSE tail) /\ be' = be
  BY DEF Entered, Heard
<1>2. /\ BeOK(be) /\ DragIs(drag) /\ StoreIs(store) /\ TurnIs(turn) /\ RoomIs(turn, store)
      /\ LaneIs(lane) /\ IsSeq(queue) /\ Len(queue) <= MaxQueue
      /\ Mail(answers, turn, drag)
  BY DEF SketchInv
<1>3. ~Begun(a) /\ a.kind # "upsert"
  BY <1>1 DEF Begun
<1>4. Mail(tail, turn, drag) /\ a.s \in Sketches
  <2>1. Mail(tail, turn, drag) /\ AnswerKind(a)
    BY <1>1, <1>2, <1>3, MailTail
  <2>. QED
    BY <1>1, <2>1 DEF AnswerKind
<1>5. LaneIs(after)
  <2>1. lane.pending \in Names /\ None \in Names /\ a.s \in Names
    BY <1>2, <1>4 DEF LaneIs, Names
  <2>2. next \in Names
    BY <2>1
  <2>3. /\ DOMAIN after = {"mode", "target", "pending", "closing"} /\ after.mode \in {"model", "sketch"}
        /\ after.target = next /\ after.pending = None /\ after.closing \in {None, a.s}
    OBVIOUS
  <2>. HIDE DEF after, next
  <2>. QED
    BY <2>1, <2>2, <2>3 DEF LaneIs
<1>6. StoreIs(shown)
  <2>1. DOMAIN shown = {"s", "c", "undo", "redo", "last"} /\ shown.s = a.s /\ shown.undo = <<>> /\ shown.redo = <<>>
    BY DEF Closed
  <2>. HIDE DEF shown
  <2>. QED
    BY <1>4, <2>1, NoSeq, SketchBounds DEF StoreIs, Names
<1>7. AnswerKind(cancel) /\ ~Begun(cancel) /\ cancel.kind # "upsert"
  BY <1>4 DEF AnswerKind, Begun, Names
<1>. HIDE DEF a, after, shown, next, cancel, tail
<1>8. Mail(rest, turn, drag)
  BY <1>4, MailForgotten, MailSuperseded
<1>9. TurnIs(Stale(turn)) /\ RoomIs(Stale(turn), store') /\ (Stale(turn) # NoTurn <=> turn # NoTurn)
  BY <1>2, StaleOK
<1>10. CASE a.ok /\ ~on
  <2>1. be' = CancelSketch(be, a.s) /\ answers' = Append(tail, cancel) /\ turn' = turn /\ store' = store
    BY <1>1, <1>10
  <2>2. BeOK(be')
    BY <1>2, <1>4, <2>1, CancelOK
  <2>3. Mail(answers', turn, drag)
    BY <1>4, <1>7, <2>1, MailAppend
  <2>. QED
    BY <1>1, <1>2, <1>5, <2>1, <2>2, <2>3 DEF SketchInv
<1>11. CASE on
  <2>1. be' = be /\ answers' = rest /\ turn' = Stale(turn) /\ store' \in {shown, store}
    BY <1>1, <1>11
  <2>2. Mail(answers', turn', drag')
    BY <1>1, <1>8, <1>9, <2>1 DEF Mail
  <2>. HIDE DEF rest, on
  <2>. QED
    BY <1>1, <1>2, <1>5, <1>6, <1>9, <2>1, <2>2 DEF SketchInv
<1>12. CASE ~on /\ ~a.ok
  <2>1. be' = be /\ answers' = tail /\ turn' = turn /\ store' = store
    BY <1>1, <1>12
  <2>. QED
    BY <1>1, <1>2, <1>4, <1>5, <2>1 DEF SketchInv
<1>. QED
  BY <1>10, <1>11, <1>12

(* Sketch mode is left.                                                    *)
LEMMA LeaveOK ==
    ASSUME SketchInv, Leave
    PROVE  SketchInv'
<1>. DEFINE after == [lane EXCEPT !.mode = "model"]
            cancel == [kind |-> "cancel", s |-> store.s, finish |-> TRUE, then |-> None]
<1>1. /\ lane' = after /\ queue' = queue
      /\ IF store.s = None
         THEN store' = store /\ turn' = turn /\ drag' = drag /\ answers' = answers /\ be' = be
         ELSE TearDown(Append(answers, cancel)) /\ be' = CancelSketch(be, store.s)
  BY DEF Leave
<1>2. /\ BeOK(be) /\ DragIs(drag) /\ StoreIs(store) /\ TurnIs(turn) /\ RoomIs(turn, store)
      /\ LaneIs(lane) /\ IsSeq(queue) /\ Len(queue) <= MaxQueue
      /\ Mail(answers, turn, drag)
  BY DEF SketchInv
<1>3. LaneIs(after)
  <2>1. /\ DOMAIN after = DOMAIN lane /\ after.mode = "model" /\ after.target = lane.target
        /\ after.pending = lane.pending /\ after.closing = lane.closing
    BY <1>2 DEF LaneIs
  <2>. HIDE DEF after
  <2>. QED
    BY <1>2, <2>1 DEF LaneIs
<1>. HIDE DEF after
<1>4. CASE store.s = None
  BY <1>1, <1>2, <1>3, <1>4 DEF SketchInv
<1>5. CASE store.s # None
  <2>1. TearDown(Append(answers, cancel)) /\ be' = CancelSketch(be, store.s)
    BY <1>1, <1>5
  <2>2. store.s \in Sketches
    BY <1>2, <1>5 DEF StoreIs, Names
  <2>3. AnswerKind(cancel) /\ ~Begun(cancel) /\ cancel.kind # "upsert"
    BY <2>2 DEF AnswerKind, Begun, Names
  <2>. HIDE DEF cancel
  <2>4. Mail(Append(answers, cancel), turn, drag)
    BY <1>2, <2>3, MailAppend
  <2>5. StoreIs(store') /\ TurnIs(turn') /\ RoomIs(turn', store') /\ DragIs(drag') /\ Mail(answers', turn', drag')
    BY <1>2, <2>1, <2>4, TearDownOK
  <2>6. BeOK(be')
    BY <1>2, <2>1, <2>2, CancelOK
  <2>. QED
    BY <1>1, <1>2, <1>3, <2>5, <2>6 DEF SketchInv
<1>. QED
  BY <1>4, <1>5

(* Another sketch is picked.                                               *)
LEMMA SwitchToOK ==
    ASSUME SketchInv, NEW s \in Sketches, SwitchTo(s)
    PROVE  SketchInv'
<1>. DEFINE later == [lane EXCEPT !.pending = s]
            now == [lane EXCEPT !.target = s, !.closing = store.s]
<1>1. /\ queue' = queue /\ be' = be
      /\ IF lane.target # None
         THEN lane' = later /\ store' = store /\ turn' = turn /\ drag' = drag /\ answers' = answers
         ELSE lane' = now /\ TearDown(answers)
  BY DEF SwitchTo
<1>2. /\ BeOK(be) /\ DragIs(drag) /\ StoreIs(store) /\ TurnIs(turn) /\ RoomIs(turn, store)
      /\ LaneIs(lane) /\ IsSeq(queue) /\ Len(queue) <= MaxQueue
      /\ Mail(answers, turn, drag)
  BY DEF SketchInv
<1>3. LaneIs(later) /\ LaneIs(now)
  <2>1. s \in Names /\ store.s \in Names
    BY <1>2 DEF Names, StoreIs
  <2>2. /\ DOMAIN later = DOMAIN lane /\ later.mode = lane.mode /\ later.target = lane.target
        /\ later.pending = s /\ later.closing = lane.closing
    BY <1>2 DEF LaneIs
  <2>3. /\ DOMAIN now = DOMAIN lane /\ now.mode = lane.mode /\ now.target = s
        /\ now.pending = lane.pending /\ now.closing = store.s
    BY <1>2 DEF LaneIs
  <2>. HIDE DEF later, now
  <2>. QED
    BY <1>2, <2>1, <2>2, <2>3 DEF LaneIs
<1>. HIDE DEF later, now
<1>4. CASE lane.target # None
  BY <1>1, <1>2, <1>3, <1>4 DEF SketchInv
<1>5. CASE lane.target = None
  <2>1. TearDown(answers) /\ lane' = now
    BY <1>1, <1>5
  <2>2. StoreIs(store') /\ TurnIs(turn') /\ RoomIs(turn', store') /\ DragIs(drag') /\ Mail(answers', turn', drag')
    BY <1>2, <2>1, TearDownOK
  <2>. QED
    BY <1>1, <1>2, <1>3, <2>1, <2>2 DEF SketchInv
<1>. QED
  BY <1>4, <1>5

(* The chain is flushed: the session switched from is cancelled.           *)
LEMMA SwitchFlushedOK ==
    ASSUME SketchInv, SwitchFlushed
    PROVE  SketchInv'
<1>. DEFINE after == [lane EXCEPT !.closing = None]
            cancel == [kind |-> "cancel", s |-> lane.closing, finish |-> TRUE, then |-> lane.target]
<1>1. /\ lane.closing # None /\ be' = CancelSketch(be, lane.closing)
      /\ answers' = Append(answers, cancel) /\ lane' = after
      /\ store' = store /\ queue' = queue /\ turn' = turn /\ drag' = drag
  BY DEF SwitchFlushed
<1>2. /\ BeOK(be) /\ LaneIs(lane) /\ Mail(answers, turn, drag)
  BY DEF SketchInv
<1>3. LaneIs(after)
  <2>1. /\ DOMAIN after = DOMAIN lane /\ after.mode = lane.mode /\ after.target = lane.target
        /\ after.pending = lane.pending /\ after.closing = None
    BY <1>2 DEF LaneIs
  <2>. HIDE DEF after
  <2>. QED
    BY <1>2, <2>1 DEF LaneIs, Names
<1>4. lane.closing \in Sketches /\ lane.target \in Names
  BY <1>1, <1>2 DEF LaneIs, Names
<1>5. AnswerKind(cancel) /\ ~Begun(cancel) /\ cancel.kind # "upsert"
  BY <1>4 DEF AnswerKind, Begun
<1>. HIDE DEF after, cancel
<1>6. Mail(answers', turn, drag)
  BY <1>1, <1>2, <1>5, MailAppend
<1>7. BeOK(be')
  BY <1>1, <1>2, <1>4, CancelOK
<1>. QED
  BY <1>1, <1>3, <1>6, <1>7 DEF SketchInv

(* The answer of a cancel.                                                 *)
LEMMA CancelledOK ==
    ASSUME SketchInv, Cancelled
    PROVE  SketchInv'
<1>. DEFINE a == Head(answers)  rest == Tail(answers)  finish == [kind |-> "finish", then |-> a.then]
<1>1. /\ answers # <<>> /\ a.kind = "cancel"
      /\ lane' = lane /\ store' = store /\ queue' = queue /\ turn' = turn /\ drag' = drag
      /\ IF a.finish THEN be' = FinishSketch(be, a.s) /\ answers' = Append(rest, finish)
         ELSE answers' = rest /\ be' = be
  BY DEF Cancelled, Heard
<1>2. BeOK(be) /\ Mail(answers, turn, drag)
  BY DEF SketchInv
<1>3. ~Begun(a) /\ a.kind # "upsert"
  BY <1>1 DEF Begun
<1>4. Mail(rest, turn, drag) /\ a.s \in Sketches /\ a.then \in Names
  <2>1. Mail(rest, turn, drag) /\ AnswerKind(a)
    BY <1>1, <1>2, <1>3, MailTail
  <2>. QED
    BY <1>1, <2>1 DEF AnswerKind
<1>5. AnswerKind(finish) /\ ~Begun(finish) /\ finish.kind # "upsert"
  BY <1>4 DEF AnswerKind, Begun
<1>. HIDE DEF a, rest, finish
<1>6. Mail(Append(rest, finish), turn, drag)
  BY <1>4, <1>5, MailAppend
<1>7. BeOK(FinishSketch(be, a.s))
  BY <1>2, <1>4, FinishOK
<1>8. BeOK(be') /\ Mail(answers', turn, drag)
  BY <1>1, <1>2, <1>4, <1>6, <1>7
<1>. QED
  BY <1>1, <1>8 DEF SketchInv

(* The answer of a finish: a switch goes on.                               *)
LEMMA FinishedOK ==
    ASSUME SketchInv, Finished
    PROVE  SketchInv'
<1>. DEFINE a == Head(answers)  rest == Tail(answers)
            next == IF lane.pending # None THEN lane.pending ELSE a.then
            idle == [lane EXCEPT !.target = None, !.pending = None]
            going == [lane EXCEPT !.target = next, !.pending = None]
<1>1. /\ answers # <<>> /\ a.kind = "finish"
      /\ store' = store /\ queue' = queue /\ turn' = turn /\ drag' = drag
      /\ IF a.then = None THEN answers' = rest /\ lane' = lane /\ be' = be
         ELSE IF lane.mode # "sketch" THEN lane' = idle /\ answers' = rest /\ be' = be
         ELSE lane' = going /\ SendEnter(next, rest)
  BY DEF Finished, Heard
<1>2. BeOK(be) /\ Mail(answers, turn, drag) /\ LaneIs(lane)
  BY DEF SketchInv
<1>3. ~Begun(a) /\ a.kind # "upsert"
  BY <1>1 DEF Begun
<1>4. Mail(rest, turn, drag) /\ a.then \in Names
  <2>1. Mail(rest, turn, drag) /\ AnswerKind(a)
    BY <1>1, <1>2, <1>3, MailTail
  <2>. QED
    BY <1>1, <2>1 DEF AnswerKind
<1>5. LaneIs(idle)
  <2>1. /\ DOMAIN idle = DOMAIN lane /\ idle.mode = lane.mode /\ idle.target = None
        /\ idle.pending = None /\ idle.closing = lane.closing
    BY <1>2 DEF LaneIs
  <2>. HIDE DEF idle
  <2>. QED
    BY <1>2, <2>1 DEF LaneIs, Names
<1>6. CASE a.then = None
  BY <1>1, <1>2, <1>4, <1>6 DEF SketchInv
<1>7. CASE a.then # None /\ lane.mode # "sketch"
  <2>1. lane' = idle /\ answers' = rest /\ be' = be
    BY <1>1, <1>7
  <2>. HIDE DEF idle
  <2>. QED
    BY <1>1, <1>2, <1>4, <1>5, <2>1 DEF SketchInv
<1>8. CASE a.then # None /\ lane.mode = "sketch"
  <2>1. lane' = going /\ SendEnter(next, rest)
    BY <1>1, <1>8
  <2>2. next \in Sketches /\ next \in Names
    BY <1>2, <1>4, <1>8 DEF LaneIs, Names
  <2>3. /\ DOMAIN going = DOMAIN lane /\ going.mode = lane.mode /\ going.target = next
        /\ going.pending = None /\ going.closing = lane.closing
    BY <1>2 DEF LaneIs
  <2>. HIDE DEF going, next, a, rest
  <2>4. LaneIs(going)
    BY <1>2, <2>2, <2>3 DEF LaneIs, Names
  <2>5. BeOK(be') /\ Mail(answers', turn, drag)
    BY <1>2, <1>4, <2>1, <2>2, SendEnterOK
  <2>. QED
    BY <1>1, <2>1, <2>4, <2>5 DEF SketchInv
<1>. QED
  BY <1>6, <1>7, <1>8

(* The document's history in model mode.                                   *)
LEMMA InModelOK ==
    ASSUME SketchInv, ModelUndo \/ ModelRedo \/ ModelEdit
    PROVE  SketchInv'
<1>. DEFINE e == [kind |-> "model", s |-> None, prior |-> <<>>, after |-> <<>>]
<1>1. /\ lane' = lane /\ store' = store /\ queue' = queue /\ turn' = turn /\ drag' = drag /\ answers' = answers
      /\ be' \in {Undo(be), Redo(be), PushCommitted(be, e)}
  BY DEF ModelUndo, ModelRedo, ModelEdit, InModel
<1>2. e.kind = "model" /\ e.s = None
  OBVIOUS
<1>. HIDE DEF e
<1>3. BeOK(be')
  <2>1. BeOK(be)
    BY DEF SketchInv
  <2>2. BeOK(Undo(be)) /\ BeOK(Redo(be)) /\ BeOK(PushCommitted(be, e))
    BY <1>2, <2>1, UndoOK, RedoOK, ModelOK
  <2>. QED
    BY <1>1, <2>2
<1>. QED
  BY <1>1, <1>3 DEF SketchInv

(* In the beginning nothing is done, and nothing is open.                  *)
LEMMA SketchInit == Init => SketchInv
<1>. SUFFICES ASSUME Init PROVE SketchInv
  OBVIOUS
<1>. DEFINE b == [doc |-> [s \in Sketches |-> Empty], undo |-> <<>>, redo |-> <<>>, evicted |-> 0,
                  record |-> [s \in Sketches |-> <<>>], slot |-> <<>>, gesture |-> <<>>]
<1>1. /\ lane = [mode |-> "model", target |-> None, pending |-> None, closing |-> None]
      /\ store = Closed /\ queue = <<>> /\ turn = NoTurn /\ drag = NoDrag /\ answers = <<>> /\ be = b
  BY DEF Init
<1>2. /\ DOMAIN b = {"doc", "undo", "redo", "evicted", "record", "slot", "gesture"}
      /\ DOMAIN b.doc = Sketches /\ DOMAIN b.record = Sketches /\ b.undo = <<>> /\ b.redo = <<>>
      /\ b.evicted = 0 /\ b.slot = <<>> /\ b.gesture = <<>>
  OBVIOUS
<1>3. IsSeq(<<>>) /\ Len(<<>>) = 0
  BY NoSeq
<1>4. UndoCap \in Nat /\ MaxQueue \in Nat
  BY SketchBounds
<1>. HIDE DEF b
<1>5. BeKind(b) /\ SlotIs(b.slot, b.undo, b.evicted)
  BY <1>2, <1>3, <1>4 DEF BeKind, StackKind, SlotIs
<1>6. ASSUME NEW s, NEW records, NEW now PROVE Chained(<<>>, <<>>, s, records, now)
  <2>. DEFINE line == Line(<<>>, <<>>)  steps == Steps(line, s, records)
  <2>1. DOMAIN line = 1 .. 0 + 0
    BY <1>3, LineIs
  <2>2. steps \in SUBSET (1 .. 0 + 0)
    BY <2>1, StepsIs
  <2>. HIDE DEF line, steps
  <2>3. steps = {}
    BY <2>2
  <2>4. Links(line, steps, Len(<<>>), now)
    BY <2>3 DEF Links
  <2>. QED
    BY <2>4 DEF Chained, line, steps
<1>7. Chain(b)
  BY <1>2, <1>6 DEF Chain
<1>8. BeOK(be)
  BY <1>1, <1>5, <1>7 DEF BeOK
<1>9. LaneIs(lane)
  BY <1>1 DEF LaneIs, Names
<1>10. StoreIs(store)
  BY <1>1, ClosedOK
<1>11. TurnIs(turn) /\ RoomIs(turn, store) /\ DragIs(drag)
  BY <1>1 DEF TurnIs, RoomIs, DragIs, NoDrag
<1>12. Mail(answers, turn, drag)
  BY <1>1, <1>3 DEF Mail
<1>13. IsSeq(queue) /\ Len(queue) <= MaxQueue
  BY <1>1, <1>3, <1>4
<1>. QED
  BY <1>8, <1>9, <1>10, <1>11, <1>12, <1>13 DEF SketchInv

(* Every step keeps the invariant.                                         *)
LEMMA SketchStep == SketchInv /\ [Next]_vars => SketchInv'
<1>. SUFFICES ASSUME SketchInv, [Next]_vars PROVE SketchInv'
  OBVIOUS
<1>1. CASE UNCHANGED vars
  BY <1>1 DEF vars, SketchInv
<1>2. CASE StartTurn
  BY <1>2, StartTurnOK
<1>3. CASE \E v \in Offered(store.c) : Click(v)
  BY <1>3, ClickOK
<1>4. CASE TurnAnswered
  BY <1>4, TurnAnsweredOK
<1>5. CASE \E e \in DOMAIN store.c.ents : BeginSelectDrag(e)
  BY <1>5, BeginSelectDragOK
<1>6. CASE DragBegun
  BY <1>6, DragBegunOK
<1>7. CASE \E to \in 0..1, restore \in BOOLEAN : PointerUp(to, restore)
  BY <1>7, PointerUpOK
<1>8. CASE DragEnded
  BY <1>8, DragEndedOK
<1>9. CASE SwitchTool
  BY <1>9, SwitchToolOK
<1>10. CASE \E s \in Sketches : Enter(s)
  BY <1>10, EnterActOK
<1>11. CASE Entered
  BY <1>11, EnteredOK
<1>12. CASE Leave
  BY <1>12, LeaveOK
<1>13. CASE \E s \in Sketches : SwitchTo(s)
  BY <1>13, SwitchToOK
<1>14. CASE SwitchFlushed
  BY <1>14, SwitchFlushedOK
<1>15. CASE Cancelled
  BY <1>15, CancelledOK
<1>16. CASE Finished
  BY <1>16, FinishedOK
<1>17. CASE ModelUndo \/ ModelRedo \/ ModelEdit
  BY <1>17, InModelOK
<1>. QED
  BY <1>1, <1>2, <1>3, <1>4, <1>5, <1>6, <1>7, <1>8, <1>9, <1>10, <1>11, <1>12, <1>13, <1>14, <1>15, <1>16, <1>17
     DEF Next

(* The invariant holds throughout.                                         *)
LEMMA SketchAlways == Spec => []SketchInv
BY SketchInit, SketchStep, PTL DEF Spec

(* What the chain says of each sketch and of its record, it says of both.  *)
LEMMA ChainIs == SketchInv => UndoIsChain
<1>. SUFFICES ASSUME SketchInv, NEW s \in Sketches, NEW records \in BOOLEAN
              PROVE  LET line == Line(be.undo, be.redo)
                         now == IF records THEN be.record[s] ELSE <<be.doc[s]>>
                     IN Links(line, Steps(line, s, records), Len(be.undo), now)
  BY DEF UndoIsChain
<1>1. Chained(be.undo, be.redo, s, records, Now(be, s, records))
  BY DEF SketchInv, BeOK, Chain
<1>. QED
  BY <1>1 DEF Chained, Now

(* The types of the parts are those of the whole.                          *)
LEMMA TypesAre == SketchInv => SketchTypeOK
<1>. SUFFICES ASSUME SketchInv PROVE SketchTypeOK
  OBVIOUS
<1>1. /\ lane.mode \in {"model", "sketch"}
      /\ {lane.target, lane.pending, lane.closing, store.s} \subseteq Sketches \cup {None}
  BY DEF SketchInv, LaneIs, StoreIs, Names
<1>2. Len(queue) <= MaxQueue /\ (turn = NoTurn \/ (turn.s \in Sketches /\ turn.phase \in {"try", "again"}))
  BY DEF SketchInv, TurnIs
<1>3. drag.phase \in {"no", "starting", "dragging"} /\ (drag # NoDrag => drag.e \in DOMAIN drag.base)
  BY DEF SketchInv, DragIs
<1>4. {Len(be.undo), Len(store.undo), Len(store.redo)} \subseteq 0..UndoCap
  <2>1. IsSeq(be.undo) /\ IsSeq(store.undo) /\ IsSeq(store.redo)
    BY DEF SketchInv, BeOK, BeKind, StackKind, StoreIs
  <2>2. Len(be.undo) \in Nat /\ Len(store.undo) \in Nat /\ Len(store.redo) \in Nat /\ UndoCap \in Nat
    BY <2>1, SeqIs, SketchBounds
  <2>3. Len(be.undo) <= UndoCap /\ Len(store.undo) <= UndoCap /\ Len(store.redo) <= UndoCap
    BY DEF SketchInv, BeOK, BeKind, StoreIs
  <2>. QED
    BY <2>2, <2>3
<1>5. {Len(be.slot), Len(be.gesture)} \subseteq 0..1
  <2>1. \A x : Len(<<x>>) = 1 /\ Len(<<>>) = 0
    OBVIOUS
  <2>2. (be.slot = <<>> \/ \E x : be.slot = <<x>>) /\ (be.gesture = <<>> \/ \E g : be.gesture = <<g>>)
    BY DEF SketchInv, BeOK, BeKind, SlotIs
  <2>3. Len(be.slot) \in {0, 1} /\ Len(be.gesture) \in {0, 1}
    BY <2>1, <2>2
  <2>. QED
    BY <2>3
<1>. QED
  BY <1>1, <1>2, <1>3, <1>4, <1>5 DEF SketchTypeOK

(* The steps of one sketch always follow each other: an undo or a redo     *)
(* restores a state the sketch really had, across squashed sessions, drags *)
(* and the eviction of the oldest step.                                    *)
THEOREM SketchChain == Spec => []UndoIsChain
BY SketchAlways, ChainIs, PTL

(* The variables keep their types, and the stacks their caps.              *)
THEOREM SketchTypes == Spec => []SketchTypeOK
BY SketchAlways, TypesAre, PTL

-----------------------------------------------------------------------------
(* A closed sketch is closed in the runtime too: what the operations do.   *)

(* What a push leaves: without an eviction, the stack with one step more.  *)
LEMMA PushIs ==
    ASSUME NEW b, BeKind(b), NEW e, NEW c, c = PushCommitted(b, e)
    PROVE  /\ c.doc = b.doc /\ c.record = b.record /\ c.slot = b.slot /\ c.gesture = b.gesture
           /\ c.redo = <<>> /\ c.evicted \in Nat
           /\ c.evicted = 0 => b.evicted = 0 /\ c.undo = Append(b.undo, e)
<1>. DEFINE w == Append(b.undo, e)
<1>1. DOMAIN b = {"doc", "undo", "redo", "evicted", "record", "slot", "gesture"} /\ b.evicted \in Nat
  BY DEF BeKind
<1>2. /\ c.undo = IF Len(w) > UndoCap THEN Tail(w) ELSE w
      /\ c.redo = <<>> /\ c.evicted = b.evicted + (IF Len(w) > UndoCap THEN 1 ELSE 0)
      /\ c.doc = b.doc /\ c.record = b.record /\ c.slot = b.slot /\ c.gesture = b.gesture
  BY <1>1 DEF PushCommitted
<1>. HIDE DEF w
<1>3. CASE Len(w) > UndoCap
  BY <1>1, <1>2, <1>3
<1>4. CASE ~(Len(w) > UndoCap)
  BY <1>1, <1>2, <1>4 DEF w
<1>. QED
  BY <1>3, <1>4

(* Unless one was evicted, one step was put on the stack.                  *)
Grown(b, c, kind, s, prior, after) ==
    c.evicted = 0 =>
      /\ b.evicted = 0
      /\ \E e : c.undo = Append(b.undo, e) /\ e.kind = kind /\ e.s = s /\ e.prior = prior /\ e.after = after

(* What an edit leaves.                                                    *)
LEMMA EditIs ==
    ASSUME NEW b, BeKind(b), NEW s \in Sketches, NEW kind, NEW after, NEW c, c = SketchEdit(b, s, kind, after)
    PROVE  /\ c.record = b.record /\ c.slot = b.slot /\ c.gesture = b.gesture
           /\ c.redo = <<>> /\ c.evicted \in Nat
           /\ c.doc[s] = after /\ \A t \in Sketches : t # s => c.doc[t] = b.doc[t]
           /\ Grown(b, c, kind, s, <<b.doc[s]>>, <<after>>)
<1>. DEFINE d == [b EXCEPT !.doc[s] = after]
            e == [kind |-> kind, s |-> s, prior |-> <<b.doc[s]>>, after |-> <<after>>]
<1>1. DOMAIN b = {"doc", "undo", "redo", "evicted", "record", "slot", "gesture"} /\ DOMAIN b.doc = Sketches
  BY DEF BeKind
<1>2. /\ DOMAIN d = DOMAIN b /\ DOMAIN d.doc = Sketches /\ d.undo = b.undo /\ d.redo = b.redo /\ d.slot = b.slot
      /\ d.evicted = b.evicted /\ d.gesture = b.gesture /\ d.record = b.record
      /\ d.doc[s] = after /\ \A t \in Sketches : t # s => d.doc[t] = b.doc[t]
  BY <1>1
<1>3. e.kind = kind /\ e.s = s /\ e.prior = <<b.doc[s]>> /\ e.after = <<after>>
  OBVIOUS
<1>4. c = PushCommitted(d, e)
  BY DEF SketchEdit
<1>. HIDE DEF d, e
<1>5. BeKind(d)
  BY <1>2 DEF BeKind
<1>6. /\ c.doc = d.doc /\ c.record = d.record /\ c.slot = d.slot /\ c.gesture = d.gesture
      /\ c.redo = <<>> /\ c.evicted \in Nat
      /\ c.evicted = 0 => d.evicted = 0 /\ c.undo = Append(d.undo, e)
  BY <1>4, <1>5, PushIs
<1>. QED
  BY <1>2, <1>3, <1>6 DEF Grown

(* The steps of a session that is closed are kept, if there are none or    *)
(* they are not all its own;                                               *)
Kept(b, c, x, s) ==
    /\ c.undo = b.undo /\ c.redo = b.redo /\ c.evicted = b.evicted
    /\ \/ x.mark = Len(b.undo) \/ x.evicted # b.evicted
       \/ \E i \in x.mark + 1 .. Len(b.undo) : b.undo[i].s # s \/ b.undo[i].kind \notin {"edit", "drag", "net"}

(* they are gone, if they cancel out;                                      *)
Gone(b, c, x, s) ==
    /\ c.undo = SubSeq(b.undo, 1, x.mark) /\ c.redo = <<>> /\ c.evicted = b.evicted
    /\ x.prior = b.doc[s] /\ x.mark < Len(b.undo) /\ x.evicted = b.evicted

(* or one net step takes their place.                                      *)
Netted(b, c, x, s) ==
    /\ x.prior # b.doc[s] /\ x.mark < Len(b.undo) /\ x.evicted = b.evicted
    /\ c.redo = <<>> /\ c.evicted \in Nat
    /\ c.evicted = 0 =>
         /\ b.evicted = 0
         /\ \E e : /\ c.undo = Append(SubSeq(b.undo, 1, x.mark), e) /\ e.kind = "net" /\ e.s = s
                   /\ e.prior = <<x.prior>> /\ e.after = <<b.doc[s]>>

(* What closing a session leaves: nothing of it, and its steps as they     *)
(* were, gone, or replaced by one.                                         *)
LEMMA SquashIs ==
    ASSUME NEW b, BeOK(b), NEW s \in Sketches, NEW x, b.slot = <<x>>, x.s = s,
           NEW c, c = SquashSession(b, s)
    PROVE  /\ c.slot = <<>> /\ c.gesture = b.gesture /\ c.doc = b.doc /\ c.record = b.record
           /\ x.mark \in 0 .. Len(b.undo)
           /\ Kept(b, c, x, s) \/ Gone(b, c, x, s) \/ Netted(b, c, x, s)
<1>0. BeKind(b) /\ SlotIs(b.slot, b.undo, b.evicted)
  BY DEF BeOK
<1>1. Last(<<x>>) = x /\ Head(<<x>>) = x /\ <<x>> # <<>>
  BY DEF Last
<1>2. Top(b.slot, LAMBDA y : y.s = s)
  BY <1>1 DEF Top
<1>3. x.mark \in 0 .. Len(b.undo) /\ x.evicted \in 0 .. b.evicted
  <2>1. PICK y : b.slot = <<y>> /\ y.mark \in 0 .. Len(b.undo) /\ y.evicted \in 0 .. b.evicted
    BY <1>0, <1>1 DEF SlotIs
  <2>2. y = x
    BY <1>1, <2>1
  <2>. QED
    BY <2>1, <2>2
<1>. DEFINE u == b.undo
            bare == [b EXCEPT !.slot = <<>>]
            steps == SubSeq(u, x.mark + 1, Len(u))
            v == SubSeq(u, 1, x.mark)
            cut == [bare EXCEPT !.undo = SubSeq(@, 1, x.mark), !.redo = <<>>]
            net == [kind |-> "net", s |-> s, prior |-> <<x.prior>>, after |-> <<b.doc[s]>>]
            stop == \/ steps = <<>> \/ x.evicted # b.evicted
                    \/ \E i \in DOMAIN steps : steps[i].s # s \/ steps[i].kind \notin {"edit", "drag", "net"}
<1>4. c = IF stop THEN bare ELSE IF x.prior = b.doc[s] THEN cut ELSE PushCommitted(cut, net)
  <2>. DEFINE was == Head(b.slot)
              taken == SubSeq(b.undo, was.mark + 1, Len(b.undo))
              kept == [[b EXCEPT !.slot = <<>>] EXCEPT !.undo = SubSeq(@, 1, was.mark), !.redo = <<>>]
  <2>1. SquashSession(b, s) =
          IF \/ taken = <<>> \/ was.evicted # b.evicted
             \/ \E i \in DOMAIN taken : taken[i].s # s \/ taken[i].kind \notin {"edit", "drag", "net"}
          THEN [b EXCEPT !.slot = <<>>]
          ELSE IF was.prior = b.doc[s] THEN kept
          ELSE PushCommitted(kept, [kind |-> "net", s |-> s, prior |-> <<was.prior>>, after |-> <<b.doc[s]>>])
    BY <1>2 DEF SquashSession
  <2>2. was = x /\ taken = steps /\ kept = cut
    BY <1>1
  <2>. HIDE DEF was, taken, kept, steps, bare, cut
  <2>. QED
    BY <2>1, <2>2 DEF bare
<1>5. /\ DOMAIN b = {"doc", "undo", "redo", "evicted", "record", "slot", "gesture"}
      /\ StackKind(u) /\ StackKind(b.redo) /\ Len(u) <= UndoCap /\ UndoCap \in Nat /\ b.evicted \in Nat
  BY <1>0, SketchBounds DEF BeKind
<1>6. /\ DOMAIN bare = DOMAIN b /\ bare.undo = u /\ bare.redo = b.redo /\ bare.evicted = b.evicted
      /\ bare.gesture = b.gesture /\ bare.doc = b.doc /\ bare.record = b.record /\ bare.slot = <<>>
  BY <1>5
<1>. HIDE DEF bare
<1>7. /\ DOMAIN cut = DOMAIN b /\ cut.undo = v /\ cut.redo = <<>> /\ cut.evicted = b.evicted
      /\ cut.gesture = b.gesture /\ cut.doc = b.doc /\ cut.record = b.record /\ cut.slot = <<>>
  BY <1>5, <1>6
<1>8. net.kind = "net" /\ net.s = s /\ net.prior = <<x.prior>> /\ net.after = <<b.doc[s]>>
  OBVIOUS
<1>. HIDE DEF cut, net
<1>9. /\ IsSeq(u) /\ Len(u) \in Nat /\ IsSeq(steps) /\ Len(steps) = Len(u) - x.mark
      /\ \A i \in 1 .. Len(u) - x.mark : steps[i] = u[x.mark + i]
  BY <1>3, <1>5, SliceSeq, SeqIs DEF StackKind
<1>10. DOMAIN steps = 1 .. Len(u) - x.mark /\ (steps = <<>> <=> Len(u) - x.mark = 0)
  BY <1>9, SeqIs
<1>11. CASE stop
  <2>1. \/ x.mark = Len(u) \/ x.evicted # b.evicted
        \/ \E i \in x.mark + 1 .. Len(u) : u[i].s # s \/ u[i].kind \notin {"edit", "drag", "net"}
    <3>1. CASE steps = <<>>
      BY <1>3, <1>9, <1>10, <3>1
    <3>2. CASE \E i \in DOMAIN steps : steps[i].s # s \/ steps[i].kind \notin {"edit", "drag", "net"}
      <4>1. PICK i \in 1 .. Len(u) - x.mark : steps[i].s # s \/ steps[i].kind \notin {"edit", "drag", "net"}
        BY <1>10, <3>2
      <4>. DEFINE m == x.mark  n == Len(u)
      <4>2. m \in Int /\ n \in Int /\ i \in 1 .. n - m
        BY <1>3, <1>9
      <4>3. steps[i] = u[m + i]
        BY <1>9
      <4>. HIDE DEF m, n
      <4>4. m + i \in m + 1 .. n
        BY <4>2
      <4>5. \E j \in m + 1 .. n : u[j].s # s \/ u[j].kind \notin {"edit", "drag", "net"}
        BY <4>1, <4>3, <4>4
      <4>. QED
        BY <4>5 DEF m, n
    <3>. QED
      BY <1>11, <3>1, <3>2
  <2>2. c = bare
    BY <1>4, <1>11
  <2>. QED
    BY <1>3, <1>6, <2>1, <2>2 DEF Kept
<1>12. CASE ~stop
  <2>1. x.mark < Len(u) /\ x.evicted = b.evicted
    BY <1>3, <1>9, <1>10, <1>12
  <2>. HIDE DEF stop
  <2>2. CASE x.prior = b.doc[s]
    BY <1>3, <1>4, <1>7, <1>12, <2>1, <2>2 DEF Gone
  <2>3. CASE x.prior # b.doc[s]
    <3>1. c = PushCommitted(cut, net)
      BY <1>4, <1>12, <2>3
    <3>2. BeKind(cut)
      <4>1. IsSeq(v) /\ Len(v) = x.mark /\ \A i \in 1 .. x.mark : v[i] = u[i]
        BY <1>3, <1>9, CutSeq
      <4>. HIDE DEF v
      <4>2. StackKind(v)
        BY <1>3, <1>5, <1>9, <4>1 DEF StackKind
      <4>3. Len(v) <= UndoCap
        BY <1>3, <1>5, <1>9, <4>1
      <4>4. StackKind(<<>>)
        BY NoSeq DEF StackKind
      <4>. QED
        BY <1>0, <1>5, <1>7, <4>2, <4>3, <4>4 DEF BeKind
    <3>3. /\ c.doc = cut.doc /\ c.record = cut.record /\ c.slot = cut.slot /\ c.gesture = cut.gesture
          /\ c.redo = <<>> /\ c.evicted \in Nat
          /\ c.evicted = 0 => cut.evicted = 0 /\ c.undo = Append(cut.undo, net)
      BY <3>1, <3>2, PushIs
    <3>4. c.evicted = 0 =>
            /\ b.evicted = 0
            /\ \E e : /\ c.undo = Append(v, e) /\ e.kind = "net" /\ e.s = s
                      /\ e.prior = <<x.prior>> /\ e.after = <<b.doc[s]>>
      BY <1>7, <1>8, <3>3
    <3>. QED
      BY <1>3, <1>7, <2>1, <2>3, <3>3, <3>4 DEF Netted
  <2>. QED
    BY <2>2, <2>3
<1>. QED
  BY <1>11, <1>12

(* Dropping a stale session touches nothing else.                          *)
LEMMA DropIs ==
    ASSUME NEW b, BeKind(b), NEW c, c = DropStaleSession(b)
    PROVE  /\ c.undo = b.undo /\ c.redo = b.redo /\ c.doc = b.doc /\ c.record = b.record
           /\ c.evicted = b.evicted /\ c.gesture = b.gesture /\ c.slot \in {b.slot, <<>>}
<1>. DEFINE d == [b EXCEPT !.slot = <<>>]
<1>1. /\ d.undo = b.undo /\ d.redo = b.redo /\ d.doc = b.doc /\ d.record = b.record
      /\ d.slot = <<>> /\ d.evicted = b.evicted /\ d.gesture = b.gesture
  BY DEF BeKind
<1>2. c \in {b, d}
  BY DEF DropStaleSession
<1>. HIDE DEF d
<1>. QED
  BY <1>1, <1>2

(* What an undo leaves: nothing happened, or the last step moved.          *)
LEMMA UndoIs ==
    ASSUME NEW b, BeKind(b), b.gesture = <<>>, b.undo # <<>>, NEW e, e = Last(b.undo), NEW c, c = Undo(b)
    PROVE  /\ e = b.undo[Len(b.undo)] /\ StepKind(e)
           /\ c.undo = Front1(b.undo) /\ c.redo = Append(b.redo, e)
           /\ c.evicted = b.evicted /\ c.gesture = <<>> /\ c.slot \in {b.slot, <<>>}
           /\ \A s \in Sketches, records \in BOOLEAN :
                Now(c, s, records) = IF Of(e, s, records) THEN e.prior ELSE Now(b, s, records)
<1>. DEFINE value == e.prior  a == Restored(b, e, value)
            d == [a EXCEPT !.undo = Front1(@), !.redo = Append(@, e)]
<1>1. c = DropStaleSession(d)
  BY DEF Undo
<1>2. StackKind(b.undo) /\ StackKind(b.redo) /\ UndoCap \in Nat /\ Len(b.undo) <= UndoCap /\ b.evicted \in Nat
  BY SketchBounds DEF BeKind
<1>3. /\ e = b.undo[Len(b.undo)] /\ StepKind(e) /\ StackKind(Front1(b.undo)) /\ StackKind(Append(b.redo, e))
      /\ Len(b.undo) \in Nat /\ Len(Front1(b.undo)) = Len(b.undo) - 1
  BY <1>2, StackMoves
<1>4. e.kind \in {"edit", "drag", "net"} => \E z : value = <<z>>
  BY <1>3 DEF StepKind
<1>. HIDE DEF value
<1>5. /\ DOMAIN a = {"doc", "undo", "redo", "evicted", "record", "slot", "gesture"}
      /\ DOMAIN a.doc = Sketches /\ DOMAIN a.record = Sketches
      /\ a.undo = b.undo /\ a.redo = b.redo /\ a.slot = b.slot /\ a.evicted = b.evicted
      /\ a.gesture = b.gesture
      /\ \A s \in Sketches, records \in BOOLEAN :
           Now(a, s, records) = IF Of(e, s, records) THEN value ELSE Now(b, s, records)
  BY <1>3, <1>4, RestoredIs
<1>. HIDE DEF a
<1>6. /\ DOMAIN d = DOMAIN a /\ d.undo = Front1(b.undo) /\ d.redo = Append(b.redo, e) /\ d.slot = b.slot
      /\ d.evicted = b.evicted /\ d.gesture = <<>> /\ d.doc = a.doc /\ d.record = a.record
  BY <1>5
<1>. HIDE DEF d
<1>7. BeKind(d)
  BY <1>2, <1>3, <1>5, <1>6 DEF BeKind
<1>8. /\ c.undo = d.undo /\ c.redo = d.redo /\ c.doc = d.doc /\ c.record = d.record
      /\ c.evicted = d.evicted /\ c.gesture = d.gesture /\ c.slot \in {d.slot, <<>>}
  BY <1>1, <1>7, DropIs
<1>9. \A s \in Sketches, records \in BOOLEAN : Now(c, s, records) = Now(a, s, records)
  BY <1>6, <1>8 DEF Now
<1>. QED
  BY <1>3, <1>5, <1>6, <1>8, <1>9 DEF value

(* What a redo leaves: nothing happened, or the last undone step moved.    *)
LEMMA RedoIs ==
    ASSUME NEW b, BeKind(b), b.gesture = <<>>, b.redo # <<>>, NEW e, e = Last(b.redo), NEW c, c = Redo(b)
    PROVE  /\ e = b.redo[Len(b.redo)] /\ StepKind(e)
           /\ c.redo = Front1(b.redo) /\ c.evicted \in Nat
           /\ c.evicted = 0 => b.evicted = 0 /\ c.undo = Append(b.undo, e)
           /\ c.gesture = <<>> /\ c.slot \in {b.slot, <<>>}
           /\ \A s \in Sketches, records \in BOOLEAN :
                Now(c, s, records) = IF Of(e, s, records) THEN e.after ELSE Now(b, s, records)
<1>. DEFINE value == e.after  a == Restored(b, e, value)
            u == Append(b.undo, e)
            v == IF Len(u) > UndoCap THEN Tail(u) ELSE u
            n == IF Len(u) > UndoCap THEN 1 ELSE 0
            d == [a EXCEPT !.redo = Front1(@), !.undo = v, !.evicted = @ + n]
<1>1. c = DropStaleSession(d)
  BY DEF Redo
<1>2. StackKind(b.undo) /\ StackKind(b.redo) /\ UndoCap \in Nat /\ Len(b.undo) <= UndoCap /\ b.evicted \in Nat
  BY SketchBounds DEF BeKind
<1>3. /\ e = b.redo[Len(b.redo)] /\ StepKind(e) /\ StackKind(Front1(b.redo))
  BY <1>2, StackMoves
<1>4. e.kind \in {"edit", "drag", "net"} => \E z : value = <<z>>
  BY <1>3 DEF StepKind
<1>. HIDE DEF value
<1>5. /\ DOMAIN a = {"doc", "undo", "redo", "evicted", "record", "slot", "gesture"}
      /\ DOMAIN a.doc = Sketches /\ DOMAIN a.record = Sketches
      /\ a.undo = b.undo /\ a.redo = b.redo /\ a.slot = b.slot /\ a.evicted = b.evicted
      /\ a.gesture = b.gesture
      /\ \A s \in Sketches, records \in BOOLEAN :
           Now(a, s, records) = IF Of(e, s, records) THEN value ELSE Now(b, s, records)
  BY <1>3, <1>4, RestoredIs
<1>6. StackKind(v) /\ Len(v) <= UndoCap
  BY <1>2, <1>3, StackGrows
<1>7. n \in Nat /\ (n = 0 => v = u)
  OBVIOUS
<1>. HIDE DEF a, v, n, u
<1>8. /\ DOMAIN d = DOMAIN a /\ d.undo = v /\ d.redo = Front1(b.redo) /\ d.slot = b.slot
      /\ d.evicted = b.evicted + n /\ d.gesture = <<>> /\ d.doc = a.doc /\ d.record = a.record
  BY <1>5
<1>. HIDE DEF d
<1>9. b.evicted + n \in Nat /\ (b.evicted + n = 0 => b.evicted = 0 /\ n = 0)
  BY <1>2, <1>7
<1>10. BeKind(d)
  BY <1>2, <1>3, <1>5, <1>6, <1>8, <1>9 DEF BeKind
<1>11. /\ c.undo = d.undo /\ c.redo = d.redo /\ c.doc = d.doc /\ c.record = d.record
       /\ c.evicted = d.evicted /\ c.gesture = d.gesture /\ c.slot \in {d.slot, <<>>}
  BY <1>1, <1>10, DropIs
<1>12. \A s \in Sketches, records \in BOOLEAN : Now(c, s, records) = Now(a, s, records)
  BY <1>8, <1>11 DEF Now
<1>. QED
  BY <1>3, <1>5, <1>7, <1>8, <1>9, <1>11, <1>12 DEF value, u

-----------------------------------------------------------------------------
(* A closed sketch is closed in the runtime too: sessions open and shut.   *)

(* A step that only an open session may leave on a stack.                  *)
Loose(e) == e.kind \in {"edit", "drag"}

(* A stack without such steps.                                             *)
Tame(q) == \A i \in 1 .. Len(q) : ~Loose(q[i])

(* No drag, and no session's step.                                         *)
Calm(b) == b.gesture = <<>> /\ (b.evicted = 0 => Tame(b.undo) /\ Tame(b.redo))

(* No session either.                                                      *)
Shut(b) == Calm(b) /\ b.slot = <<>>

(* The session of s was opened, and its entry is not answered.             *)
Opening(b, s, mode) ==
    /\ Calm(b)
    /\ b.slot = <<>> \/ \E x : b.slot = <<x>> /\ x.s = s
    /\ mode = "sketch" => \E x : b.slot = <<x>> /\ x.s = s /\ x.mark = Len(b.undo)

(* The session of s is open: from its mark on the steps are its own.       *)
Open(b, s) ==
    \E x :
      /\ b.slot = <<x>> /\ x.s = s
      /\ b.gesture = <<>> \/ \E g : b.gesture = <<g>> /\ g.s = s
      /\ b.evicted = 0 =>
           /\ Tame(b.redo)
           /\ \A i \in 1 .. Len(b.undo) :
                IF i <= x.mark THEN ~Loose(b.undo[i])
                ELSE b.undo[i].s = s /\ b.undo[i].kind \in {"edit", "drag", "net"}

(* A stack with a step more, or one less.                                  *)
LEMMA TameMore ==
    ASSUME NEW q, IsSeq(q), Tame(q), NEW e, ~Loose(e)
    PROVE  Tame(Append(q, e))
<1>. DEFINE r == Append(q, e)
<1>1. IsSeq(r) /\ Len(r) = Len(q) + 1 /\ r[Len(q) + 1] = e /\ (\A i \in 1 .. Len(q) : r[i] = q[i]) /\ Len(q) \in Nat
  BY AppendSeq, SeqIs
<1>2. \A i \in 1 .. Len(q) + 1 : i = Len(q) + 1 \/ i \in 1 .. Len(q)
  BY <1>1
<1>. HIDE DEF r
<1>3. Tame(r)
  BY <1>1, <1>2 DEF Tame
<1>. QED
  BY <1>3 DEF r

(* A stack without its last steps.                                         *)
LEMMA TameCut ==
    ASSUME NEW q, IsSeq(q), NEW k \in 0 .. Len(q), \A i \in 1 .. k : ~Loose(q[i])
    PROVE  IsSeq(SubSeq(q, 1, k)) /\ Tame(SubSeq(q, 1, k))
<1>1. IsSeq(SubSeq(q, 1, k)) /\ Len(SubSeq(q, 1, k)) = k /\ \A i \in 1 .. k : SubSeq(q, 1, k)[i] = q[i]
  BY CutSeq
<1>. QED
  BY <1>1 DEF Tame

(* A stack whose last step is moved onto another.                          *)
LEMMA TameMoves ==
    ASSUME NEW u, IsSeq(u), Tame(u), u # <<>>, NEW r, IsSeq(r), Tame(r)
    PROVE  Tame(Front1(u)) /\ Tame(Append(r, u[Len(u)])) /\ ~Loose(u[Len(u)])
<1>1. Len(u) \in Nat /\ Len(u) # 0
  BY SeqIs
<1>2. Len(u) \in 1 .. Len(u) /\ Len(u) - 1 \in 0 .. Len(u) /\ \A i \in 1 .. Len(u) - 1 : i \in 1 .. Len(u)
  BY <1>1
<1>3. ~Loose(u[Len(u)]) /\ \A i \in 1 .. Len(u) - 1 : ~Loose(u[i])
  BY <1>2 DEF Tame
<1>4. Tame(Front1(u))
  BY <1>2, <1>3, TameCut DEF Front1
<1>. QED
  BY <1>3, <1>4, TameMore

(* The empty stack.                                                        *)
LEMMA TameNone == Tame(<<>>)
BY NoSeq DEF Tame

(* A step of another kind keeps the peace.                                 *)
LEMMA PushCalm ==
    ASSUME NEW b, BeKind(b), Calm(b), NEW e, ~Loose(e), NEW c, c = PushCommitted(b, e)
    PROVE  Calm(c) /\ c.slot = b.slot
<1>1. /\ c.slot = b.slot /\ c.gesture = b.gesture /\ c.redo = <<>>
      /\ c.evicted = 0 => b.evicted = 0 /\ c.undo = Append(b.undo, e)
  BY PushIs
<1>2. ASSUME c.evicted = 0 PROVE Tame(c.undo) /\ Tame(c.redo)
  <2>1. Tame(b.undo) /\ IsSeq(b.undo)
    BY <1>1, <1>2 DEF Calm, BeKind, StackKind
  <2>. QED
    BY <1>1, <1>2, <2>1, TameMore, TameNone
<1>. QED
  BY <1>1, <1>2 DEF Calm

(* So do undo and redo, which may drop a session but open none.            *)
LEMMA UndoCalm ==
    ASSUME NEW b, BeKind(b), Calm(b), NEW c, c = Undo(b) \/ c = Redo(b)
    PROVE  Calm(c) /\ c.slot \in {b.slot, <<>>}
<1>1. b.gesture = <<>> /\ IsSeq(b.undo) /\ IsSeq(b.redo)
  BY DEF Calm, BeKind, StackKind
<1>2. CASE c = b
  BY <1>2
<1>3. CASE c = Undo(b) /\ b.undo # <<>>
  <2>1. /\ Last(b.undo) = b.undo[Len(b.undo)]
        /\ c.undo = Front1(b.undo) /\ c.redo = Append(b.redo, b.undo[Len(b.undo)])
        /\ c.evicted = b.evicted /\ c.gesture = <<>> /\ c.slot \in {b.slot, <<>>}
    BY <1>1, <1>3, UndoIs
  <2>2. b.evicted = 0 => Tame(c.undo) /\ Tame(c.redo)
    BY <1>1, <1>3, <2>1, TameMoves DEF Calm
  <2>. QED
    BY <2>1, <2>2 DEF Calm
<1>4. CASE c = Redo(b) /\ b.redo # <<>>
  <2>1. /\ Last(b.redo) = b.redo[Len(b.redo)]
        /\ c.redo = Front1(b.redo)
        /\ c.evicted = 0 => b.evicted = 0 /\ c.undo = Append(b.undo, b.redo[Len(b.redo)])
        /\ c.gesture = <<>> /\ c.slot \in {b.slot, <<>>}
    BY <1>1, <1>4, RedoIs
  <2>2. c.evicted = 0 => Tame(c.undo) /\ Tame(c.redo)
    BY <1>1, <1>4, <2>1, TameMoves DEF Calm
  <2>. QED
    BY <2>1, <2>2 DEF Calm
<1>. QED
  BY <1>2, <1>3, <1>4 DEF Undo, Redo

(* The document's history keeps a runtime shut.                            *)
LEMMA ActShut ==
    ASSUME NEW b, BeKind(b), Shut(b), NEW e, e.kind = "model",
           NEW c, c = Undo(b) \/ c = Redo(b) \/ c = PushCommitted(b, e)
    PROVE  Shut(c)
<1>1. ~Loose(e)
  BY DEF Loose
<1>2. Calm(c) /\ c.slot \in {b.slot, <<>>}
  BY <1>1, PushCalm, UndoCalm DEF Shut
<1>. QED
  BY <1>2 DEF Shut

(* In model mode it may drop the session that is being opened.             *)
LEMMA ActOpening ==
    ASSUME NEW b, BeKind(b), NEW s, NEW mode, mode # "sketch", Opening(b, s, mode), NEW e, e.kind = "model",
           NEW c, c = Undo(b) \/ c = Redo(b) \/ c = PushCommitted(b, e)
    PROVE  Opening(c, s, mode)
<1>1. ~Loose(e) /\ Calm(b)
  BY DEF Loose, Opening
<1>2. Calm(c) /\ c.slot \in {b.slot, <<>>}
  BY <1>1, PushCalm, UndoCalm
<1>. QED
  BY <1>2 DEF Opening

(* A session is opened.                                                    *)
LEMMA EnterShut ==
    ASSUME NEW b, BeKind(b), Shut(b), NEW s, NEW c, c = EnterSketch(b, s), NEW mode
    PROVE  Opening(c, s, mode)
<1>. DEFINE x == [s |-> s, prior |-> b.doc[s], mark |-> Len(b.undo), evicted |-> b.evicted]
<1>1. b.slot = <<>>
  BY DEF Shut
<1>2. c = [b EXCEPT !.slot = <<x>>]
  BY <1>1 DEF EnterSketch, Top
<1>3. x.s = s /\ x.mark = Len(b.undo)
  OBVIOUS
<1>. HIDE DEF x
<1>4. c.slot = <<x>> /\ c.undo = b.undo /\ c.redo = b.redo /\ c.evicted = b.evicted /\ c.gesture = b.gesture
  BY <1>2 DEF BeKind
<1>5. Calm(c)
  BY <1>4 DEF Calm, Shut
<1>. QED
  BY <1>3, <1>4, <1>5 DEF Opening

(* Its entry is answered.                                                  *)
LEMMA OpeningOpen ==
    ASSUME NEW b, NEW s, Opening(b, s, "sketch")
    PROVE  Open(b, s)
<1>1. Calm(b) /\ \E x : b.slot = <<x>> /\ x.s = s /\ x.mark = Len(b.undo)
  BY DEF Opening
<1>2. PICK x : b.slot = <<x>> /\ x.s = s /\ x.mark = Len(b.undo)
  BY <1>1
<1>3. \A i \in 1 .. Len(b.undo) : i <= x.mark
  BY <1>2
<1>. QED
  BY <1>1, <1>2, <1>3 DEF Open, Calm, Tame

(* It is cancelled before it was used.                                     *)
LEMMA OpeningShut ==
    ASSUME NEW b, BeOK(b), NEW s \in Sketches, NEW mode, Opening(b, s, mode), NEW c, c = CancelSketch(b, s)
    PROVE  Shut(c)
<1>. DEFINE d == [b EXCEPT !.gesture = <<>>]
<1>1. /\ BeOK(d) /\ d.undo = b.undo /\ d.redo = b.redo /\ d.slot = b.slot /\ d.evicted = b.evicted
      /\ d.gesture = <<>>
  BY GestureOK
<1>2. c = SquashSession(d, s)
  BY DEF CancelSketch
<1>. HIDE DEF d
<1>3. Calm(d)
  BY <1>1 DEF Opening, Calm
<1>4. CASE d.slot = <<>>
  <2>1. c = d
    BY <1>2, <1>4 DEF SquashSession, Top
  <2>. QED
    BY <1>3, <1>4, <2>1 DEF Shut
<1>5. CASE d.slot # <<>>
  <2>1. PICK x : d.slot = <<x>> /\ x.s = s
    BY <1>1, <1>5 DEF Opening
  <2>2. IsSeq(d.undo) /\ Len(d.undo) \in Nat
    BY <1>1, SeqIs DEF BeOK, BeKind, StackKind
  <2>3. /\ c.slot = <<>> /\ c.gesture = d.gesture /\ x.mark \in 0 .. Len(d.undo)
        /\ \/ c.undo = d.undo /\ c.redo = d.redo /\ c.evicted = d.evicted
           \/ c.undo = SubSeq(d.undo, 1, x.mark) /\ c.redo = <<>> /\ c.evicted = d.evicted
           \/ /\ c.redo = <<>>
              /\ c.evicted = 0 =>
                   d.evicted = 0 /\ \E e : c.undo = Append(SubSeq(d.undo, 1, x.mark), e) /\ e.kind = "net"
    <3>1. d.slot = <<x>> /\ x.s = s /\ s \in Sketches
      BY <2>1
    <3>2. /\ c.slot = <<>> /\ c.gesture = d.gesture /\ x.mark \in 0 .. Len(d.undo)
          /\ Kept(d, c, x, s) \/ Gone(d, c, x, s) \/ Netted(d, c, x, s)
      BY ONLY <1>1, <1>2, <3>1, SquashIs
    <3>. QED
      BY ONLY <3>2 DEF Kept, Gone, Netted
  <2>4. ASSUME c.evicted = 0 PROVE Tame(c.undo) /\ Tame(c.redo)
    <3>1. d.evicted = 0
      BY <2>3, <2>4
    <3>2. Tame(d.undo) /\ Tame(d.redo)
      BY <1>3, <3>1 DEF Calm
    <3>3. \A i \in 1 .. x.mark : ~Loose(d.undo[i])
      BY <2>2, <2>3, <3>2 DEF Tame
    <3>4. IsSeq(SubSeq(d.undo, 1, x.mark)) /\ Tame(SubSeq(d.undo, 1, x.mark))
      BY <2>2, <2>3, <3>3, TameCut
    <3>5. \A e : e.kind = "net" => Tame(Append(SubSeq(d.undo, 1, x.mark), e))
      BY <3>4, TameMore DEF Loose
    <3>. QED
      BY <2>3, <2>4, <3>2, <3>4, <3>5, TameNone
  <2>. QED
    BY <1>1, <2>3, <2>4 DEF Shut, Calm
<1>. QED
  BY <1>4, <1>5

(* An open session is cancelled.                                           *)
LEMMA OpenShut ==
    ASSUME NEW b, BeOK(b), NEW s \in Sketches, Open(b, s), NEW c, c = CancelSketch(b, s)
    PROVE  Shut(c)
<1>. DEFINE d == [b EXCEPT !.gesture = <<>>]
<1>1. /\ BeOK(d) /\ d.undo = b.undo /\ d.redo = b.redo /\ d.slot = b.slot /\ d.evicted = b.evicted
      /\ d.gesture = <<>>
  BY GestureOK
<1>2. c = SquashSession(d, s)
  BY DEF CancelSketch
<1>. HIDE DEF d
<1>3. PICK x :
        /\ d.slot = <<x>> /\ x.s = s
        /\ d.evicted = 0 =>
             /\ Tame(d.redo)
             /\ \A i \in 1 .. Len(d.undo) :
                  IF i <= x.mark THEN ~Loose(d.undo[i])
                  ELSE d.undo[i].s = s /\ d.undo[i].kind \in {"edit", "drag", "net"}
  BY <1>1 DEF Open
<1>4. IsSeq(d.undo) /\ Len(d.undo) \in Nat /\ s \in Sketches /\ SlotIs(d.slot, d.undo, d.evicted)
  BY <1>1, SeqIs DEF BeOK, BeKind, StackKind
<1>5. /\ c.slot = <<>> /\ c.gesture = d.gesture /\ x.mark \in 0 .. Len(d.undo)
      /\ Kept(d, c, x, s) \/ Gone(d, c, x, s) \/ Netted(d, c, x, s)
  BY ONLY <1>1, <1>2, <1>3, <1>4, SquashIs
<1>6. ASSUME c.evicted = 0 PROVE Tame(c.undo) /\ Tame(c.redo)
  <2>1. d.evicted = 0
    BY <1>5, <1>6 DEF Kept, Gone, Netted
  <2>2. x.evicted = d.evicted
    <3>0. d.slot # <<>>
      BY <1>3
    <3>1. PICK y : d.slot = <<y>> /\ y.evicted \in 0 .. d.evicted
      BY <1>4, <3>0 DEF SlotIs
    <3>2. y = x
      BY <1>3, <3>1
    <3>. QED
      BY <2>1, <3>1, <3>2
  <2>3. \A i \in 1 .. x.mark : i \in 1 .. Len(d.undo) /\ i <= x.mark
    BY <1>4, <1>5
  <2>4. \A i \in 1 .. x.mark : ~Loose(d.undo[i])
    BY <1>3, <2>1, <2>3
  <2>5. IsSeq(SubSeq(d.undo, 1, x.mark)) /\ Tame(SubSeq(d.undo, 1, x.mark))
    BY <1>4, <1>5, <2>4, TameCut
  <2>6. CASE Kept(d, c, x, s)
    <3>1. ASSUME NEW i \in x.mark + 1 .. Len(d.undo)
          PROVE  d.undo[i].s = s /\ d.undo[i].kind \in {"edit", "drag", "net"}
      <4>1. i \in 1 .. Len(d.undo) /\ ~(i <= x.mark)
        BY <1>4, <1>5
      <4>. QED
        BY <1>3, <2>1, <4>1
    <3>2. x.mark = Len(d.undo)
      BY <2>2, <2>6, <3>1 DEF Kept
    <3>3. Tame(d.undo)
      BY <2>4, <3>2 DEF Tame
    <3>. QED
      BY <1>3, <2>1, <2>6, <3>3 DEF Kept
  <2>7. CASE Gone(d, c, x, s)
    BY <2>5, <2>7, TameNone DEF Gone
  <2>8. CASE Netted(d, c, x, s)
    <3>1. \A e : e.kind = "net" => Tame(Append(SubSeq(d.undo, 1, x.mark), e))
      BY <2>5, TameMore DEF Loose
    <3>. QED
      BY <1>6, <2>8, <3>1, TameNone DEF Netted
  <2>. QED
    BY <1>5, <2>6, <2>7, <2>8
<1>. QED
  BY <1>1, <1>5, <1>6 DEF Shut, Calm

(* The sketch of an open session is edited, or a drag of it ends.          *)
LEMMA OpenEdited ==
    ASSUME NEW b, BeOK(b), NEW s \in Sketches, Open(b, s), NEW kind \in {"edit", "drag"}, NEW after,
           NEW c, c = SketchEdit(b, s, kind, after)
    PROVE  Open(c, s)
<1>1. BeKind(b) /\ IsSeq(b.undo) /\ Len(b.undo) \in Nat /\ SlotIs(b.slot, b.undo, b.evicted)
  BY SeqIs DEF BeOK, BeKind, StackKind
<1>2. /\ c.slot = b.slot /\ c.gesture = b.gesture /\ c.redo = <<>>
      /\ c.evicted = 0 => b.evicted = 0 /\ \E e : c.undo = Append(b.undo, e) /\ e.kind = kind /\ e.s = s
  <2>1. c.slot = b.slot /\ c.gesture = b.gesture /\ c.redo = <<>> /\ Grown(b, c, kind, s, <<b.doc[s]>>, <<after>>)
    BY <1>1, EditIs
  <2>. QED
    BY ONLY <2>1 DEF Grown
<1>3. PICK x :
        /\ b.slot = <<x>> /\ x.s = s
        /\ b.gesture = <<>> \/ \E g : b.gesture = <<g>> /\ g.s = s
        /\ b.evicted = 0 =>
             /\ Tame(b.redo)
             /\ \A i \in 1 .. Len(b.undo) :
                  IF i <= x.mark THEN ~Loose(b.undo[i])
                  ELSE b.undo[i].s = s /\ b.undo[i].kind \in {"edit", "drag", "net"}
  BY DEF Open
<1>4. x.mark \in 0 .. Len(b.undo)
  <2>0. b.slot # <<>>
    BY <1>3
  <2>1. PICK y : b.slot = <<y>> /\ y.mark \in 0 .. Len(b.undo)
    BY <1>1, <2>0 DEF SlotIs
  <2>2. y = x
    BY <1>3, <2>1
  <2>. QED
    BY <2>1, <2>2
<1>5. ASSUME c.evicted = 0, NEW i \in 1 .. Len(c.undo)
      PROVE  IF i <= x.mark THEN ~Loose(c.undo[i])
             ELSE c.undo[i].s = s /\ c.undo[i].kind \in {"edit", "drag", "net"}
  <2>1. PICK e : c.undo = Append(b.undo, e) /\ e.kind = kind /\ e.s = s
    BY <1>2, <1>5
  <2>2. /\ Len(c.undo) = Len(b.undo) + 1 /\ c.undo[Len(b.undo) + 1] = e
        /\ \A j \in 1 .. Len(b.undo) : c.undo[j] = b.undo[j]
    BY <1>1, <2>1, AppendSeq
  <2>3. CASE i = Len(b.undo) + 1
    <3>1. ~(i <= x.mark)
      BY <1>1, <1>4, <2>3
    <3>. QED
      BY <2>1, <2>2, <2>3, <3>1
  <2>4. CASE i # Len(b.undo) + 1
    <3>1. i \in 1 .. Len(b.undo)
      BY <1>1, <2>2, <2>4
    <3>. QED
      BY <1>2, <1>3, <1>5, <2>2, <3>1
  <2>. QED
    BY <2>3, <2>4
<1>. QED
  BY <1>2, <1>3, <1>5, TameNone DEF Open

(* A drag is opened in it.                                                 *)
LEMMA OpenBegun ==
    ASSUME NEW b, BeKind(b), NEW s, Open(b, s), NEW u, NEW c, c = BeginGesture(b, s, u)
    PROVE  Open(c, s)
<1>. DEFINE g == [s |-> s, u |-> u, before |-> b.doc[s]]
<1>1. c = [b EXCEPT !.gesture = <<g>>] /\ g.s = s
  BY DEF BeginGesture
<1>. HIDE DEF g
<1>2. c.gesture = <<g>> /\ c.slot = b.slot /\ c.undo = b.undo /\ c.redo = b.redo /\ c.evicted = b.evicted
  BY <1>1 DEF BeKind
<1>3. \E h : c.gesture = <<h>> /\ h.s = s
  BY <1>1, <1>2
<1>. QED
  BY <1>2, <1>3 DEF Open

(* The drag ends.                                                          *)
LEMMA OpenEnded ==
    ASSUME NEW b, BeOK(b), NEW s \in Sketches, Open(b, s), NEW to, NEW c, c = EndGesture(b, to)
    PROVE  Open(c, s)
<1>1. CASE b.gesture = <<>>
  BY <1>1 DEF EndGesture
<1>2. CASE b.gesture # <<>>
  <2>1. PICK g : b.gesture = <<g>> /\ g.s = s
    BY <1>2 DEF Open
  <2>. DEFINE d == [b EXCEPT !.gesture = <<>>]  h == Head(b.gesture)
              moved == [h.before EXCEPT !.ents = [u \in DOMAIN @ |->
                          IF u = h.u THEN [@[u] EXCEPT !.at = to] ELSE @[u]]]
  <2>2. h = g
    BY <2>1
  <2>3. c = SketchEdit(d, h.s, "drag", moved)
    BY <1>2 DEF EndGesture
  <2>4. /\ BeOK(d) /\ d.undo = b.undo /\ d.redo = b.redo /\ d.slot = b.slot /\ d.evicted = b.evicted
        /\ d.gesture = <<>>
    BY GestureOK
  <2>. HIDE DEF d, h, moved
  <2>5. Open(d, s)
    BY <2>4 DEF Open
  <2>. QED
    BY <2>1, <2>2, <2>3, <2>4, <2>5, OpenEdited
<1>. QED
  BY <1>1, <1>2

(* A session that is shut is finished: its record is brought up to date.   *)
LEMMA FinishShut ==
    ASSUME NEW b, BeKind(b), Shut(b), NEW s \in Sketches, NEW c, c = FinishSketch(b, s)
    PROVE  Shut(c)
<1>1. b.gesture = <<>> /\ b.slot = <<>>
  BY DEF Shut, Calm
<1>. DEFINE q == IF Top(b.gesture, LAMBDA g : g.s = s) THEN <<>> ELSE b.gesture
            d == [b EXCEPT !.gesture = q]
<1>2. q = <<>>
  BY <1>1
<1>3. /\ DOMAIN d = DOMAIN b /\ d.undo = b.undo /\ d.redo = b.redo /\ d.slot = <<>> /\ d.doc = b.doc
      /\ d.record = b.record /\ d.evicted = b.evicted /\ d.gesture = <<>>
  BY <1>1, <1>2 DEF BeKind
<1>4. c = UpsertSketchRecord(SquashSession(d, s), s)
  BY DEF FinishSketch
<1>. HIDE DEF d
<1>5. BeKind(d) /\ Calm(d)
  BY <1>3 DEF BeKind, Shut, Calm
<1>6. SquashSession(d, s) = d
  BY <1>3 DEF SquashSession, Top
<1>. DEFINE a == [d EXCEPT !.record[s] = <<d.doc[s]>>]
            e == [kind |-> "record", s |-> s, prior |-> d.record[s], after |-> <<d.doc[s]>>]
<1>7. c \in {d, PushCommitted(a, e)}
  BY <1>4, <1>6 DEF UpsertSketchRecord
<1>8. /\ DOMAIN a = DOMAIN d /\ DOMAIN a.record = Sketches /\ a.undo = d.undo /\ a.redo = d.redo /\ a.slot = d.slot
      /\ a.evicted = d.evicted /\ a.gesture = d.gesture /\ a.doc = d.doc
  BY <1>5 DEF BeKind
<1>9. ~Loose(e)
  BY DEF Loose
<1>. HIDE DEF a, e
<1>10. BeKind(a) /\ Calm(a) /\ a.slot = <<>>
  BY <1>3, <1>5, <1>8 DEF BeKind, Calm
<1>. QED
  BY <1>3, <1>5, <1>7, <1>9, <1>10, PushCalm DEF Shut

-----------------------------------------------------------------------------
(* The life of a session, as the two ends go through it together.          *)

(* The calls that open and close sessions.                                 *)
Calls(a) == a.kind \in {"enter", "cancel", "finish"}

(* At most one of them is under way, and c holds its answer.               *)
CallIs(q, c) ==
    /\ \A i \in 1 .. Len(q) : Calls(q[i]) => c = <<q[i]>>
    /\ \A i, j \in 1 .. Len(q) : Calls(q[i]) /\ Calls(q[j]) => i = j
    /\ c # <<>> => \E i \in 1 .. Len(q) : Calls(q[i])

(* Another answer is heard first.                                          *)
LEMMA CallWaits ==
    ASSUME NEW q, IsSeq(q), q # <<>>, NEW c, CallIs(q, c), ~Calls(Head(q))
    PROVE  CallIs(Tail(q), c)
<1>. DEFINE n == Len(q)  r == Tail(q)
<1>1. /\ n \in Nat /\ n # 0 /\ IsSeq(r) /\ Len(r) = n - 1 /\ \A i \in 1 .. n - 1 : r[i] = q[i + 1]
  BY SeqIs, TailSeq
<1>2. ~Calls(q[1])
  OBVIOUS
<1>3. \A i \in 1 .. n - 1 : i + 1 \in 1 .. n /\ i \in Int
  BY <1>1
<1>4. \A i \in 1 .. n : i = 1 \/ (i - 1 \in 1 .. n - 1 /\ (i - 1) + 1 = i)
  BY <1>1
<1>. HIDE DEF n, r
<1>5. \A i \in 1 .. n - 1 : Calls(r[i]) => c = <<r[i]>>
  BY <1>1, <1>3 DEF CallIs, n
<1>6. ASSUME NEW i \in 1 .. n - 1, NEW j \in 1 .. n - 1, Calls(r[i]), Calls(r[j]) PROVE i = j
  <2>1. i + 1 = j + 1
    BY <1>1, <1>3, <1>6 DEF CallIs, n
  <2>. QED
    BY <1>3, <2>1
<1>7. ASSUME c # <<>> PROVE \E i \in 1 .. n - 1 : Calls(r[i])
  <2>1. PICK i \in 1 .. n : Calls(q[i])
    BY <1>7 DEF CallIs, n
  <2>2. i - 1 \in 1 .. n - 1 /\ (i - 1) + 1 = i
    BY <1>2, <1>4, <2>1
  <2>3. r[i - 1] = q[i]
    BY <1>1, <2>2
  <2>. QED
    BY <2>1, <2>2, <2>3
<1>8. Len(r) = n - 1
  BY <1>1
<1>9. CallIs(r, c)
  BY ONLY <1>5, <1>6, <1>7, <1>8 DEF CallIs
<1>. QED
  BY <1>9 DEF r

(* The call itself is answered.                                            *)
LEMMA CallHeard ==
    ASSUME NEW q, IsSeq(q), q # <<>>, NEW c, CallIs(q, c), Calls(Head(q))
    PROVE  c = <<Head(q)>> /\ CallIs(Tail(q), <<>>)
<1>. DEFINE n == Len(q)  r == Tail(q)
<1>1. /\ n \in Nat /\ n # 0 /\ IsSeq(r) /\ Len(r) = n - 1 /\ \A i \in 1 .. n - 1 : r[i] = q[i + 1]
  BY SeqIs, TailSeq
<1>2. Calls(q[1]) /\ Head(q) = q[1] /\ 1 \in 1 .. n
  BY <1>1
<1>3. \A i \in 1 .. n - 1 : i + 1 \in 1 .. n /\ i + 1 # 1
  BY <1>1
<1>. HIDE DEF n, r
<1>4. c = <<q[1]>>
  BY <1>2 DEF CallIs, n
<1>5. \A i \in 1 .. n - 1 : ~Calls(r[i])
  BY <1>1, <1>2, <1>3 DEF CallIs, n
<1>6. CallIs(r, <<>>)
  BY <1>1, <1>5 DEF CallIs
<1>. QED
  BY <1>2, <1>4, <1>6 DEF r

(* Another answer will come.                                               *)
LEMMA CallMore ==
    ASSUME NEW q, IsSeq(q), NEW c, CallIs(q, c), NEW a, ~Calls(a)
    PROVE  CallIs(Append(q, a), c)
<1>. DEFINE n == Len(q)  r == Append(q, a)
<1>1. n \in Nat /\ Len(r) = n + 1 /\ r[n + 1] = a /\ \A i \in 1 .. n : r[i] = q[i]
  BY SeqIs, AppendSeq
<1>2. \A i \in 1 .. n + 1 : i = n + 1 \/ i \in 1 .. n
  BY <1>1
<1>3. \A i \in 1 .. n : i \in 1 .. n + 1
  BY <1>1
<1>. HIDE DEF n, r
<1>4. \A i \in 1 .. n + 1 : Calls(r[i]) => i \in 1 .. n /\ Calls(q[i]) /\ r[i] = q[i]
  BY <1>1, <1>2
<1>5. \A i \in 1 .. n + 1 : Calls(r[i]) => c = <<r[i]>>
  BY <1>4 DEF CallIs, n
<1>6. \A i, j \in 1 .. n + 1 : Calls(r[i]) /\ Calls(r[j]) => i = j
  BY <1>4 DEF CallIs, n
<1>7. c # <<>> => \E i \in 1 .. n + 1 : Calls(r[i])
  BY <1>1, <1>3 DEF CallIs, n
<1>8. CallIs(r, c)
  BY ONLY <1>1, <1>5, <1>6, <1>7 DEF CallIs
<1>. QED
  BY <1>8 DEF r

(* A call is made.                                                         *)
LEMMA CallMade ==
    ASSUME NEW q, IsSeq(q), CallIs(q, <<>>), NEW a, Calls(a)
    PROVE  CallIs(Append(q, a), <<a>>)
<1>. DEFINE n == Len(q)  r == Append(q, a)
<1>1. n \in Nat /\ Len(r) = n + 1 /\ r[n + 1] = a /\ \A i \in 1 .. n : r[i] = q[i]
  BY SeqIs, AppendSeq
<1>2. \A i \in 1 .. n + 1 : i = n + 1 \/ i \in 1 .. n
  BY <1>1
<1>3. n + 1 \in 1 .. n + 1
  BY <1>1
<1>. HIDE DEF n, r
<1>4. \A i \in 1 .. n : ~Calls(q[i])
  BY DEF CallIs, n
<1>5. \A i \in 1 .. n + 1 : Calls(r[i]) => i = n + 1
  BY <1>1, <1>2, <1>4
<1>6. CallIs(r, <<a>>)
  BY <1>1, <1>3, <1>5 DEF CallIs
<1>. QED
  BY <1>6 DEF r

(* What is marked as late is no call.                                      *)
LEMMA CallLate ==
    ASSUME NEW q, IsSeq(q), \A i \in 1 .. Len(q) : AnswerKind(q[i]), NEW c, CallIs(q, c)
    PROVE  CallIs(Superseded(q), c) /\ CallIs(Forgotten(q), c)
<1>. DEFINE n == Len(q)
<1>1. n \in Nat /\ DOMAIN q = 1 .. n
  BY SeqIs
<1>2. ASSUME NEW r, DOMAIN r = 1 .. n, r = [i \in 1 .. n |-> r[i]],
             \A i \in 1 .. n : IF Calls(q[i]) THEN r[i] = q[i] ELSE ~Calls(r[i])
      PROVE  CallIs(r, c)
  <2>1. IsSeq(r) /\ Len(r) = n
    BY <1>1, <1>2, FunctionSeq
  <2>. HIDE DEF n
  <2>2. \A i \in 1 .. n : Calls(r[i]) <=> Calls(q[i])
    BY <1>2
  <2>3. \A i \in 1 .. n : Calls(r[i]) => r[i] = q[i]
    BY <1>2
  <2>. QED
    BY ONLY <2>1, <2>2, <2>3, CallIs(q, c) DEF CallIs, n
<1>. HIDE DEF n
<1>3. CallIs(Superseded(q), c)
  <2>. DEFINE r == Superseded(q)
  <2>1. /\ r = [i \in 1 .. n |-> IF q[i].kind = "ended" THEN [q[i] EXCEPT !.fresh = FALSE] ELSE q[i]]
        /\ \A i \in 1 .. n : r[i] = IF q[i].kind = "ended" THEN [q[i] EXCEPT !.fresh = FALSE] ELSE q[i]
    BY <1>1 DEF Superseded
  <2>. HIDE DEF r
  <2>2. DOMAIN r = 1 .. n /\ r = [i \in 1 .. n |-> r[i]]
    BY <2>1
  <2>3. ASSUME NEW i \in 1 .. n PROVE IF Calls(q[i]) THEN r[i] = q[i] ELSE ~Calls(r[i])
    <3>1. CASE q[i].kind = "ended"
      <4>1. r[i] = [q[i] EXCEPT !.fresh = FALSE] /\ {"kind"} \subseteq DOMAIN q[i]
        BY <2>1, <3>1 DEF AnswerKind, n
      <4>2. r[i].kind = q[i].kind
        BY <4>1
      <4>. QED
        BY <3>1, <4>2 DEF Calls
    <3>2. CASE q[i].kind # "ended"
      BY <2>1, <3>2
    <3>. QED
      BY <3>1, <3>2
  <2>. QED
    BY <1>2, <2>2, <2>3 DEF r
<1>4. CallIs(Forgotten(q), c)
  <2>. DEFINE r == Forgotten(q)
  <2>1. /\ r = [i \in 1 .. n |-> IF q[i].kind = "begun" THEN [q[i] EXCEPT !.live = FALSE] ELSE q[i]]
        /\ \A i \in 1 .. n : r[i] = IF q[i].kind = "begun" THEN [q[i] EXCEPT !.live = FALSE] ELSE q[i]
    BY <1>1 DEF Forgotten
  <2>. HIDE DEF r
  <2>2. DOMAIN r = 1 .. n /\ r = [i \in 1 .. n |-> r[i]]
    BY <2>1
  <2>3. ASSUME NEW i \in 1 .. n PROVE IF Calls(q[i]) THEN r[i] = q[i] ELSE ~Calls(r[i])
    <3>1. CASE q[i].kind = "begun"
      <4>1. r[i] = [q[i] EXCEPT !.live = FALSE] /\ {"kind"} \subseteq DOMAIN q[i]
        BY <2>1, <3>1 DEF AnswerKind, n
      <4>2. r[i].kind = q[i].kind
        BY <4>1
      <4>. QED
        BY <3>1, <4>2 DEF Calls
    <3>2. CASE q[i].kind # "begun"
      BY <2>1, <3>2
    <3>. QED
      BY <3>1, <3>2
  <2>. QED
    BY <1>2, <2>2, <2>3 DEF r
<1>. QED
  BY <1>3, <1>4

(* A phase of a session, and whose it is.                                  *)
At(at, s) == [at |-> at, s |-> s]

(* The phase while a call is under way.  A session whose entry is under    *)
(* way is being opened, or left already; once its cancel is answered it is *)
(* owed a finish.                                                          *)
CallPhase(p, a, l) ==
    \/ a.kind = "enter" /\ l.target # None /\ ~a.ok /\ p = At("shut", None)
    \/ /\ a.kind = "enter" /\ l.target # None /\ a.ok /\ a.s \in Sketches
       /\ p = At(IF l.mode = "sketch" THEN "opening" ELSE "leaving", a.s)
    \/ a.kind = "cancel" /\ ~a.finish /\ p = At("shut", None)
    \/ a.kind = "cancel" /\ a.finish /\ a.s \in Sketches /\ p = At("owed", a.s)
    \/ a.kind = "finish" /\ p = At("done", None)

(* The phase at any time, from what the controller, the store and the call *)
(* under way say: a session switched from is open until it is cancelled.   *)
Life(p, l, s, c) ==
    \/ c = <<>> /\ s = None /\ l.closing = None /\ p = At("shut", None)
    \/ c = <<>> /\ s \in Sketches /\ l.closing = None /\ l.mode = "sketch" /\ p = At("open", s)
    \/ c = <<>> /\ s = None /\ l.closing \in Sketches /\ l.target # None /\ p = At("open", l.closing)
    \/ \E a : c = <<a>> /\ s = None /\ l.closing = None /\ CallPhase(p, a, l)

(* A turn that may still write the store is of the session in it.          *)
FreshIs(t, s) == t # NoTurn /\ t.fresh => t.s = s

(* The session is in phase p.                                              *)
LifeInv(p) == \E c : CallIs(answers, c) /\ Life(p, lane, store.s, c) /\ FreshIs(turn, store.s)

(* What the document's history may do to the runtime.                      *)
Act(b, d) ==
    \/ d = Undo(b) \/ d = Redo(b)
    \/ /\ "half_undo" \in Rare \/ ~HalfUndone(b)
       /\ \E e : e.kind = "model" /\ e.s = None /\ d = PushCommitted(b, e)

(* The steps of a session's life, and what the runtime does in each: from  *)
(* phase p and runtime b to phase q and runtime d.                         *)
LifeStep(p, b, q, d) ==
    \/ q = p /\ (d = b \/ \E to : d = EndGesture(b, to))
    \/ p.at = "done" /\ q = At("shut", None) /\ d = b
    \/ /\ p.at = "done" \/ (p.at = "shut" /\ ("half_undo" \in Rare \/ ~HalfUndone(b)))
       /\ \E s \in Sketches : q = At("opening", s) /\ d = EnterSketch(b, s)
    \/ p.at = "opening" /\ p.s \in Sketches /\ (q = At("open", p.s) \/ q = At("leaving", p.s)) /\ d = b
    \/ p.at \in {"opening", "leaving"} /\ p.s \in Sketches /\ q = At("shut", None) /\ d = CancelSketch(b, p.s)
    \/ /\ p.at = "open" /\ p.s \in Sketches /\ q = p
       /\ (\E after : d = SketchEdit(b, p.s, "edit", after)) \/ (\E u : d = BeginGesture(b, p.s, u))
    \/ p.at = "open" /\ p.s \in Sketches /\ q = At("owed", p.s) /\ d = CancelSketch(b, p.s)
    \/ p.at = "owed" /\ p.s \in Sketches /\ q = At("done", None) /\ d = FinishSketch(b, p.s)
    \/ p.at = "shut" /\ q = p /\ Act(b, d)
    \/ "entry_act" \in Rare /\ p.at = "leaving" /\ p.s \in Sketches /\ q = p /\ Act(b, d)

(* The life goes on.                                                       *)
LifeNext(p) == \E q : LifeInv(q)' /\ LifeStep(p, be, q, be')

(* The phase is where it was.                                              *)
LEMMA LifeSame ==
    ASSUME NEW p, NEW c, Life(p, lane, store.s, c), CallIs(answers', c),
           lane' = lane, store'.s = store.s, FreshIs(turn', store'.s),
           be' = be \/ \E to : be' = EndGesture(be, to)
    PROVE  LifeNext(p)
<1>1. LifeStep(p, be, p, be')
  BY DEF LifeStep
<1>2. Life(p, lane', store'.s, c)
  OBVIOUS
<1>. QED
  BY <1>1, <1>2 DEF LifeNext, LifeInv

(* What sending an edit does.                                              *)
LEMMA SendUpsertIs ==
    ASSUME NEW t, "s" \in DOMAIN t, "fresh" \in DOMAIN t, NEW m, NEW w, NEW n, NEW as, SendUpsert(t, m, w, n, as)
    PROVE  /\ be' = be \/ \E after : be' = SketchEdit(be, t.s, "edit", after)
           /\ \E a : a.kind = "upsert" /\ answers' = Append(as, a)
           /\ turn'.s = t.s /\ turn'.fresh = t.fresh
<1>. DEFINE draft == Marshalled(m, w, n)
            after == Applied(be.doc[t.s], m, w, draft)
            next == [t EXCEPT !.draft = draft]
<1>1. PICK out \in Outcomes(t.phase) :
        /\ be' = IF out = "refused" \/ after = be.doc[t.s] THEN be ELSE SketchEdit(be, t.s, "edit", after)
        /\ answers' = Append(as, [kind |-> "upsert", ok |-> out = "ok", conflict |-> Conflicts(after)])
        /\ turn' = next
  BY DEF SendUpsert
<1>. DEFINE a == [kind |-> "upsert", ok |-> out = "ok", conflict |-> Conflicts(after)]
<1>2. a.kind = "upsert" /\ answers' = Append(as, a)
  BY <1>1
<1>3. next.s = t.s /\ next.fresh = t.fresh
  OBVIOUS
<1>. HIDE DEF a, draft, next
<1>. DEFINE z == after
<1>4. be' = be \/ be' = SketchEdit(be, t.s, "edit", z)
  BY <1>1
<1>. HIDE DEF z
<1>5. be' = be \/ \E y : be' = SketchEdit(be, t.s, "edit", y)
  BY <1>4
<1>. QED
  BY <1>1, <1>2, <1>3, <1>5

(* An edit of the open session.                                            *)
LEMMA LifeEdited ==
    ASSUME NEW p, NEW c, Life(p, lane, store.s, c), CallIs(answers', c),
           lane' = lane, store'.s = store.s, store.s \in Sketches, FreshIs(turn', store'.s),
           be' = be \/ \E after : be' = SketchEdit(be, store.s, "edit", after)
    PROVE  LifeNext(p)
<1>1. CASE be' = be
  BY <1>1, LifeSame
<1>2. CASE \E after : be' = SketchEdit(be, store.s, "edit", after)
  <2>1. store.s # None
    BY SketchNames DEF None
  <2>2. p = At("open", store.s)
    BY <2>1 DEF Life
  <2>3. p.at = "open" /\ p.s = store.s
    BY <2>2 DEF At
  <2>4. LifeStep(p, be, p, be')
    BY <1>2, <2>3 DEF LifeStep
  <2>5. Life(p, lane', store'.s, c)
    OBVIOUS
  <2>. QED
    BY <2>4, <2>5 DEF LifeNext, LifeInv
<1>. QED
  BY <1>1, <1>2

(* The user asks for an edit.                                              *)
LEMMA ClickLife ==
    ASSUME NEW p, LifeInv(p), NEW v, Click(v)
    PROVE  LifeNext(p)
<1>1. lane' = lane /\ store' = store /\ turn' = turn /\ answers' = answers /\ be' = be
  BY DEF Click
<1>2. PICK c : CallIs(answers, c) /\ Life(p, lane, store.s, c) /\ FreshIs(turn, store.s)
  BY DEF LifeInv
<1>. QED
  BY <1>1, <1>2, LifeSame

(* The next edit begins.                                                   *)
LEMMA StartTurnLife ==
    ASSUME SketchInv, NEW p, LifeInv(p), StartTurn
    PROVE  LifeNext(p)
<1>. DEFINE v == Head(queue)  want == Wanted(v, store, ids)
            opened == [v |-> v, s |-> store.s, fresh |-> TRUE, phase |-> "try", before |-> store.c,
                       want |-> want, alt |-> Fallback(v, store, want, ids), draft |-> NoMap]
<1>1. /\ lane' = lane
      /\ IF store.s = None \/ ~Applies(v, store)
         THEN UNCHANGED <<store, turn, answers, be, ids>>
         ELSE /\ store' = CASE v.kind = "undo" -> PopUndo(store)
                            [] v.kind = "redo" -> PopRedo(store)
                            [] OTHER -> store
              /\ SendUpsert(opened, maps[store.s], want, ids + 3, answers)
  BY DEF StartTurn
<1>2. PICK c : CallIs(answers, c) /\ Life(p, lane, store.s, c) /\ FreshIs(turn, store.s)
  BY DEF LifeInv
<1>3. CASE store.s = None \/ ~Applies(v, store)
  <2>1. store' = store /\ turn' = turn /\ answers' = answers /\ be' = be
    BY <1>1, <1>3
  <2>. QED
    BY <1>1, <1>2, <2>1, LifeSame
<1>4. CASE ~(store.s = None \/ ~Applies(v, store))
  <2>1. store.s \in Sketches /\ DOMAIN store = {"s", "c", "undo", "redo", "last"} /\ IsSeq(answers)
    BY <1>4 DEF SketchInv, StoreIs, Names, Mail
  <2>2. /\ store' \in {PopUndo(store), PopRedo(store), store}
        /\ SendUpsert(opened, maps[store.s], want, ids + 3, answers)
    BY <1>1, <1>4
  <2>3. store'.s = store.s
    BY <2>1, <2>2 DEF PopUndo, PopRedo
  <2>4. "s" \in DOMAIN opened /\ "fresh" \in DOMAIN opened /\ opened.s = store.s
    OBVIOUS
  <2>. HIDE DEF opened, v, want
  <2>5. /\ be' = be \/ \E after : be' = SketchEdit(be, store.s, "edit", after)
        /\ \E a : a.kind = "upsert" /\ answers' = Append(answers, a)
        /\ turn'.s = store.s
    BY <2>2, <2>4, SendUpsertIs
  <2>6. CallIs(answers', c)
    BY <1>2, <2>1, <2>5, CallMore DEF Calls
  <2>7. FreshIs(turn', store'.s)
    BY <2>3, <2>5 DEF FreshIs
  <2>8. lane' = lane
    BY <1>1
  <2>. QED
    BY ONLY <1>2, <2>1, <2>3, <2>5, <2>6, <2>7, <2>8, LifeEdited
<1>. QED
  BY <1>3, <1>4

(* The answer of the edit whose turn it is.                                *)
LEMMA TurnAnsweredLife ==
    ASSUME SketchInv, NEW p, LifeInv(p), TurnAnswered
    PROVE  LifeNext(p)
<1>. DEFINE a == Head(answers)  rest == Tail(answers)  again == [turn EXCEPT !.phase = "again"]
<1>1. /\ answers # <<>> /\ a.kind = "upsert" /\ lane' = lane
      /\ IF turn.fresh /\ Retried(turn, a)
         THEN /\ SendUpsert(again, turn.draft, turn.alt, ids, rest)
              /\ UNCHANGED store
         ELSE /\ store' = IF ~turn.fresh THEN store
                          ELSE IF a.ok THEN Published(store, turn) ELSE Unpopped(store, turn)
              /\ answers' = IF turn.fresh /\ a.ok THEN Superseded(rest) ELSE rest
              /\ turn' = NoTurn
              /\ be' = be
  BY DEF TurnAnswered, Heard
<1>2. PICK c : CallIs(answers, c) /\ Life(p, lane, store.s, c) /\ FreshIs(turn, store.s)
  BY DEF LifeInv
<1>3. /\ StoreIs(store) /\ TurnIs(turn) /\ Mail(answers, turn, drag) /\ IsSeq(answers)
      /\ DOMAIN store = {"s", "c", "undo", "redo", "last"}
  BY DEF SketchInv, Mail, StoreIs
<1>4. Mail(rest, NoTurn, drag) /\ turn # NoTurn
  BY <1>1, <1>3, MailTail
<1>5. IsSeq(rest) /\ \A i \in 1 .. Len(rest) : AnswerKind(rest[i])
  BY <1>4 DEF Mail
<1>6. CallIs(rest, c)
  BY <1>1, <1>2, <1>3, CallWaits DEF Calls
<1>7. CASE turn.fresh /\ Retried(turn, a)
  <2>1. /\ DOMAIN turn = {"v", "s", "fresh", "phase", "before", "want", "alt", "draft"}
        /\ turn.s \in Sketches /\ turn.s = store.s
    BY <1>2, <1>3, <1>4, <1>7 DEF TurnIs, FreshIs
  <2>2. DOMAIN again = DOMAIN turn /\ again.s = turn.s
    BY <2>1
  <2>3. "s" \in DOMAIN again /\ "fresh" \in DOMAIN again /\ again.s = store.s
    BY <2>1, <2>2
  <2>4. SendUpsert(again, turn.draft, turn.alt, ids, rest) /\ store' = store /\ lane' = lane
    BY <1>1, <1>7
  <2>. HIDE DEF again, rest, a
  <2>5. /\ be' = be \/ \E after : be' = SketchEdit(be, store.s, "edit", after)
        /\ \E z : z.kind = "upsert" /\ answers' = Append(rest, z)
        /\ turn'.s = store.s
    BY <2>3, <2>4, SendUpsertIs
  <2>6. CallIs(answers', c)
    BY <1>5, <1>6, <2>5, CallMore DEF Calls
  <2>7. FreshIs(turn', store'.s) /\ store'.s = store.s /\ store.s \in Sketches
    BY <2>1, <2>4, <2>5 DEF FreshIs
  <2>. QED
    BY ONLY <1>2, <2>4, <2>5, <2>6, <2>7, LifeEdited
<1>8. CASE ~(turn.fresh /\ Retried(turn, a))
  <2>1. /\ store' \in {store, Published(store, turn), Unpopped(store, turn)}
        /\ answers' \in {Superseded(rest), rest}
        /\ turn' = NoTurn /\ be' = be /\ lane' = lane
    BY <1>1, <1>8
  <2>2. store'.s = store.s
    <3>1. Published(store, turn).s = store.s
      BY <1>3 DEF Published, Pushed
    <3>2. Unpopped(store, turn).s = store.s
      BY <1>3 DEF Unpopped
    <3>. QED
      BY <2>1, <3>1, <3>2
  <2>. HIDE DEF rest
  <2>3. CallIs(answers', c)
    BY <1>5, <1>6, <2>1, CallLate
  <2>4. FreshIs(turn', store'.s)
    BY <2>1 DEF FreshIs
  <2>. QED
    BY ONLY <1>2, <2>1, <2>2, <2>3, <2>4, LifeSame
<1>. QED
  BY <1>7, <1>8

(* A drag is over, and the runtime is told.                                *)
LEMMA FinishDragLife ==
    ASSUME NEW p, NEW c, Life(p, lane, store.s, c), FreshIs(turn, store.s), lane' = lane, store' = store, turn' = turn,
           NEW as, IsSeq(as), CallIs(as, c), NEW to, NEW restore, FinishDrag(as, to, restore)
    PROVE  LifeNext(p)
<1>. DEFINE a == [kind |-> "ended", ok |-> be.gesture # <<>>, fresh |-> TRUE, e |-> drag.e,
                  base |-> drag.base, before |-> store.c, to |-> to, restore |-> restore]
<1>1. be' = EndGesture(be, to) /\ answers' = Append(as, a)
  BY DEF FinishDrag
<1>2. ~Calls(a)
  BY DEF Calls
<1>. HIDE DEF a
<1>3. CallIs(answers', c)
  BY <1>1, <1>2, CallMore
<1>. QED
  BY <1>1, <1>3, LifeSame

(* A drag passes the threshold.                                            *)
LEMMA BeginSelectDragLife ==
    ASSUME SketchInv, NEW p, LifeInv(p), NEW e, BeginSelectDrag(e)
    PROVE  LifeNext(p)
<1>. DEFINE a == [kind |-> "begun", live |-> TRUE]
<1>1. /\ store.s # None /\ be' = BeginGesture(be, store.s, maps[store.s].ents[e].u)
      /\ answers' = Append(answers, a) /\ lane' = lane /\ store' = store /\ turn' = turn
  BY DEF BeginSelectDrag
<1>2. PICK c : CallIs(answers, c) /\ Life(p, lane, store.s, c) /\ FreshIs(turn, store.s)
  BY DEF LifeInv
<1>3. store.s \in Sketches /\ IsSeq(answers)
  BY <1>1 DEF SketchInv, StoreIs, Names, Mail
<1>4. p = At("open", store.s)
  BY <1>1, <1>2 DEF Life
<1>5. p.at = "open" /\ p.s = store.s
  BY <1>4 DEF At
<1>6. \E u : be' = BeginGesture(be, p.s, u)
  BY <1>1, <1>5
<1>7. LifeStep(p, be, p, be')
  BY <1>3, <1>5, <1>6 DEF LifeStep
<1>8. ~Calls(a)
  BY DEF Calls
<1>. HIDE DEF a
<1>9. CallIs(answers', c)
  BY <1>1, <1>2, <1>3, <1>8, CallMore
<1>10. Life(p, lane', store'.s, c) /\ FreshIs(turn', store'.s)
  BY <1>1, <1>2
<1>. QED
  BY <1>7, <1>9, <1>10 DEF LifeNext, LifeInv

(* The gesture is open.                                                    *)
LEMMA DragBegunLife ==
    ASSUME SketchInv, NEW p, LifeInv(p), DragBegun
    PROVE  LifeNext(p)
<1>. DEFINE a == Head(answers)  rest == Tail(answers)
            at == Head(be.gesture).before.ents[Head(be.gesture).u].at
<1>1. /\ answers # <<>> /\ a.kind = "begun" /\ lane' = lane /\ store' = store /\ turn' = turn
      /\ \/ be' \in {be, EndGesture(be, at)} /\ answers' = rest
         \/ FinishDrag(rest, Head(drag.up).to, Head(drag.up).restore)
  BY DEF DragBegun, Heard
<1>2. PICK c : CallIs(answers, c) /\ Life(p, lane, store.s, c) /\ FreshIs(turn, store.s)
  BY DEF LifeInv
<1>3. IsSeq(answers)
  BY DEF SketchInv, Mail
<1>4. IsSeq(rest)
  BY <1>1, <1>3, TailSeq
<1>5. CallIs(rest, c)
  BY <1>1, <1>2, <1>3, CallWaits DEF Calls
<1>. HIDE DEF a, rest, at
<1>6. CASE be' \in {be, EndGesture(be, at)} /\ answers' = rest
  <2>1. be' = be \/ \E to : be' = EndGesture(be, to)
    BY <1>6
  <2>. QED
    BY <1>1, <1>2, <1>5, <1>6, <2>1, LifeSame
<1>7. CASE FinishDrag(rest, Head(drag.up).to, Head(drag.up).restore)
  BY <1>1, <1>2, <1>4, <1>5, <1>7, FinishDragLife
<1>. QED
  BY <1>1, <1>6, <1>7

(* The pointer is let go.                                                  *)
LEMMA PointerUpLife ==
    ASSUME SketchInv, NEW p, LifeInv(p), NEW to, NEW restore, PointerUp(to, restore)
    PROVE  LifeNext(p)
<1>1. /\ lane' = lane /\ store' = store /\ turn' = turn
      /\ FinishDrag(answers, to, restore) \/ (be' = be /\ answers' = answers)
  BY DEF PointerUp
<1>2. PICK c : CallIs(answers, c) /\ Life(p, lane, store.s, c) /\ FreshIs(turn, store.s)
  BY DEF LifeInv
<1>3. IsSeq(answers)
  BY DEF SketchInv, Mail
<1>4. CASE FinishDrag(answers, to, restore)
  BY <1>1, <1>2, <1>3, <1>4, FinishDragLife
<1>5. CASE be' = be /\ answers' = answers
  BY <1>1, <1>2, <1>5, LifeSame
<1>. QED
  BY <1>1, <1>4, <1>5

(* The answer of a drag that is over.                                      *)
LEMMA DragEndedLife ==
    ASSUME SketchInv, NEW p, LifeInv(p), DragEnded
    PROVE  LifeNext(p)
<1>. DEFINE a == Head(answers)  rest == Tail(answers)
            moved == [f \in DOMAIN a.base |->
              IF f = a.e /\ a.ok /\ ~a.restore THEN [a.base[f] EXCEPT !.at = a.to] ELSE a.base[f]]
            kept == IF a.restore THEN store ELSE Pushed(store, a.before, 0)
            shown == [kept EXCEPT !.c.ents = moved]
<1>1. /\ answers # <<>> /\ a.kind = "ended" /\ lane' = lane /\ be' = be
      /\ store' \in {store, shown} /\ answers' \in {rest, Superseded(rest)} /\ turn' \in {turn, Stale(turn)}
  BY DEF DragEnded, Heard
<1>2. PICK c : CallIs(answers, c) /\ Life(p, lane, store.s, c) /\ FreshIs(turn, store.s)
  BY DEF LifeInv
<1>3. /\ Mail(answers, turn, drag) /\ IsSeq(answers) /\ TurnIs(turn)
      /\ DOMAIN store = {"s", "c", "undo", "redo", "last"}
  BY DEF SketchInv, Mail, StoreIs
<1>4. ~Begun(a) /\ a.kind # "upsert" /\ ~Calls(a)
  BY <1>1 DEF Begun, Calls
<1>5. Mail(rest, turn, drag)
  BY <1>1, <1>3, <1>4, MailTail
<1>6. IsSeq(rest) /\ \A i \in 1 .. Len(rest) : AnswerKind(rest[i])
  BY <1>5 DEF Mail
<1>7. CallIs(rest, c)
  BY <1>1, <1>2, <1>3, <1>4, CallWaits
<1>8. store'.s = store.s
  <2>1. kept.s = store.s /\ DOMAIN kept = DOMAIN store
    BY <1>3 DEF Pushed
  <2>. HIDE DEF kept, moved
  <2>2. shown.s = store.s
    BY <1>3, <2>1
  <2>. QED
    BY <1>1, <2>2
<1>. HIDE DEF a, rest, shown
<1>9. CallIs(answers', c)
  BY <1>1, <1>6, <1>7, CallLate
<1>10. FreshIs(turn', store'.s)
  <2>1. Stale(turn) # NoTurn => Stale(turn).fresh = FALSE
    BY <1>3, StaleOK
  <2>. QED
    BY <1>1, <1>2, <1>8, <2>1 DEF FreshIs
<1>. QED
  BY ONLY <1>1, <1>2, <1>8, <1>9, <1>10, LifeSame

(* Another tool is picked.                                                 *)
LEMMA SwitchToolLife ==
    ASSUME SketchInv, NEW p, LifeInv(p), SwitchTool
    PROVE  LifeNext(p)
<1>1. answers' = Forgotten(answers) /\ lane' = lane /\ store' = store /\ turn' = turn /\ be' = be
  BY DEF SwitchTool
<1>2. PICK c : CallIs(answers, c) /\ Life(p, lane, store.s, c) /\ FreshIs(turn, store.s)
  BY DEF LifeInv
<1>3. IsSeq(answers) /\ \A i \in 1 .. Len(answers) : AnswerKind(answers[i])
  BY DEF SketchInv, Mail
<1>4. CallIs(answers', c)
  BY <1>1, <1>2, <1>3, CallLate
<1>. QED
  BY <1>1, <1>2, <1>4, LifeSame

(* Entering a sketch, when no other session is open or being closed.       *)
LEMMA SendEnterLife ==
    ASSUME NEW p, p.at = "done" \/ (p.at = "shut" /\ ("half_undo" \in Rare \/ ~HalfUndone(be))),
           p = At(p.at, None), NEW s \in Sketches, NEW as, IsSeq(as), CallIs(as, <<>>), SendEnter(s, as),
           store' = store, store.s = None, turn' = turn, FreshIs(turn, store.s),
           lane'.target = s, lane'.mode = "sketch", lane'.closing = None
    PROVE  LifeNext(p)
<1>1. PICK ok \in BOOLEAN :
        /\ be' = IF ok THEN EnterSketch(be, s) ELSE be
        /\ answers' = Append(as, [kind |-> "enter", s |-> s, ok |-> ok, c |-> be.doc[s]])
  BY DEF SendEnter
<1>. DEFINE a == [kind |-> "enter", s |-> s, ok |-> ok, c |-> be.doc[s]]
<1>2. a.kind = "enter" /\ a.s = s /\ a.ok = ok /\ Calls(a)
  BY DEF Calls
<1>3. answers' = Append(as, a)
  BY <1>1
<1>. HIDE DEF a
<1>4. CallIs(answers', <<a>>)
  BY <1>2, <1>3, CallMade
<1>5. s # None
  BY SketchNames DEF None
<1>6. CASE ok
  <2>. DEFINE q == At("opening", s)
  <2>1. CallPhase(q, a, lane')
    BY <1>2, <1>5, <1>6 DEF CallPhase
  <2>2. Life(q, lane', store'.s, <<a>>)
    BY <2>1 DEF Life
  <2>3. LifeStep(p, be, q, be')
    BY <1>1, <1>6 DEF LifeStep
  <2>. HIDE DEF q
  <2>. QED
    BY <1>4, <2>2, <2>3 DEF LifeNext, LifeInv
<1>7. CASE ~ok
  <2>. DEFINE q == At("shut", None)
  <2>1. CallPhase(q, a, lane')
    BY <1>2, <1>5, <1>7 DEF CallPhase
  <2>2. Life(q, lane', store'.s, <<a>>)
    BY <2>1 DEF Life
  <2>3. be' = be
    BY <1>1, <1>7
  <2>4. LifeStep(p, be, q, be')
    BY <2>3 DEF LifeStep
  <2>. HIDE DEF q
  <2>. QED
    BY <1>4, <2>2, <2>4 DEF LifeNext, LifeInv
<1>. QED
  BY <1>6, <1>7

(* A sketch is asked for.                                                  *)
LEMMA EnterLife ==
    ASSUME SketchInv, "fast_reenter" \notin Rare, NEW p, LifeInv(p), NEW s \in Sketches, Enter(s)
    PROVE  LifeNext(p)
<1>1. /\ lane.mode = "model" /\ store.s = None /\ lane.target = None /\ ~Closing
      /\ "half_undo" \in Rare \/ ~HalfUndone(be)
      /\ lane' = [lane EXCEPT !.mode = "sketch", !.target = s] /\ SendEnter(s, answers)
      /\ store' = store /\ turn' = turn
  BY DEF Enter
<1>2. PICK c : CallIs(answers, c) /\ Life(p, lane, store.s, c) /\ FreshIs(turn, store.s)
  BY DEF LifeInv
<1>3. LaneIs(lane) /\ IsSeq(answers)
  BY DEF SketchInv, Mail
<1>4. DOMAIN answers = 1 .. Len(answers)
  BY <1>3, SeqIs
<1>5. \A i \in 1 .. Len(answers) : answers[i].kind \notin {"cancel", "finish"}
  BY <1>1, <1>4 DEF Closing
<1>6. c = <<>> /\ lane.closing = None /\ p = At("shut", None)
  <2>1. ASSUME NEW a, c = <<a>>, CallPhase(p, a, lane) PROVE FALSE
    <3>1. a.kind \in {"cancel", "finish"}
      BY <1>1, <2>1 DEF CallPhase
    <3>2. PICK i \in 1 .. Len(answers) : Calls(answers[i])
      BY <1>2, <2>1 DEF CallIs
    <3>3. <<a>> = <<answers[i]>>
      BY <1>2, <2>1, <3>2 DEF CallIs
    <3>4. a = answers[i]
      BY <3>3
    <3>. QED
      BY <1>5, <3>1, <3>4
  <2>2. None \notin Sketches
    BY SketchNames DEF None
  <2>. QED
    BY <1>1, <1>2, <2>1, <2>2 DEF Life
<1>7. p.at = "shut" /\ p = At(p.at, None)
  BY <1>6 DEF At
<1>8. lane'.target = s /\ lane'.mode = "sketch" /\ lane'.closing = None
  BY <1>1, <1>3, <1>6 DEF LaneIs
<1>. QED
  BY <1>1, <1>2, <1>3, <1>6, <1>7, <1>8, SendEnterLife

(* The answer of an entry.                                                 *)
LEMMA EnteredLife ==
    ASSUME SketchInv, NEW p, LifeInv(p), Entered
    PROVE  LifeNext(p)
<1>. DEFINE a == Head(answers)  tail == Tail(answers)  rest == Superseded(Forgotten(tail))
            on == a.ok /\ lane.mode = "sketch"
            next == IF on /\ lane.pending \notin {None, a.s} THEN lane.pending ELSE None
            after == [mode |-> IF on THEN "sketch" ELSE "model", target |-> next, pending |-> None,
                      closing |-> IF next = None THEN None ELSE a.s]
            shown == [Closed EXCEPT !.s = a.s, !.c = a.c]
            cancel == [kind |-> "cancel", s |-> a.s, finish |-> FALSE, then |-> None]
<1>1. /\ answers # <<>> /\ a.kind = "enter" /\ lane' = after
      /\ store' = IF on /\ next = None THEN shown ELSE store
      /\ turn' = IF on THEN Stale(turn) ELSE turn
      /\ IF a.ok /\ ~on
         THEN be' = CancelSketch(be, a.s) /\ answers' = Append(tail, cancel)
         ELSE answers' = (IF on THEN rest ELSE tail) /\ be' = be
  BY DEF Entered, Heard
<1>2. PICK c : CallIs(answers, c) /\ Life(p, lane, store.s, c) /\ FreshIs(turn, store.s)
  BY DEF LifeInv
<1>3. Mail(answers, turn, drag) /\ IsSeq(answers) /\ TurnIs(turn) /\ LaneIs(lane)
  BY DEF SketchInv, Mail
<1>4. ~Begun(a) /\ a.kind # "upsert" /\ Calls(a)
  BY <1>1 DEF Begun, Calls
<1>5. Mail(tail, turn, drag)
  BY <1>1, <1>3, <1>4, MailTail
<1>6. c = <<a>> /\ CallIs(tail, <<>>)
  BY <1>1, <1>2, <1>3, <1>4, CallHeard
<1>7. store.s = None /\ lane.closing = None /\ CallPhase(p, a, lane)
  BY <1>2, <1>6 DEF Life
<1>8. /\ ~a.ok => p = At("shut", None)
      /\ a.ok => a.s \in Sketches /\ p = At(IF lane.mode = "sketch" THEN "opening" ELSE "leaving", a.s)
  BY <1>1, <1>7 DEF CallPhase
<1>9. after.mode = (IF on THEN "sketch" ELSE "model") /\ after.target = next
      /\ after.closing = (IF next = None THEN None ELSE a.s)
  OBVIOUS
<1>10. shown.s = a.s
  BY DEF Closed
<1>11. cancel.kind = "cancel" /\ cancel.finish = FALSE
  OBVIOUS
<1>12. None \notin Sketches
  BY SketchNames DEF None
<1>13. Stale(turn) # NoTurn => Stale(turn).fresh = FALSE
  BY <1>3, StaleOK
<1>. HIDE DEF a, tail, after, shown, cancel
<1>14. CallIs(rest, <<>>)
  <2>1. Mail(Forgotten(tail), turn, drag)
    BY <1>5, MailForgotten
  <2>2. CallIs(Forgotten(tail), <<>>)
    BY <1>5, <1>6, CallLate DEF Mail
  <2>. QED
    BY <2>1, <2>2, CallLate DEF Mail
<1>15. CASE on
  <2>. DEFINE q == At("open", a.s)
  <2>1. p.at = "opening" /\ p.s = a.s /\ a.s \in Sketches
    BY <1>8, <1>15 DEF At
  <2>2. be' = be /\ answers' = rest /\ turn' = Stale(turn)
    BY <1>1, <1>15
  <2>3. LifeStep(p, be, q, be')
    BY <2>1, <2>2 DEF LifeStep
  <2>4. Life(q, lane', store'.s, <<>>)
    <3>1. CASE next = None
      <4>1. store'.s = a.s /\ lane'.closing = None /\ lane'.mode = "sketch"
        BY <1>1, <1>9, <1>10, <1>15, <3>1
      <4>. QED
        BY <2>1, <4>1 DEF Life
    <3>2. CASE next # None
      <4>1. store'.s = None /\ lane'.closing = a.s /\ lane'.target # None
        BY <1>1, <1>7, <1>9, <3>2
      <4>. QED
        BY <2>1, <4>1 DEF Life
    <3>. QED
      BY <3>1, <3>2
  <2>5. FreshIs(turn', store'.s)
    BY <1>13, <2>2 DEF FreshIs
  <2>. HIDE DEF q, rest
  <2>. QED
    BY <1>14, <2>2, <2>3, <2>4, <2>5 DEF LifeNext, LifeInv
<1>16. CASE ~on
  <2>. DEFINE q == At("shut", None)
  <2>1. store' = store /\ turn' = turn /\ lane'.closing = None
    BY <1>1, <1>9, <1>16
  <2>2. FreshIs(turn', store'.s) /\ store'.s = None
    BY <1>2, <1>7, <2>1
  <2>3. CASE a.ok
    <3>1. be' = CancelSketch(be, a.s) /\ answers' = Append(tail, cancel)
      BY <1>1, <1>16, <2>3
    <3>2. p.at \in {"opening", "leaving"} /\ p.s = a.s /\ a.s \in Sketches
      BY <1>8, <2>3 DEF At
    <3>3. LifeStep(p, be, q, be')
      BY <3>1, <3>2 DEF LifeStep
    <3>4. CallIs(answers', <<cancel>>)
      BY <1>5, <1>6, <1>11, <3>1, CallMade DEF Calls, Mail
    <3>5. CallPhase(q, cancel, lane')
      BY <1>11 DEF CallPhase
    <3>6. Life(q, lane', store'.s, <<cancel>>)
      BY <2>1, <2>2, <3>5 DEF Life
    <3>. HIDE DEF q
    <3>. QED
      BY <2>2, <3>3, <3>4, <3>6 DEF LifeNext, LifeInv
  <2>4. CASE ~a.ok
    <3>1. be' = be /\ answers' = tail
      BY <1>1, <1>16, <2>4
    <3>2. p = q
      BY <1>8, <2>4
    <3>3. LifeStep(p, be, q, be')
      BY <3>1, <3>2 DEF LifeStep
    <3>4. Life(q, lane', store'.s, <<>>)
      BY <2>1, <2>2 DEF Life
    <3>. HIDE DEF q
    <3>. QED
      BY <1>6, <2>2, <3>1, <3>3, <3>4 DEF LifeNext, LifeInv
  <2>. QED
    BY <2>3, <2>4
<1>. QED
  BY <1>15, <1>16

(* The session of the store is torn down, and perhaps cancelled.           *)
LEMMA TearDownLife ==
    ASSUME SketchInv, NEW as, Mail(as, turn, drag), NEW c, CallIs(as, c), TearDown(as)
    PROVE  store'.s = None /\ FreshIs(turn', store'.s) /\ CallIs(answers', c)
<1>1. store' = Closed /\ turn' = Stale(turn) /\ answers' = Superseded(Forgotten(as))
  BY DEF TearDown
<1>2. store'.s = None
  BY <1>1 DEF Closed
<1>3. Stale(turn) # NoTurn => Stale(turn).fresh = FALSE
  BY StaleOK DEF SketchInv
<1>4. FreshIs(turn', store'.s)
  BY <1>1, <1>3 DEF FreshIs
<1>5. Mail(Forgotten(as), turn, drag)
  BY MailForgotten
<1>6. CallIs(Forgotten(as), c)
  BY CallLate DEF Mail
<1>. QED
  BY <1>1, <1>2, <1>4, <1>5, <1>6, CallLate DEF Mail

(* Sketch mode is left.                                                    *)
LEMMA LeaveLife ==
    ASSUME SketchInv, NEW p, LifeInv(p), Leave
    PROVE  LifeNext(p)
<1>. DEFINE after == [lane EXCEPT !.mode = "model"]
            cancel == [kind |-> "cancel", s |-> store.s, finish |-> TRUE, then |-> None]
<1>1. /\ lane.mode = "sketch" /\ lane' = after
      /\ IF store.s = None
         THEN store' = store /\ turn' = turn /\ answers' = answers /\ be' = be
         ELSE TearDown(Append(answers, cancel)) /\ be' = CancelSketch(be, store.s)
  BY DEF Leave
<1>2. PICK c : CallIs(answers, c) /\ Life(p, lane, store.s, c) /\ FreshIs(turn, store.s)
  BY DEF LifeInv
<1>3. /\ Mail(answers, turn, drag) /\ IsSeq(answers) /\ LaneIs(lane)
      /\ \A i \in 1 .. Len(answers) : AnswerKind(answers[i])
  BY DEF SketchInv, Mail
<1>4. after.mode = "model" /\ after.target = lane.target /\ after.closing = lane.closing
  BY <1>3 DEF LaneIs
<1>. HIDE DEF after
<1>5. None \notin Sketches
  BY SketchNames DEF None
<1>6. CASE store.s = None
  <2>1. store' = store /\ turn' = turn /\ answers' = answers /\ be' = be
    BY <1>1, <1>6
  <2>2. CASE c = <<>>
    <3>1. Life(p, lane', store'.s, c)
      BY <1>1, <1>2, <1>4, <1>5, <1>6, <2>1, <2>2 DEF Life
    <3>2. LifeStep(p, be, p, be')
      BY <2>1 DEF LifeStep
    <3>. QED
      BY <1>2, <2>1, <3>1, <3>2 DEF LifeNext, LifeInv
  <2>3. CASE c # <<>>
    <3>1. PICK a : c = <<a>> /\ lane.closing = None /\ CallPhase(p, a, lane)
      BY <1>2, <2>3 DEF Life
    <3>2. CASE a.kind = "enter" /\ a.ok
      <4>. DEFINE q == At("leaving", a.s)
      <4>1. p = At("opening", a.s) /\ a.s \in Sketches /\ lane.target # None
        BY <1>1, <3>1, <3>2 DEF CallPhase
      <4>2. p.at = "opening" /\ p.s = a.s
        BY <4>1 DEF At
      <4>3. LifeStep(p, be, q, be')
        BY <2>1, <4>1, <4>2 DEF LifeStep
      <4>4. CallPhase(q, a, lane')
        BY <1>1, <1>4, <3>2, <4>1 DEF CallPhase
      <4>5. Life(q, lane', store'.s, c)
        BY <1>1, <1>4, <1>6, <2>1, <3>1, <4>4 DEF Life
      <4>. HIDE DEF q
      <4>. QED
        BY <1>2, <2>1, <4>3, <4>5 DEF LifeNext, LifeInv
    <3>3. CASE ~(a.kind = "enter" /\ a.ok)
      <4>1. CallPhase(p, a, lane')
        BY <1>1, <1>4, <3>1, <3>3 DEF CallPhase
      <4>2. Life(p, lane', store'.s, c)
        BY <1>1, <1>4, <1>6, <2>1, <3>1, <4>1 DEF Life
      <4>3. LifeStep(p, be, p, be')
        BY <2>1 DEF LifeStep
      <4>. QED
        BY <1>2, <2>1, <4>2, <4>3 DEF LifeNext, LifeInv
    <3>. QED
      BY <3>2, <3>3
  <2>. QED
    BY <2>2, <2>3
<1>7. CASE store.s # None
  <2>. DEFINE q == At("owed", store.s)
  <2>1. TearDown(Append(answers, cancel)) /\ be' = CancelSketch(be, store.s)
    BY <1>1, <1>7
  <2>2. c = <<>> /\ p = At("open", store.s) /\ store.s \in Sketches /\ lane.closing = None
    BY <1>2, <1>7 DEF Life
  <2>3. p.at = "open" /\ p.s = store.s
    BY <2>2 DEF At
  <2>4. LifeStep(p, be, q, be')
    BY <2>1, <2>2, <2>3 DEF LifeStep
  <2>5. /\ cancel.kind = "cancel" /\ cancel.finish = TRUE /\ cancel.s = store.s /\ AnswerKind(cancel)
        /\ Calls(cancel) /\ cancel.kind # "upsert" /\ ~Begun(cancel)
    BY <2>2 DEF AnswerKind, Names, Calls, Begun
  <2>6. Mail(Append(answers, cancel), turn, drag)
    BY <1>3, <2>5, MailAppend
  <2>7. CallIs(Append(answers, cancel), <<cancel>>)
    BY <1>2, <1>3, <2>2, <2>5, CallMade
  <2>8. CallPhase(q, cancel, lane')
    BY <2>2, <2>5 DEF CallPhase
  <2>. HIDE DEF cancel, q
  <2>9. store'.s = None /\ FreshIs(turn', store'.s) /\ CallIs(answers', <<cancel>>)
    BY <2>1, <2>6, <2>7, TearDownLife
  <2>10. Life(q, lane', store'.s, <<cancel>>)
    BY <1>1, <1>4, <2>2, <2>8, <2>9 DEF Life
  <2>. QED
    BY <2>4, <2>9, <2>10 DEF LifeNext, LifeInv
<1>. QED
  BY <1>6, <1>7

(* Another sketch is picked.                                               *)
LEMMA SwitchToLife ==
    ASSUME SketchInv, NEW p, LifeInv(p), NEW s \in Sketches, SwitchTo(s)
    PROVE  LifeNext(p)
<1>. DEFINE later == [lane EXCEPT !.pending = s]
            now == [lane EXCEPT !.target = s, !.closing = store.s]
<1>1. /\ lane.mode = "sketch" /\ be' = be
      /\ IF lane.target # None
         THEN lane' = later /\ store' = store /\ turn' = turn /\ answers' = answers
         ELSE store.s # None /\ lane' = now /\ TearDown(answers)
  BY DEF SwitchTo
<1>2. PICK c : CallIs(answers, c) /\ Life(p, lane, store.s, c) /\ FreshIs(turn, store.s)
  BY DEF LifeInv
<1>3. LaneIs(lane) /\ Mail(answers, turn, drag)
  BY DEF SketchInv
<1>4. later.mode = lane.mode /\ later.target = lane.target /\ later.closing = lane.closing
  BY <1>3 DEF LaneIs
<1>5. now.mode = lane.mode /\ now.target = s /\ now.closing = store.s
  BY <1>3 DEF LaneIs
<1>6. LifeStep(p, be, p, be')
  BY <1>1 DEF LifeStep
<1>7. s # None /\ None \notin Sketches
  BY SketchNames DEF None
<1>. HIDE DEF later, now
<1>8. CASE lane.target # None
  <2>1. lane' = later /\ store' = store /\ turn' = turn /\ answers' = answers
    BY <1>1, <1>8
  <2>2. \A a : CallPhase(p, a, lane) => CallPhase(p, a, lane')
    BY <1>4, <2>1 DEF CallPhase
  <2>3. Life(p, lane', store'.s, c)
    BY <1>2, <1>4, <2>1, <2>2 DEF Life
  <2>. QED
    BY <1>2, <1>6, <2>1, <2>3 DEF LifeNext, LifeInv
<1>9. CASE lane.target = None
  <2>1. store.s # None /\ lane' = now /\ TearDown(answers)
    BY <1>1, <1>9
  <2>2. c = <<>> /\ p = At("open", store.s) /\ store.s \in Sketches
    BY <1>2, <2>1 DEF Life
  <2>3. store'.s = None /\ FreshIs(turn', store'.s) /\ CallIs(answers', c)
    BY <1>2, <1>3, <2>1, TearDownLife
  <2>4. Life(p, lane', store'.s, c)
    BY <1>5, <1>7, <2>1, <2>2, <2>3 DEF Life
  <2>. QED
    BY <1>6, <2>3, <2>4 DEF LifeNext, LifeInv
<1>. QED
  BY <1>8, <1>9

(* The chain is flushed.                                                   *)
LEMMA SwitchFlushedLife ==
    ASSUME SketchInv, NEW p, LifeInv(p), SwitchFlushed
    PROVE  LifeNext(p)
<1>. DEFINE after == [lane EXCEPT !.closing = None]  s == lane.closing
            cancel == [kind |-> "cancel", s |-> s, finish |-> TRUE, then |-> lane.target]
            q == At("owed", s)
<1>1. /\ s # None /\ be' = CancelSketch(be, s) /\ answers' = Append(answers, cancel) /\ lane' = after
      /\ store' = store /\ turn' = turn
  BY DEF SwitchFlushed
<1>2. PICK c : CallIs(answers, c) /\ Life(p, lane, store.s, c) /\ FreshIs(turn, store.s)
  BY DEF LifeInv
<1>3. IsSeq(answers) /\ LaneIs(lane)
  BY DEF SketchInv, Mail
<1>4. after.closing = None
  BY <1>3 DEF LaneIs
<1>5. c = <<>> /\ store.s = None /\ s \in Sketches /\ p = At("open", s)
  BY <1>1, <1>2 DEF Life
<1>6. p.at = "open" /\ p.s = s
  BY <1>5 DEF At
<1>7. LifeStep(p, be, q, be')
  BY <1>1, <1>5, <1>6 DEF LifeStep
<1>8. cancel.kind = "cancel" /\ cancel.finish = TRUE /\ cancel.s = s /\ Calls(cancel)
  BY DEF Calls
<1>9. CallIs(answers', <<cancel>>)
  BY <1>1, <1>2, <1>3, <1>5, <1>8, CallMade
<1>10. CallPhase(q, cancel, lane')
  BY <1>5, <1>8 DEF CallPhase
<1>. HIDE DEF after, cancel, q
<1>11. Life(q, lane', store'.s, <<cancel>>)
  BY <1>1, <1>4, <1>5, <1>10 DEF Life
<1>. QED
  BY <1>1, <1>2, <1>7, <1>9, <1>11 DEF LifeNext, LifeInv

(* The answer of a cancel.                                                 *)
LEMMA CancelledLife ==
    ASSUME SketchInv, NEW p, LifeInv(p), Cancelled
    PROVE  LifeNext(p)
<1>. DEFINE a == Head(answers)  rest == Tail(answers)  finish == [kind |-> "finish", then |-> a.then]
<1>1. /\ answers # <<>> /\ a.kind = "cancel" /\ lane' = lane /\ store' = store /\ turn' = turn
      /\ IF a.finish THEN be' = FinishSketch(be, a.s) /\ answers' = Append(rest, finish)
         ELSE answers' = rest /\ be' = be
  BY DEF Cancelled, Heard
<1>2. PICK c : CallIs(answers, c) /\ Life(p, lane, store.s, c) /\ FreshIs(turn, store.s)
  BY DEF LifeInv
<1>3. IsSeq(answers)
  BY DEF SketchInv, Mail
<1>4. IsSeq(rest)
  BY <1>1, <1>3, TailSeq
<1>5. c = <<a>> /\ CallIs(rest, <<>>)
  BY <1>1, <1>2, <1>3, CallHeard DEF Calls
<1>6. finish.kind = "finish" /\ Calls(finish)
  BY DEF Calls
<1>7. store.s = None /\ lane.closing = None /\ CallPhase(p, a, lane)
  BY <1>2, <1>5 DEF Life
<1>. HIDE DEF a, rest, finish
<1>8. CASE a.finish
  <2>. DEFINE q == At("done", None)
  <2>1. p = At("owed", a.s) /\ a.s \in Sketches
    BY <1>1, <1>7, <1>8 DEF CallPhase
  <2>2. p.at = "owed" /\ p.s = a.s
    BY <2>1 DEF At
  <2>3. LifeStep(p, be, q, be')
    BY <1>1, <1>8, <2>1, <2>2 DEF LifeStep
  <2>4. CallIs(answers', <<finish>>)
    BY <1>1, <1>4, <1>5, <1>6, <1>8, CallMade
  <2>5. CallPhase(q, finish, lane')
    BY <1>6 DEF CallPhase
  <2>. HIDE DEF q
  <2>6. Life(q, lane', store'.s, <<finish>>)
    BY <1>1, <1>7, <2>5 DEF Life
  <2>. QED
    BY <1>1, <1>2, <2>3, <2>4, <2>6 DEF LifeNext, LifeInv
<1>9. CASE ~a.finish
  <2>1. p = At("shut", None)
    BY <1>1, <1>7, <1>9 DEF CallPhase
  <2>2. be' = be /\ answers' = rest
    BY <1>1, <1>9
  <2>3. LifeStep(p, be, p, be')
    BY <2>2 DEF LifeStep
  <2>4. Life(p, lane', store'.s, <<>>)
    BY <1>1, <1>7, <2>1 DEF Life
  <2>. QED
    BY <1>1, <1>2, <1>5, <2>2, <2>3, <2>4 DEF LifeNext, LifeInv
<1>. QED
  BY <1>8, <1>9

(* The answer of a finish.                                                 *)
LEMMA FinishedLife ==
    ASSUME SketchInv, NEW p, LifeInv(p), Finished
    PROVE  LifeNext(p)
<1>. DEFINE a == Head(answers)  rest == Tail(answers)
            next == IF lane.pending # None THEN lane.pending ELSE a.then
            idle == [lane EXCEPT !.target = None, !.pending = None]
            going == [lane EXCEPT !.target = next, !.pending = None]
            q == At("shut", None)
<1>1. /\ answers # <<>> /\ a.kind = "finish" /\ store' = store /\ turn' = turn
      /\ IF a.then = None THEN answers' = rest /\ lane' = lane /\ be' = be
         ELSE IF lane.mode # "sketch" THEN lane' = idle /\ answers' = rest /\ be' = be
         ELSE lane' = going /\ SendEnter(next, rest)
  BY DEF Finished, Heard
<1>2. PICK c : CallIs(answers, c) /\ Life(p, lane, store.s, c) /\ FreshIs(turn, store.s)
  BY DEF LifeInv
<1>3. IsSeq(answers) /\ LaneIs(lane) /\ Mail(answers, turn, drag)
  BY DEF SketchInv, Mail
<1>4. IsSeq(rest)
  BY <1>1, <1>3, TailSeq
<1>5. c = <<a>> /\ CallIs(rest, <<>>)
  BY <1>1, <1>2, <1>3, CallHeard DEF Calls
<1>6. store.s = None /\ lane.closing = None /\ CallPhase(p, a, lane)
  BY <1>2, <1>5 DEF Life
<1>7. p = At("done", None)
  BY <1>1, <1>6 DEF CallPhase
<1>8. p.at = "done" /\ p = At(p.at, None)
  BY <1>7 DEF At
<1>9. idle.closing = lane.closing
  BY <1>3 DEF LaneIs
<1>10. going.target = next /\ going.mode = lane.mode /\ going.closing = lane.closing
  BY <1>3 DEF LaneIs
<1>11. AnswerKind(a)
  <2>1. ~Begun(a) /\ a.kind # "upsert"
    BY <1>1 DEF Begun
  <2>2. AnswerKind(a) /\ Mail(rest, turn, drag)
    BY <1>1, <1>3, <2>1, MailTail
  <2>. QED
    BY <2>2
<1>. HIDE DEF rest, idle, going
<1>12. CASE a.then = None \/ lane.mode # "sketch"
  <2>1. answers' = rest /\ be' = be /\ lane' \in {lane, idle}
    BY <1>1, <1>12
  <2>2. LifeStep(p, be, q, be')
    BY <1>8, <2>1 DEF LifeStep
  <2>3. Life(q, lane', store'.s, <<>>)
    BY <1>1, <1>6, <1>9, <2>1 DEF Life
  <2>. HIDE DEF q
  <2>. QED
    BY <1>1, <1>2, <1>5, <2>1, <2>2, <2>3 DEF LifeNext, LifeInv
<1>13. CASE ~(a.then = None \/ lane.mode # "sketch")
  <2>1. lane' = going /\ SendEnter(next, rest) /\ lane.mode = "sketch"
    BY <1>1, <1>13
  <2>2. next \in Sketches
    BY <1>1, <1>3, <1>11, <1>13 DEF LaneIs, Names, AnswerKind
  <2>3. lane'.target = next /\ lane'.mode = "sketch" /\ lane'.closing = None
    BY <1>6, <1>10, <2>1
  <2>. HIDE DEF next
  <2>. QED
    BY <1>1, <1>2, <1>4, <1>5, <1>6, <1>8, <2>1, <2>2, <2>3, SendEnterLife
<1>. QED
  BY <1>12, <1>13

(* The document's history, in model mode: no session is open, owed a       *)
(* finish or just finished.                                                *)
LEMMA InModelLife ==
    ASSUME SketchInv, "early_undo" \notin Rare, NEW p, LifeInv(p), ModelUndo \/ ModelRedo \/ ModelEdit
    PROVE  LifeNext(p)
<1>. DEFINE e == [kind |-> "model", s |-> None, prior |-> <<>>, after |-> <<>>]
<1>1. /\ lane.mode = "model" /\ ~Closing /\ lane.closing = None /\ ("entry_act" \in Rare \/ lane.target = None)
      /\ lane' = lane /\ store' = store /\ turn' = turn /\ answers' = answers
      /\ \/ be' = Undo(be) \/ be' = Redo(be)
         \/ ("half_undo" \in Rare \/ ~HalfUndone(be)) /\ be' = PushCommitted(be, e)
  BY DEF ModelUndo, ModelRedo, ModelEdit, InModel
<1>2. e.kind = "model" /\ e.s = None
  OBVIOUS
<1>. HIDE DEF e
<1>3. Act(be, be')
  BY <1>1, <1>2 DEF Act
<1>4. PICK c : CallIs(answers, c) /\ Life(p, lane, store.s, c) /\ FreshIs(turn, store.s)
  BY DEF LifeInv
<1>5. IsSeq(answers)
  BY DEF SketchInv, Mail
<1>6. DOMAIN answers = 1 .. Len(answers)
  BY <1>5, SeqIs
<1>7. \A i \in 1 .. Len(answers) : answers[i].kind \notin {"cancel", "finish"}
  BY <1>1, <1>6 DEF Closing
<1>8. LifeStep(p, be, p, be')
  <2>1. CASE c = <<>>
    <3>1. p = At("shut", None)
      BY <1>1, <1>4, <2>1, SketchNames DEF Life, None
    <3>2. p.at = "shut"
      BY <3>1 DEF At
    <3>. QED
      BY <1>3, <3>2 DEF LifeStep
  <2>2. CASE c # <<>>
    <3>1. PICK a : c = <<a>> /\ CallPhase(p, a, lane)
      BY <1>4, <2>2 DEF Life
    <3>2. PICK i \in 1 .. Len(answers) : Calls(answers[i])
      BY <1>4, <2>2 DEF CallIs
    <3>3. <<a>> = <<answers[i]>>
      BY <1>4, <3>1, <3>2 DEF CallIs
    <3>4. a = answers[i]
      BY <3>3
    <3>5. a.kind \notin {"cancel", "finish"}
      BY <1>7, <3>4
    <3>6. CASE a.ok
      <4>1. p = At("leaving", a.s) /\ a.s \in Sketches /\ lane.target # None
        BY <1>1, <3>1, <3>5, <3>6 DEF CallPhase
      <4>2. p.at = "leaving" /\ p.s \in Sketches
        BY <4>1 DEF At
      <4>. QED
        BY <1>1, <1>3, <4>1, <4>2 DEF LifeStep
    <3>7. CASE ~a.ok
      <4>1. p = At("shut", None)
        BY <3>1, <3>5, <3>7 DEF CallPhase
      <4>2. p.at = "shut"
        BY <4>1 DEF At
      <4>. QED
        BY <1>3, <4>2 DEF LifeStep
    <3>. QED
      BY <3>6, <3>7
  <2>. QED
    BY <2>1, <2>2
<1>9. Life(p, lane', store'.s, c) /\ CallIs(answers', c) /\ FreshIs(turn', store'.s)
  BY <1>1, <1>4
<1>. QED
  BY <1>8, <1>9 DEF LifeNext, LifeInv

(* In the beginning no session is open.                                    *)
LEMMA LifeInit ==
    ASSUME Init
    PROVE  /\ LifeInv(At("shut", None))
           /\ be.gesture = <<>> /\ be.slot = <<>> /\ be.undo = <<>> /\ be.redo = <<>>
<1>1. /\ lane.closing = None /\ store = Closed /\ turn = NoTurn /\ answers = <<>>
      /\ be.undo = <<>> /\ be.redo = <<>> /\ be.slot = <<>> /\ be.gesture = <<>>
  BY DEF Init
<1>2. store.s = None
  BY <1>1 DEF Closed
<1>3. CallIs(answers, <<>>)
  BY <1>1, NoSeq DEF CallIs
<1>4. FreshIs(turn, store.s)
  BY <1>1 DEF FreshIs
<1>5. Life(At("shut", None), lane, store.s, <<>>)
  BY <1>1, <1>2 DEF Life
<1>. QED
  BY <1>1, <1>3, <1>4, <1>5 DEF LifeInv

(* Every step of the program is a step of the session's life.              *)
LEMMA LifeSteps ==
    ASSUME SketchInv, "early_undo" \notin Rare, "fast_reenter" \notin Rare, NEW p, LifeInv(p), [Next]_vars
    PROVE  LifeNext(p)
<1>1. CASE UNCHANGED vars
  <2>1. lane' = lane /\ store' = store /\ turn' = turn /\ answers' = answers /\ be' = be
    BY <1>1 DEF vars
  <2>2. PICK c : CallIs(answers, c) /\ Life(p, lane, store.s, c) /\ FreshIs(turn, store.s)
    BY DEF LifeInv
  <2>. QED
    BY <2>1, <2>2, LifeSame
<1>2. CASE StartTurn
  BY <1>2, StartTurnLife
<1>3. CASE \E v \in Offered(store.c) : Click(v)
  BY <1>3, ClickLife
<1>4. CASE TurnAnswered
  BY <1>4, TurnAnsweredLife
<1>5. CASE \E e \in DOMAIN store.c.ents : BeginSelectDrag(e)
  BY <1>5, BeginSelectDragLife
<1>6. CASE DragBegun
  BY <1>6, DragBegunLife
<1>7. CASE \E to \in 0..1, restore \in BOOLEAN : PointerUp(to, restore)
  BY <1>7, PointerUpLife
<1>8. CASE DragEnded
  BY <1>8, DragEndedLife
<1>9. CASE SwitchTool
  BY <1>9, SwitchToolLife
<1>10. CASE \E s \in Sketches : Enter(s)
  BY <1>10, EnterLife
<1>11. CASE Entered
  BY <1>11, EnteredLife
<1>12. CASE Leave
  BY <1>12, LeaveLife
<1>13. CASE \E s \in Sketches : SwitchTo(s)
  BY <1>13, SwitchToLife
<1>14. CASE SwitchFlushed
  BY <1>14, SwitchFlushedLife
<1>15. CASE Cancelled
  BY <1>15, CancelledLife
<1>16. CASE Finished
  BY <1>16, FinishedLife
<1>17. CASE ModelUndo \/ ModelRedo \/ ModelEdit
  BY <1>17, InModelLife
<1>. QED
  BY <1>1, <1>2, <1>3, <1>4, <1>5, <1>6, <1>7, <1>8, <1>9, <1>10, <1>11, <1>12, <1>13, <1>14, <1>15, <1>16, <1>17
     DEF Next

-----------------------------------------------------------------------------
(* A closed sketch is closed in the runtime too: the theorem.              *)

(* What the runtime holds in each phase.                                   *)
Held(p, b) ==
    /\ p.at \in {"shut", "owed", "done"} => Shut(b)
    /\ p.at = "opening" => p.s \in Sketches /\ Opening(b, p.s, "sketch")
    /\ p.at = "leaving" => p.s \in Sketches /\ Opening(b, p.s, "model")
    /\ p.at = "open" => p.s \in Sketches /\ Open(b, p.s)
    /\ p.at \in {"shut", "owed", "done", "opening", "leaving", "open"}

(* Each step of the life keeps it.                                         *)
LEMMA HeldStep ==
    ASSUME NEW p, NEW b, BeOK(b), Held(p, b), NEW q, NEW d, LifeStep(p, b, q, d)
    PROVE  Held(q, d)
<1>0. BeKind(b)
  BY DEF BeOK
<1>1. CASE q = p /\ d = b
  BY <1>1
<1>2. CASE q = p /\ \E to : d = EndGesture(b, to)
  <2>1. PICK to : d = EndGesture(b, to)
    BY <1>2
  <2>2. CASE p.at = "open"
    <3>1. Open(d, p.s)
      BY <2>1, <2>2, OpenEnded DEF Held
    <3>. QED
      BY <1>2, <2>2, <3>1 DEF Held
  <2>3. CASE p.at # "open"
    <3>1. b.gesture = <<>>
      BY <2>3 DEF Held, Shut, Opening, Calm
    <3>2. d = b
      BY <2>1, <3>1 DEF EndGesture
    <3>. QED
      BY <1>2, <3>2
  <2>. QED
    BY <2>2, <2>3
<1>3. CASE p.at = "done" /\ q = At("shut", None) /\ d = b
  BY <1>3 DEF Held, At
<1>4. CASE p.at \in {"done", "shut"} /\ \E s \in Sketches : q = At("opening", s) /\ d = EnterSketch(b, s)
  <2>1. PICK s \in Sketches : q = At("opening", s) /\ d = EnterSketch(b, s)
    BY <1>4
  <2>2. Opening(d, s, "sketch")
    BY <1>0, <1>4, <2>1, EnterShut DEF Held
  <2>. QED
    BY <2>1, <2>2 DEF Held, At
<1>5. CASE p.at = "opening" /\ q = At("open", p.s) /\ d = b
  <2>1. Open(d, p.s) /\ p.s \in Sketches
    BY <1>5, OpeningOpen DEF Held
  <2>. QED
    BY <1>5, <2>1 DEF Held, At
<1>6. CASE p.at = "opening" /\ q = At("leaving", p.s) /\ d = b
  <2>1. Opening(d, p.s, "model") /\ p.s \in Sketches
    BY <1>6 DEF Held, Opening
  <2>. QED
    BY <1>6, <2>1 DEF Held, At
<1>7. CASE p.at \in {"opening", "leaving"} /\ q = At("shut", None) /\ d = CancelSketch(b, p.s)
  <2>1. p.s \in Sketches /\ (Opening(b, p.s, "sketch") \/ Opening(b, p.s, "model"))
    BY <1>7 DEF Held
  <2>2. Shut(d)
    BY <1>7, <2>1, OpeningShut
  <2>. QED
    BY <1>7, <2>2 DEF Held, At
<1>8. CASE p.at = "open" /\ q = p /\ \E after : d = SketchEdit(b, p.s, "edit", after)
  <2>1. Open(d, p.s) /\ p.s \in Sketches
    BY <1>8, OpenEdited DEF Held
  <2>. QED
    BY <1>8, <2>1 DEF Held
<1>9. CASE p.at = "open" /\ q = p /\ \E u : d = BeginGesture(b, p.s, u)
  <2>1. Open(d, p.s) /\ p.s \in Sketches
    BY <1>0, <1>9, OpenBegun DEF Held
  <2>. QED
    BY <1>9, <2>1 DEF Held
<1>10. CASE p.at = "open" /\ q = At("owed", p.s) /\ d = CancelSketch(b, p.s)
  <2>1. Shut(d)
    BY <1>10, OpenShut DEF Held
  <2>. QED
    BY <1>10, <2>1 DEF Held, At
<1>11. CASE p.at = "owed" /\ p.s \in Sketches /\ q = At("done", None) /\ d = FinishSketch(b, p.s)
  <2>1. Shut(d)
    BY <1>0, <1>11, FinishShut DEF Held
  <2>. QED
    BY <1>11, <2>1 DEF Held, At
<1>12. CASE p.at \in {"shut", "leaving"} /\ q = p /\ Act(b, d)
  <2>1. PICK e : e.kind = "model" /\ (d = Undo(b) \/ d = Redo(b) \/ d = PushCommitted(b, e))
    <3>. DEFINE e == [kind |-> "model"]
    <3>1. e.kind = "model"
      OBVIOUS
    <3>. HIDE DEF e
    <3>. QED
      BY <1>12, <3>1 DEF Act
  <2>2. CASE p.at = "shut"
    <3>1. Shut(d)
      BY <1>0, <2>1, <2>2, ActShut DEF Held
    <3>. QED
      BY <1>12, <2>2, <3>1 DEF Held
  <2>3. CASE p.at = "leaving"
    <3>1. Opening(d, p.s, "model") /\ p.s \in Sketches
      BY <1>0, <2>1, <2>3, ActOpening DEF Held
    <3>. QED
      BY <1>12, <2>3, <3>1 DEF Held
  <2>. QED
    BY <1>12, <2>2, <2>3
<1>. QED
  BY ONLY <1>1, <1>2, <1>3, <1>4, <1>5, <1>6, <1>7, <1>8, <1>9, <1>10, <1>11, <1>12, LifeStep(p, b, q, d) DEF LifeStep

(* The session goes through its life, and the runtime holds what its phase *)
(* says.                                                                   *)
ClosedInv == SketchInv /\ \E p : LifeInv(p) /\ Held(p, be)

(* It does in the beginning,                                               *)
LEMMA ClosedInit == Init => ClosedInv
<1>. SUFFICES ASSUME Init PROVE ClosedInv
  OBVIOUS
<1>. DEFINE p == At("shut", None)
<1>1. LifeInv(p) /\ be.gesture = <<>> /\ be.slot = <<>> /\ be.undo = <<>> /\ be.redo = <<>>
  BY LifeInit
<1>2. Held(p, be)
  BY <1>1, TameNone DEF Held, At, Shut, Calm
<1>. HIDE DEF p
<1>. QED
  BY <1>1, <1>2, SketchInit DEF ClosedInv

(* and at every step.                                                      *)
LEMMA ClosedStep ==
    ASSUME "early_undo" \notin Rare, "fast_reenter" \notin Rare
    PROVE  ClosedInv /\ [Next]_vars => ClosedInv'
<1>. SUFFICES ASSUME ClosedInv, [Next]_vars PROVE ClosedInv'
  OBVIOUS
<1>1. PICK p : LifeInv(p) /\ Held(p, be)
  BY DEF ClosedInv
<1>2. SketchInv /\ BeOK(be) /\ SketchInv'
  BY SketchStep DEF ClosedInv, SketchInv
<1>3. LifeNext(p)
  BY <1>1, <1>2, LifeSteps
<1>4. PICK q : LifeInv(q)' /\ LifeStep(p, be, q, be')
  BY <1>3 DEF LifeNext
<1>5. Held(q, be')
  BY <1>1, <1>2, <1>4, HeldStep
<1>. QED
  BY <1>2, <1>4, <1>5 DEF ClosedInv

(* So it always does.                                                      *)
LEMMA ClosedAlways ==
    ASSUME "early_undo" \notin Rare, "fast_reenter" \notin Rare
    PROVE  Spec => []ClosedInv
BY ClosedInit, ClosedStep, PTL DEF Spec

(* Once all is answered in model mode, no session is in any phase but shut.*)
LEMMA ClosedIs == ClosedInv => ClosedIsClosed
<1>. SUFFICES ASSUME ClosedInv, Settled, lane.mode = "model"
              PROVE  /\ be.slot = <<>> /\ be.gesture = <<>>
                     /\ be.evicted = 0 => \A e \in Range(be.undo \o be.redo) : e.kind \notin {"edit", "drag"}
  BY DEF ClosedIsClosed
<1>1. PICK p : LifeInv(p) /\ Held(p, be)
  BY DEF ClosedInv
<1>2. answers = <<>> /\ lane.target = None
  BY DEF Settled
<1>3. PICK c : CallIs(answers, c) /\ Life(p, lane, store.s, c)
  BY <1>1 DEF LifeInv
<1>4. c = <<>>
  BY <1>2, <1>3, NoSeq DEF CallIs
<1>5. p = At("shut", None)
  BY <1>2, <1>3, <1>4 DEF Life
<1>6. Shut(be)
  BY <1>1, <1>5 DEF Held, At
<1>7. ASSUME be.evicted = 0, NEW e \in Range(be.undo \o be.redo) PROVE e.kind \notin {"edit", "drag"}
  <2>1. IsSeq(be.undo) /\ IsSeq(be.redo) /\ Tame(be.undo) /\ Tame(be.redo)
    BY <1>6, <1>7 DEF Shut, Calm, ClosedInv, SketchInv, BeOK, BeKind, StackKind
  <2>. DEFINE n == Len(be.undo)  m == Len(be.redo)  w == be.undo \o be.redo
  <2>2. /\ n \in Nat /\ m \in Nat /\ DOMAIN w = 1 .. n + m
        /\ \A i \in 1 .. n + m : w[i] = IF i <= n THEN be.undo[i] ELSE be.redo[i - n]
    <3>1. PICK T, S : be.undo \in Seq(T) /\ be.redo \in Seq(S)
      BY <2>1 DEF IsSeq
    <3>2. n \in Nat /\ m \in Nat
      BY <3>1, LenProperties
    <3>3. be.undo \in Seq(T \cup S) /\ be.redo \in Seq(T \cup S)
      BY <3>1, SeqMonotonic
    <3>4. /\ w \in Seq(T \cup S) /\ Len(w) = n + m
          /\ \A i \in 1 .. n + m : w[i] = IF i <= n THEN be.undo[i] ELSE be.redo[i - n]
      BY <3>3, ConcatProperties
    <3>. HIDE DEF w
    <3>5. DOMAIN w = 1 .. n + m
      BY <3>4, LenProperties
    <3>. QED
      BY <3>2, <3>4, <3>5
  <2>3. PICK i \in 1 .. n + m : e = w[i]
    BY <1>7, <2>2 DEF Range
  <2>. HIDE DEF n, m, w
  <2>4. i <= n => i \in 1 .. n
    BY <2>2
  <2>5. ~(i <= n) => i - n \in 1 .. m
    BY <2>2
  <2>6. ~Loose(e)
    BY <2>1, <2>2, <2>3, <2>4, <2>5 DEF Tame, n, m
  <2>. QED
    BY <2>6 DEF Loose
<1>. QED
  BY <1>6, <1>7 DEF Shut, Calm

(* Unless the document's history is used while a session is being closed,  *)
(* or a sketch is entered before the last one is: a sketch that is closed  *)
(* is closed in the runtime too, without a session, without a gesture that *)
(* would block every undo, and with its edits become one step.             *)
THEOREM SketchClosed ==
    ASSUME "early_undo" \notin Rare, "fast_reenter" \notin Rare
    PROVE  Spec => []ClosedIsClosed
BY ClosedAlways, ClosedIs, PTL

-----------------------------------------------------------------------------
(* The record of a sketch: histories of visits.                            *)

(* What a visit leaves: a net step n, and the record step r that follows.  *)
Partner(n, r) ==
    /\ r.kind = "record" /\ r.s = n.s /\ r.after = n.after
    /\ r.prior = n.prior \/ (r.prior = <<>> /\ n.prior = <<Empty>>)

(* A visit that changed nothing leaves the record of an empty sketch.      *)
Lone(e) == e.prior = <<>> /\ e.after = <<Empty>>

(* The first k steps of a history are whole visits, and steps of others.   *)
Paired(w, k) ==
    \A i \in 1 .. k :
      /\ w[i].kind = "net" => i < k /\ Partner(w[i], w[i + 1])
      /\ w[i].kind = "record" => Lone(w[i]) \/ (i > 1 /\ w[i - 1].kind = "net")

(* The history w is what is done, then what can be redone.                 *)
Spans(w, u, r) ==
    /\ \A i \in 1 .. Len(u) : w[i] = u[i]
    /\ \A i \in 1 .. Len(r) : w[Len(u) + Len(r) + 1 - i] = r[i]

(* It is of whole visits, although the last may be half undone.            *)
Orderly(u, r) == \E w : Spans(w, u, r) /\ Paired(w, Len(u) + Len(r))

(* The record of a visit is undone, and its net step is not.               *)
NetOnTop(u) == u # <<>> /\ u[Len(u)].kind = "net"

(* The record holds the sketch, or there is none of an empty sketch.       *)
SyncAt(rec, v) == rec = <<v>> \/ (rec = <<>> /\ v = Empty)

(* All records hold their sketches, but for one whose visit is half undone;*)
Rest(b) ==
    /\ Orderly(b.undo, b.redo)
    /\ \A s \in Sketches : \/ SyncAt(b.record[s], b.doc[s])
                           \/ NetOnTop(b.undo) /\ b.undo[Len(b.undo)].s = s

(* no visit is half undone.                                                *)
Still(b) ==
    /\ Orderly(b.undo, b.redo) /\ ~NetOnTop(b.undo)
    /\ \A s \in Sketches : SyncAt(b.record[s], b.doc[s])

(* Histories that agree.                                                   *)
LEMMA PairedSame ==
    ASSUME NEW w, NEW k \in Nat, NEW v, \A i \in 1 .. k : v[i] = w[i], Paired(w, k)
    PROVE  Paired(v, k)
<1>1. ASSUME NEW i \in 1 .. k, v[i].kind = "net" PROVE i < k /\ Partner(v[i], v[i + 1])
  <2>1. i < k /\ Partner(w[i], w[i + 1])
    BY <1>1 DEF Paired
  <2>2. i + 1 \in 1 .. k
    BY <2>1
  <2>. QED
    BY <2>1, <2>2
<1>2. ASSUME NEW i \in 1 .. k, v[i].kind = "record" PROVE Lone(v[i]) \/ (i > 1 /\ v[i - 1].kind = "net")
  <2>1. Lone(w[i]) \/ (i > 1 /\ w[i - 1].kind = "net")
    BY <1>2 DEF Paired
  <2>2. i > 1 => i - 1 \in 1 .. k
    OBVIOUS
  <2>. QED
    BY <2>1, <2>2
<1>. QED
  BY <1>1, <1>2 DEF Paired

(* Its beginning, unless that ends within a visit.                         *)
LEMMA PairedCut ==
    ASSUME NEW w, NEW k \in Nat, Paired(w, k), NEW j \in 0 .. k, j = 0 \/ w[j].kind # "net"
    PROVE  Paired(w, j)
<1>1. ASSUME NEW i \in 1 .. j, w[i].kind = "net" PROVE i < j /\ Partner(w[i], w[i + 1])
  <2>1. i \in 1 .. k /\ i # j
    BY <1>1
  <2>. QED
    BY <1>1, <2>1 DEF Paired
<1>2. ASSUME NEW i \in 1 .. j, w[i].kind = "record" PROVE Lone(w[i]) \/ (i > 1 /\ w[i - 1].kind = "net")
  <2>1. i \in 1 .. k
    OBVIOUS
  <2>. QED
    BY <1>2, <2>1 DEF Paired
<1>. QED
  BY <1>1, <1>2 DEF Paired

(* A step more that is no visit's.                                         *)
LEMMA PairedMore ==
    ASSUME NEW w, NEW k \in Nat, Paired(w, k), w[k + 1].kind # "net", w[k + 1].kind = "record" => Lone(w[k + 1])
    PROVE  Paired(w, k + 1)
<1>1. ASSUME NEW i \in 1 .. k + 1, w[i].kind = "net" PROVE i < k + 1 /\ Partner(w[i], w[i + 1])
  <2>1. i \in 1 .. k
    BY <1>1
  <2>. QED
    BY <1>1, <2>1 DEF Paired
<1>2. ASSUME NEW i \in 1 .. k + 1, w[i].kind = "record" PROVE Lone(w[i]) \/ (i > 1 /\ w[i - 1].kind = "net")
  <2>1. i \in 1 .. k \/ i = k + 1
    OBVIOUS
  <2>. QED
    BY <1>2, <2>1 DEF Paired
<1>. QED
  BY <1>1, <1>2 DEF Paired

(* A visit more.                                                           *)
LEMMA PairedVisit ==
    ASSUME NEW w, NEW k \in Nat, Paired(w, k), w[k + 1].kind = "net", Partner(w[k + 1], w[k + 2])
    PROVE  Paired(w, k + 2)
<1>1. ASSUME NEW i \in 1 .. k + 2, w[i].kind = "net" PROVE i < k + 2 /\ Partner(w[i], w[i + 1])
  <2>1. i \in 1 .. k \/ i = k + 1 \/ i = k + 2
    OBVIOUS
  <2>2. w[k + 2].kind # "net"
    BY DEF Partner
  <2>3. i \in 1 .. k => i < k /\ Partner(w[i], w[i + 1])
    BY <1>1 DEF Paired
  <2>4. k + 1 + 1 = k + 2 /\ k + 1 < k + 2
    OBVIOUS
  <2>. QED
    BY <1>1, <2>1, <2>2, <2>3, <2>4
<1>2. ASSUME NEW i \in 1 .. k + 2, w[i].kind = "record" PROVE Lone(w[i]) \/ (i > 1 /\ w[i - 1].kind = "net")
  <2>1. i \in 1 .. k \/ i = k + 1 \/ (i = k + 2 /\ i > 1 /\ i - 1 = k + 1)
    OBVIOUS
  <2>. QED
    BY <1>2, <2>1 DEF Paired
<1>. QED
  BY <1>1, <1>2 DEF Paired

(* The history is the same when a step of it is undone,                    *)
LEMMA SpanUndo ==
    ASSUME NEW u, IsSeq(u), u # <<>>, NEW r, IsSeq(r), NEW w, Spans(w, u, r)
    PROVE  Spans(w, Front1(u), Append(r, u[Len(u)])) /\ Len(Front1(u)) + Len(Append(r, u[Len(u)])) = Len(u) + Len(r)
<1>. DEFINE n == Len(u)  m == Len(r)  v == Front1(u)  q == Append(r, u[n])
<1>1. n \in Nat /\ n # 0 /\ m \in Nat /\ n - 1 \in 0 .. n
  BY SeqIs
<1>2. Len(v) = n - 1 /\ \A i \in 1 .. n - 1 : v[i] = u[i]
  BY <1>1, CutSeq DEF Front1
<1>3. Len(q) = m + 1 /\ q[m + 1] = u[n] /\ \A i \in 1 .. m : q[i] = r[i]
  BY AppendSeq
<1>4. (\A i \in 1 .. n : w[i] = u[i]) /\ \A i \in 1 .. m : w[n + m + 1 - i] = r[i]
  BY DEF Spans
<1>. HIDE DEF n, m, v, q
<1>5. \A i \in 1 .. Len(v) : w[i] = v[i]
  BY <1>1, <1>2, <1>4
<1>6. ASSUME NEW i \in 1 .. m + 1 PROVE w[n + m + 1 - i] = q[i]
  <2>1. CASE i = m + 1
    <3>1. n + m + 1 - i = n /\ n \in 1 .. n
      BY <1>1, <2>1
    <3>. QED
      BY <1>3, <1>4, <2>1, <3>1
  <2>2. CASE i # m + 1
    <3>1. i \in 1 .. m
      BY <1>1, <2>2
    <3>. QED
      BY <1>3, <1>4, <3>1
  <2>. QED
    BY <2>1, <2>2
<1>7. Len(v) + Len(q) = n + m
  BY <1>1, <1>2, <1>3
<1>8. Spans(w, v, q)
  BY <1>3, <1>5, <1>6, <1>7 DEF Spans
<1>. QED
  BY <1>7, <1>8 DEF n, m, v, q

(* or redone.                                                              *)
LEMMA SpanRedo ==
    ASSUME NEW u, IsSeq(u), NEW r, IsSeq(r), r # <<>>, NEW w, Spans(w, u, r)
    PROVE  Spans(w, Append(u, r[Len(r)]), Front1(r)) /\ Len(Append(u, r[Len(r)])) + Len(Front1(r)) = Len(u) + Len(r)
<1>. DEFINE n == Len(u)  m == Len(r)  v == Append(u, r[m])  q == Front1(r)
<1>1. n \in Nat /\ m # 0 /\ m \in Nat /\ m - 1 \in 0 .. m
  BY SeqIs
<1>2. Len(q) = m - 1 /\ \A i \in 1 .. m - 1 : q[i] = r[i]
  BY <1>1, CutSeq DEF Front1
<1>3. Len(v) = n + 1 /\ v[n + 1] = r[m] /\ \A i \in 1 .. n : v[i] = u[i]
  BY AppendSeq
<1>4. (\A i \in 1 .. n : w[i] = u[i]) /\ \A i \in 1 .. m : w[n + m + 1 - i] = r[i]
  BY DEF Spans
<1>. HIDE DEF n, m, v, q
<1>5. ASSUME NEW i \in 1 .. n + 1 PROVE w[i] = v[i]
  <2>1. CASE i = n + 1
    <3>1. n + m + 1 - m = i /\ m \in 1 .. m
      BY <1>1, <2>1
    <3>2. w[n + m + 1 - m] = r[m]
      BY <1>4, <3>1
    <3>. QED
      BY <1>3, <2>1, <3>1, <3>2
  <2>2. CASE i # n + 1
    <3>1. i \in 1 .. n
      BY <1>1, <2>2
    <3>. QED
      BY <1>3, <1>4, <3>1
  <2>. QED
    BY <2>1, <2>2
<1>6. \A i \in 1 .. m - 1 : w[n + m + 1 - i] = q[i]
  BY <1>1, <1>2, <1>4
<1>7. Len(v) + Len(q) = n + m
  BY <1>1, <1>2, <1>3
<1>8. Spans(w, v, q)
  BY <1>2, <1>3, <1>5, <1>6, <1>7 DEF Spans
<1>. QED
  BY <1>7, <1>8 DEF n, m, v, q

(* Where what is done meets what can be redone.                            *)
LEMMA Meets ==
    ASSUME NEW u, IsSeq(u), NEW r, IsSeq(r), Orderly(u, r)
    PROVE  /\ NetOnTop(u) => r # <<>> /\ Partner(u[Len(u)], r[Len(r)])
           /\ r # <<>> /\ r[Len(r)].kind = "record" => Lone(r[Len(r)]) \/ NetOnTop(u)
<1>. DEFINE n == Len(u)  m == Len(r)
<1>1. PICK w : Spans(w, u, r) /\ Paired(w, n + m)
  BY DEF Orderly
<1>2. n \in Nat /\ m \in Nat /\ (u = <<>> <=> n = 0) /\ (r = <<>> <=> m = 0)
  BY SeqIs
<1>3. (\A i \in 1 .. n : w[i] = u[i]) /\ \A i \in 1 .. m : w[n + m + 1 - i] = r[i]
  BY <1>1 DEF Spans
<1>. HIDE DEF n, m
<1>4. m # 0 => w[n + 1] = r[m]
  <2>1. m # 0 => m \in 1 .. m /\ n + m + 1 - m = n + 1
    BY <1>2
  <2>2. m # 0 => w[n + m + 1 - m] = r[m]
    BY <1>3, <2>1
  <2>. QED
    BY <2>1, <2>2
<1>5. ASSUME n # 0, u[n].kind = "net" PROVE m # 0 /\ Partner(u[n], r[m])
  <2>1. n \in 1 .. n + m /\ w[n].kind = "net" /\ w[n] = u[n]
    BY <1>2, <1>3, <1>5
  <2>2. n < n + m /\ Partner(w[n], w[n + 1])
    BY <1>1, <2>1 DEF Paired
  <2>3. m # 0
    BY <1>2, <2>2
  <2>. QED
    BY <1>4, <2>1, <2>2, <2>3
<1>6. ASSUME m # 0, r[m].kind = "record" PROVE Lone(r[m]) \/ (n # 0 /\ u[n].kind = "net")
  <2>1. n + 1 \in 1 .. n + m /\ w[n + 1].kind = "record" /\ w[n + 1] = r[m]
    BY <1>2, <1>4, <1>6
  <2>2. Lone(w[n + 1]) \/ (n + 1 > 1 /\ w[(n + 1) - 1].kind = "net")
    BY <1>1, <2>1 DEF Paired
  <2>3. n + 1 > 1 => n # 0 /\ (n + 1) - 1 = n /\ w[n] = u[n]
    BY <1>2, <1>3
  <2>. QED
    BY <2>1, <2>2, <2>3
<1>. QED
  BY <1>2, <1>5, <1>6 DEF NetOnTop, n, m

(* What is done is of whole visits, if no visit is half undone.            *)
LEMMA DonePaired ==
    ASSUME NEW u, IsSeq(u), NEW r, IsSeq(r), Orderly(u, r), ~NetOnTop(u)
    PROVE  Paired(u, Len(u))
<1>. DEFINE n == Len(u)  m == Len(r)
<1>1. PICK w : Spans(w, u, r) /\ Paired(w, n + m)
  BY DEF Orderly
<1>2. n \in Nat /\ m \in Nat /\ (u = <<>> <=> n = 0)
  BY SeqIs
<1>3. \A i \in 1 .. n : w[i] = u[i]
  BY <1>1 DEF Spans
<1>4. n = 0 \/ u[n].kind # "net"
  BY <1>2 DEF NetOnTop
<1>. HIDE DEF n, m
<1>5. n = 0 \/ w[n].kind # "net"
  BY <1>2, <1>3, <1>4
<1>6. n + m \in Nat /\ n \in 0 .. n + m
  BY <1>2
<1>7. Paired(w, n)
  BY <1>1, <1>5, <1>6, PairedCut
<1>8. \A i \in 1 .. n : u[i] = w[i]
  BY <1>3
<1>. QED
  BY <1>2, <1>7, <1>8, PairedSame DEF n

(* Then it is so with nothing to redo.                                     *)
LEMMA DoneOrderly ==
    ASSUME NEW u, IsSeq(u), Paired(u, Len(u))
    PROVE  Orderly(u, <<>>) /\ ~NetOnTop(u)
<1>1. Len(u) \in Nat /\ (u = <<>> <=> Len(u) = 0) /\ Len(<<>>) = 0
  BY SeqIs, NoSeq
<1>2. Len(u) + Len(<<>>) = Len(u)
  BY <1>1
<1>3. Spans(u, u, <<>>)
  BY <1>1 DEF Spans
<1>4. Orderly(u, <<>>)
  BY <1>2, <1>3 DEF Orderly
<1>5. ASSUME NetOnTop(u) PROVE FALSE
  <2>1. Len(u) \in 1 .. Len(u) /\ u[Len(u)].kind = "net"
    BY <1>1, <1>5 DEF NetOnTop
  <2>2. Len(u) < Len(u)
    BY <2>1 DEF Paired
  <2>. QED
    BY <1>1, <2>2
<1>. QED
  BY <1>4, <1>5

(* The last step that is done left its sketch where it is, and the first   *)
(* to redo begins there.                                                   *)
LEMMA AtTop ==
    ASSUME NEW b, BeOK(b)
    PROVE  /\ b.undo # <<>> /\ b.undo[Len(b.undo)].s \in Sketches =>
                LET e == b.undo[Len(b.undo)] IN e.after = Now(b, e.s, e.kind = "record")
           /\ b.redo # <<>> /\ b.redo[Len(b.redo)].s \in Sketches =>
                LET e == b.redo[Len(b.redo)] IN e.prior = Now(b, e.s, e.kind = "record")
<1>. DEFINE u == b.undo  r == b.redo  n == Len(u)  m == Len(r)  w == Line(u, r)
<1>1. /\ n \in Nat /\ m \in Nat /\ IsSeq(u) /\ IsSeq(r)
      /\ (u = <<>> <=> n = 0) /\ (r = <<>> <=> m = 0)
      /\ \A s \in Sketches, records \in BOOLEAN : Chained(u, r, s, records, Now(b, s, records))
  BY SeqIs DEF BeOK, BeKind, StackKind, Chain
<1>. HIDE DEF u, r
<1>2. /\ DOMAIN w = 1 .. n + m
      /\ \A i \in 1 .. n : w[i] = u[i]
      /\ \A i \in 1 .. m : w[n + m + 1 - i] = r[i]
  BY <1>1, LineIs
<1>3. ASSUME NEW s \in Sketches, NEW records \in BOOLEAN
      PROVE  /\ Links(w, Steps(w, s, records), n, Now(b, s, records))
             /\ Steps(w, s, records) \in SUBSET (1 .. n + m)
             /\ \A i \in 1 .. n + m : i \in Steps(w, s, records) <=> Of(w[i], s, records)
  BY <1>1, <1>2, StepsIs DEF Chained
<1>. HIDE DEF n, m, w
<1>4. ASSUME n # 0, u[n].s \in Sketches PROVE u[n].after = Now(b, u[n].s, u[n].kind = "record")
  <2>. DEFINE s == u[n].s  records == (u[n].kind = "record")  steps == Steps(w, s, records)
  <2>1. n \in 1 .. n + m /\ w[n] = u[n] /\ records \in BOOLEAN /\ s \in Sketches
    BY <1>1, <1>2, <1>4
  <2>2. /\ Links(w, steps, n, Now(b, s, records)) /\ steps \in SUBSET (1 .. n + m)
        /\ n \in steps <=> Of(w[n], s, records)
    BY <1>3, <2>1
  <2>3. Of(w[n], s, records)
    BY <2>1 DEF Of
  <2>. HIDE DEF steps, s, records
  <2>4. n < n + 1 /\ n <= n /\ \A k \in steps : ~(n < k /\ k < n + 1)
    BY <1>1, <2>2
  <2>5. w[n].after = Now(b, s, records)
    BY <2>2, <2>3, <2>4 DEF Links
  <2>. QED
    BY <2>1, <2>5 DEF s, records
<1>5. ASSUME m # 0, r[m].s \in Sketches PROVE r[m].prior = Now(b, r[m].s, r[m].kind = "record")
  <2>. DEFINE s == r[m].s  records == (r[m].kind = "record")  steps == Steps(w, s, records)
  <2>0. n + 1 \in 1 .. n + m /\ m \in 1 .. m /\ n + m + 1 - m = n + 1
    BY <1>1, <1>5
  <2>1. w[n + 1] = r[m] /\ records \in BOOLEAN /\ s \in Sketches
    <3>1. w[n + m + 1 - m] = r[m]
      BY <1>2, <2>0
    <3>. QED
      BY <1>5, <2>0, <3>1
  <2>2. /\ Links(w, steps, n, Now(b, s, records)) /\ steps \in SUBSET (1 .. n + m)
        /\ n + 1 \in steps <=> Of(w[n + 1], s, records)
    BY <1>3, <2>0, <2>1
  <2>3. Of(w[n + 1], s, records)
    BY <2>1 DEF Of
  <2>. HIDE DEF steps, s, records
  <2>4. n < n + 1 /\ \A k \in steps : ~(n < k /\ k < n + 1)
    BY <1>1, <2>2
  <2>5. w[n + 1].prior = Now(b, s, records)
    BY <2>2, <2>3, <2>4 DEF Links
  <2>. QED
    BY <2>1, <2>5 DEF s, records
<1>. QED
  BY <1>1, <1>4, <1>5 DEF n, m, u, r

(* A visit, or half of it, is undone.                                      *)
LEMMA RestUndo ==
    ASSUME NEW b, BeOK(b), b.evicted = 0, Rest(b), Tame(b.undo), b.gesture = <<>>, b.undo # <<>>,
           NEW c, c = Undo(b)
    PROVE  Rest(c)
<1>. DEFINE e == b.undo[Len(b.undo)]
<1>1. Last(b.undo) = e
  BY DEF Last
<1>2. BeKind(b) /\ IsSeq(b.undo) /\ IsSeq(b.redo) /\ Len(b.undo) \in 1 .. Len(b.undo)
  BY SeqIs DEF BeOK, BeKind, StackKind
<1>3. /\ StepKind(e) /\ c.undo = Front1(b.undo) /\ c.redo = Append(b.redo, e)
      /\ \A s \in Sketches, records \in BOOLEAN :
           Now(c, s, records) = IF Of(e, s, records) THEN e.prior ELSE Now(b, s, records)
  BY <1>1, <1>2, UndoIs
<1>4. ~Loose(e)
  BY <1>2 DEF Tame
<1>5. e.s \in Sketches => e.after = Now(b, e.s, e.kind = "record")
  BY AtTop
<1>6. NetOnTop(b.undo) <=> e.kind = "net"
  BY DEF NetOnTop
<1>. HIDE DEF e
<1>7. Orderly(c.undo, c.redo)
  <2>1. PICK w : Spans(w, b.undo, b.redo) /\ Paired(w, Len(b.undo) + Len(b.redo))
    BY DEF Rest, Orderly
  <2>2. Spans(w, c.undo, c.redo) /\ Len(c.undo) + Len(c.redo) = Len(b.undo) + Len(b.redo)
    BY <1>2, <1>3, <2>1, SpanUndo DEF e
  <2>. QED
    BY <2>1, <2>2 DEF Orderly
<1>8. /\ IsSeq(c.undo) /\ IsSeq(c.redo) /\ c.redo # <<>> /\ c.redo[Len(c.redo)] = e
  <2>1. Len(b.undo) - 1 \in 0 .. Len(b.undo)
    BY <1>2
  <2>2. IsSeq(c.redo) /\ Len(c.redo) = Len(b.redo) + 1 /\ c.redo[Len(b.redo) + 1] = e /\ Len(b.redo) \in Nat
    BY <1>2, <1>3, AppendSeq, SeqIs
  <2>3. IsSeq(c.undo)
    BY <1>2, <1>3, <2>1, CutSeq DEF Front1
  <2>. QED
    BY <2>2, <2>3, SeqIs
<1>9. /\ NetOnTop(c.undo) => Partner(c.undo[Len(c.undo)], e)
      /\ e.kind = "record" => Lone(e) \/ NetOnTop(c.undo)
  BY <1>7, <1>8, Meets
<1>10. ASSUME NEW s \in Sketches, ~(NetOnTop(c.undo) /\ c.undo[Len(c.undo)].s = s)
       PROVE  SyncAt(c.record[s], c.doc[s])
  <2>1. /\ c.record[s] = IF Of(e, s, TRUE) THEN e.prior ELSE b.record[s]
        /\ <<c.doc[s]>> = IF Of(e, s, FALSE) THEN e.prior ELSE <<b.doc[s]>>
    BY <1>3 DEF Now
  <2>2. CASE e.kind = "record" /\ e.s = s
    <3>1. c.record[s] = e.prior /\ c.doc[s] = b.doc[s]
      BY <2>1, <2>2 DEF Of
    <3>2. Lone(e)
      BY <1>9, <1>10, <2>2 DEF Partner
    <3>3. e.after = b.record[s]
      BY <1>5, <2>2 DEF Now
    <3>4. SyncAt(b.record[s], b.doc[s])
      BY <1>6, <2>2 DEF Rest
    <3>. QED
      BY <3>1, <3>2, <3>3, <3>4 DEF Lone, SyncAt
  <2>3. CASE e.kind = "net" /\ e.s = s
    <3>1. c.record[s] = b.record[s] /\ <<c.doc[s]>> = e.prior
      BY <2>1, <2>3 DEF Of
    <3>2. b.redo # <<>> /\ Partner(e, b.redo[Len(b.redo)])
      BY <1>2, <1>6, <2>3, Meets DEF Rest, e
    <3>. DEFINE r == b.redo[Len(b.redo)]
    <3>3. r.kind = "record" /\ r.s = s /\ (r.prior = e.prior \/ (r.prior = <<>> /\ e.prior = <<Empty>>))
      BY <2>3, <3>2 DEF Partner
    <3>4. r.prior = b.record[s]
      <4>1. b.redo[Len(b.redo)].s \in Sketches
        BY <3>3
      <4>2. r.prior = Now(b, r.s, r.kind = "record")
        BY <3>2, <4>1, AtTop
      <4>. QED
        BY <3>3, <4>2 DEF Now
    <3>. HIDE DEF r
    <3>. QED
      BY <3>1, <3>3, <3>4 DEF SyncAt
  <2>4. CASE e.s # s \/ e.kind \notin {"record", "net"}
    <3>1. ~(e.kind \in {"edit", "drag"}) /\ (e.kind = "model" => e.s = None)
      BY <1>3, <1>4 DEF StepKind, Loose
    <3>2. e.s # s
      BY <1>3, <2>4, <3>1, SketchNames DEF StepKind, None
    <3>3. c.record[s] = b.record[s] /\ c.doc[s] = b.doc[s]
      BY <2>1, <3>2 DEF Of
    <3>4. SyncAt(b.record[s], b.doc[s])
      BY <3>2 DEF Rest, e
    <3>. QED
      BY <3>3, <3>4
  <2>. QED
    BY <2>2, <2>3, <2>4
<1>. QED
  BY <1>7, <1>10 DEF Rest

(* A visit, or half of it, is redone.                                      *)
LEMMA RestRedo ==
    ASSUME NEW b, BeOK(b), b.evicted = 0, Rest(b), Tame(b.redo), b.gesture = <<>>, b.redo # <<>>,
           NEW c, c = Redo(b), c.evicted = 0
    PROVE  Rest(c)
<1>. DEFINE e == b.redo[Len(b.redo)]
<1>1. Last(b.redo) = e
  BY DEF Last
<1>2. BeKind(b) /\ IsSeq(b.undo) /\ IsSeq(b.redo) /\ Len(b.redo) \in 1 .. Len(b.redo)
  BY SeqIs DEF BeOK, BeKind, StackKind
<1>3. /\ StepKind(e) /\ c.undo = Append(b.undo, e) /\ c.redo = Front1(b.redo)
      /\ \A s \in Sketches, records \in BOOLEAN :
           Now(c, s, records) = IF Of(e, s, records) THEN e.after ELSE Now(b, s, records)
  BY <1>1, <1>2, RedoIs
<1>4. ~Loose(e)
  BY <1>2 DEF Tame
<1>5. e.s \in Sketches => e.prior = Now(b, e.s, e.kind = "record")
  BY AtTop
<1>6. /\ NetOnTop(b.undo) => Partner(b.undo[Len(b.undo)], e)
      /\ e.kind = "record" => Lone(e) \/ NetOnTop(b.undo)
  BY <1>2, Meets DEF Rest
<1>. HIDE DEF e
<1>7. Orderly(c.undo, c.redo)
  <2>1. PICK w : Spans(w, b.undo, b.redo) /\ Paired(w, Len(b.undo) + Len(b.redo))
    BY DEF Rest, Orderly
  <2>2. Spans(w, c.undo, c.redo) /\ Len(c.undo) + Len(c.redo) = Len(b.undo) + Len(b.redo)
    BY <1>2, <1>3, <2>1, SpanRedo DEF e
  <2>. QED
    BY <2>1, <2>2 DEF Orderly
<1>8. c.undo # <<>> /\ c.undo[Len(c.undo)] = e
  <2>1. IsSeq(c.undo) /\ Len(c.undo) = Len(b.undo) + 1 /\ c.undo[Len(b.undo) + 1] = e /\ Len(b.undo) \in Nat
    BY <1>2, <1>3, AppendSeq, SeqIs
  <2>. QED
    BY <2>1, SeqIs
<1>9. ASSUME NEW s \in Sketches, ~(e.kind = "net" /\ e.s = s)
      PROVE  SyncAt(c.record[s], c.doc[s])
  <2>1. /\ c.record[s] = IF Of(e, s, TRUE) THEN e.after ELSE b.record[s]
        /\ <<c.doc[s]>> = IF Of(e, s, FALSE) THEN e.after ELSE <<b.doc[s]>>
    BY <1>3 DEF Now
  <2>2. CASE e.kind = "record" /\ e.s = s
    <3>1. c.record[s] = e.after /\ c.doc[s] = b.doc[s]
      BY <2>1, <2>2 DEF Of
    <3>2. CASE NetOnTop(b.undo)
      <4>. DEFINE t == b.undo[Len(b.undo)]
      <4>1. t.kind = "net" /\ t.s = s /\ e.after = t.after /\ b.undo # <<>>
        BY <1>6, <2>2, <3>2 DEF NetOnTop, Partner
      <4>2. b.undo[Len(b.undo)].s \in Sketches
        BY <4>1
      <4>3. t.after = Now(b, t.s, t.kind = "record")
        BY <4>1, <4>2, AtTop
      <4>. HIDE DEF t
      <4>4. t.after = <<b.doc[s]>>
        BY <4>1, <4>3 DEF Now
      <4>. QED
        BY <3>1, <4>1, <4>4 DEF SyncAt
    <3>3. CASE ~NetOnTop(b.undo)
      <4>1. Lone(e) /\ e.prior = b.record[s] /\ SyncAt(b.record[s], b.doc[s])
        BY <1>5, <1>6, <2>2, <3>3 DEF Now, Rest
      <4>. QED
        BY <3>1, <4>1 DEF Lone, SyncAt
    <3>. QED
      BY <3>2, <3>3
  <2>3. CASE ~(e.kind = "record" /\ e.s = s)
    <3>1. e.s # s
      BY <1>3, <1>4, <1>9, <2>3, SketchNames DEF StepKind, Loose, None
    <3>2. c.record[s] = b.record[s] /\ c.doc[s] = b.doc[s]
      BY <2>1, <3>1 DEF Of
    <3>3. NetOnTop(b.undo) => b.undo[Len(b.undo)].s # s
      BY <1>6, <3>1 DEF Partner
    <3>. QED
      BY <3>2, <3>3 DEF Rest
  <2>. QED
    BY <2>2, <2>3
<1>. QED
  BY <1>7, <1>8, <1>9 DEF Rest, NetOnTop

(* Half a visit is undone just when its record is what can be redone next. *)
LEMMA WholeIsStill ==
    ASSUME NEW b, BeKind(b), Rest(b), ~HalfUndone(b)
    PROVE  Still(b)
<1>1. IsSeq(b.undo) /\ IsSeq(b.redo)
  BY DEF BeKind, StackKind
<1>2. ASSUME NetOnTop(b.undo) PROVE FALSE
  <2>1. b.redo # <<>> /\ b.redo[Len(b.redo)].kind = "record"
    BY <1>1, <1>2, Meets DEF Rest, Partner
  <2>2. HalfUndone(b)
    BY <2>1 DEF HalfUndone, Top, Last
  <2>. QED
    BY <2>2
<1>. QED
  BY <1>2 DEF Rest, Still

(* Where no visit is half undone, all records hold their sketches.         *)
LEMMA StillIsRest ==
    ASSUME NEW b, Still(b)
    PROVE  Rest(b)
BY DEF Still, Rest

(* A step of another kind.                                                 *)
LEMMA PushStill ==
    ASSUME NEW b, BeKind(b), Still(b), NEW e, e.kind = "model", NEW c, c = PushCommitted(b, e), c.evicted = 0
    PROVE  Still(c)
<1>. DEFINE n == Len(b.undo)
<1>1. IsSeq(b.undo) /\ IsSeq(b.redo) /\ n \in Nat
  BY SeqIs DEF BeKind, StackKind
<1>2. c.doc = b.doc /\ c.record = b.record /\ c.redo = <<>> /\ c.undo = Append(b.undo, e)
  BY PushIs
<1>3. Paired(b.undo, n)
  BY <1>1, DonePaired DEF Still
<1>4. IsSeq(c.undo) /\ Len(c.undo) = n + 1 /\ c.undo[n + 1] = e /\ \A i \in 1 .. n : c.undo[i] = b.undo[i]
  BY <1>1, <1>2, AppendSeq
<1>. HIDE DEF n
<1>5. Paired(c.undo, n + 1)
  <2>1. Paired(c.undo, n)
    BY <1>1, <1>3, <1>4, PairedSame
  <2>. QED
    BY <1>1, <1>4, <2>1, PairedMore
<1>6. Orderly(c.undo, c.redo) /\ ~NetOnTop(c.undo)
  BY <1>2, <1>4, <1>5, DoneOrderly
<1>. QED
  BY <1>2, <1>6 DEF Still

(* The session of s was opened where all is still.                         *)
Ready(b, s) == Still(b) /\ \E x : b.slot = <<x>> /\ x.s = s /\ x.mark = Len(b.undo) /\ x.prior = b.doc[s]

(* It is open: below its mark are whole visits; its record is what it was, *)
(* and so is its sketch until the first edit.                              *)
Editing(b, s) ==
    \E x :
      /\ b.slot = <<x>> /\ x.s = s
      /\ Paired(b.undo, x.mark)
      /\ b.redo = <<>> \/ (Len(b.undo) = x.mark /\ Orderly(b.undo, b.redo))
      /\ Len(b.undo) = x.mark => b.doc[s] = x.prior
      /\ SyncAt(b.record[s], x.prior)
      /\ \A t \in Sketches : t # s => SyncAt(b.record[t], b.doc[t])

(* It is closed, and the record is yet to follow its net step.             *)
Pending(b, s) ==
    LET n == b.undo[Len(b.undo)]
    IN /\ b.redo = <<>> /\ NetOnTop(b.undo) /\ Paired(b.undo, Len(b.undo) - 1)
       /\ n.s = s /\ n.after = <<b.doc[s]>>
       /\ \E v : n.prior = <<v>> /\ v # b.doc[s] /\ SyncAt(b.record[s], v)
       /\ \A t \in Sketches : t # s => SyncAt(b.record[t], b.doc[t])

(* A session is entered.                                                   *)
LEMMA EnterReady ==
    ASSUME NEW b, BeKind(b), Still(b), b.slot = <<>>, NEW s, NEW c, c = EnterSketch(b, s)
    PROVE  Ready(c, s) /\ c.evicted = b.evicted
<1>. DEFINE x == [s |-> s, prior |-> b.doc[s], mark |-> Len(b.undo), evicted |-> b.evicted]
<1>1. c = [b EXCEPT !.slot = <<x>>]
  BY DEF EnterSketch, Top
<1>2. x.s = s /\ x.mark = Len(b.undo) /\ x.prior = b.doc[s]
  OBVIOUS
<1>. HIDE DEF x
<1>3. /\ c.slot = <<x>> /\ c.undo = b.undo /\ c.redo = b.redo /\ c.evicted = b.evicted
      /\ c.doc = b.doc /\ c.record = b.record
  BY <1>1 DEF BeKind
<1>4. Still(c)
  BY <1>3 DEF Still
<1>. QED
  BY <1>2, <1>3, <1>4 DEF Ready

(* Its entry is answered.                                                  *)
LEMMA ReadyEdits ==
    ASSUME NEW b, BeKind(b), NEW s \in Sketches, Ready(b, s)
    PROVE  Editing(b, s)
<1>1. IsSeq(b.undo) /\ IsSeq(b.redo)
  BY DEF BeKind, StackKind
<1>2. PICK x : b.slot = <<x>> /\ x.s = s /\ x.mark = Len(b.undo) /\ x.prior = b.doc[s]
  BY DEF Ready
<1>3. Paired(b.undo, x.mark)
  BY <1>1, <1>2, DonePaired DEF Ready, Still
<1>. QED
  BY <1>2, <1>3 DEF Ready, Still, Editing

(* Its sketch is edited, or a drag of it ends.                             *)
LEMMA EditingEdited ==
    ASSUME NEW b, BeOK(b), NEW s \in Sketches, Editing(b, s), NEW kind \in {"edit", "drag"}, NEW after,
           NEW c, c = SketchEdit(b, s, kind, after), c.evicted = 0
    PROVE  Editing(c, s)
<1>1. BeKind(b) /\ IsSeq(b.undo) /\ Len(b.undo) \in Nat /\ SlotIs(b.slot, b.undo, b.evicted)
  BY SeqIs DEF BeOK, BeKind, StackKind
<1>2. /\ c.record = b.record /\ c.slot = b.slot /\ c.redo = <<>>
      /\ \A t \in Sketches : t # s => c.doc[t] = b.doc[t]
      /\ \E e : c.undo = Append(b.undo, e)
  <2>1. /\ c.record = b.record /\ c.slot = b.slot /\ c.redo = <<>>
        /\ \A t \in Sketches : t # s => c.doc[t] = b.doc[t]
        /\ Grown(b, c, kind, s, <<b.doc[s]>>, <<after>>)
    BY <1>1, EditIs
  <2>. QED
    BY <2>1 DEF Grown
<1>3. PICK x :
        /\ b.slot = <<x>> /\ x.s = s
        /\ Paired(b.undo, x.mark)
        /\ SyncAt(b.record[s], x.prior)
        /\ \A t \in Sketches : t # s => SyncAt(b.record[t], b.doc[t])
  BY DEF Editing
<1>4. x.mark \in 0 .. Len(b.undo)
  <2>0. b.slot # <<>>
    BY <1>3
  <2>1. PICK y : b.slot = <<y>> /\ y.mark \in 0 .. Len(b.undo)
    BY <1>1, <2>0 DEF SlotIs
  <2>2. y = x
    BY <1>3, <2>1
  <2>. QED
    BY <2>1, <2>2
<1>5. Len(c.undo) = Len(b.undo) + 1 /\ \A i \in 1 .. Len(b.undo) : c.undo[i] = b.undo[i]
  BY <1>1, <1>2, AppendSeq
<1>6. Len(c.undo) # x.mark /\ \A i \in 1 .. x.mark : c.undo[i] = b.undo[i]
  BY <1>1, <1>4, <1>5
<1>7. Paired(c.undo, x.mark)
  BY <1>3, <1>4, <1>6, PairedSame
<1>8. \A t \in Sketches : t # s => SyncAt(c.record[t], c.doc[t])
  BY <1>2, <1>3
<1>. QED
  BY <1>2, <1>3, <1>6, <1>7, <1>8 DEF Editing

(* A drag begins.                                                          *)
LEMMA EditingBegun ==
    ASSUME NEW b, BeKind(b), NEW s, Editing(b, s), NEW u, NEW c, c = BeginGesture(b, s, u)
    PROVE  Editing(c, s) /\ c.evicted = b.evicted
<1>1. /\ c.slot = b.slot /\ c.undo = b.undo /\ c.redo = b.redo /\ c.evicted = b.evicted
      /\ c.doc = b.doc /\ c.record = b.record
  BY DEF BeginGesture, BeKind
<1>. QED
  BY <1>1 DEF Editing

(* A drag ends.                                                            *)
LEMMA EditingEnded ==
    ASSUME NEW b, BeOK(b), NEW s \in Sketches, Editing(b, s), Open(b, s), NEW to, NEW c, c = EndGesture(b, to),
           c.evicted = 0
    PROVE  Editing(c, s)
<1>1. CASE b.gesture = <<>>
  BY <1>1 DEF EndGesture
<1>2. CASE b.gesture # <<>>
  <2>1. PICK g : b.gesture = <<g>> /\ g.s = s
    BY <1>2 DEF Open
  <2>. DEFINE d == [b EXCEPT !.gesture = <<>>]  h == Head(b.gesture)
              moved == [h.before EXCEPT !.ents = [u \in DOMAIN @ |->
                          IF u = h.u THEN [@[u] EXCEPT !.at = to] ELSE @[u]]]
  <2>2. h = g
    BY <2>1
  <2>3. c = SketchEdit(d, h.s, "drag", moved)
    BY <1>2 DEF EndGesture
  <2>4. /\ BeOK(d) /\ d.undo = b.undo /\ d.redo = b.redo /\ d.slot = b.slot /\ d.evicted = b.evicted
        /\ d.doc = b.doc /\ d.record = b.record
    BY GestureOK
  <2>. HIDE DEF d, h, moved
  <2>5. Editing(d, s)
    BY <2>4 DEF Editing
  <2>. QED
    BY <2>1, <2>2, <2>3, <2>4, <2>5, EditingEdited
<1>. QED
  BY <1>1, <1>2

(* It is cancelled before it was used.                                     *)
LEMMA ReadyShut ==
    ASSUME NEW b, BeOK(b), NEW s \in Sketches, Ready(b, s), NEW c, c = CancelSketch(b, s)
    PROVE  Still(c) /\ c.evicted = b.evicted
<1>. DEFINE d == [b EXCEPT !.gesture = <<>>]
<1>1. /\ BeOK(d) /\ d.undo = b.undo /\ d.redo = b.redo /\ d.slot = b.slot /\ d.evicted = b.evicted
      /\ d.doc = b.doc /\ d.record = b.record
  BY GestureOK
<1>2. c = SquashSession(d, s)
  BY DEF CancelSketch
<1>. HIDE DEF d
<1>3. PICK x : d.slot = <<x>> /\ x.s = s /\ x.mark = Len(d.undo)
  BY <1>1 DEF Ready
<1>4. Len(d.undo) \in Nat /\ s \in Sketches
  BY <1>1, SeqIs DEF BeOK, BeKind, StackKind
<1>5. /\ c.doc = d.doc /\ c.record = d.record
      /\ Kept(d, c, x, s) \/ Gone(d, c, x, s) \/ Netted(d, c, x, s)
  BY ONLY <1>1, <1>2, <1>3, <1>4, SquashIs
<1>6. Kept(d, c, x, s)
  BY <1>3, <1>4, <1>5 DEF Gone, Netted
<1>7. c.undo = b.undo /\ c.redo = b.redo /\ c.evicted = b.evicted /\ c.doc = b.doc /\ c.record = b.record
  BY <1>1, <1>5, <1>6 DEF Kept
<1>. QED
  BY <1>7 DEF Ready, Still

(* It is cancelled after it was edited.                                    *)
LEMMA EditingShut ==
    ASSUME NEW b, BeOK(b), NEW s \in Sketches, Editing(b, s), Open(b, s), NEW c, c = CancelSketch(b, s), c.evicted = 0
    PROVE  Still(c) \/ Pending(c, s)
<1>. DEFINE d == [b EXCEPT !.gesture = <<>>]
<1>1. /\ BeOK(d) /\ d.undo = b.undo /\ d.redo = b.redo /\ d.slot = b.slot /\ d.evicted = b.evicted
      /\ d.doc = b.doc /\ d.record = b.record
  BY GestureOK
<1>2. c = SquashSession(d, s)
  BY DEF CancelSketch
<1>. HIDE DEF d
<1>3. PICK x :
        /\ d.slot = <<x>> /\ x.s = s
        /\ Paired(d.undo, x.mark)
        /\ d.redo = <<>> \/ (Len(d.undo) = x.mark /\ Orderly(d.undo, d.redo))
        /\ Len(d.undo) = x.mark => d.doc[s] = x.prior
        /\ SyncAt(d.record[s], x.prior)
        /\ \A t \in Sketches : t # s => SyncAt(d.record[t], d.doc[t])
  BY <1>1 DEF Editing
<1>4. IsSeq(d.undo) /\ Len(d.undo) \in Nat /\ s \in Sketches /\ SlotIs(d.slot, d.undo, d.evicted)
  BY <1>1, SeqIs DEF BeOK, BeKind, StackKind
<1>5. /\ c.doc = d.doc /\ c.record = d.record /\ x.mark \in 0 .. Len(d.undo)
      /\ Kept(d, c, x, s) \/ Gone(d, c, x, s) \/ Netted(d, c, x, s)
  BY ONLY <1>1, <1>2, <1>3, <1>4, SquashIs
<1>6. d.evicted = 0
  BY <1>5 DEF Kept, Gone, Netted
<1>7. x.evicted = d.evicted
  <2>0. d.slot # <<>>
    BY <1>3
  <2>1. PICK y : d.slot = <<y>> /\ y.evicted \in 0 .. d.evicted
    BY <1>4, <2>0 DEF SlotIs
  <2>2. y = x
    BY <1>3, <2>1
  <2>. QED
    BY <1>6, <2>1, <2>2
<1>8. CASE Kept(d, c, x, s)
  <2>1. ASSUME NEW i \in x.mark + 1 .. Len(d.undo)
        PROVE  d.undo[i].s = s /\ d.undo[i].kind \in {"edit", "drag", "net"}
    <3>1. i \in 1 .. Len(b.undo) /\ ~(i <= x.mark)
      BY <1>1, <1>4, <1>5
    <3>2. PICK y : b.slot = <<y>> /\
                   \A j \in 1 .. Len(b.undo) : IF j <= y.mark THEN ~Loose(b.undo[j])
                                               ELSE b.undo[j].s = s /\ b.undo[j].kind \in {"edit", "drag", "net"}
      BY <1>1, <1>6 DEF Open
    <3>3. y = x
      <4>1. <<y>> = <<x>>
        BY <1>1, <1>3, <3>2
      <4>. QED
        BY <4>1
    <3>. QED
      BY <1>1, <3>1, <3>2, <3>3
  <2>2. x.mark = Len(d.undo)
    BY <1>7, <1>8, <2>1 DEF Kept
  <2>3. c.undo = d.undo /\ c.redo = d.redo /\ Paired(d.undo, Len(d.undo)) /\ d.doc[s] = x.prior
    BY <1>3, <1>8, <2>2 DEF Kept
  <2>4. Orderly(d.undo, <<>>) /\ ~NetOnTop(d.undo)
    BY <1>4, <2>3, DoneOrderly
  <2>5. Orderly(c.undo, c.redo) /\ ~NetOnTop(c.undo)
    BY <1>3, <2>3, <2>4
  <2>6. \A t \in Sketches : SyncAt(c.record[t], c.doc[t])
    BY <1>3, <1>5, <2>3
  <2>. QED
    BY <2>5, <2>6 DEF Still
<1>. DEFINE v == SubSeq(d.undo, 1, x.mark)
<1>9. IsSeq(v) /\ Len(v) = x.mark /\ \A i \in 1 .. x.mark : v[i] = d.undo[i]
  BY <1>4, <1>5, CutSeq
<1>10. Paired(v, x.mark)
  <2>. HIDE DEF v
  <2>. QED
    BY <1>3, <1>5, <1>9, PairedSame
<1>11. CASE Gone(d, c, x, s)
  <2>1. c.undo = v /\ c.redo = <<>> /\ x.prior = d.doc[s]
    BY <1>11 DEF Gone
  <2>. HIDE DEF v
  <2>2. Orderly(c.undo, c.redo) /\ ~NetOnTop(c.undo)
    BY <1>9, <1>10, <2>1, DoneOrderly
  <2>3. \A t \in Sketches : SyncAt(c.record[t], c.doc[t])
    BY <1>3, <1>5, <2>1
  <2>. QED
    BY <2>2, <2>3 DEF Still
<1>12. CASE Netted(d, c, x, s)
  <2>1. c.redo = <<>> /\ x.prior # d.doc[s]
    BY <1>12 DEF Netted
  <2>2. PICK e : c.undo = Append(v, e) /\ e.kind = "net" /\ e.s = s /\ e.prior = <<x.prior>> /\ e.after = <<d.doc[s]>>
    BY <1>12 DEF Netted
  <2>. HIDE DEF v
  <2>3. /\ IsSeq(c.undo) /\ Len(c.undo) = x.mark + 1 /\ c.undo[x.mark + 1] = e
        /\ \A i \in 1 .. x.mark : c.undo[i] = v[i]
    BY <1>9, <2>2, AppendSeq
  <2>4. x.mark \in Nat /\ Len(c.undo) - 1 = x.mark /\ c.undo # <<>> /\ c.undo[Len(c.undo)] = e
    BY <1>4, <1>5, <2>3, NoSeq
  <2>5. Paired(c.undo, Len(c.undo) - 1)
    BY <1>10, <2>3, <2>4, PairedSame
  <2>. QED
    BY <1>3, <1>5, <2>1, <2>2, <2>4, <2>5 DEF Pending, NetOnTop
<1>. QED
  BY <1>5, <1>8, <1>11, <1>12

(* The record is brought up to date.                                       *)
LEMMA FinishStill ==
    ASSUME NEW b, BeKind(b), Shut(b), NEW s \in Sketches, Still(b) \/ Pending(b, s),
           NEW c, c = FinishSketch(b, s), c.evicted = 0
    PROVE  Still(c)
<1>1. b.gesture = <<>> /\ b.slot = <<>>
  BY DEF Shut, Calm
<1>. DEFINE q == IF Top(b.gesture, LAMBDA g : g.s = s) THEN <<>> ELSE b.gesture
            d == [b EXCEPT !.gesture = q]
<1>2. q = <<>>
  BY <1>1
<1>3. /\ DOMAIN d = DOMAIN b /\ d.undo = b.undo /\ d.redo = b.redo /\ d.slot = <<>> /\ d.doc = b.doc
      /\ d.record = b.record /\ d.evicted = b.evicted /\ d.gesture = <<>>
  BY <1>1, <1>2 DEF BeKind
<1>4. c = UpsertSketchRecord(SquashSession(d, s), s)
  BY DEF FinishSketch
<1>. HIDE DEF d
<1>5. BeKind(d) /\ (Still(d) \/ Pending(d, s))
  BY <1>3 DEF BeKind, Still, Pending
<1>6. SquashSession(d, s) = d
  BY <1>3 DEF SquashSession, Top
<1>. DEFINE a == [d EXCEPT !.record[s] = <<d.doc[s]>>]
            e == [kind |-> "record", s |-> s, prior |-> d.record[s], after |-> <<d.doc[s]>>]
<1>7. c = IF d.record[s] = <<d.doc[s]>> THEN d ELSE PushCommitted(a, e)
  BY <1>4, <1>6 DEF UpsertSketchRecord
<1>8. /\ DOMAIN a = DOMAIN d /\ DOMAIN a.record = Sketches /\ a.undo = d.undo /\ a.redo = d.redo /\ a.slot = d.slot
      /\ a.evicted = d.evicted /\ a.gesture = d.gesture /\ a.doc = d.doc
      /\ a.record[s] = <<d.doc[s]>> /\ \A t \in Sketches : t # s => a.record[t] = d.record[t]
  BY <1>5 DEF BeKind
<1>9. e.kind = "record" /\ e.s = s /\ e.prior = d.record[s] /\ e.after = <<d.doc[s]>>
  OBVIOUS
<1>. HIDE DEF a, e
<1>10. IsSeq(d.undo) /\ IsSeq(d.redo) /\ Len(d.undo) \in Nat /\ (d.undo = <<>> <=> Len(d.undo) = 0)
  BY <1>5, SeqIs DEF BeKind, StackKind
<1>11. CASE d.record[s] = <<d.doc[s]>>
  <2>1. ~Pending(d, s)
    BY <1>11 DEF Pending, SyncAt
  <2>. QED
    BY <1>5, <1>7, <1>11, <2>1
<1>12. CASE d.record[s] # <<d.doc[s]>>
  <2>1. BeKind(a)
    BY <1>5, <1>8 DEF BeKind
  <2>2. c.doc = a.doc /\ c.record = a.record /\ c.redo = <<>> /\ c.undo = Append(a.undo, e)
    BY <1>7, <1>12, <2>1, PushIs
  <2>. DEFINE n == Len(d.undo)
  <2>3. /\ IsSeq(c.undo) /\ Len(c.undo) = n + 1 /\ c.undo[n + 1] = e
        /\ \A i \in 1 .. n : c.undo[i] = d.undo[i]
    BY <1>8, <1>10, <2>2, AppendSeq
  <2>4. Paired(c.undo, n + 1)
    <3>1. CASE Still(d)
      <4>1. Paired(d.undo, n) /\ SyncAt(d.record[s], d.doc[s])
        BY <1>10, <3>1, DonePaired DEF Still
      <4>2. Lone(e)
        BY <1>9, <1>12, <4>1 DEF SyncAt, Lone
      <4>. HIDE DEF n
      <4>3. n \in Nat
        BY <1>10 DEF n
      <4>4. Paired(c.undo, n)
        BY <2>3, <4>1, <4>3, PairedSame
      <4>. QED
        BY <1>9, <2>3, <4>2, <4>3, <4>4, PairedMore
    <3>2. CASE Pending(d, s)
      <4>1. PICK v : /\ d.undo[n].prior = <<v>> /\ SyncAt(d.record[s], v)
                     /\ d.undo[n].kind = "net" /\ d.undo[n].s = s /\ d.undo[n].after = <<d.doc[s]>>
                     /\ Paired(d.undo, n - 1) /\ n # 0
        BY <1>10, <3>2 DEF Pending, NetOnTop
      <4>. DEFINE k == n - 1
      <4>. HIDE DEF n
      <4>2. n \in Nat
        BY <1>10 DEF n
      <4>3. k \in Nat /\ k + 1 = n /\ k + 2 = n + 1 /\ n \in 1 .. n
        BY <4>1, <4>2
      <4>4. \A i \in 1 .. k : i \in 1 .. n
        BY <4>2
      <4>5. Paired(d.undo, k)
        BY <4>1
      <4>. HIDE DEF k
      <4>6. Paired(c.undo, k)
        BY <2>3, <4>3, <4>4, <4>5, PairedSame
      <4>7. Partner(d.undo[n], e)
        BY <1>9, <4>1 DEF Partner, SyncAt
      <4>8. c.undo[k + 1].kind = "net" /\ Partner(c.undo[k + 1], c.undo[k + 2])
        BY <2>3, <4>1, <4>3, <4>7
      <4>9. Paired(c.undo, k + 2)
        BY <4>3, <4>6, <4>8, PairedVisit
      <4>. QED
        BY <4>3, <4>9
    <3>. QED
      BY <1>5, <3>1, <3>2
  <2>5. Orderly(c.undo, c.redo) /\ ~NetOnTop(c.undo)
    BY <2>2, <2>3, <2>4, DoneOrderly
  <2>6. ASSUME NEW t \in Sketches PROVE SyncAt(c.record[t], c.doc[t])
    <3>1. t # s => SyncAt(d.record[t], d.doc[t])
      BY <1>5 DEF Still, Pending
    <3>. QED
      BY <1>8, <2>2, <3>1 DEF SyncAt
  <2>. QED
    BY <2>5, <2>6 DEF Still
<1>. QED
  BY <1>11, <1>12

-----------------------------------------------------------------------------
(* The record of a sketch: the theorem.                                    *)

(* What stacks and records are in each phase, unless steps were evicted.   *)
Told(p, b) ==
    b.evicted = 0 =>
      /\ p.at = "shut" => Rest(b)
      /\ p.at = "done" => Still(b)
      /\ p.at \in {"opening", "leaving"} => Ready(b, p.s)
      /\ p.at = "open" => Editing(b, p.s)
      /\ p.at = "owed" => Still(b) \/ Pending(b, p.s)

(* An eviction is not forgotten: by a session that is closed,              *)
LEMMA SquashEvicted ==
    ASSUME NEW b, BeOK(b), NEW s \in Sketches, NEW c, c = SquashSession(b, s), c.evicted = 0
    PROVE  b.evicted = 0
<1>1. SlotIs(b.slot, b.undo, b.evicted)
  BY DEF BeOK
<1>2. CASE \E x : b.slot = <<x>> /\ x.s = s
  <2>1. PICK x : b.slot = <<x>> /\ x.s = s
    BY <1>2
  <2>2. Kept(b, c, x, s) \/ Gone(b, c, x, s) \/ Netted(b, c, x, s)
    BY <2>1, SquashIs
  <2>. QED
    BY <2>2 DEF Kept, Gone, Netted
<1>3. CASE ~\E x : b.slot = <<x>> /\ x.s = s
  <2>1. ~Top(b.slot, LAMBDA x : x.s = s)
    <3>1. CASE b.slot = <<>>
      BY <3>1 DEF Top
    <3>2. CASE b.slot # <<>>
      <4>1. PICK x : b.slot = <<x>>
        BY <1>1, <3>2 DEF SlotIs
      <4>2. Last(<<x>>) = x
        BY DEF Last
      <4>. QED
        BY <1>3, <4>1, <4>2 DEF Top
    <3>. QED
      BY <3>1, <3>2
  <2>2. c = b
    BY <2>1 DEF SquashSession
  <2>. QED
    BY <2>2
<1>. QED
  BY <1>2, <1>3

(* by one that is cancelled,                                               *)
LEMMA CancelEvicted ==
    ASSUME NEW b, BeOK(b), NEW s \in Sketches, NEW c, c = CancelSketch(b, s), c.evicted = 0
    PROVE  b.evicted = 0
<1>. DEFINE d == [b EXCEPT !.gesture = <<>>]
<1>1. BeOK(d) /\ d.evicted = b.evicted
  BY GestureOK
<1>2. c = SquashSession(d, s)
  BY DEF CancelSketch
<1>. HIDE DEF d
<1>. QED
  BY <1>1, <1>2, SquashEvicted

(* by one that is finished,                                                *)
LEMMA FinishEvicted ==
    ASSUME NEW b, BeOK(b), NEW s \in Sketches, NEW c, c = FinishSketch(b, s), c.evicted = 0
    PROVE  b.evicted = 0
<1>. DEFINE q == IF Top(b.gesture, LAMBDA g : g.s = s) THEN <<>> ELSE b.gesture
            d == [b EXCEPT !.gesture = q]  f == SquashSession(d, s)
            a == [f EXCEPT !.record[s] = <<f.doc[s]>>]
            e == [kind |-> "record", s |-> s, prior |-> f.record[s], after |-> <<f.doc[s]>>]
<1>1. q = <<>> \/ \E g : q = <<g>> /\ g.s \in Sketches
  BY DEF BeOK, BeKind
<1>. HIDE DEF q
<1>2. BeOK(d) /\ d.evicted = b.evicted
  BY <1>1, GestureOK
<1>3. c = UpsertSketchRecord(f, s)
  BY DEF FinishSketch, q
<1>. HIDE DEF d
<1>4. BeOK(f)
  BY <1>2, SquashOK
<1>5. f.evicted = 0 => d.evicted = 0
  BY <1>2, SquashEvicted
<1>. HIDE DEF f
<1>6. c \in {f, PushCommitted(a, e)}
  BY <1>3 DEF UpsertSketchRecord
<1>. HIDE DEF e
<1>7. /\ DOMAIN a = DOMAIN f /\ DOMAIN a.record = Sketches /\ a.undo = f.undo /\ a.redo = f.redo
      /\ a.gesture = f.gesture /\ a.doc = f.doc /\ a.evicted = f.evicted
  BY <1>4 DEF BeOK, BeKind
<1>8. BeKind(a)
  BY <1>4, <1>7 DEF BeOK, BeKind
<1>. HIDE DEF a
<1>9. c.evicted = 0 => f.evicted = 0
  BY <1>6, <1>7, <1>8, PushIs
<1>. QED
  BY <1>2, <1>5, <1>9

(* by an edit or a drag,                                                   *)
LEMMA DragEvicted ==
    ASSUME NEW b, BeOK(b), NEW to, NEW c, c = EndGesture(b, to), c.evicted = 0
    PROVE  b.evicted = 0
<1>1. CASE b.gesture = <<>>
  BY <1>1 DEF EndGesture
<1>2. CASE b.gesture # <<>>
  <2>. DEFINE a == [b EXCEPT !.gesture = <<>>]  h == Head(b.gesture)
              moved == [h.before EXCEPT !.ents = [u \in DOMAIN @ |->
                          IF u = h.u THEN [@[u] EXCEPT !.at = to] ELSE @[u]]]
  <2>1. h.s \in Sketches
    BY <1>2 DEF BeOK, BeKind
  <2>2. c = SketchEdit(a, h.s, "drag", moved)
    BY <1>2 DEF EndGesture
  <2>3. BeOK(a) /\ a.evicted = b.evicted
    BY GestureOK
  <2>. HIDE DEF a, h, moved
  <2>4. Grown(a, c, "drag", h.s, <<a.doc[h.s]>>, <<moved>>)
    BY <2>1, <2>2, <2>3, EditIs DEF BeOK
  <2>. QED
    BY <2>3, <2>4 DEF Grown
<1>. QED
  BY <1>1, <1>2

(* or by the document's history.                                           *)
LEMMA ActEvicted ==
    ASSUME NEW b, BeKind(b), NEW c, Act(b, c), c.evicted = 0
    PROVE  b.evicted = 0
<1>1. CASE \E e : c = PushCommitted(b, e)
  BY <1>1, PushIs
<1>2. CASE c = b
  BY <1>2
<1>3. CASE c = Undo(b) /\ b.gesture = <<>> /\ b.undo # <<>>
  <2>. DEFINE e == Last(b.undo)
  <2>. HIDE DEF e
  <2>1. c.evicted = b.evicted
    BY <1>3, UndoIs DEF e
  <2>. QED
    BY <2>1
<1>4. CASE c = Redo(b) /\ b.gesture = <<>> /\ b.redo # <<>>
  BY <1>4, RedoIs
<1>. QED
  BY <1>1, <1>2, <1>3, <1>4 DEF Act, Undo, Redo

(* The history keeps the records with their sketches, but for half a visit.*)
LEMMA ActRest ==
    ASSUME "half_undo" \notin Rare, NEW b, BeOK(b), Shut(b), Rest(b), NEW c, Act(b, c), c.evicted = 0, b.evicted = 0
    PROVE  Rest(c)
<1>1. BeKind(b) /\ b.gesture = <<>> /\ Tame(b.undo) /\ Tame(b.redo)
  BY DEF BeOK, Shut, Calm
<1>2. CASE c = b
  BY <1>2
<1>3. CASE c = Undo(b) /\ b.undo # <<>>
  BY <1>1, <1>3, RestUndo
<1>4. CASE c = Redo(b) /\ b.redo # <<>>
  BY <1>1, <1>4, RestRedo
<1>5. CASE ~HalfUndone(b) /\ \E e : e.kind = "model" /\ c = PushCommitted(b, e)
  <2>1. PICK e : e.kind = "model" /\ c = PushCommitted(b, e)
    BY <1>5
  <2>2. Still(b)
    BY <1>1, <1>5, WholeIsStill
  <2>3. Still(c)
    BY <1>1, <2>1, <2>2, PushStill
  <2>. QED
    BY <2>3, StillIsRest
<1>. QED
  BY <1>2, <1>3, <1>4, <1>5 DEF Act, Undo, Redo

(* Each step of the life keeps it.                                         *)
LEMMA ToldStep ==
    ASSUME "half_undo" \notin Rare, "entry_act" \notin Rare,
           NEW p, NEW b, BeOK(b), Held(p, b), Told(p, b), NEW q, NEW d, LifeStep(p, b, q, d)
    PROVE  Told(q, d)
<1>. SUFFICES ASSUME d.evicted = 0
              PROVE  /\ q.at = "shut" => Rest(d)
                     /\ q.at = "done" => Still(d)
                     /\ q.at \in {"opening", "leaving"} => Ready(d, q.s)
                     /\ q.at = "open" => Editing(d, q.s)
                     /\ q.at = "owed" => Still(d) \/ Pending(d, q.s)
  BY DEF Told
<1>0. BeKind(b)
  BY DEF BeOK
<1>1. CASE q = p /\ d = b
  BY <1>1 DEF Told
<1>2. CASE q = p /\ \E to : d = EndGesture(b, to)
  <2>1. PICK to : d = EndGesture(b, to)
    BY <1>2
  <2>2. b.evicted = 0
    BY <2>1, DragEvicted
  <2>3. CASE p.at = "open"
    <3>1. p.s \in Sketches /\ Open(b, p.s) /\ Editing(b, p.s)
      BY <2>2, <2>3 DEF Held, Told
    <3>2. Editing(d, p.s)
      BY <2>1, <3>1, EditingEnded
    <3>. QED
      BY <1>2, <2>3, <3>2
  <2>4. CASE p.at # "open"
    <3>1. b.gesture = <<>>
      BY <2>4 DEF Held, Shut, Opening, Calm
    <3>2. d = b
      BY <2>1, <3>1 DEF EndGesture
    <3>. QED
      BY <1>2, <3>2 DEF Told
  <2>. QED
    BY <2>3, <2>4
<1>3. CASE p.at = "done" /\ q = At("shut", None) /\ d = b
  BY <1>3, StillIsRest DEF Told, At
<1>4. CASE /\ p.at = "done" \/ (p.at = "shut" /\ ~HalfUndone(b))
           /\ \E s \in Sketches : q = At("opening", s) /\ d = EnterSketch(b, s)
  <2>1. PICK s \in Sketches : q = At("opening", s) /\ d = EnterSketch(b, s)
    BY <1>4
  <2>2. b.slot = <<>>
    BY <1>4 DEF Held, Shut
  <2>3. b.evicted = 0
    <3>1. d.evicted = b.evicted
      BY <1>0, <2>1, <2>2 DEF EnterSketch, Top, BeKind
    <3>. QED
      BY <3>1
  <2>4. Still(b)
    BY <1>0, <1>4, <2>3, WholeIsStill DEF Told
  <2>5. Ready(d, s)
    BY <1>0, <2>1, <2>2, <2>4, EnterReady
  <2>. QED
    BY <2>1, <2>5 DEF At
<1>5. CASE p.at = "opening" /\ p.s \in Sketches /\ (q = At("open", p.s) \/ q = At("leaving", p.s)) /\ d = b
  <2>1. Ready(d, p.s)
    BY <1>5 DEF Told
  <2>2. Editing(d, p.s)
    BY <1>0, <1>5, <2>1, ReadyEdits
  <2>. QED
    BY <1>5, <2>1, <2>2 DEF At
<1>6. CASE /\ p.at \in {"opening", "leaving"} /\ p.s \in Sketches
           /\ q = At("shut", None) /\ d = CancelSketch(b, p.s)
  <2>1. b.evicted = 0
    BY <1>6, CancelEvicted
  <2>2. Ready(b, p.s)
    BY <1>6, <2>1 DEF Told
  <2>3. Still(d)
    BY <1>6, <2>2, ReadyShut
  <2>. QED
    BY <1>6, <2>3, StillIsRest DEF At
<1>7. CASE p.at = "open" /\ p.s \in Sketches /\ q = p /\ \E after : d = SketchEdit(b, p.s, "edit", after)
  <2>1. PICK after : d = SketchEdit(b, p.s, "edit", after)
    BY <1>7
  <2>2. Grown(b, d, "edit", p.s, <<b.doc[p.s]>>, <<after>>)
    BY <1>0, <1>7, <2>1, EditIs
  <2>3. Editing(b, p.s)
    BY <1>7, <2>2 DEF Told, Grown
  <2>4. Editing(d, p.s)
    BY <1>7, <2>1, <2>3, EditingEdited
  <2>. QED
    BY <1>7, <2>4
<1>8. CASE p.at = "open" /\ p.s \in Sketches /\ q = p /\ \E u : d = BeginGesture(b, p.s, u)
  <2>1. PICK u : d = BeginGesture(b, p.s, u)
    BY <1>8
  <2>2. d.evicted = b.evicted
    BY <1>0, <2>1 DEF BeginGesture, BeKind
  <2>3. Editing(b, p.s)
    BY <1>8, <2>2 DEF Told
  <2>4. Editing(d, p.s)
    BY <1>0, <2>1, <2>3, EditingBegun
  <2>. QED
    BY <1>8, <2>4
<1>9. CASE p.at = "open" /\ p.s \in Sketches /\ q = At("owed", p.s) /\ d = CancelSketch(b, p.s)
  <2>1. b.evicted = 0
    BY <1>9, CancelEvicted
  <2>2. Editing(b, p.s) /\ Open(b, p.s)
    BY <1>9, <2>1 DEF Told, Held
  <2>3. Still(d) \/ Pending(d, p.s)
    BY <1>9, <2>2, EditingShut
  <2>. QED
    BY <1>9, <2>3 DEF At
<1>10. CASE p.at = "owed" /\ p.s \in Sketches /\ q = At("done", None) /\ d = FinishSketch(b, p.s)
  <2>1. b.evicted = 0
    BY <1>10, FinishEvicted
  <2>2. Shut(b) /\ (Still(b) \/ Pending(b, p.s))
    BY <1>10, <2>1 DEF Told, Held
  <2>3. Still(d)
    BY <1>0, <1>10, <2>2, FinishStill
  <2>. QED
    BY <1>10, <2>3 DEF At
<1>11. CASE p.at = "shut" /\ q = p /\ Act(b, d)
  <2>1. b.evicted = 0
    BY <1>0, <1>11, ActEvicted
  <2>2. Rest(b) /\ Shut(b)
    BY <1>11, <2>1 DEF Told, Held
  <2>3. Rest(d)
    BY <1>11, <2>1, <2>2, ActRest
  <2>. QED
    BY <1>11, <2>3
<1>. QED
  BY ONLY <1>1, <1>2, <1>3, <1>4, <1>5, <1>6, <1>7, <1>8, <1>9, <1>10, <1>11, LifeStep(p, b, q, d),
     "half_undo" \notin Rare, "entry_act" \notin Rare DEF LifeStep

(* The session goes through its life, and stacks and records are what its  *)
(* phase says.                                                             *)
RecordInv == SketchInv /\ \E p : LifeInv(p) /\ Held(p, be) /\ Told(p, be)

(* They are in the beginning,                                              *)
LEMMA RecordInit == Init => RecordInv
<1>. SUFFICES ASSUME Init PROVE RecordInv
  OBVIOUS
<1>. DEFINE p == At("shut", None)
<1>1. LifeInv(p) /\ be.gesture = <<>> /\ be.slot = <<>> /\ be.undo = <<>> /\ be.redo = <<>>
  BY LifeInit
<1>2. Held(p, be)
  BY <1>1, TameNone DEF Held, At, Shut, Calm
<1>3. p.at = "shut"
  BY DEF At
<1>. HIDE DEF p
<1>4. Orderly(<<>>, <<>>)
  BY NoSeq, DoneOrderly DEF Paired
<1>5. \A s \in Sketches : be.record[s] = <<>> /\ be.doc[s] = Empty
  BY DEF Init
<1>6. Rest(be)
  BY <1>1, <1>4, <1>5 DEF Rest, SyncAt
<1>7. Told(p, be)
  BY <1>3, <1>6 DEF Told
<1>. QED
  BY <1>1, <1>2, <1>7, SketchInit DEF RecordInv

(* and at every step.                                                      *)
LEMMA RecordStep ==
    ASSUME {"early_undo", "fast_reenter", "half_undo", "entry_act"} \cap Rare = {}
    PROVE  RecordInv /\ [Next]_vars => RecordInv'
<1>. SUFFICES ASSUME RecordInv, [Next]_vars PROVE RecordInv'
  OBVIOUS
<1>0. "early_undo" \notin Rare /\ "fast_reenter" \notin Rare /\ "half_undo" \notin Rare /\ "entry_act" \notin Rare
  OBVIOUS
<1>1. PICK p : LifeInv(p) /\ Held(p, be) /\ Told(p, be)
  BY DEF RecordInv
<1>2. SketchInv /\ BeOK(be) /\ SketchInv'
  BY SketchStep DEF RecordInv, SketchInv
<1>3. LifeNext(p)
  BY <1>0, <1>1, <1>2, LifeSteps
<1>4. PICK q : LifeInv(q)' /\ LifeStep(p, be, q, be')
  BY <1>3 DEF LifeNext
<1>5. Held(q, be')
  BY <1>1, <1>2, <1>4, HeldStep
<1>6. Told(q, be')
  BY <1>0, <1>1, <1>2, <1>4, ToldStep
<1>. QED
  BY <1>2, <1>4, <1>5, <1>6 DEF RecordInv

(* So they always are.                                                     *)
LEMMA RecordAlways ==
    ASSUME {"early_undo", "fast_reenter", "half_undo", "entry_act"} \cap Rare = {}
    PROVE  Spec => []RecordInv
BY RecordInit, RecordStep, PTL DEF Spec

(* Once all is answered in model mode, a record that does not hold its     *)
(* sketch is the next to redo.                                             *)
LEMMA RecordIs == RecordInv => RecordIsSketch
<1>. SUFFICES ASSUME RecordInv, Settled, lane.mode = "model", be.evicted = 0, NEW s \in Sketches
              PROVE  \/ be.record[s] = <<be.doc[s]>>
                     \/ be.record[s] = <<>> /\ be.doc[s] = Empty
                     \/ Top(be.redo, LAMBDA e : e.kind = "record" /\ e.s = s)
  BY DEF RecordIsSketch
<1>1. PICK p : LifeInv(p) /\ Held(p, be) /\ Told(p, be)
  BY DEF RecordInv
<1>2. answers = <<>> /\ lane.target = None
  BY DEF Settled
<1>3. PICK c : CallIs(answers, c) /\ Life(p, lane, store.s, c)
  BY <1>1 DEF LifeInv
<1>4. c = <<>>
  BY <1>2, <1>3, NoSeq DEF CallIs
<1>5. p = At("shut", None)
  BY <1>2, <1>3, <1>4 DEF Life
<1>6. Rest(be)
  BY <1>1, <1>5 DEF Told, At
<1>7. CASE SyncAt(be.record[s], be.doc[s])
  BY <1>7 DEF SyncAt
<1>8. CASE NetOnTop(be.undo) /\ be.undo[Len(be.undo)].s = s
  <2>1. IsSeq(be.undo) /\ IsSeq(be.redo)
    BY DEF RecordInv, SketchInv, BeOK, BeKind, StackKind
  <2>2. be.redo # <<>> /\ Partner(be.undo[Len(be.undo)], be.redo[Len(be.redo)])
    BY <1>6, <1>8, <2>1, Meets DEF Rest
  <2>3. Last(be.redo).kind = "record" /\ Last(be.redo).s = s
    BY <1>8, <2>2 DEF Partner, Last
  <2>. QED
    BY <2>2, <2>3 DEF Top
<1>. QED
  BY <1>6, <1>7, <1>8 DEF Rest

(* Unless the history is used while a session is being opened or closed,   *)
(* a sketch is entered before the last one is closed, or half a visit is   *)
(* undone and left so: the record that the planner reads is the sketch, or *)
(* it is the next step to redo.                                            *)
THEOREM SketchRecord ==
    ASSUME {"early_undo", "fast_reenter", "half_undo", "entry_act"} \cap Rare = {}
    PROVE  Spec => []RecordIsSketch
BY RecordAlways, RecordIs, PTL
=============================================================================
