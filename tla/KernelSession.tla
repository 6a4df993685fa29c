--------------------------- MODULE KernelSession ---------------------------
(***************************************************************************)
(* The geometry worker's document session (worker/src/session/Session.cpp):*)
(* the published head, the one prepared-but-not-accepted scratch, the      *)
(* in-session checkpoints and the worker epoch.  Every verb here runs on   *)
(* the worker's kernel lane, one thread that serves its queue in order, so *)
(* a verb is one atomic step.                                              *)
(*                                                                         *)
(* Each verb is a pair: an action that changes the session and a reply     *)
(* that is a function of the state before it.  A request m is a record;    *)
(* its prefix hashes are sets of lines (HistoryPrefix).                    *)
(***************************************************************************)
EXTENDS HistoryPrefix

CONSTANTS Jobs,         \* job ids
          Steps,        \* the steps a checkpoint may be saved at
          MaxEpoch,     \* bound: worker incarnations
          NoScratch     \* "no plan is prepared"

ASSUME SessionAssumption ==
    /\ Steps \subseteq Nat \ {0}
    /\ MaxEpoch \in Nat \ {0}
    /\ NoScratch \notin [job : Jobs, geom : SUBSET ((1 .. MaxLen) \X Ops),
                       hash : SUBSET ((1 .. MaxLen) \X Ops), steps : SUBSET ((1 .. MaxLen) \X Ops)]

VARIABLES wEpoch,       \* worker_epoch_
          head,         \* published bodies and their opaque hash
          scratch,      \* scratch_
          saved         \* checkpoints_: step -> bodies and hash

sessionVars == <<wEpoch, head, scratch, saved>>

EmptyHead == [geom |-> {}, hash |-> EmptyPrefix]

Refused == [ok |-> FALSE, sawStep |-> FALSE]

-----------------------------------------------------------------------------
(* Mutant of OpenSession: the new session counts the epoch up once more.   *)
OpenSessionBumps(e) ==
    /\ wEpoch' = e + 1
    /\ head' = EmptyHead
    /\ scratch' = NoScratch
    /\ saved' = <<>>

(* OpenSession: a fresh session at the given epoch.                        *)
OpenSession(e) ==
    /\ wEpoch' = e
    /\ head' = EmptyHead
    /\ scratch' = NoScratch
    /\ saved' = <<>>

(* Mutant of PlanFits: a plan for another base is let through.             *)
PlanFitsAnyBase(m) == scratch = NoScratch /\ m.epoch = wEpoch

(* ExecutePlan: fence_and_clone, execute, store_prepared.  A plan is let   *)
(* through if nothing is prepared, its epoch is the session's and its base *)
(* is the head -- or the empty prefix, which starts from no bodies.        *)
PlanFits(m) ==
    /\ scratch = NoScratch
    /\ m.epoch = wEpoch
    /\ m.base \in {EmptyPrefix, head.hash}

(* Mutant of PreparedBy: a plan from zero starts from the live head too.   *)
PreparedOverHead(m) ==
    [job   |-> m.job,
     geom  |-> head.geom \cup Built(m.ops),
     hash  |-> m.base \cup Built(m.ops),
     steps |-> Built(m.ops)]

PreparedBy(m) ==
    LET done == Built(m.ops)
        base == IF m.base = EmptyPrefix THEN {} ELSE head.geom
    IN  [job   |-> m.job,
         geom  |-> base \cup done,
         hash  |-> m.base \cup done,    \* the token after the last op that ran
         steps |-> done]                \* the per-step results

Prepared(s) == [ok |-> TRUE, hash |-> s.hash, steps |-> s.steps]

ExecutePlan(m) ==
    /\ scratch' = IF PlanFits(m) THEN PreparedBy(m) ELSE scratch
    /\ UNCHANGED <<wEpoch, head, saved>>

(* A re-sent plan that is already prepared gets the cached answer.         *)
ExecuteReply(m) ==
    IF PlanFits(m) THEN Prepared(PreparedBy(m))
    ELSE IF scratch # NoScratch /\ scratch.job = m.job THEN Prepared(scratch)
    ELSE Refused

(* AcceptPrepared: the scratch replaces the head wholesale.                *)
AcceptFits(m) == scratch # NoScratch /\ scratch.job = m.job /\ m.epoch = wEpoch

AcceptPrepared(m) ==
    /\ head' = IF AcceptFits(m)
               THEN [geom |-> scratch.geom, hash |-> scratch.hash]
               ELSE head
    /\ scratch' = IF AcceptFits(m) THEN NoScratch ELSE scratch
    /\ UNCHANGED <<wEpoch, saved>>

AcceptReply(m) == [ok |-> AcceptFits(m)]

(* DiscardPrepared drops whatever is prepared: the job id is advisory.     *)
DiscardPrepared(m) == scratch' = NoScratch /\ UNCHANGED <<wEpoch, head, saved>>

DiscardReply(m) == [ok |-> TRUE]

(* SaveCheckpoint keeps the current head under the step the caller names.  *)
SaveCheckpoint(m) ==
    /\ saved' = [s \in DOMAIN saved \cup {m.step} |->
                    IF s = m.step THEN head ELSE saved[s]]
    /\ UNCHANGED <<wEpoch, head, scratch>>

SaveReply(m) == [ok |-> TRUE, geom |-> head.geom, hash |-> head.hash]

(* RestoreCheckpoint installs a saved state as the head, at once and       *)
(* whether or not the plan that asked for it is ever accepted.             *)
RestoreFits(m) ==
    /\ m.epoch = wEpoch
    /\ m.step \in DOMAIN saved
    /\ saved[m.step].hash = m.base

RestoreCheckpoint(m) ==
    /\ head' = IF RestoreFits(m)
               THEN saved[m.step]
               ELSE head
    /\ UNCHANGED <<wEpoch, scratch, saved>>

RestoreReply(m) == [ok |-> RestoreFits(m)]

-----------------------------------------------------------------------------
(* The session on its own: any request, in any order, from a caller that   *)
(* only promises to cut each plan out of some timeline.                    *)

Verbs == {"Execute", "Accept", "Discard", "Save", "Restore"}

CutFrom(d, verb, b, t, j, e) ==
    [kind |-> verb, job |-> j, epoch |-> e, step |-> b,
     base |-> Lines(d, 1, b), ops |-> Lines(d, b + 1, t)]

AnyRequest(verb) ==
    {CutFrom(d, verb, b, t, j, e) :
        d \in Timelines, b \in Steps \cup {0}, t \in Steps, j \in Jobs, e \in 1 .. MaxEpoch}

SessionInit ==
    /\ wEpoch = 1 /\ head = EmptyHead /\ scratch = NoScratch /\ saved = <<>>

SessionNext ==
    \/ \E e \in wEpoch + 1 .. MaxEpoch : OpenSession(e)
    \/ \E m \in AnyRequest("Execute") : ExecutePlan(m)
    \/ \E m \in AnyRequest("Accept") : AcceptPrepared(m)
    \/ \E m \in AnyRequest("Discard") : DiscardPrepared(m)
    \/ \E m \in AnyRequest("Save") : m.step # 0 /\ SaveCheckpoint(m)
    \/ \E m \in AnyRequest("Restore") : RestoreCheckpoint(m)

SessionSpec == SessionInit /\ [][SessionNext]_sessionVars

-----------------------------------------------------------------------------
Slices == SUBSET ((1 .. MaxLen) \X Ops)

States == [geom : Slices, hash : Slices]

(* The four parts of the session hold values of their kind.                *)
SessionTypeOK ==
    /\ wEpoch \in 1 .. MaxEpoch
    /\ head \in States
    /\ scratch = NoScratch \/ scratch \in [job : Jobs, geom : Slices, hash : Slices, steps : Slices]
    /\ DOMAIN saved \subseteq Steps /\ \A s \in DOMAIN saved : saved[s] \in States

(* A hash token always names the geometry it travels with -- in the head,  *)
(* in the prepared scratch, in every saved checkpoint -- although the      *)
(* worker never computes a hash itself.                                    *)
HashNamesGeometry ==
    /\ head.hash = head.geom
    /\ scratch # NoScratch => scratch.hash = scratch.geom
    /\ \A s \in DOMAIN saved : saved[s].hash = saved[s].geom

(* Whatever has been prepared, accepted, saved and restored, the published *)
(* bodies are those of a prefix of one timeline, never of two.             *)
HeadIsOneTimeline == \E d \in Timelines : \E k \in 0 .. Len(d) : head.geom = Regen(d, k)
=============================================================================
