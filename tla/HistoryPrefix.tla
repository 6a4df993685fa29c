--------------------------- MODULE HistoryPrefix ---------------------------
(***************************************************************************)
(* The timeline as the regen planner sees it, and what executing a slice   *)
(* of it produces.                                                         *)
(*                                                                         *)
(* A timeline is a sequence of records.  What a record's parameters say is *)
(* abstracted to an element of Ops; a record whose suppressed flag is set  *)
(* is the value Suppressed, because neither the planner nor the hash can   *)
(* tell two suppressed records apart.  Steps are numbered from 1 (the code *)
(* numbers them from 0).                                                   *)
(*                                                                         *)
(* A prefix is the set of its canonical lines <<step, operation>>: the     *)
(* SHA-256 of the lines is modelled by the set itself, so that two         *)
(* prefixes have the same hash exactly when they have the same lines.      *)
(* Geometry is modelled by the set of lines that were executed to build    *)
(* it, since the kernel is deterministic.                                  *)
(***************************************************************************)
EXTENDS Naturals, Sequences

CONSTANTS Ops,          \* operations a record may carry
          Failing,      \* the operations the kernel cannot execute
          Suppressed,   \* a record that is switched off
          MaxLen        \* bound: records in a timeline

ASSUME OpsAssumption ==
    /\ Failing \subseteq Ops /\ Suppressed \notin Ops
    /\ MaxLen \in Nat

Records == Ops \cup {Suppressed}

Timelines == UNION {[1 .. n -> Records] : n \in 0 .. MaxLen}

(* The canonical lines of steps a..b: a suppressed record contributes no   *)
(* line and the survivors keep their timeline index.                       *)
Lines(doc, a, b) ==
    {<<i, doc[i]>> : i \in {j \in (a .. b) \cap DOMAIN doc : doc[j] # Suppressed}}

EmptyPrefix == {}

(* What the worker executes of a slice: everything below the first record  *)
(* that fails.                                                             *)
Built(lines) ==
    {l \in lines : \A m \in lines : m[2] \in Failing => l[1] < m[1]}

(* The geometry a document's applied prefix stands for.                    *)
Regen(doc, applied) == Built(Lines(doc, 1, applied))
=============================================================================
