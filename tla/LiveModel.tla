----------------------------- MODULE LiveModel -----------------------------
(***************************************************************************)
(* What the regen pipeline promises its user, with no scheduler, plan or   *)
(* worker in sight: a document that is edited, a rollback bar in it, and a *)
(* model on screen.  The model lags behind the document, but it changes    *)
(* only by becoming, in one step, the geometry of a prefix of the document *)
(* as it is at that very moment -- never a mixture of two documents, never *)
(* a document that has been edited since.                                  *)
(***************************************************************************)
EXTENDS HistoryPrefix

VARIABLES doc,          \* the timeline
          cursor,       \* the records below the rollback bar
          rev,          \* edits so far
          shown         \* the model on screen

vars == <<doc, cursor, rev, shown>>

Init ==
    /\ doc \in Timelines
    /\ cursor = Len(doc)
    /\ rev = 0
    /\ shown = {}

Edit(d, c) ==
    /\ doc' = d
    /\ cursor' = c
    /\ rev' = rev + 1
    /\ UNCHANGED shown

Rebuild(k) ==
    /\ shown' = Regen(doc, k)
    /\ UNCHANGED <<doc, cursor, rev>>

Next ==
    \/ \E d \in Timelines : \E c \in 0 .. Len(d) : Edit(d, c)
    \/ \E k \in 0 .. cursor : Rebuild(k)

Spec == Init /\ [][Next]_vars
=============================================================================
