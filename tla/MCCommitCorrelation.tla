------------------------- MODULE MCCommitCorrelation -------------------------
(* Two records, documents that open empty or with one record.              *)
EXTENDS CommitCorrelation

CONSTANTS r1, r2
Nothing == {}
TwoRecords == {r1, r2}
UndoOfRename == {"no_regen"}
AllKinds == {"add", "reedit", "remove", "roll", "variable", "undo", "rename", "open"}
EmptyOrOne == {<<>>, <<r1>>}
=============================================================================
