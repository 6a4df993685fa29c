--------------------------- MODULE MCSaveRecovery ---------------------------
(* Small instances of SaveRecovery: two document ids, one or two places to *)
(* save; one document saved by an earlier launch, or saved twice by it.    *)
EXTENDS SaveRecovery

CONSTANTS d1, d2, p1, p2

MCIds == {d1, d2}
OnePath == {p1}
TwoPaths == {p1, p2}

OneFile == {[p \in Paths |-> [id |-> d1, work |-> {}]]}

Nothing == {}
BlindOpen == {"copy", "blind_open"}

=============================================================================
