----------------------------- MODULE MCMeshView -----------------------------
(* One body, two colours: every hazard of MeshView is about one body's own  *)
(* loads; the second body only doubles them.                                *)
EXTENDS MeshView

CONSTANTS b1, b2

Nothing == {}
OneBody == {b1}
TwoBodies == {b1, b2}
StaleColors == {"stale_colors"}
=============================================================================
