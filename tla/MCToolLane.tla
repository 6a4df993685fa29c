----------------------------- MODULE MCToolLane -----------------------------
(* One tool of each kind: several regions of a sketch, the same with a     *)
(* second pick, a strict one bound to edges, a bound one without the       *)
(* strictness.                                                             *)
EXTENDS ToolLane

Nothing == {}
FourTools == {"extrude", "revolve", "fillet", "shell"}
FilletOnly == {"fillet"}
EarlyAnswer == {"early_answer"}
=============================================================================
