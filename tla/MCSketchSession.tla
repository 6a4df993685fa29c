-------------------------- MODULE MCSketchSession --------------------------
(* Two sketches and every kind of edit, with nothing rare or with undo of  *)
(* a drag.                                                                 *)
EXTENDS SketchSession

CONSTANTS s1, s2

TwoSketches == {s1, s2}
Alike == Permutations(TwoSketches)
Every == {"draw", "dim", "value", "delete", "unconstrain", "trim", "extend", "copy", "flip",
          "undo", "redo"}
Nothing == {}
UndoDrag == {"undo_drag"}
DragRace == {"drag_race"}
EntryAct == {"entry_act"}
=============================================================================
