CONSTANTS
  s1 = s1
  s2 = s2
  Sketches <- TwoSketches
  Verbs <- Every
  FreeDof = 1
  UndoCap = 3
  MaxEdits = 1
  MaxQueue = 1
  MaxVisits = 2
  MaxModel = 3
  Rare <- EntryAct
SPECIFICATION Spec
INVARIANT RecordIsSketch
SYMMETRY Alike
CHECK_DEADLOCK FALSE
