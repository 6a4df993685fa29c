CONSTANTS
  s1 = s1
  s2 = s2
  Sketches <- TwoSketches
  Verbs <- Every
  FreeDof = 1
  UndoCap = 3
  MaxEdits = 3
  MaxQueue = 1
  MaxVisits = 2
  MaxModel = 2
  Rare <- Nothing
SPECIFICATION Spec
INVARIANTS SketchTypeOK ScreenIsDocument UndoIsChain ClosedIsClosed RecordIsSketch
PROPERTIES NoSilentLoss
SYMMETRY Alike
CHECK_DEADLOCK FALSE
