CONSTANTS
  r1 = r1
  r2 = r2
  Records <- TwoRecords
  Kinds <- AllKinds
  Openable <- EmptyOrOne
  MaxCommands = 2
  Rare <- UndoOfRename
SPECIFICATION Spec
INVARIANTS EveryCommitEnds
CHECK_DEADLOCK FALSE
