CONSTANTS
  r1 = r1
  r2 = r2
  Records <- TwoRecords
  Kinds <- AllKinds
  Openable <- EmptyOrOne
  MaxCommands = 2
  Rare <- Nothing
SPECIFICATION Spec
INVARIANTS CorTypeOK VerdictIsTrue EveryCommitEnds BusyIsRunning SnapshotIsPublished TimelineIsShown
CHECK_DEADLOCK FALSE
