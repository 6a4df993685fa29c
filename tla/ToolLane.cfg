CONSTANTS
  Tools <- FourTools
  MaxRegions = 2
  MaxValue = 2
  MaxStale = 1
  MaxArms = 2
  MaxActs = 4
  Rare <- Nothing
SPECIFICATION Spec
INVARIANTS LaneTypeOK LaneIsOwned PreviewIsTrue RecordsAreRight CommitsWhatIsShown PicksAreCurrent CommitIsAwaited
CHECK_DEADLOCK FALSE
