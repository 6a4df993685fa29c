CONSTANTS
  Tools <- FilletOnly
  MaxRegions = 2
  MaxValue = 2
  MaxStale = 1
  MaxArms = 2
  MaxActs = 4
  Rare <- EarlyAnswer
SPECIFICATION Spec
INVARIANT PreviewSettles
CHECK_DEADLOCK FALSE
