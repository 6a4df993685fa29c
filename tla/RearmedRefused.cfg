CONSTANTS
  Tools <- FilletOnly
  MaxRegions = 2
  MaxValue = 2
  MaxStale = 1
  MaxArms = 2
  MaxActs = 4
  Rare <- Nothing
SPECIFICATION Spec
INVARIANT ArmedCanConfirm
CHECK_DEADLOCK FALSE
