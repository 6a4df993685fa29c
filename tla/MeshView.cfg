CONSTANTS
  b1 = b1
  b2 = b2
  Bodies <- OneBody
  Colors = {"red"}
  MaxMesh = 2
  MaxEdits = 3
  MaxRetries = 1
  MaxLoads = 2
  Rare <- Nothing
SPECIFICATION Spec
INVARIANTS MeshTypeOK SettledViewIsDocument SettledStoreIsModel SceneIsWhole
PROPERTY NeverOlder
CHECK_DEADLOCK FALSE
