CONSTANTS
  Connections = {"c1", "c2"}
  Shapes <- MCShapes
  NoKey = NoKey
  BODY_LIMIT = 4
  MaxDirs = 2
  MaxCrashes = 1
SPECIFICATION Spec
INVARIANTS BufferBounded CreationAskedFor TempDirsAccounted
PROPERTY RequestsAnswered
CHECK_DEADLOCK FALSE
