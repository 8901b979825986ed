CONSTANTS
  Tools = {"t1"}
  Commands = {"phased", "all"}
  Rebuilt = {}
  MaxBuilds = 1
  MaxCells = 3
SPECIFICATION Spec
PROPERTY VerifiedCellsRecorded
CHECK_DEADLOCK FALSE
