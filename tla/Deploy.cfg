CONSTANTS
  Tools = {"t1", "t2"}
  Commands = {"phased", "verifier_p256"}
  Rebuilt = {}
  MaxBuilds = 1
  MaxCells = 3
SPECIFICATION Spec
INVARIANTS TypeOK RecordsLanded
PROPERTY InvocationsEnd
CHECK_DEADLOCK FALSE
