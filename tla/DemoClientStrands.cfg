CONSTANTS
  Tabs = {"tab1", "tab2"}
  Keys = {"k1", "k2"}
  MaxReloads = 0
SPECIFICATION Spec
INVARIANT NoCapacityStranded
CHECK_DEADLOCK FALSE
