CONSTANTS
  Requests = {r1, r2, r3}
  PasskeyIds = {"k1", "k2"}
  Processes = {"server"}
  MaxTxs = 2
  MaxCrashes = 1
SPECIFICATION Spec
INVARIANT AccountCreatedOnce
CHECK_DEADLOCK FALSE
