CONSTANTS
  Requests = {r1, r2}
  PasskeyIds = {"k1", "k2"}
  Processes = {"server", "cli"}
  MaxTxs = 2
  MaxCrashes = 1
SPECIFICATION Spec
INVARIANTS TypeOK ManifestOnChain AnswersOnChain OneAccountUnlessLost
PROPERTIES RequestsAnswered
CHECK_DEADLOCK FALSE
