CONSTANTS
  AUTHENTICATOR_MAX_COUNT = 2
  U64_MAX = 3
  SINCE_METRIC = 4
  AccountId = "acct"
  Cases <- MCCases
SPECIFICATION Spec
INVARIANT WeightOfVerifiedSet
PROPERTIES KeepsPromise
CHECK_DEADLOCK FALSE
