CONSTANTS
  AUTHENTICATOR_MAX_COUNT = 2
  U64_MAX = 2
  SINCE_METRIC = 4
  AccountId = "acct"
  Keys <- MCKeys
  Slots <- MCSlots
  Verifiers <- MCVerifiers
  Outpoints <- MCOutpoints
  Accounts <- MCAccounts
  Rests <- MCRests
  Txs <- MCTxs
  Intents <- MCIntents
  InitialData <- MCInitialData
  InitialState = "s0"
  InitialAssets = {"a0"}
  EpochAt <- MCEpochAt
  TimeAt <- MCTimeAt
  EpochSpan <- MCEpochSpan
  MaxSignatures = 3
  MaxHeight = 2
SPECIFICATION Spec
INVARIANT RecoveryDelayed
PROPERTIES GuardedCellsSafe StateEvolves 
CHECK_DEADLOCK FALSE
