CONSTANTS
  AUTHENTICATOR_MAX_COUNT = 16
  U64_MAX = 3
  AccountId = "acct"
  SINCE_METRIC = 2
  SHANNONS_PER_CKB = 100000
  RawTxBytes = 480
  FunderArgsBytes = 20
  Configs <- MCConfigs
  AssetCkb <- MCAssetCkb
  Keys = {"k1", "k2"}
  Verifiers = {"v1", "v2"}
  DeployedVerifier = "v1"
  AuthenticatorDataSizes <- MCAuthenticatorDataSizes
  ClientDataSizes <- MCClientDataSizes
  SignatureSizes <- MCSignatureSizes
  MaxOut = 4
SPECIFICATION Spec
INVARIANTS FinalisedAccepted DemoAccountSpendable FeeCoversFinal NeverOverReservation
CHECK_DEADLOCK FALSE
