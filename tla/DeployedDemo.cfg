CONSTANTS
  Tools = {"t1"}
  Commands = {"phased", "account_lock", "verifier_p256"}
  Rebuilt = {"account_lock", "verifier_p256"}
  MaxBuilds = 2
  MaxCells = 3
SPECIFICATION DemoSpec
INVARIANTS OnlyIdentifiedBuildsLand VerificationWasTrue DepsHoldAccountCode
PROPERTIES KeepsPromise AnswersUnderVerifiedCode
CHECK_DEADLOCK FALSE
