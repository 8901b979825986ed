CONSTANTS
  REQUEST_LEN = 6
  HEADER_LEN = 3
  Verifiers = {"p256", "mldsa", "slhdsa", "fixture"}
SPECIFICATION Spec
INVARIANTS TypeOK WeightOnlyForWholeRequest ValidProofCounts
PROPERTIES CallReturns
