SPECIFICATION Spec
CONSTANTS
  Attempts = {1, 2, 3}
INVARIANTS
  OwnCodeOnce
  FailureKeepsTokens
