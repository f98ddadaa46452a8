SPECIFICATION Spec
CONSTANTS
  r1 = r1  r2 = r2
  Requests <- MCRequests
  MaxAttempts = 2
  MaxTokens = 3
  MaxTokensAtMiss = 0
  MaxTokensElsewhere = 0
  MaxPasswords = 2
  MaxRevocations = 1
  MaxLost = 1
SYMMETRY MCSymmetry
INVARIANTS TypeOK OneSuccessor OutlivesOnlyByRace GuessesBounded
CHECK_DEADLOCK FALSE
