SPECIFICATION PlatformSpec
CONSTANTS
  EnvKeys = {"verify", "cache"}
  Selections <- MCSelections
  Plans <- MCNewCluster
  TrimsCluster = TRUE
  MaxRuns = 2
INVARIANT FinishesAlone
CHECK_DEADLOCK FALSE
