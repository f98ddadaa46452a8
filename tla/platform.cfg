SPECIFICATION PlatformSpec
CONSTANTS
  EnvKeys = {"verify", "cache"}
  Selections <- MCSelections
  Plans <- MCPlans
  TrimsCluster = TRUE
  MaxRuns = 2
INVARIANTS PlatformTypeOK FinishesAlone
 
CHECK_DEADLOCK FALSE
