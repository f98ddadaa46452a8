SPECIFICATION FairLimiterSpec
CONSTANTS
  r1 = r1
  r2 = r2
  r3 = r3
  s1 = s1
  s2 = s2
  NoSub = NoSub
  Unknown = Unknown
  Calls = {r1, r2}
  Amount <- Tpm
  Subs = {s1, s2}
  Plans = {0, 2}
  StaticLimit = 1
  Window = 2
  DedupeTtl = 3
  PlanTtl = 2
  MaxTime = 3
  MaxErrors = 1
  MaxFaults = 1
INVARIANTS
  LimiterTypeOK
  CheckComparesTrueValues
PROPERTIES
  EveryEventAcked
CHECK_DEADLOCK FALSE
