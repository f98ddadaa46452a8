SPECIFICATION FairSpec
CONSTANTS
  o1 = o1
  o2 = o2
  null = null
  NumRows = 2
  Orgs = {o1, o2}
  OrgOf <- OrgsOfRows
  NullOrg = null
  MaxAttempts = 3
  BatchSize = 1
  MaxCrashes = 1
  MaxLapses = 1
INVARIANTS
  TypeOK
  SentIsAttributed
  OneCustomerPerOrg
PROPERTIES
  CrashNeverDoubleBills
  ImplementsUsageReporting
  EveryRowSettles
CHECK_DEADLOCK FALSE
