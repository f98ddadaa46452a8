SPECIFICATION Spec
CONSTANTS
  o1 = o1
  o2 = o2
  null = null
  NumRows = 1
  Orgs = {o1}
  OrgOf <- OrgOfOneRow
  NullOrg = null
  MaxAttempts = 2
  BatchSize = 1
  MaxCrashes = 0
  MaxLapses = 1
INVARIANT NeverDoubleReports
CHECK_DEADLOCK FALSE
