SPECIFICATION FairSpec
CONSTANTS
  w1 = w1
  w2 = w2
  NoWorker = NoWorker
  NoPlan = NoPlan
  Workers = {w1, w2}
  Plans = {"free", "pro"}
  Ops = {"create", "retry", "plan", "status", "delete"}
  MaxOps = 5
  MaxFaults = 3
INVARIANTS
  TypeOK
  ActiveIsServedAndBilled
PROPERTIES
  DeletedStaysDeleted
  ProvisioningEnds
CHECK_DEADLOCK FALSE
