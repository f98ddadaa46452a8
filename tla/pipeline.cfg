SPECIFICATION FairSpec
CONSTANTS
  r1 = r1
  r2 = r2
  i1 = i1
  i2 = i2
  Requests = {r1}
  Ids = {i1}
  IdOf <- OwnIds
  MaxInflight = 1
  MaxDeliver = 2
  FirstDeploy = TRUE
  MaxChunks = 1
  MaxFaults = 1
INVARIANTS
  TypeOK
  AckedIsKept
  NeverBilledOnAGuess
PROPERTIES
  MeteredOnce
  PublishedIsMetered
CHECK_DEADLOCK FALSE
