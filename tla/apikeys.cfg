SPECIFICATION Spec
CONSTANTS
  k1 = k1
  k2 = k2
  h1 = h1
  h2 = h2
  m1 = m1
  m2 = m2
  g1 = g1
  g2 = g2
  NoHash = NoHash
  Keys = {k1}
  Hashes = {h1, h2}
  Sessions = {m1, m2}
  Gates = {g1}
  Ops = {"create", "rotate", "update", "revoke", "suspend", "activate", "delete"}
  Expiries = {2}
  CacheTtl = 2
  MaxTime = 3
  MaxOps = 3
  MaxFaults = 1
SYMMETRY Symmetry
INVARIANTS
  TypeOK
  StaleOnlyByRace
PROPERTIES
  VerdictsAreTimely
CHECK_DEADLOCK FALSE
