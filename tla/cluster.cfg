SPECIFICATION Spec
CONSTANTS
  Servers = {s1, s2}
  Agents = {a1, a2}
  First = s1
  MaxVersion = 2
  MaxCalls = 3
INVARIANTS TypeOK FileIsTrue FirstServerLast
CHECK_DEADLOCK FALSE
