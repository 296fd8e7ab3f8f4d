SPECIFICATION CalmSpec
CONSTANTS
  c1 = c1
  c2 = c2
  k1 = k1
  k2 = k2
  NoCase = NoCase
  NoKey = NoKey
  Case = {c1}
  Key = {k1, k2}
  Proc = {p1, p2}
  Call <- KeyCalls
  MaxAttempts <- KeyAttempts
PROPERTY KeyLeavesResponse
CHECK_DEADLOCK FALSE
