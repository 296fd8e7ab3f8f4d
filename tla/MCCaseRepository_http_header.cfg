SPECIFICATION Spec
CONSTANTS
  c1 = c1
  c2 = c2
  k1 = k1
  k2 = k2
  NoCase = NoCase
  NoKey = NoKey
  Case = {c1}
  Key = {}
  Proc = {p1, p2}
  Call <- HeaderCalls
  MaxAttempts <- HeaderAttempts
INVARIANT IfMatchHeaderHonoured
CHECK_DEADLOCK FALSE
