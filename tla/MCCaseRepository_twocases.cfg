SPECIFICATION FairSpec
CONSTANTS
  c1 = c1
  c2 = c2
  k1 = k1
  k2 = k2
  NoCase = NoCase
  NoKey = NoKey
  Case = {c1, c2}
  Key = {k1}
  Proc = {p1, p2}
  Call <- TwoCaseCalls
  MaxAttempts <- TwoCaseAttempts
INVARIANTS
  SessionInv
  OutboxFollowsHistory
  KeyBacksOneEffect
PROPERTIES
  RowsCommitInOrder
  ImplementsLedger
  RequestsEnd
CHECK_DEADLOCK FALSE
