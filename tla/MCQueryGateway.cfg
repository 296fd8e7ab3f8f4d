SPECIFICATION Spec
CONSTANTS
  p1 = p1
  p2 = p2
  Proc = {p1, p2}
  Request <- MCRequest
  Untranslated <- MCUntranslated
  TimeText <- MCTimeText
  Fallback = TRUE
  KeysTTL = 2
  CacheTTL = 1
  MaxDelay = 1
  MaxTime = 4
  MaxRequests = 3
  MaxKeys = 2
SYMMETRY Symmetry
INVARIANTS GatewayTypeOK AnswersOwnQuery
PROPERTIES AnswersFresh VerdictsFollowIssuer
CHECK_DEADLOCK FALSE
