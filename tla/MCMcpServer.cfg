\* The life of the server with two requests.
CONSTANTS
  Client = {c1, c2}
  Request <- MCRequest
SPECIFICATION FairSpec
INVARIANT AnswersFromWholeRegistry
PROPERTIES
  ReadRequestsAnswered
  SignalEndsServer
CHECK_DEADLOCK FALSE
