SPECIFICATION AgentSpec
CONSTANTS
  c1 = c1
  NoCase = NoCase
  NoKey = NoKey
  Case = {c1}
  Key = {}
  Proc = {p1, p2}
  Call <- AgentCalls
  MaxAttempts <- AgentAttempts
  Worker = {w1}
  BatchLimit = 2
  MaxFailures = 1
  MaxDrops = 1
  RowId = {1, 2}
INVARIANTS
  OnlyCommittedMovesAnnounced
  MovesAnnouncedInOrder
PROPERTIES
  ServesPublisher
  AnsweredMovesAnnounced
CHECK_DEADLOCK FALSE
