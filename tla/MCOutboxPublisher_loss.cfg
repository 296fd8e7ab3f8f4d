SPECIFICATION PublisherSpec
CONSTANTS
  c1 = c1
  c2 = c2
  Worker = {w1}
  Row <- ThreeRows
  BatchLimit = 2
  MaxFailures = 1
  MaxDrops = 0
INVARIANT AtLeastOnce
CHECK_DEADLOCK FALSE
