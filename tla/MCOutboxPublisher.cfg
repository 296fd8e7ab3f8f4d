SPECIFICATION FairPublisherSpec
CONSTANTS
  c1 = c1
  c2 = c2
  Worker = {w1, w2}
  Row <- ThreeRows
  BatchLimit = 2
  MaxFailures = 1
  MaxDrops = 1
INVARIANTS
  PublisherTypeOK
  ExclusiveBatches
  MarkedWasHandedOver
  DuplicatesNeedFailures
PROPERTIES
  EveryRowAnnounced
  ImplementsBus
CHECK_DEADLOCK FALSE
