SPECIFICATION FairSpec
CONSTANTS
  t1 = t1
  t2 = t2
  big = big
  near = near
  Tenant = {t1}
  NoTenant = NoTenant
  Object <- SomeObjects
  Decoded <- Nearest
  ErrorBody <- ErrorObject
  Garbage = Garbage
  Null = Null
  Long = Long
  MaxLines = 3
INVARIANTS
  EtlTypeOK
  RelaysInOrder
  NothingSkipped
  FailureEndsStream
PROPERTIES
  LeftStreamEnds
  ServedStreamEnds
CHECK_DEADLOCK FALSE
