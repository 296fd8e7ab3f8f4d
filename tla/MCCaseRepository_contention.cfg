SPECIFICATION Spec
CONSTANTS
  c1 = c1
  c2 = c2
  k1 = k1
  k2 = k2
  NoCase = NoCase
  NoKey = NoKey
  Case = {c1}
  Key = {k1, k2}
  Proc = {p1, p2}
  Call <- ContentionCalls
  MaxAttempts <- ContentionAttempts
SYMMETRY ProcSymmetry
INVARIANTS
  TypeOK
  AtomicRecords
  LegalHistory
  IfMatchHonoured
  AnswersRecorded
CHECK_DEADLOCK FALSE
