SPECIFICATION Spec
CONSTANTS
  t1 = t1
  t2 = t2
  k1 = k1
  i1 = i1
  i2 = i2
  o1 = o1
  o2 = o2
  o3 = o3
  Threads = {t1, t2}
  Keys = {k1}
  Intents = {i1, i2}
  Ops = {o1, o2, o3}
  Requests <- MCRequests
  NoRecord = NoRecord
  NoWork = NoWork
  MaxOperations = 2
  OtherTargets = {"cancelled"}
  VersionBound = 1
  EpochBound = 2
  FaultBound = 1
SYMMETRY ThreadSymmetry
INVARIANTS
  OneOperationPerReservation
  AnswersOwnOperation
  OneWinner
PROPERTY ImplementsLedger
CHECK_DEADLOCK FALSE
