SPECIFICATION Spec
CONSTANTS
  a1 = a1
  a2 = a2
  a3 = a3
  o1 = o1
  o2 = o2
  Threads = {t1, t2}
  Attempts = {a1, a2, a3}
  OperationOf <- MCOperationOf
  Providers = {p1}
  NoWork = NoWork
  MaxRecords = 4
  TimeBound = 1
  FaultBound = 1
SYMMETRY Symmetry
INVARIANTS
  RecordsComplete
CHECK_DEADLOCK FALSE
