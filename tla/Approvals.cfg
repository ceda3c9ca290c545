SPECIFICATION Spec
CONSTANTS
  Threads = {t1, t2}
  Intents = {i1}
  Approvers = {a1, a2}
  NoDecision = NoDecision
  NoWork = NoWork
  Lifetime = 1
  TimeBound = 1
  FaultBound = 2
SYMMETRY Symmetry
INVARIANTS
  ExecutedOnce
  ExecutionHasEvidence
  RecordedStaysDecided
CHECK_DEADLOCK FALSE
