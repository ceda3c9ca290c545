SPECIFICATION FairSpec
CONSTANTS
  Ops = {o1}
  Threads = {t1, t2}
  NoThread = NoThread
  NoWork = NoWork
  NoFile = NoFile
  Targets <- MainTargets
  MaxOperations = 1
  MaxEvents = 3
  HistoryBound = 3
  FaultBound = 1
PROPERTIES EveryCallReturns AppendOnly ImplementsLedger
INVARIANTS
  HistorySound
  AckAnswersRequest
  ReplayFaithful
CHECK_DEADLOCK FALSE
