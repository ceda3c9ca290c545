SPECIFICATION Spec
CONSTANTS
  Ops = {o1}
  Threads = {t1}
  NoThread = NoThread
  NoWork = NoWork
  NoFile = NoFile
  Targets <- FewTargets
  MaxOperations = 1
  MaxEvents = 3
  HistoryBound = 2
  FaultBound = 1
INVARIANT CrashSafeAppend
CHECK_DEADLOCK FALSE
