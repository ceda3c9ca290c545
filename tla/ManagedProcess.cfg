SPECIFICATION FairSpec
CONSTANTS
  Callers = {c1, c2, c3}
  Plans = {plan1}
  NoRecord = NoRecord
  Free = Free
  LaunchBound = 5
  FaultBound = 2
INVARIANTS
  OneKnownProcess
PROPERTIES
  LiveStaysRecorded
  EveryCallReturns
  StartupResolves
CHECK_DEADLOCK FALSE
