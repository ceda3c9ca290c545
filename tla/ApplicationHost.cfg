SPECIFICATION HostSpec
CONSTANTS
  Callers = {c1, c2, c3}
  Plans = {1, 2, 3, 4}
  NoRecord = NoRecord
  NoApp = NoApp
  Free = Free
  LaunchBound = 4
  FaultBound = 2
SYMMETRY Symmetry
PROPERTY StartingIsTrue
INVARIANTS
  RunningWasReady
  NeverTwoLive
  RecordsAgree
CHECK_DEADLOCK FALSE
