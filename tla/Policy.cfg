SPECIFICATION PolicySpec
CONSTANTS
  Effects = {e1, e2}
  Scopes = {s1, s2}
  Unlimited = 1
  NotEvaluated = NotEvaluated
SYMMETRY Symmetry
INVARIANTS
  OutcomesMean
PROPERTY TighterNeverGrants
CHECK_DEADLOCK FALSE
