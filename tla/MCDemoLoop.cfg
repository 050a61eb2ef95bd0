SPECIFICATION Spec
CONSTANTS
  Histories <- MCHistories
  Ripple = {83, 118}
  Waits = {9}
  MaxTime = 18
INVARIANTS
  EvaluationPasses
  FreshFixVerifies
  VerifiedServiceIsHealed
  ClearedRulesAreQuiet
  OnlyOwnAlertsFire
CHECK_DEADLOCK FALSE
