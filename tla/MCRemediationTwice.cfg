SPECIFICATION Spec
CONSTANTS
  Session = {s1, s2}
  Rem = {r1, r2}
  Plan <- ScalePlans
  MODE = "APPROVAL_REQUIRED"
  Confidence = 91
  Forced = FALSE
  MaxExecutions = 4
CHECK_DEADLOCK FALSE
INVARIANT AppliedOnce
