SPECIFICATION Spec
CONSTANTS
  Session = {s1}
  Rem = {r1, r2}
  Plan <- MixedPlans
  MODE = "APPROVAL_REQUIRED"
  Confidence = 91
  Forced = FALSE
  MaxExecutions = 4
CHECK_DEADLOCK FALSE
INVARIANTS AppliedOnce OneOpenRemediation LiveChangesCanBeUndone ReplicasAccountedFor
