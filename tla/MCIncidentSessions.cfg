SPECIFICATION FairSpec
CONSTANTS
  Session <- MCSessions
  Ops <- MCAllOps
  Alert <- MCAlerts
  FirstAlert = 1
  NoOne = NoOne
INVARIANTS
  
  CountMatchesRefs
PROPERTY SessionsEnd
CHECK_DEADLOCK FALSE
