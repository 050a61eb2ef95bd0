SPECIFICATION Spec
CONSTANTS
  Service <- MCService
  Fingerprint <- MCFingerprint
  ServiceOf <- MCServiceOf
  Neighbours <- MCNeighbours
  CorrelationWindow = 1
  MaxTime = 2
  MaxAlerts = 3
INVARIANTS
  OneOpenIncidentPerFingerprint
  LinksAgree
  ResolvedIsQuiet
  OneIncidentPerOutage
PROPERTY ImplementsFsm
CHECK_DEADLOCK FALSE
