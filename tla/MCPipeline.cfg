SPECIFICATION BusMayStayDown
CONSTANTS
  Case = {c1}
  Worker = {w1, w2}
  API = api
  Engineer = {e1}
  Faults <- EveryFault
  FaultBudget = 3
  Count = 2
  MaxLen = 10
CHECK_DEADLOCK FALSE
INVARIANTS NothingVanishes OneRunPerIncident
PROPERTY BatchesEnd
