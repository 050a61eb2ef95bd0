SPECIFICATION FairSpec
CONSTANTS
  Case = {c1, c2}
  Worker = {w1}
  API = api
  Engineer = {e1}
  Faults <- NoFaults
  FaultBudget = 0
  Count = 2
  MaxLen = 10
CHECK_DEADLOCK FALSE
PROPERTY IncidentsAreInvestigated
