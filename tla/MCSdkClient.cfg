SPECIFICATION ClientSpec
CONSTANTS
  Requests = {r1, r2}
  Threads = {}
  MaxClients = 2
  MaxBreadcrumbs = 2
  MaxEvents = 1
SYMMETRY Symmetry
INVARIANTS
  RequestsAreIsolated
  HooksAreRestored
  UncaughtIsReportedOnce
CHECK_DEADLOCK FALSE
