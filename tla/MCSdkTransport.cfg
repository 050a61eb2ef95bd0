SPECIFICATION FairSpec
CONSTANTS
  Thread = {t1, t2}
  Event = {e1, e2, bad}
  Poison = {bad}
  MaxQueue = 1
  BatchSize = 2
  MaxRetries = 1
  NoEvent = NoEvent

INVARIANTS
  PendingBalance
  FlushDrained
  EventsAccountedFor
PROPERTIES QueuedSettles SenderStops
CHECK_DEADLOCK FALSE
