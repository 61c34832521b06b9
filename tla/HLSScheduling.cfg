SPECIFICATION Spec
CONSTANTS
  Keys = {k1, k2}
  MaxJobs = 2
  Requests = {}
  Tasks = {t1}
  ConcurrentLimits = {1, 2}
  QueueLimits = {1}
  MaxRecords = 2
  Reclaims = FALSE
  Grace = FALSE
  Faults = FALSE
  None = None
INVARIANTS
  CompletedIsWhole
  WorkingIsRegistered
  NoLostWakeup
PROPERTIES
  SlotsAccounted
  AcceptedJobEnds
CHECK_DEADLOCK FALSE
