SPECIFICATION Spec
CONSTANTS
  Keys = {k1}
  MaxJobs = 2
  Requests = {r1}
  Tasks = {t1}
  ConcurrentLimits = {1}
  QueueLimits = {1}
  MaxRecords = 2
  Reclaims = TRUE
  Grace = TRUE
  Faults = TRUE
  None = None
INVARIANTS
  TypeOK
  LeaseKeepsJob
PROPERTIES
  LeaseKeepsDirectory
  CloseReturns
CHECK_DEADLOCK FALSE
