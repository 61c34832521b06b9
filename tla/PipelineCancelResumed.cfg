\* A user cancels an ordinary task whose execution has just ended as paused.
SPECIFICATION Spec
CONSTANTS
  n1 = n1
  w1 = w1
  w2 = w2
  c1 = c1
  Tasks = {n1}
  HistoryTasks = {}
  Workers = {w1, w2}
  Clients = {c1}
  Ops = {"cancel"}
  MaxConcurrent = 1
  MaxRequests = 1
  MaxFaults = 0
  MaxRestarts = 0
  NoTask = NoTask
  Free = Free
  Scheduler = Scheduler
PROPERTIES
  CancelledNotResumed
\* The program may exit, and the bounded requests may be used up.
CHECK_DEADLOCK FALSE
