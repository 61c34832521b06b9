\* An ordinary and a history task that compete for one slot, with pauses,
\* cancellations, a failed store write, and a crash or shutdown with restart.
SPECIFICATION FairSpec
CONSTANTS
  n1 = n1
  h1 = h1
  w1 = w1
  w2 = w2
  c1 = c1
  Tasks = {n1, h1}
  HistoryTasks = {h1}
  Workers = {w1, w2}
  Clients = {c1}
  Ops = {"pause", "cancel"}
  MaxConcurrent = 1
  MaxRequests = 2
  MaxFaults = 1
  MaxRestarts = 1
  NoTask = NoTask
  Free = Free
  Scheduler = Scheduler
INVARIANTS
  SlotBound
PROPERTIES
  WaitingTried
  HistoryTried
  CloseReturns
\* The program may exit, and the bounded requests may be used up.
CHECK_DEADLOCK FALSE
