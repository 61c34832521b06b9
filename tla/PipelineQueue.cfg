\* Two history tasks and two slots, with two concurrent requests of every kind that
\* may overtake each other, one failed store write, one crash or shutdown with restart.
SPECIFICATION Spec
CONSTANTS
  h1 = h1
  h2 = h2
  w1 = w1
  w2 = w2
  w3 = w3
  c1 = c1
  c2 = c2
  Tasks = {h1, h2}
  HistoryTasks = {h1, h2}
  Workers = {w1, w2, w3}
  Clients = {c1, c2}
  Ops = {"retry", "delete", "cancel", "pause", "clear"}
  MaxConcurrent = 2
  MaxRequests = 2
  MaxFaults = 1
  MaxRestarts = 1
  NoTask = NoTask
  Free = Free
  Scheduler = Scheduler
SYMMETRY Symmetry
INVARIANTS
  TypeOK
  CloseQuiesces
  RunningRowOwned
  OneExecutor
  PauseMarkOwned
  HistoryOneAtATime
PROPERTIES
  KeepsLifecycle
\* The program may exit, and the bounded requests may be used up.
CHECK_DEADLOCK FALSE
