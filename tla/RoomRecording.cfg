\* The recording of one room: the order of events, a rename, a user request, restarts
\* and timers, with three recorder objects.
SPECIFICATION FairSpec
CONSTANTS
  l1 = l1
  l2 = l2
  r1 = r1
  r2 = r2
  r3 = r3
  A = A
  B = B
  Offline = Offline
  None = None
  Listeners = {l1, l2}
  Recorders = {r1, r2, r3}
  Titles = {A, B}
  SplitOnRename = TRUE
  MaxDurationSet = TRUE
  MaxChanges = 1
  MaxRequests = 1
INVARIANTS
  TypeOK RegisteredAlive RunningOwned OneDownloadUnlessOvertaken CloseReaches
PROPERTY
  ClosedEnds
\* The bounded environment may stop, and the program may be idle.
CHECK_DEADLOCK FALSE
