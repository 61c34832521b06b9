\* A user stops and starts a listener: its context is the one of the request.
SPECIFICATION Spec
CONSTANTS
  l1 = l1
  l2 = l2
  r1 = r1
  r2 = r2
  r3 = r3
  A = A
  B = B
  Offline = Offline
  None = None
  Listeners = {l1, l2}
  Recorders = {r1}
  Titles = {A, B}
  SplitOnRename = TRUE
  MaxDurationSet = FALSE
  MaxChanges = 0
  MaxRequests = 2
INVARIANT PollsUntilClosed
CHECK_DEADLOCK FALSE
