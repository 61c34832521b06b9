\* A recorder is replaced or removed between the two halves of a restart.
SPECIFICATION Spec
CONSTANTS
  l1 = l1
  l2 = l2
  r1 = r1
  r2 = r2
  r3 = r3
  A = A
  B = B
  Offline = Offline
  None = None
  Listeners = {l1, l2}
  Recorders = {r1, r2, r3}
  Titles = {A, B}
  SplitOnRename = TRUE
  MaxDurationSet = FALSE
  MaxChanges = 1
  MaxRequests = 2
INVARIANT OneDownload
CHECK_DEADLOCK FALSE
