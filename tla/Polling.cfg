\* Two rooms of one platform with a watcher each, one direct caller.
SPECIFICATION Spec
CONSTANTS
  r1 = r1
  r2 = r2
  w1 = w1
  w2 = w2
  Rooms = {r1, r2}
  Watchers = {w1, w2}
  RoomOf <- OneEach
  Callers = {c1}
  Interval = 2
  Jitter = 1
  Limits = {1, 2}
  Longest = 2
  None = None
  MaxEvents = 2
INVARIANTS
  TypeOK
PROPERTIES
  LimitKept
  AskingEnds
CHECK_DEADLOCK FALSE
