SPECIFICATION Spec
CONSTANTS
  Sources = {s1}
  Workers = {w1, w2}
  MaxFiles = 1
  MaxCrashes = 0
  Faults = TRUE
  FaultsWhenShared = TRUE
  None = None
PROPERTIES
  CommittedNotRolledBack
CHECK_DEADLOCK FALSE
SYMMETRY Symmetry
