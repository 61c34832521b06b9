SPECIFICATION Spec
CONSTANTS
  Sources = {s1, s2}
  Workers = {w1, w2}
  MaxFiles = 2
  MaxCrashes = 1
  Faults = TRUE
  FaultsWhenShared = FALSE
  None = None
INVARIANTS
  TypeOK
  NeverLoseBoth
PROPERTIES
  StaysRecoverable
  PublishesAtomically
CHECK_DEADLOCK FALSE
SYMMETRY Symmetry
